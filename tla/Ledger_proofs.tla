--------------------------- MODULE Ledger_proofs ----------------------------
(***************************************************************************)
(* What sourcing makes of a sequence of items: an aggregate again, and the *)
(* same one in whatever batches the items come; and what parsing makes of  *)
(* it.  SourceOnto and EventsIn are recursive functions; what they are for *)
(* every sequence is shown by looking at a least number for which they     *)
(* would be something else.                                                *)
(***************************************************************************)
EXTENDS Ledger, SequenceTheorems, WellFoundedInduction, TLAPS

LEMMA Least ==
    ASSUME NEW T \in SUBSET Nat, T # {}
    PROVE  \E n \in T : \A m \in T : n <= m
<1>1. \E n \in T : \A m \in T : ~(<<m, n>> \in OpToRel(<, Nat))
  BY NatLessThanWellFounded, WFMin, Zenon
<1>2. \E n \in T : \A m \in T : ~(m < n)
  BY <1>1 DEF OpToRel
<1>3. QED
  BY <1>2

(* Induction up to a bound, on a set instead of a predicate.               *)
LEMMA Induction ==
    ASSUME NEW L \in Nat, NEW T \in SUBSET Nat, 0 \in T,
           \A n \in 0 .. L - 1 : n \in T => n + 1 \in T
    PROVE  0 .. L \subseteq T
<1>1. SUFFICES ASSUME (0 .. L) \ T # {} PROVE FALSE
  OBVIOUS
<1>2. (0 .. L) \ T \in SUBSET Nat
  OBVIOUS
<1>3. PICK n \in (0 .. L) \ T : \A m \in (0 .. L) \ T : n <= m
  BY <1>1, <1>2, Least
<1>4. n # 0 /\ n - 1 \in 0 .. L - 1 /\ n - 1 \notin (0 .. L) \ T
  BY <1>3
<1>5. QED
  BY <1>3, <1>4

LEMMA InductionTo ==
    ASSUME NEW L \in Nat, NEW T \in SUBSET Nat, 0 \in T,
           \A n \in 0 .. L - 1 : n \in T => n + 1 \in T
    PROVE  L \in T
<1>1. 0 .. L \subseteq T
  BY Induction
<1>2. QED
  BY <1>1

(* The function that SourceOnto computes: what is there after each of the  *)
(* items.                                                                  *)
Sources(f, aggregate, items, a) ==
    /\ f[0] = aggregate
    /\ \A k \in 1 .. Len(items) : f[k] = Applied(f[k - 1], items[k], a)

Recursion(f, aggregate, items, a) ==
    f = [n \in 0 .. Len(items) |->
            IF n = 0 THEN aggregate ELSE Applied(f[n - 1], items[n], a)]

LEMMA AppliedType ==
    ASSUME NEW aggregate \in Seq(Item), NEW item \in Item, NEW a
    PROVE  Applied(aggregate, item, a) \in Seq(Item)
BY DEF Applied

LEMMA RecursionExists ==
    ASSUME NEW aggregate \in Seq(Item), NEW items \in Seq(Item), NEW a
    PROVE  \E f : Recursion(f, aggregate, items, a)
<1> DEFINE L == Len(items)
           Upto(f, m) == /\ f \in [0 .. m -> Seq(Item)] /\ f[0] = aggregate
                         /\ \A k \in 1 .. m : f[k] = Applied(f[k - 1], items[k], a)
           T == {m \in 0 .. L : \E f : Upto(f, m)}
<1>1. L \in Nat /\ T \in SUBSET Nat
  OBVIOUS
<1>2. 0 \in T
  <2>1. PICK f : f = [k \in 0 .. 0 |-> aggregate]
    OBVIOUS
  <2>2. f \in [0 .. 0 -> Seq(Item)] /\ f[0] = aggregate
    BY <2>1
  <2>3. Upto(f, 0)
    BY <2>2
  <2>4. 0 \in 0 .. L
    BY <1>1
  <2>5. QED
    BY <2>3, <2>4
<1>3. ASSUME NEW n \in 0 .. L - 1, n \in T
      PROVE  n + 1 \in T
  <2>1. PICK f : Upto(f, n)
    BY <1>3
  <2>2. items[n + 1] \in Item /\ n \in Nat /\ n + 1 \in 0 .. L
    BY <1>1
  <2>3. PICK e : e = Applied(f[n], items[n + 1], a)
    OBVIOUS
  <2>4. e \in Seq(Item)
    BY <2>1, <2>2, <2>3, AppliedType
  <2>5. PICK g : g = [k \in 0 .. n + 1 |-> IF k = n + 1 THEN e ELSE f[k]]
    OBVIOUS
  <2>6. g \in [0 .. n + 1 -> Seq(Item)] /\ g[0] = aggregate
    BY <2>1, <2>2, <2>4, <2>5
  <2>7. ASSUME NEW k \in 1 .. n + 1
        PROVE  g[k] = Applied(g[k - 1], items[k], a)
    <3>1. CASE k = n + 1
      <4>1. g[k] = e /\ g[k - 1] = f[n]
        BY <2>2, <2>5, <3>1
      <4>2. QED
        BY <2>3, <3>1, <4>1
    <3>2. CASE k \in 1 .. n
      <4>1. g[k] = f[k] /\ g[k - 1] = f[k - 1]
        BY <2>2, <2>5, <3>2
      <4>2. QED
        BY <2>1, <3>2, <4>1
    <3>3. QED
      BY <2>2, <3>1, <3>2
  <2>8. Upto(g, n + 1)
    BY <2>6, <2>7
  <2>9. QED
    BY <2>2, <2>8
<1>4. L \in T
  <2> HIDE DEF T, L
  <2>1. QED
    BY <1>1, <1>2, <1>3, InductionTo
<1>5. PICK f : Upto(f, L)
  BY <1>4
<1>6. f = [n \in 0 .. L |-> IF n = 0 THEN aggregate ELSE Applied(f[n - 1], items[n], a)]
  <2>1. DOMAIN f = 0 .. L /\ f = [n \in 0 .. L |-> f[n]]
    BY <1>5
  <2>2. \A n \in 0 .. L : f[n] = IF n = 0 THEN aggregate ELSE Applied(f[n - 1], items[n], a)
    <3> SUFFICES ASSUME NEW n \in 0 .. L
                 PROVE  f[n] = IF n = 0 THEN aggregate ELSE Applied(f[n - 1], items[n], a)
      OBVIOUS
    <3>1. CASE n = 0
      BY <1>5, <3>1
    <3>2. CASE n \in 1 .. L
      BY <1>5, <3>2
    <3>3. QED
      BY <1>1, <3>1, <3>2
  <2>3. QED
    BY <2>1, <2>2
<1>7. QED
  BY <1>6 DEF Recursion

LEMMA SourcesIsIt ==
    ASSUME NEW aggregate \in Seq(Item), NEW items \in Seq(Item), NEW a
    PROVE  \E f : /\ Sources(f, aggregate, items, a)
                  /\ SourceOnto(aggregate, items, a) = f[Len(items)]
<1>1. PICK f : f = CHOOSE g : Recursion(g, aggregate, items, a)
  OBVIOUS
<1>2. Recursion(f, aggregate, items, a)
  BY <1>1, RecursionExists, Zenon
<1>3. SourceOnto(aggregate, items, a) = f[Len(items)]
  BY <1>1 DEF SourceOnto, Recursion
<1>4. Len(items) \in Nat
  OBVIOUS
<1>5. Sources(f, aggregate, items, a)
  BY <1>2, <1>4 DEF Recursion, Sources
<1>6. QED
  BY <1>3, <1>5

(* An aggregate remains a sequence of items.                               *)
LEMMA SourceOntoType ==
    ASSUME NEW aggregate \in Seq(Item), NEW items \in Seq(Item), NEW a
    PROVE  SourceOnto(aggregate, items, a) \in Seq(Item)
<1>1. PICK f : /\ Sources(f, aggregate, items, a)
               /\ SourceOnto(aggregate, items, a) = f[Len(items)]
  BY SourcesIsIt
<1>2. PICK L : L = Len(items)
  OBVIOUS
<1>3. L \in Nat
  BY <1>2
<1>4. PICK T : T = {n \in 0 .. L : f[n] \in Seq(Item)}
  OBVIOUS
<1>5. ASSUME NEW n \in 0 .. L - 1, n \in T
      PROVE  n + 1 \in T
  <2>1. n + 1 \in 1 .. L /\ (n + 1) - 1 = n /\ items[n + 1] \in Item
    BY <1>2, <1>3
  <2>2. f[n + 1] = Applied(f[n], items[n + 1], a)
    BY <1>1, <1>2, <2>1 DEF Sources
  <2>3. QED
    BY <1>4, <1>5, <2>1, <2>2, AppliedType
<1>6. 0 \in T /\ T \in SUBSET Nat
  BY <1>1, <1>3, <1>4 DEF Sources
<1>7. L \in T
  BY <1>3, <1>5, <1>6, InductionTo
<1>8. QED
  BY <1>1, <1>2, <1>4, <1>7

LEMMA SourceOntoNothing ==
    ASSUME NEW aggregate \in Seq(Item), NEW a
    PROVE  SourceOnto(aggregate, <<>>, a) = aggregate
<1>1. <<>> \in Seq(Item) /\ Len(<<>>) = 0
  OBVIOUS
<1>2. PICK f : /\ Sources(f, aggregate, <<>>, a)
               /\ SourceOnto(aggregate, <<>>, a) = f[Len(<<>>)]
  BY <1>1, SourcesIsIt
<1>3. QED
  BY <1>1, <1>2 DEF Sources

(* To source items on top of what others left is to source them all: the   *)
(* cache may read a stream in any number of batches and refreshes.         *)
THEOREM SourcingInBatches ==
    ASSUME NEW aggregate \in Seq(Item), NEW items \in Seq(Item), NEW more \in Seq(Item), NEW a
    PROVE  SourceOnto(aggregate, items \o more, a)
               = SourceOnto(SourceOnto(aggregate, items, a), more, a)
<1>1. PICK all, m, n : all = items \o more /\ m = Len(items) /\ n = Len(more)
  OBVIOUS
<1>2. /\ all \in Seq(Item) /\ m \in Nat /\ n \in Nat /\ Len(all) = m + n
      /\ \A k \in 1 .. m : all[k] = items[k]
      /\ \A k \in 1 .. n : all[m + k] = more[k]
  BY <1>1
<1>3. PICK f : Sources(f, aggregate, items, a) /\ SourceOnto(aggregate, items, a) = f[m]
  <2>1. PICK f : Sources(f, aggregate, items, a) /\ SourceOnto(aggregate, items, a) = f[Len(items)]
    BY SourcesIsIt
  <2>2. QED
    BY <1>1, <2>1
<1>4. PICK g : Sources(g, f[m], more, a) /\ SourceOnto(f[m], more, a) = g[n]
  <2>1. f[m] \in Seq(Item)
    BY <1>3, SourceOntoType
  <2>2. PICK g : Sources(g, f[m], more, a) /\ SourceOnto(f[m], more, a) = g[Len(more)]
    BY <2>1, SourcesIsIt
  <2>3. QED
    BY <1>1, <2>2
<1>5. PICK h : Sources(h, aggregate, all, a) /\ SourceOnto(aggregate, all, a) = h[m + n]
  <2>1. PICK h : Sources(h, aggregate, all, a) /\ SourceOnto(aggregate, all, a) = h[Len(all)]
    BY <1>2, SourcesIsIt
  <2>2. QED
    BY <1>2, <2>1
<1>6. h[m] = f[m]
  <2>1. PICK T : T = {k \in 0 .. m : h[k] = f[k]}
    OBVIOUS
  <2>2. ASSUME NEW k \in 0 .. m - 1, k \in T
        PROVE  k + 1 \in T
    <3>1. k + 1 \in 1 .. m /\ k + 1 \in 1 .. m + n /\ (k + 1) - 1 = k
      BY <1>2
    <3>2. h[k + 1] = Applied(h[k], all[k + 1], a) /\ f[k + 1] = Applied(f[k], items[k + 1], a)
      BY <1>1, <1>2, <1>3, <1>5, <3>1 DEF Sources
    <3>3. all[k + 1] = items[k + 1] /\ h[k] = f[k]
      BY <1>2, <2>1, <2>2, <3>1
    <3>4. QED
      BY <1>2, <2>1, <3>1, <3>2, <3>3
  <2>3. 0 \in T /\ T \in SUBSET Nat
    BY <1>2, <1>3, <1>5, <2>1 DEF Sources
  <2>4. m \in T
    BY <1>2, <2>2, <2>3, InductionTo
  <2>5. QED
    BY <2>1, <2>4
<1>7. h[m + n] = g[n]
  <2>1. PICK T : T = {k \in 0 .. n : h[m + k] = g[k]}
    OBVIOUS
  <2>2. ASSUME NEW k \in 0 .. n - 1, k \in T
        PROVE  k + 1 \in T
    <3>1. /\ k + 1 \in 1 .. n /\ m + (k + 1) \in 1 .. m + n
          /\ (m + (k + 1)) - 1 = m + k /\ (k + 1) - 1 = k
      BY <1>2
    <3>2. /\ h[m + (k + 1)] = Applied(h[m + k], all[m + (k + 1)], a)
          /\ g[k + 1] = Applied(g[k], more[k + 1], a)
      BY <1>1, <1>2, <1>4, <1>5, <3>1 DEF Sources
    <3>3. all[m + (k + 1)] = more[k + 1] /\ h[m + k] = g[k]
      BY <1>2, <2>1, <2>2, <3>1
    <3>4. QED
      BY <1>2, <2>1, <3>1, <3>2, <3>3
  <2>3. 0 \in T /\ T \in SUBSET Nat
    BY <1>2, <1>4, <1>6, <2>1 DEF Sources
  <2>4. n \in T
    BY <1>2, <2>2, <2>3, InductionTo
  <2>5. QED
    BY <2>1, <2>4
<1>8. QED
  BY <1>1, <1>3, <1>4, <1>5, <1>7

(* A creation replaces whatever was there: what an aggregate is depends on *)
(* its last creation and what came after it, and not on what a cache held  *)
(* before.                                                                 *)
THEOREM CreationReplaces ==
    ASSUME NEW aggregate \in Seq(Item), NEW before \in Seq(Item), NEW after \in Seq(Item),
           NEW c \in Item, c.creates
    PROVE  SourceOnto(aggregate, (before \o <<c>>) \o after, c.agg)
               = SourceOnto(<<c>>, after, c.agg)
<1>1. PICK a, start, one, there : /\ a = c.agg /\ start = before \o <<c>> /\ one = <<c>>
                                  /\ there = SourceOnto(aggregate, before, a)
  OBVIOUS
<1>2. one \in Seq(Item) /\ Len(one) = 1 /\ one[1] = c /\ start \in Seq(Item) /\ start = before \o one
  BY <1>1
<1>3. there \in Seq(Item)
  BY <1>1, SourceOntoType
<1>4. SourceOnto(there, one, a) = one
  <2>1. PICK f : Sources(f, there, one, a) /\ SourceOnto(there, one, a) = f[Len(one)]
    BY <1>2, <1>3, SourcesIsIt
  <2>2. f[1] = Applied(f[0], one[1], a)
    BY <1>2, <2>1 DEF Sources
  <2>3. f[1] = <<c>>
    BY <1>1, <1>2, <2>2 DEF Applied
  <2>4. QED
    BY <1>1, <1>2, <2>1, <2>3
<1>5. SourceOnto(aggregate, start, a) = one
  <2>1. \A b : SourceOnto(aggregate, before \o one, b)
                    = SourceOnto(SourceOnto(aggregate, before, b), one, b)
    BY <1>2, SourcingInBatches
  <2>2. QED
    BY <1>1, <1>2, <1>4, <2>1
<1>6. SourceOnto(aggregate, start \o after, a) = SourceOnto(one, after, a)
  <2>1. \A b : SourceOnto(aggregate, start \o after, b)
                    = SourceOnto(SourceOnto(aggregate, start, b), after, b)
    BY <1>2, SourcingInBatches
  <2>2. QED
    BY <1>5, <2>1
<1>7. QED
  BY <1>1, <1>6

(* Without a creation there is nothing: events about an aggregate that was *)
(* never created leave no trace of it.                                     *)
THEOREM NothingWithoutCreation ==
    ASSUME NEW items \in Seq(Item), NEW a,
           \A k \in 1 .. Len(items) : ~(items[k].agg = a /\ items[k].creates)
    PROVE  Sourced(items, a) = <<>>
<1>1. PICK f : Sources(f, <<>>, items, a) /\ SourceOnto(<<>>, items, a) = f[Len(items)]
  <2>1. <<>> \in Seq(Item)
    OBVIOUS
  <2>2. QED
    BY <2>1, SourcesIsIt
<1>2. PICK L : L = Len(items)
  OBVIOUS
<1>3. L \in Nat
  BY <1>2
<1>4. PICK T : T = {n \in 0 .. L : f[n] = <<>>}
  OBVIOUS
<1>5. ASSUME NEW n \in 0 .. L - 1, n \in T
      PROVE  n + 1 \in T
  <2>1. n + 1 \in 1 .. L /\ (n + 1) - 1 = n
    BY <1>3
  <2>2. f[n + 1] = Applied(f[n], items[n + 1], a) /\ f[n] = <<>>
    BY <1>1, <1>2, <1>4, <1>5, <2>1 DEF Sources
  <2>3. ~(items[n + 1].agg = a /\ items[n + 1].creates)
    BY <1>2, <2>1
  <2>4. f[n + 1] = <<>>
    BY <2>2, <2>3 DEF Applied
  <2>5. QED
    BY <1>4, <2>1, <2>4
<1>6. 0 \in T /\ T \in SUBSET Nat
  BY <1>1, <1>3, <1>4 DEF Sources
<1>7. L \in T
  BY <1>3, <1>5, <1>6, InductionTo
<1>8. QED
  BY <1>1, <1>2, <1>4, <1>7 DEF Sourced

-----------------------------------------------------------------------------
(* Parsing: EventsIn is a recursive function as well.                      *)

(* The items that hold a business event.                                   *)
Events == {item \in Item : item.content = "event"}

Parses(f, items) ==
    /\ f[0] = <<>>
    /\ \A k \in 1 .. Len(items) : f[k] = Parsed(f[k - 1], items[k])

ParsesUpto(f, items, m) ==
    /\ f \in [0 .. m -> Seq(Item)] /\ f[0] = <<>>
    /\ \A k \in 1 .. m : f[k] = Parsed(f[k - 1], items[k])

ParsingRecursion(f, items) ==
    f = [n \in 0 .. Len(items) |-> IF n = 0 THEN <<>> ELSE Parsed(f[n - 1], items[n])]

LEMMA ParsedType ==
    ASSUME NEW events \in Seq(Item), NEW item \in Item
    PROVE  Parsed(events, item) \in Seq(Item)
BY DEF Parsed

LEMMA ParsingExists ==
    ASSUME NEW items \in Seq(Item)
    PROVE  \E f : ParsingRecursion(f, items)
<1>1. PICK L : L = Len(items)
  OBVIOUS
<1>2. PICK T : T = {m \in 0 .. L : \E f : ParsesUpto(f, items, m)}
  OBVIOUS
<1>3. L \in Nat /\ T \in SUBSET Nat
  BY <1>1, <1>2
<1>4. 0 \in T
  <2>1. PICK f : f = [k \in 0 .. 0 |-> <<>>]
    OBVIOUS
  <2>2. ParsesUpto(f, items, 0)
    BY <2>1 DEF ParsesUpto
  <2>3. QED
    BY <1>2, <1>3, <2>2
<1>5. ASSUME NEW n \in 0 .. L - 1, n \in T
      PROVE  n + 1 \in T
  <2>1. PICK f : ParsesUpto(f, items, n)
    BY <1>2, <1>5
  <2>2. items[n + 1] \in Item /\ n \in Nat /\ n + 1 \in 0 .. L
    BY <1>1, <1>3
  <2>3. PICK e : e = Parsed(f[n], items[n + 1])
    OBVIOUS
  <2>4. e \in Seq(Item)
    BY <2>1, <2>2, <2>3, ParsedType DEF ParsesUpto
  <2>5. PICK g : g = [k \in 0 .. n + 1 |-> IF k = n + 1 THEN e ELSE f[k]]
    OBVIOUS
  <2>6. g \in [0 .. n + 1 -> Seq(Item)] /\ g[0] = <<>>
    BY <2>1, <2>2, <2>4, <2>5 DEF ParsesUpto
  <2>7. ASSUME NEW k \in 1 .. n + 1
        PROVE  g[k] = Parsed(g[k - 1], items[k])
    <3>1. CASE k = n + 1
      <4>1. g[k] = e /\ g[k - 1] = f[n]
        BY <2>2, <2>5, <3>1
      <4>2. QED
        BY <2>3, <3>1, <4>1
    <3>2. CASE k \in 1 .. n
      <4>1. g[k] = f[k] /\ g[k - 1] = f[k - 1]
        BY <2>2, <2>5, <3>2
      <4>2. QED
        BY <2>1, <3>2, <4>1 DEF ParsesUpto
    <3>3. QED
      BY <2>2, <3>1, <3>2
  <2>8. ParsesUpto(g, items, n + 1)
    BY <2>6, <2>7 DEF ParsesUpto
  <2>9. QED
    BY <1>2, <2>2, <2>8
<1>6. L \in T
  BY <1>3, <1>4, <1>5, InductionTo
<1>7. PICK f : ParsesUpto(f, items, L)
  BY <1>2, <1>6
<1>8. DOMAIN f = 0 .. L /\ f = [n \in 0 .. L |-> f[n]]
  BY <1>7 DEF ParsesUpto
<1>9. ASSUME NEW n \in 0 .. L
      PROVE  f[n] = IF n = 0 THEN <<>> ELSE Parsed(f[n - 1], items[n])
  <2>1. CASE n = 0
    BY <1>7, <2>1 DEF ParsesUpto
  <2>2. CASE n \in 1 .. L
    BY <1>7, <2>2 DEF ParsesUpto
  <2>3. QED
    BY <1>3, <2>1, <2>2
<1>10. QED
  BY <1>1, <1>8, <1>9 DEF ParsingRecursion

LEMMA ParsesIsIt ==
    ASSUME NEW items \in Seq(Item)
    PROVE  \E f : Parses(f, items) /\ EventsIn(items) = f[Len(items)]
<1>1. PICK f : f = CHOOSE g : ParsingRecursion(g, items)
  OBVIOUS
<1>2. ParsingRecursion(f, items)
  BY <1>1, ParsingExists, Zenon
<1>3. EventsIn(items) = f[Len(items)]
  BY <1>1 DEF EventsIn, ParsingRecursion
<1>4. Len(items) \in Nat
  OBVIOUS
<1>5. Parses(f, items)
  BY <1>2, <1>4 DEF ParsingRecursion, Parses
<1>6. QED
  BY <1>3, <1>5

(* What is parsed are events, and no more of them than there are items.    *)
LEMMA EventsInType ==
    ASSUME NEW items \in Seq(Item)
    PROVE  EventsIn(items) \in Seq(Item) /\ Len(EventsIn(items)) <= Len(items)
<1>1. PICK f : Parses(f, items) /\ EventsIn(items) = f[Len(items)]
  BY ParsesIsIt
<1>2. PICK L : L = Len(items)
  OBVIOUS
<1>3. L \in Nat
  BY <1>2
<1>4. PICK T : T = {n \in 0 .. L : f[n] \in Seq(Item) /\ Len(f[n]) <= n}
  OBVIOUS
<1>5. ASSUME NEW n \in 0 .. L - 1, n \in T
      PROVE  n + 1 \in T
  <2>1. n + 1 \in 1 .. L /\ (n + 1) - 1 = n /\ items[n + 1] \in Item
    BY <1>2, <1>3
  <2>2. f[n + 1] = Parsed(f[n], items[n + 1])
    BY <1>1, <1>2, <2>1 DEF Parses
  <2>3. f[n] \in Seq(Item) /\ Len(f[n]) <= n /\ Len(f[n]) \in Nat
    BY <1>4, <1>5
  <2>4. Len(f[n + 1]) <= n + 1 /\ f[n + 1] \in Seq(Item)
    <3>1. CASE items[n + 1].content = "event"
      BY <2>1, <2>2, <2>3, <3>1 DEF Parsed
    <3>2. CASE items[n + 1].content # "event"
      BY <2>1, <2>2, <2>3, <3>2 DEF Parsed
    <3>3. QED
      BY <3>1, <3>2
  <2>5. QED
    BY <1>4, <2>1, <2>4
<1>6. 0 \in T /\ T \in SUBSET Nat
  <2>1. f[0] = <<>>
    BY <1>1 DEF Parses
  <2>2. f[0] \in Seq(Item) /\ Len(f[0]) = 0
    BY <2>1
  <2>3. QED
    BY <1>3, <1>4, <2>2
<1>7. L \in T
  BY <1>3, <1>5, <1>6, InductionTo
<1>8. QED
  BY <1>1, <1>2, <1>4, <1>7

LEMMA EventsInNothing == EventsIn(<<>>) = <<>>
<1>1. <<>> \in Seq(Item) /\ Len(<<>>) = 0
  OBVIOUS
<1>2. PICK f : Parses(f, <<>>) /\ EventsIn(<<>>) = f[Len(<<>>)]
  BY <1>1, ParsesIsIt
<1>3. QED
  BY <1>1, <1>2 DEF Parses

(* If everything holds an event, nothing is lost.                          *)
LEMMA EventsInEvents ==
    ASSUME NEW items \in Seq(Events)
    PROVE  EventsIn(items) = items
<1>1. items \in Seq(Item)
  BY DEF Events
<1>2. PICK f : Parses(f, items) /\ EventsIn(items) = f[Len(items)]
  BY <1>1, ParsesIsIt
<1>3. PICK L : L = Len(items)
  OBVIOUS
<1>4. L \in Nat
  BY <1>3
<1>5. PICK T : T = {n \in 0 .. L : /\ f[n] \in Seq(Item) /\ Len(f[n]) = n
                                  /\ \A k \in 1 .. n : f[n][k] = items[k]}
  OBVIOUS
<1>6. ASSUME NEW n \in 0 .. L - 1, n \in T
      PROVE  n + 1 \in T
  <2>1. n + 1 \in 1 .. L /\ (n + 1) - 1 = n /\ items[n + 1] \in Events
    BY <1>3, <1>4
  <2>2. f[n + 1] = Append(f[n], items[n + 1]) /\ items[n + 1] \in Item
    BY <1>2, <1>3, <2>1 DEF Parses, Parsed, Events
  <2>3. PICK xs : xs = f[n]
    OBVIOUS
  <2>4. xs \in Seq(Item) /\ Len(xs) = n /\ \A k \in 1 .. n : xs[k] = items[k]
    BY <1>5, <1>6, <2>3
  <2>5. PICK ys : ys = Append(xs, items[n + 1])
    OBVIOUS
  <2>6. /\ ys \in Seq(Item) /\ Len(ys) = n + 1 /\ ys[n + 1] = items[n + 1]
        /\ \A k \in 1 .. n : ys[k] = xs[k]
    BY <2>2, <2>4, <2>5, AppendProperties
  <2>7. \A k \in 1 .. n + 1 : ys[k] = items[k]
    BY <2>1, <2>4, <2>6
  <2>8. f[n + 1] = ys
    BY <2>2, <2>3, <2>5
  <2>9. QED
    BY <1>5, <2>1, <2>6, <2>7, <2>8
<1>7. 0 \in T /\ T \in SUBSET Nat
  <2>1. f[0] = <<>>
    BY <1>2 DEF Parses
  <2>2. f[0] \in Seq(Item) /\ Len(f[0]) = 0
    BY <2>1
  <2>3. QED
    BY <1>4, <1>5, <2>2
<1>8. L \in T
  BY <1>4, <1>6, <1>7, InductionTo
<1>9. PICK xs : xs = f[L]
  OBVIOUS
<1>10. xs \in Seq(Item) /\ Len(xs) = Len(items) /\ \A k \in 1 .. Len(xs) : xs[k] = items[k]
  BY <1>3, <1>5, <1>8, <1>9
<1>11. xs = items
  BY <1>1, <1>10, SeqEqual
<1>12. QED
  BY <1>2, <1>3, <1>9, <1>11

(* Items may be parsed in any number of batches.                           *)
LEMMA ParsingInBatches ==
    ASSUME NEW items \in Seq(Item), NEW more \in Seq(Item)
    PROVE  EventsIn(items \o more) = EventsIn(items) \o EventsIn(more)
<1>1. PICK all, m, n : all = items \o more /\ m = Len(items) /\ n = Len(more)
  OBVIOUS
<1>2. /\ all \in Seq(Item) /\ m \in Nat /\ n \in Nat /\ Len(all) = m + n
      /\ \A k \in 1 .. m : all[k] = items[k]
      /\ \A k \in 1 .. n : all[m + k] = more[k]
  BY <1>1
<1>3. PICK f : Parses(f, items) /\ EventsIn(items) = f[Len(items)]
  BY ParsesIsIt
<1>4. PICK g : Parses(g, more) /\ EventsIn(more) = g[Len(more)]
  BY ParsesIsIt
<1>5. PICK h : Parses(h, all) /\ EventsIn(all) = h[Len(all)]
  BY <1>2, ParsesIsIt
<1>6. PICK first : first = EventsIn(items)
  OBVIOUS
<1>7. first \in Seq(Item) /\ first = f[m]
  BY <1>1, <1>3, <1>6, EventsInType
<1>8. h[m] = f[m]
  <2>1. PICK T : T = {k \in 0 .. m : h[k] = f[k]}
    OBVIOUS
  <2>2. ASSUME NEW k \in 0 .. m - 1, k \in T
        PROVE  k + 1 \in T
    <3>1. k + 1 \in 1 .. m /\ k + 1 \in 1 .. m + n /\ (k + 1) - 1 = k
      BY <1>2
    <3>2. h[k + 1] = Parsed(h[k], all[k + 1]) /\ f[k + 1] = Parsed(f[k], items[k + 1])
      BY <1>1, <1>2, <1>3, <1>5, <3>1 DEF Parses
    <3>3. all[k + 1] = items[k + 1] /\ h[k] = f[k]
      BY <1>2, <2>1, <2>2, <3>1
    <3>4. QED
      BY <1>2, <2>1, <3>1, <3>2, <3>3
  <2>3. 0 \in T /\ T \in SUBSET Nat
    BY <1>2, <1>3, <1>5, <2>1 DEF Parses
  <2>4. m \in T
    BY <1>2, <2>2, <2>3, InductionTo
  <2>5. QED
    BY <2>1, <2>4
<1>9. h[m + n] = first \o g[n]
  <2>1. PICK T : T = {k \in 0 .. n : g[k] \in Seq(Item) /\ h[m + k] = first \o g[k]}
    OBVIOUS
  <2>2. ASSUME NEW k \in 0 .. n - 1, k \in T
        PROVE  k + 1 \in T
    <3>1. /\ k + 1 \in 1 .. n /\ m + (k + 1) \in 1 .. m + n
          /\ (m + (k + 1)) - 1 = m + k /\ (k + 1) - 1 = k
      BY <1>2
    <3>2. /\ h[m + (k + 1)] = Parsed(h[m + k], all[m + (k + 1)])
          /\ g[k + 1] = Parsed(g[k], more[k + 1])
      BY <1>1, <1>2, <1>4, <1>5, <3>1 DEF Parses
    <3>3. PICK x, ys : x = more[k + 1] /\ ys = g[k]
      OBVIOUS
    <3>4. x \in Item /\ all[m + (k + 1)] = x /\ ys \in Seq(Item) /\ h[m + k] = first \o ys
      BY <1>1, <1>2, <2>1, <2>2, <3>1, <3>3
    <3>5. first \o Append(ys, x) = Append(first \o ys, x)
      <4>1. PICK one, both : one = <<x>> /\ both = first \o ys
        OBVIOUS
      <4>2. one \in Seq(Item) /\ both \in Seq(Item)
        BY <1>7, <3>4, <4>1
      <4>3. Append(ys, x) = ys \o one /\ Append(both, x) = both \o one
        BY <3>4, <4>1, <4>2, AppendIsConcat
      <4>4. (first \o ys) \o one = first \o (ys \o one)
        <5>1. \A u, v, w \in Seq(Item) : (u \o v) \o w = u \o (v \o w)
          BY ConcatAssociative
        <5>2. QED
          BY <1>7, <3>4, <4>2, <5>1, Zenon
      <4>5. QED
        BY <4>1, <4>3, <4>4
    <3>6. Append(ys, x) \in Seq(Item)
      BY <3>4
    <3>7. g[k + 1] \in Seq(Item) /\ h[m + (k + 1)] = first \o g[k + 1]
      <4>1. CASE x.content = "event"
        BY <3>2, <3>3, <3>4, <3>5, <3>6, <4>1 DEF Parsed
      <4>2. CASE x.content # "event"
        BY <3>2, <3>3, <3>4, <4>2 DEF Parsed
      <4>3. QED
        BY <4>1, <4>2
    <3>8. QED
      BY <1>2, <2>1, <3>1, <3>7
  <2>3. 0 \in T /\ T \in SUBSET Nat
    <3>1. first \o <<>> = first
      BY <1>7
    <3>2. g[0] = <<>>
      BY <1>4 DEF Parses
    <3>3. g[0] \in Seq(Item) /\ h[m + 0] = first \o g[0]
      BY <1>2, <1>7, <1>8, <3>1, <3>2
    <3>4. QED
      BY <1>2, <2>1, <3>3
  <2>4. n \in T
    BY <1>2, <2>2, <2>3, InductionTo
  <2>5. QED
    BY <2>1, <2>4
<1>10. QED
  BY <1>1, <1>2, <1>4, <1>5, <1>6, <1>9

=============================================================================
