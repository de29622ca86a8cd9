------------------------ MODULE Provisioning_proofs -------------------------
(***************************************************************************)
(* Proofs about Provisioning, for every tree of templates and every bound: *)
(* its invariants, from one inductive invariant.  It says how far the      *)
(* process has come when it is about to make a call (At), and what a call  *)
(* that was left open may rely on when it is executed late (Justified).    *)
(***************************************************************************)
EXTENDS Provisioning, FiniteSetTheorems, WellFoundedInduction, TLAPS

-----------------------------------------------------------------------------
(* The inductive invariant.                                                *)

(* y comes before x in the same template.                                  *)
Before(y, x) ==
    \E q \in Templates : \E j, k \in DOMAIN ChildrenOf[q] :
        j < k /\ ChildrenOf[q][j] = y /\ ChildrenOf[q][k] = x

(* Resources lie under those of the template that theirs is a part of, and *)
(* workflowitems have been made in their order.                            *)
Under(x, i) ==
    \/ x \in Range(Projects) /\ i = 0
    \/ i \in DOMAIN chain /\ x \in Range(ChildrenOf[chain[i].of])

Preceded(x, i, n) == \A y \in Workflowitems : Before(y, x) => \E j \in Instances(y, i) : j < n

ResourceInv(i) ==
    /\ chain[i].parent < i /\ Under(chain[i].of, chain[i].parent)
    /\ chain[i].of \in Workflowitems => Preceded(chain[i].of, chain[i].parent, i)
ChainInv == \A i \in DOMAIN chain : ResourceInv(i)

(* What an earlier run, or an earlier part of this one, has completed.     *)
SectionDone(k) ==
    /\ Sections[k] = "users" => {"createUser", "grantAll"} \subseteq system \/ "users" \in abandoned
    /\ Sections[k] \in Range(Projects) \ abandoned =>
          \E i \in DOMAIN chain : chain[i].of = Sections[k] /\ IsWhole(i)

(* A call is justified, now and for ever after.                            *)
Justified(r) ==
    /\ r.op = "create" =>
          /\ Under(r.of, r.to)
          /\ r.of \in Workflowitems => Preceded(r.of, r.to, Len(chain) + 1)
    /\ r.op \in Marks => r.to \in DOMAIN chain /\ chain[r.to].of = r.of
    /\ r.op = "update" => r.of \in Workflowitems
    /\ r.op = "close" =>
          /\ r.of \in ToClose /\ Wanted(r.of) \ {"close"} \subseteq chain[r.to].done
          /\ \A y \in Range(ChildrenOf[r.of]) : Instances(y, r.to) # {}
    /\ r.op = "end" => \A k \in DOMAIN Sections : SectionDone(k)

LateInv ==
    /\ \A l \in late : Justified(l.call)
    /\ "end" \in system => \A k \in DOMAIN Sections : SectionDone(k)

(* How far the process has come.                                           *)
Made(x)         == found[x] \in Instances(x, Above(x))
Granted(x)      == Made(x) /\ Wanted(x) \ {"assign", "close"} \subseteq chain[found[x]].done
IsPast(x)       == \E j \in Instances(x, Above(x)) : IsWholePart(j)
EarlierParts(x) == \A y \in Templates : Before(y, x) => IsPast(y)
AllParts(x)     == \A y \in Range(ChildrenOf[x]) : IsPast(y)

EntersProject(p)      == p = Sections[section]
EntersSubproject(s)   == EntersProject(Parent(s)) /\ Granted(Parent(s)) /\ EarlierParts(s)
EntersWorkflowitem(w) == EntersSubproject(Parent(w)) /\ Granted(Parent(w)) /\ EarlierParts(w)
Enters(x) ==
    /\ x \in Range(Projects) => EntersProject(x)
    /\ x \in Subprojects => EntersSubproject(x)
    /\ x \in Workflowitems => EntersWorkflowitem(x)

AtTemplate(op, x) ==
    /\ Enters(x)
    /\ op = "refetch" => Instances(x, Above(x)) # {}
    /\ op \in Marks => Made(x)
    /\ op = "update" => x \in Workflowitems
    /\ op = "grant" /\ x \in Workflowitems => "update" \in chain[found[x]].done
    /\ op \in {"assign", "close"} => x \in ToClose /\ Granted(x) /\ AllParts(x)
    /\ op = "close" => "assign" \in chain[found[x]].done

AtFlag(op, x) ==
    /\ op = "none" => SectionDone(section)
    /\ op = "end" => Sections[section] = "finish"
    /\ op = "grantAll" => Sections[section] = "users" /\ "createUser" \in system
    /\ op = "createUser" => Sections[section] = "users"
    /\ op \in {"provisioned", "start"} => Sections[section] = "prepare"
    /\ op = "createGroup" => Sections[section] = "groups"
    /\ op = "login" /\ x = Service => Sections[section] = "impersonate"
    /\ op = "login" => Sections[section] \in Essential

At(c) == IF c.of \in Templates THEN AtTemplate(c.op, c.of) ELSE AtFlag(c.op, c.of)

ProcessInv ==
    proc = "running" => /\ At(call)
                        /\ \A k \in 1..(section - 1) : SectionDone(k)

IInv == TypeOK /\ ChainInv /\ LateInv /\ ClosedIsWhole /\ ProcessInv

-----------------------------------------------------------------------------
(* Every creation that is repeated was not answered.                       *)

OfCreation(S, x, i) == {d \in S : d.call.op = "create" /\ d.call.of = x /\ d.call.to = i}

Known(x, i) == Cardinality(Instances(x, i)) + Cardinality(OfCreation(late, x, i))
Doubts(x, i) == Cardinality(OfCreation(doubtful, x, i))

DoubtInv ==
    /\ IsFiniteSet(doubtful) /\ \A d \in doubtful : d.call.op = "create"
    /\ \A l \in late : l.call.op = "create" => l \in doubtful
    /\ \A d \in late \cup doubtful :
          d.nr <= timeouts + runs /\ (proc = "running" => d.nr < timeouts + runs)

CreateInv ==
    proc = "running" /\ call.op = "create" =>
        \A i \in Nat : i = Above(call.of) => Known(call.of, i) <= Doubts(call.of, i)

CountInv ==
    /\ DoubtInv
    /\ \A x \in Templates, i \in Nat : Known(x, i) <= 1 + Doubts(x, i)
    /\ CreateInv

-----------------------------------------------------------------------------
(* The first run has not closed what lies ahead of it.                     *)

(* A call that comes after w has been left, within the project.            *)
ComesAfter(w, c) ==
    \/ c.of \notin Templates
    \/ c.of \in Range(Projects) /\ c.op \in {"assign", "close"}
    \/ c.of \in Subprojects /\ Before(Parent(w), c.of)
    \/ c.of = Parent(w) /\ c.op \in {"assign", "close"}
    \/ c.of \in Workflowitems /\ Before(Parent(w), Parent(c.of))
    \/ c.of \in Workflowitems /\ Before(w, c.of)
    \/ c.of = w /\ c.op = "close"

Behind(w) ==
    \/ \E k \in 1..(section - 1) : Sections[k] = Parent(Parent(w))
    \/ Sections[section] = Parent(Parent(w)) /\ ComesAfter(w, call)

FirstRunInv ==
    /\ runs # 0
    /\ runs = 1 /\ proc = "running" =>
          /\ \A i \in DOMAIN chain :
                chain[i].of \in Workflowitems /\ Has(i, "close") => Behind(chain[i].of)
          /\ \A l \in late :
                l.call.op = "close" /\ l.call.of \in Workflowitems => Behind(l.call.of)

-----------------------------------------------------------------------------
(* The tree of templates.                                                  *)

LEMMA ChildrenAre ==
    ASSUME NEW q \in Templates
    PROVE  /\ ChildrenOf[q] \in Seq(Templates)
           /\ DOMAIN ChildrenOf[q] = 1..Len(ChildrenOf[q]) /\ Len(ChildrenOf[q]) \in Nat
           /\ \A k \in DOMAIN ChildrenOf[q] :
                  ChildrenOf[q][k] \in Templates /\ ChildrenOf[q][k] \in Range(ChildrenOf[q])
           /\ Range(ChildrenOf[q]) \subseteq Templates
  BY TreeAssumption DEF Range

LEMMA ParentIs ==
    ASSUME NEW q \in Templates, NEW x \in Range(ChildrenOf[q])
    PROVE  Parent(x) = q
<1>1. \A u \in Templates : x \in Range(ChildrenOf[u]) => u = q
  BY TreeAssumption
<1>2. QED
  BY <1>1 DEF Parent

LEMMA PlaceIs ==
    ASSUME NEW q \in Templates, NEW k \in DOMAIN ChildrenOf[q]
    PROVE  PlaceOf(ChildrenOf[q][k]) = k /\ Parent(ChildrenOf[q][k]) = q
<1>1. Parent(ChildrenOf[q][k]) = q
  BY ChildrenAre, ParentIs
<1>2. \A j \in DOMAIN ChildrenOf[q] : ChildrenOf[q][j] = ChildrenOf[q][k] => j = k
  BY TreeAssumption DEF IsInjective
<1>3. QED
  BY <1>1, <1>2 DEF PlaceOf

(* A subproject is part of a project, a workflowitem of a subproject.      *)
LEMMA Levels ==
    /\ \A p \in Range(Projects) : p \in Templates /\ Range(ChildrenOf[p]) \subseteq Subprojects
    /\ \A s \in Subprojects : /\ s \in Templates /\ s \notin Range(Projects)
                              /\ Parent(s) \in Range(Projects) /\ s \in Range(ChildrenOf[Parent(s)])
                              /\ Range(ChildrenOf[s]) \subseteq Workflowitems
    /\ \A w \in Workflowitems : /\ w \in Templates /\ w \notin Range(Projects)
                                /\ w \notin Subprojects /\ Parent(w) \in Subprojects
                                /\ w \in Range(ChildrenOf[Parent(w)]) /\ Range(ChildrenOf[w]) = {}
    /\ \A x \in Templates : \/ x \in Range(Projects) \/ x \in Subprojects \/ x \in Workflowitems
<1>1. \A p \in Range(Projects) : p \in Templates /\ Range(ChildrenOf[p]) \subseteq Subprojects
  BY TreeAssumption DEF Subprojects, Range
<1>2. \A s \in Subprojects : s \in Templates /\ s \notin Range(Projects)
  BY TreeAssumption
<1>3. \A s \in Subprojects : Range(ChildrenOf[s]) \subseteq Workflowitems
  BY DEF Workflowitems
<1>4. \A s \in Subprojects : Parent(s) \in Range(Projects) /\ s \in Range(ChildrenOf[Parent(s)])
  <2> TAKE s \in Subprojects
  <2>1. PICK p \in Range(Projects) : s \in Range(ChildrenOf[p])
    BY DEF Subprojects
  <2>2. QED
    BY <1>1, <2>1, ParentIs
<1>5. \A w \in Workflowitems : Parent(w) \in Subprojects /\ w \in Range(ChildrenOf[Parent(w)])
  <2> TAKE w \in Workflowitems
  <2>1. PICK s \in Subprojects : w \in Range(ChildrenOf[s])
    BY DEF Workflowitems
  <2>2. QED
    BY <1>2, <2>1, ParentIs
<1>6. \A w \in Workflowitems : w \in Templates /\ w \notin Range(Projects) /\ w \notin Subprojects
  BY TreeAssumption
<1>7. \A w \in Workflowitems : Range(ChildrenOf[w]) = {}
  BY TreeAssumption DEF Range
<1>8. QED
  BY <1>1, <1>2, <1>3, <1>4, <1>5, <1>6, <1>7, TreeAssumption

LEMMA ParentOfPart ==
    ASSUME NEW x \in Templates, x \notin Range(Projects)
    PROVE  /\ Parent(x) \in Templates /\ x \in Range(ChildrenOf[Parent(x)])
           /\ PlaceOf(x) \in DOMAIN ChildrenOf[Parent(x)]
           /\ ChildrenOf[Parent(x)][PlaceOf(x)] = x
<1>1. Parent(x) \in Templates /\ x \in Range(ChildrenOf[Parent(x)])
  BY Levels
<1>2. PICK k \in DOMAIN ChildrenOf[Parent(x)] : ChildrenOf[Parent(x)][k] = x
  BY <1>1 DEF Range
<1>3. QED
  BY <1>1, <1>2, PlaceIs

LEMMA SiblingIs ==
    ASSUME NEW x \in Templates, x \notin Range(Projects), ~IsLastOne(x)
    PROVE  /\ NextSibling(x) \in Range(ChildrenOf[Parent(x)]) /\ Parent(NextSibling(x)) = Parent(x)
           /\ \A y : Before(y, NextSibling(x)) => Before(y, x) \/ y = x
           /\ Before(x, NextSibling(x))
<1> DEFINE q == Parent(x)
           k == PlaceOf(x)
<1>1. q \in Templates /\ k \in DOMAIN ChildrenOf[q] /\ ChildrenOf[q][k] = x
  BY ParentOfPart
<1>2. k + 1 \in DOMAIN ChildrenOf[q] /\ k \in Nat
  BY <1>1, ChildrenAre DEF IsLastOne
<1>3. NextSibling(x) = ChildrenOf[q][k + 1]
  BY DEF NextSibling
<1>4. PlaceOf(NextSibling(x)) = k + 1 /\ Parent(NextSibling(x)) = q
  BY <1>1, <1>2, <1>3, PlaceIs
<1>5. ASSUME NEW y, Before(y, NextSibling(x))
      PROVE  Before(y, x) \/ y = x
  <2>1. PICK r \in Templates : \E i, j \in DOMAIN ChildrenOf[r] :
            i < j /\ ChildrenOf[r][i] = y /\ ChildrenOf[r][j] = NextSibling(x)
    BY <1>5 DEF Before
  <2>2. PICK i \in DOMAIN ChildrenOf[r], j \in DOMAIN ChildrenOf[r] :
            i < j /\ ChildrenOf[r][i] = y /\ ChildrenOf[r][j] = NextSibling(x)
    BY <2>1
  <2>3. r = q /\ j = k + 1
    BY <1>4, <2>2, PlaceIs
  <2>4. i \in Nat /\ i <= k
    BY <1>2, <2>2, <2>3, ChildrenAre
  <2>5. CASE i = k
    BY <1>1, <2>2, <2>3, <2>5
  <2>6. CASE i < k
    <3>1. i \in DOMAIN ChildrenOf[q] /\ ChildrenOf[q][i] = y
      BY <2>2, <2>3
    <3>2. QED
      BY <1>1, <2>6, <3>1 DEF Before
  <2>7. QED
    BY <1>2, <2>4, <2>5, <2>6
<1>6. k < k + 1
  BY <1>2
<1>7. Before(x, NextSibling(x))
  BY <1>1, <1>2, <1>3, <1>6 DEF Before
<1>8. NextSibling(x) \in Range(ChildrenOf[q])
  BY <1>1, <1>2, <1>3, ChildrenAre
<1>9. QED
  BY <1>4, <1>5, <1>7, <1>8

(* The parts of a template are its last one and those before it.           *)
LEMMA LastOneIs ==
    ASSUME NEW x \in Templates, x \notin Range(Projects), IsLastOne(x),
           NEW y \in Range(ChildrenOf[Parent(x)])
    PROVE  Before(y, x) \/ y = x
<1> DEFINE q == Parent(x)
<1>1. q \in Templates /\ PlaceOf(x) \in DOMAIN ChildrenOf[q] /\ ChildrenOf[q][PlaceOf(x)] = x
  BY ParentOfPart
<1>2. PICK j \in DOMAIN ChildrenOf[q] : ChildrenOf[q][j] = y
  BY DEF Range
<1>3. j \in Nat /\ PlaceOf(x) = Len(ChildrenOf[q]) /\ j <= PlaceOf(x)
  BY <1>1, ChildrenAre DEF IsLastOne
<1>4. QED
  BY <1>1, <1>2, <1>3 DEF Before

LEMMA BeforeIs ==
    ASSUME NEW x, NEW y, Before(y, x)
    PROVE  /\ x \in Templates /\ y \in Templates /\ Parent(x) = Parent(y) /\ ~Before(x, y) /\ x # y
           /\ Parent(x) \in Templates
           /\ x \in Range(ChildrenOf[Parent(x)]) /\ y \in Range(ChildrenOf[Parent(x)])
<1>1. PICK q \in Templates : \E j, k \in DOMAIN ChildrenOf[q] :
          j < k /\ ChildrenOf[q][j] = y /\ ChildrenOf[q][k] = x
  BY DEF Before
<1>2. PICK j \in DOMAIN ChildrenOf[q], k \in DOMAIN ChildrenOf[q] :
          j < k /\ ChildrenOf[q][j] = y /\ ChildrenOf[q][k] = x
  BY <1>1
<1>3. PlaceOf(y) = j /\ PlaceOf(x) = k /\ Parent(x) = q /\ Parent(y) = q
  BY <1>2, PlaceIs
<1>4. j \in Nat /\ k \in Nat
  BY ChildrenAre
<1>5. ~Before(x, y)
  <2> SUFFICES ASSUME NEW r \in Templates, NEW m \in DOMAIN ChildrenOf[r], NEW n \in DOMAIN ChildrenOf[r],
                      m < n, ChildrenOf[r][m] = x, ChildrenOf[r][n] = y
               PROVE  FALSE
    BY DEF Before
  <2>1. PlaceOf(x) = m /\ PlaceOf(y) = n
    BY PlaceIs
  <2>2. QED
    BY <1>2, <1>3, <1>4, <2>1
<1>6. x # y
  BY <1>2, <1>3, <1>4
<1>7. QED
  BY <1>2, <1>3, <1>5, <1>6, ChildrenAre

LEMMA FirstPart ==
    ASSUME NEW q \in Templates, ChildrenOf[q] # <<>>
    PROVE  /\ Head(ChildrenOf[q]) \in Range(ChildrenOf[q]) /\ Head(ChildrenOf[q]) \in Templates
           /\ \A y : ~Before(y, Head(ChildrenOf[q]))
<1>1. 1 \in DOMAIN ChildrenOf[q] /\ Head(ChildrenOf[q]) = ChildrenOf[q][1]
  BY ChildrenAre
<1>2. ASSUME NEW y, Before(y, ChildrenOf[q][1])
      PROVE  FALSE
  <2>1. PICK r \in Templates : \E i, j \in DOMAIN ChildrenOf[r] :
            i < j /\ ChildrenOf[r][i] = y /\ ChildrenOf[r][j] = ChildrenOf[q][1]
    BY <1>2 DEF Before
  <2>2. PICK i \in DOMAIN ChildrenOf[r], j \in DOMAIN ChildrenOf[r] :
            i < j /\ ChildrenOf[r][i] = y /\ ChildrenOf[r][j] = ChildrenOf[q][1]
    BY <2>1
  <2>3. r = q /\ j = 1
    BY <1>1, <2>2, PlaceIs
  <2>4. QED
    BY <2>2, <2>3, ChildrenAre
<1>3. QED
  BY <1>1, <1>2, ChildrenAre

-----------------------------------------------------------------------------
(* The sections.                                                           *)

SectionNames == {"prepare", "users", "groups", "impersonate", "finish"}

LEMMA SectionsAre ==
    /\ Len(Projects) \in Nat
    /\ Sections \in Seq(SectionNames \cup Range(Projects)) /\ Len(Sections) = Len(Projects) + 5
    /\ DOMAIN Sections = 1..(Len(Projects) + 5)
    /\ Sections[1] = "prepare" /\ Sections[2] = "users" /\ Sections[3] = "groups"
    /\ Sections[4] = "impersonate" /\ Sections[Len(Projects) + 5] = "finish"
    /\ \A k \in 5..(Len(Projects) + 4) :
          k - 4 \in DOMAIN Projects /\ Sections[k] = Projects[k - 4] /\ Sections[k] \in Range(Projects)
<1>1. Len(Projects) \in Nat /\ DOMAIN Projects = 1..Len(Projects) /\ Projects \in Seq(Range(Projects))
  <2>1. Projects \in Seq(Templates)
    BY TreeAssumption
  <2>2. \A k \in 1..Len(Projects) : Projects[k] \in Range(Projects)
    BY <2>1 DEF Range
  <2>3. QED
    BY <2>1, <2>2
<1> DEFINE A == <<"prepare", "users", "groups", "impersonate">>
           S == SectionNames \cup Range(Projects)
<1>2. A \in Seq(S) /\ Len(A) = 4 /\ <<"finish">> \in Seq(S) /\ Len(<<"finish">>) = 1
  BY DEF SectionNames
<1>3. Projects \in Seq(S)
  BY <1>1
<1>4. A \o Projects \in Seq(S) /\ Len(A \o Projects) = 4 + Len(Projects)
  BY <1>1, <1>2, <1>3
<1>5. \A k \in 1..(4 + Len(Projects)) :
          (A \o Projects)[k] = IF k <= 4 THEN A[k] ELSE Projects[k - 4]
  BY <1>1, <1>2, <1>3
<1>6. Sections = (A \o Projects) \o <<"finish">>
  BY DEF Sections
<1>7. Sections \in Seq(S) /\ Len(Sections) = Len(Projects) + 5
  BY <1>1, <1>2, <1>4, <1>6
<1>8. /\ \A k \in 1..(4 + Len(Projects)) : Sections[k] = (A \o Projects)[k]
      /\ Sections[Len(Projects) + 5] = "finish"
  BY <1>1, <1>2, <1>4, <1>6
<1>9. \A k \in 5..(Len(Projects) + 4) :
          k - 4 \in DOMAIN Projects /\ Sections[k] = Projects[k - 4] /\ Sections[k] \in Range(Projects)
  <2> TAKE k \in 5..(Len(Projects) + 4)
  <2>1. k - 4 \in 1..Len(Projects) /\ k \in 1..(4 + Len(Projects)) /\ ~(k <= 4)
    BY <1>1
  <2>2. Sections[k] = Projects[k - 4]
    BY <1>5, <1>8, <2>1
  <2>3. QED
    BY <1>1, <2>1, <2>2 DEF Range
<1>10. /\ Sections[1] = "prepare" /\ Sections[2] = "users" /\ Sections[3] = "groups"
       /\ Sections[4] = "impersonate"
  <2>1. 1 \in 1..(4 + Len(Projects)) /\ 2 \in 1..(4 + Len(Projects)) /\ 3 \in 1..(4 + Len(Projects))
        /\ 4 \in 1..(4 + Len(Projects))
    BY <1>1
  <2>2. QED
    BY <1>5, <1>8, <2>1
<1>11. QED
  BY <1>1, <1>7, <1>8, <1>9, <1>10

LEMMA NamesAreNoTemplates ==
    /\ \A n \in SectionNames : n \notin Templates
    /\ Service \notin Templates /\ Root \notin Templates /\ None \notin Templates
  BY NamesAssumption DEF SectionNames

(* Every section is worked on once.                                        *)
LEMMA SectionsDiffer ==
    /\ \A j, k \in DOMAIN Sections : Sections[j] = Sections[k] => j = k
    /\ \A k \in DOMAIN Sections :
          /\ Sections[k] \in Range(Projects) => k > 4 /\ k < Len(Sections)
          /\ Sections[k] \notin Range(Projects) => Sections[k] \in SectionNames
          /\ Sections[k] = "users" => k = 2
          /\ Sections[k] = "impersonate" => k = 4
          /\ Sections[k] = "finish" => k = Len(Sections)
    /\ \A p \in Range(Projects) : \E k \in DOMAIN Sections : Sections[k] = p
<1>1. ASSUME NEW k \in DOMAIN Sections
      PROVE  \/ k = 1 /\ Sections[k] = "prepare"
             \/ k = 2 /\ Sections[k] = "users"
             \/ k = 3 /\ Sections[k] = "groups"
             \/ k = 4 /\ Sections[k] = "impersonate"
             \/ k = Len(Sections) /\ k > 4 /\ Sections[k] = "finish"
             \/ k > 4 /\ k < Len(Sections) /\ Sections[k] \in Range(Projects)
                /\ k - 4 \in DOMAIN Projects /\ Sections[k] = Projects[k - 4]
  <2>1. k \in 1..4 \/ k \in 5..(Len(Projects) + 4) \/ k = Len(Projects) + 5
    BY SectionsAre
  <2>2. CASE k \in 1..4
    <3>1. k = 1 \/ k = 2 \/ k = 3 \/ k = 4
      BY <2>2
    <3>2. QED
      BY <3>1, SectionsAre
  <2>3. CASE k \in 5..(Len(Projects) + 4)
    <3>1. k > 4 /\ k < Len(Projects) + 5
      BY <2>3, SectionsAre
    <3>2. QED
      BY <2>3, <3>1, SectionsAre
  <2>4. CASE k = Len(Projects) + 5
    BY <2>4, SectionsAre
  <2>5. QED
    BY <2>1, <2>2, <2>3, <2>4
<1>2. \A n \in SectionNames : n \notin Range(Projects)
  BY NamesAreNoTemplates, Levels
<1>3. \A j, k \in DOMAIN Sections : Sections[j] = Sections[k] => j = k
  <2> SUFFICES ASSUME NEW j \in DOMAIN Sections, NEW k \in DOMAIN Sections, Sections[j] = Sections[k]
               PROVE  j = k
    OBVIOUS
  <2>1. CASE Sections[j] \in Range(Projects)
    <3>1. Sections[k] \in Range(Projects)
      BY <2>1
    <3>2. /\ j - 4 \in DOMAIN Projects /\ Sections[j] = Projects[j - 4]
          /\ k - 4 \in DOMAIN Projects /\ Sections[k] = Projects[k - 4]
      BY <1>1, <1>2, <2>1, <3>1 DEF SectionNames
    <3>3. j - 4 = k - 4
      BY <3>2, TreeAssumption DEF IsInjective
    <3>4. QED
      BY <3>3, SectionsAre
  <2>2. CASE Sections[j] \notin Range(Projects)
    BY <1>1, <2>2
  <2>3. QED
    BY <2>1, <2>2
<1>4. \A p \in Range(Projects) : \E k \in DOMAIN Sections : Sections[k] = p
  <2> TAKE p \in Range(Projects)
  <2>1. PICK m \in DOMAIN Projects : Projects[m] = p
    BY DEF Range
  <2>2. m \in 1..Len(Projects)
    BY <2>1, TreeAssumption
  <2>3. m + 4 \in 5..(Len(Projects) + 4) /\ (m + 4) - 4 = m
    BY <2>2, SectionsAre
  <2>4. Sections[m + 4] = Projects[m]
    BY <2>3, SectionsAre
  <2>5. m + 4 \in DOMAIN Sections
    BY <2>3, SectionsAre
  <2>6. QED
    BY <2>1, <2>4, <2>5
<1>5. \A k \in DOMAIN Sections :
          /\ Sections[k] \in Range(Projects) => k > 4 /\ k < Len(Sections)
          /\ Sections[k] \notin Range(Projects) => Sections[k] \in SectionNames
          /\ Sections[k] = "users" => k = 2
          /\ Sections[k] = "impersonate" => k = 4
          /\ Sections[k] = "finish" => k = Len(Sections)
  BY <1>1, <1>2 DEF SectionNames
<1>6. QED
  BY <1>3, <1>4, <1>5

-----------------------------------------------------------------------------
(* Types.                                                                  *)

LEMMA CallsAre ==
    /\ NoCall \in CallType /\ NoCall.op = "none" /\ NoCall.of = None
    /\ \A op, x : Call(op, x).op = op /\ Call(op, x).of = x
    /\ \A op \in Marks \cup {"find", "create", "refetch"}, x \in Templates : Call(op, x) \in CallType
    /\ \A op \in Flags \cup {"none", "login", "provisioned"}, x \in Users : Call(op, x) \in CallType
    /\ \A c \in CallType :
          /\ c = Call(c.op, c.of)
          /\ \/ c.of \in Templates /\ c.op \in Marks \cup {"find", "create", "refetch"}
             \/ c.of \in Users /\ c.of \notin Templates /\ c.op \in Flags \cup {"none", "login", "provisioned"}
<1>1. \A u \in Users : u \notin Templates
  BY NamesAreNoTemplates DEF Users
<1>2. QED
  BY <1>1 DEF CallType, NoCall, Call, Users

LEMMA LeaveTypes ==
    \A x \in Templates : Leave(x) \in CallType /\ Close(x) \in CallType /\ PartsOf(x) \in CallType
<1>1. \A x \in Templates : /\ Call("find", x) \in CallType /\ Call("assign", x) \in CallType
                           /\ Call("close", x) \in CallType
  BY CallsAre DEF Marks
<1>2. \A x \in Templates, c \in CallType : CloseIfWanted(x, c) \in CallType
  BY <1>1 DEF CloseIfWanted
<1>3. \A p \in Templates : CloseProject(p) \in CallType
  BY <1>2, CallsAre DEF CloseProject
<1>4. \A x \in Templates : x \notin Range(Projects) /\ ~IsLastOne(x) => NextSibling(x) \in Templates
  BY SiblingIs, ParentOfPart, ChildrenAre
<1>5. \A s \in Subprojects : LeaveSubproject(s) \in CallType
  BY <1>1, <1>3, <1>4, Levels DEF LeaveSubproject
<1>6. \A s \in Subprojects : CloseSubproject(s) \in CallType
  BY <1>2, <1>5, Levels DEF CloseSubproject
<1>7. \A w \in Workflowitems : LeaveWorkflowitem(w) \in CallType
  BY <1>1, <1>4, <1>6, Levels DEF LeaveWorkflowitem
<1>8. \A x \in Templates : Leave(x) \in CallType
  BY <1>5, <1>7, CallsAre, Levels DEF Leave
<1>9. \A x \in Templates : Close(x) \in CallType
  BY <1>2, <1>8 DEF Close
<1>10. \A x \in Templates : PartsOf(x) \in CallType
  BY <1>1, <1>9, FirstPart DEF PartsOf
<1>11. QED
  BY <1>8, <1>9, <1>10

LEMMA AfterTypes ==
    ASSUME NEW c \in CallType
    PROVE  After(c) \in CallType
<1>1. CASE c.of \in Templates /\ c.op \in Marks \cup {"find", "create", "refetch"}
  <2>1. /\ Call("create", c.of) \in CallType /\ Call("refetch", c.of) \in CallType
        /\ Call("update", c.of) \in CallType /\ Call("grant", c.of) \in CallType
        /\ Call("close", c.of) \in CallType
    BY <1>1, CallsAre DEF Marks
  <2>2. CASE c.op \in {"find", "create", "refetch", "update"}
    BY <2>1, <2>2 DEF After
  <2>3. CASE c.op \in {"grant", "assign", "close"}
    BY <1>1, <2>1, <2>3, LeaveTypes DEF After
  <2>4. QED
    BY <1>1, <2>2, <2>3 DEF Marks
<1>2. CASE c.of \in Users /\ c.op \in Flags \cup {"none", "login", "provisioned"}
  <2>1. /\ Call("provisioned", Root) \in CallType /\ Call("end", Root) \in CallType
        /\ Call("start", Root) \in CallType /\ Call("grantAll", c.of) \in CallType
    BY <1>2, CallsAre DEF Flags, Users
  <2>2. c.op \notin {"find", "create", "refetch", "update", "grant", "assign", "close"}
    BY <1>2 DEF Flags
  <2>3. QED
    BY <2>1, <2>2, CallsAre DEF After
<1>3. QED
  BY <1>1, <1>2, CallsAre

LEMMA FirstCallTypes ==
    \A k \in DOMAIN Sections : FirstCall(Sections[k]) \in CallType
<1> TAKE k \in DOMAIN Sections
<1>1. CASE Sections[k] \in Range(Projects)
  <2>1. Sections[k] \in Templates /\ Sections[k] \notin SectionNames
    BY <1>1, Levels, NamesAreNoTemplates
  <2>2. FirstCall(Sections[k]) = Call("find", Sections[k])
    BY <2>1 DEF FirstCall, SectionNames
  <2>3. QED
    BY <2>1, <2>2, CallsAre
<1>2. CASE Sections[k] \in SectionNames
  <2>1. /\ Call("login", Root) \in CallType /\ Call("createUser", Service) \in CallType
        /\ Call("createGroup", Service) \in CallType /\ Call("login", Service) \in CallType
    BY CallsAre DEF Flags, Users
  <2>2. QED
    BY <1>2, <2>1 DEF FirstCall, SectionNames
<1>3. QED
  BY <1>1, <1>2, SectionsDiffer

LEMMA AfterFindTypes ==
    ASSUME NEW c \in CallType, c.op \in {"find", "refetch"}, NEW i
    PROVE  AfterFind(c, i) \in CallType
<1>1. c.of \in Templates
  BY CallsAre DEF Flags
<1>2. Call("refetch", c.of) \in CallType
  BY <1>1, CallsAre
<1>3. QED
  BY <1>1, <1>2, AfterTypes, LeaveTypes DEF AfterFind

(* The least of a set of numbers.                                          *)
LEMMA Least ==
    ASSUME NEW T \in SUBSET Nat, T # {}
    PROVE  \E n \in T : \A m \in T : n <= m
<1>1. \E n \in T : \A m \in T : ~(<<m, n>> \in OpToRel(<, Nat))
  BY NatLessThanWellFounded, WFMin, Zenon
<1>2. \E n \in T : \A m \in T : ~(m < n)
  BY <1>1 DEF OpToRel
<1>3. QED
  BY <1>2

LEMMA FirstIs ==
    ASSUME NEW T \in SUBSET Nat, T # {}
    PROVE  First(T) \in T
<1>1. PICK n \in T : \A m \in T : n <= m
  BY Least
<1>2. QED
  BY <1>1 DEF First

(* A search finds something if there is something.                         *)
LEMMA FoundIs ==
    ASSUME TypeOK, NEW x, NEW i
    PROVE  \/ Found(x, i) = 0 /\ Instances(x, i) = {}
           \/ Found(x, i) \in Instances(x, i)
<1> DEFINE all    == Instances(x, i)
           closed == {j \in all : Has(j, "close")}
<1>1. all \in SUBSET Nat /\ closed \in SUBSET Nat
  BY DEF TypeOK, Instances
<1>2. CASE all = {}
  BY <1>2 DEF Found
<1>3. CASE all # {}
  <2>1. First(all) \in all
    BY <1>1, <1>3, FirstIs
  <2>2. closed # {} => First(closed) \in all
    BY <1>1, FirstIs
  <2>3. Found(x, i) = First(all) \/ (closed # {} /\ Found(x, i) = First(closed))
    BY <1>3 DEF Found
  <2>4. QED
    BY <2>1, <2>2, <2>3
<1>4. QED
  BY <1>2, <1>3

LEMMA AboveTypes ==
    ASSUME TypeOK, NEW x \in Templates
    PROVE  Above(x) \in 0..Len(chain) /\ found[x] \in 0..Len(chain)
  BY ParentOfPart DEF TypeOK, Above

LEMMA RequestTypes ==
    ASSUME TypeOK, Running
    PROVE  /\ Request.op = call.op /\ Request.of = call.of /\ Request.as = token.user
           /\ call.of \in Templates => Request.to = IF call.op = "create" THEN Above(call.of) ELSE found[call.of]
           /\ call.of \notin Templates => Request.to = 0
           /\ IsWrite => Request \in RequestType
<1>1. /\ Request.op = call.op /\ Request.of = call.of /\ Request.as = token.user
      /\ call.of \in Templates => Request.to = IF call.op = "create" THEN Above(call.of) ELSE found[call.of]
      /\ call.of \notin Templates => Request.to = 0
  BY DEF Request
<1>2. call \in CallType /\ token.user \in Users
  BY DEF TypeOK
<1>3. ASSUME IsWrite, call.of \in Templates
      PROVE  Request \in RequestType
  <2>1. call.op \in Marks \cup {"create"}
    BY <1>2, <1>3, CallsAre DEF IsWrite, IsSearch
  <2>2. Request.to \in Nat
    BY <1>1, <1>3, AboveTypes DEF TypeOK
  <2>3. QED
    BY <1>1, <1>2, <1>3, <2>1, <2>2 DEF Request, RequestType
<1>4. ASSUME IsWrite, call.of \notin Templates
      PROVE  Request \in RequestType
  <2>1. call.op \in Flags /\ call.of \in Users
    BY <1>2, <1>4, CallsAre DEF IsWrite, IsSearch
  <2>2. QED
    BY <1>1, <1>2, <1>4, <2>1 DEF Request, RequestType
<1>5. QED
  BY <1>1, <1>3, <1>4

LEMMA RequestsAre ==
    ASSUME NEW r \in RequestType
    PROVE  /\ r.to \in Nat /\ r.as \in Users
           /\ \/ r.op \in Marks \cup {"create"} /\ r.of \in Templates /\ r.op \notin Flags
              \/ r.op \in Flags /\ r.op \notin Marks \cup {"create"}
  BY DEF RequestType, Marks, Flags

(* What a call does when the API executes it.                              *)
LEMMA ExecuteIs ==
    ASSUME NEW r \in RequestType, Execute(r)
    PROVE  \/ UNCHANGED <<chain, system>>
           \/ /\ r.op = "create" /\ ~Refused(r) /\ UNCHANGED system
              /\ chain' = Append(chain, [of |-> r.of, parent |-> r.to, done |-> {}])
           \/ /\ r.op \in Marks /\ ~Refused(r) /\ UNCHANGED system
              /\ chain' = [chain EXCEPT ![r.to].done = @ \cup {r.op}]
           \/ /\ r.op \in Flags /\ system' = system \cup {r.op} /\ UNCHANGED chain
<1>1. CASE Refused(r) \/ AlreadyExists(r)
  BY <1>1 DEF Execute
<1>2. CASE ~(Refused(r) \/ AlreadyExists(r)) /\ r.op = "create"
  BY <1>2 DEF Execute
<1>3. CASE ~(Refused(r) \/ AlreadyExists(r)) /\ r.op \in Marks
  BY <1>3, RequestsAre DEF Execute, Marks
<1>4. CASE ~(Refused(r) \/ AlreadyExists(r)) /\ r.op \in Flags
  BY <1>4, RequestsAre DEF Execute, Marks
<1>5. QED
  BY <1>1, <1>2, <1>3, <1>4, RequestsAre

(* Nothing is ever taken away.                                             *)
Grows ==
    /\ chain' \in Seq(Resource) /\ Len(chain) <= Len(chain')
    /\ \A i \in DOMAIN chain :
          /\ i \in DOMAIN chain'
          /\ chain'[i].of = chain[i].of /\ chain'[i].parent = chain[i].parent
          /\ chain[i].done \subseteq chain'[i].done
    /\ system \subseteq system' /\ system' \subseteq Flags
    /\ abandoned \subseteq abandoned'

LEMMA UnchangedGrows ==
    ASSUME TypeOK, UNCHANGED <<chain, system>>, abandoned \subseteq abandoned'
    PROVE  Grows
  BY DEF TypeOK, Grows

LEMMA CreateIs ==
    ASSUME TypeOK, NEW x \in Templates, NEW i \in Nat,
           chain' = Append(chain, [of |-> x, parent |-> i, done |-> {}])
    PROVE  /\ chain' \in Seq(Resource) /\ Len(chain') = Len(chain) + 1
           /\ \A j \in DOMAIN chain : j \in DOMAIN chain' /\ chain'[j] = chain[j]
           /\ DOMAIN chain' = DOMAIN chain \cup {Len(chain) + 1} /\ Len(chain) + 1 \notin DOMAIN chain
           /\ chain'[Len(chain) + 1].of = x /\ chain'[Len(chain) + 1].parent = i
           /\ chain'[Len(chain) + 1].done = {}
<1>1. chain \in Seq(Resource) /\ [of |-> x, parent |-> i, done |-> {}] \in Resource
  BY DEF TypeOK, Resource
<1>2. QED
  BY <1>1

LEMMA FunctionIsSequence ==
    ASSUME NEW S, NEW n \in Nat, NEW f \in [1..n -> S]
    PROVE  f \in Seq(S)
  OBVIOUS

LEMMA MarkIs ==
    ASSUME TypeOK, NEW op \in Marks, NEW i,
           chain' = [chain EXCEPT ![i].done = @ \cup {op}]
    PROVE  /\ chain' \in Seq(Resource) /\ Len(chain') = Len(chain) /\ DOMAIN chain' = DOMAIN chain
           /\ \A j \in DOMAIN chain :
                 /\ chain'[j].of = chain[j].of /\ chain'[j].parent = chain[j].parent
                 /\ chain'[j].done = IF j = i THEN chain[j].done \cup {op} ELSE chain[j].done
<1>1. chain \in Seq(Resource) /\ DOMAIN chain = 1..Len(chain)
  BY DEF TypeOK
<1>2. \A j \in DOMAIN chain : chain[j] \in Resource
  BY <1>1
<1>3. \A j \in DOMAIN chain :
          chain'[j] = IF j = i THEN [chain[j] EXCEPT !.done = @ \cup {op}] ELSE chain[j]
  BY <1>1
<1>4. \A j \in DOMAIN chain : chain'[j] \in Resource
  BY <1>2, <1>3 DEF Resource
<1>5. DOMAIN chain' = 1..Len(chain)
  BY <1>1
<1>6. chain' = [j \in 1..Len(chain) |-> chain'[j]]
  BY <1>1, <1>5
<1>7. chain' \in Seq(Resource) /\ Len(chain') = Len(chain)
  <2>1. chain' \in [1..Len(chain) -> Resource]
    BY <1>1, <1>4, <1>6
  <2>2. Len(chain) \in Nat
    BY <1>1
  <2>3. chain' \in Seq(Resource)
    BY <2>1, <2>2, FunctionIsSequence
  <2>4. Len(chain') = Len(chain)
    BY <1>5, <2>2, <2>3
  <2>5. QED
    BY <2>3, <2>4
<1>8. QED
  BY <1>1, <1>2, <1>3, <1>5, <1>7 DEF Resource

LEMMA ExecuteGrows ==
    ASSUME TypeOK, NEW r \in RequestType, Execute(r), abandoned \subseteq abandoned'
    PROVE  Grows
<1>1. system \subseteq Flags /\ Len(chain) \in Nat
  BY DEF TypeOK
<1>2. CASE UNCHANGED <<chain, system>>
  BY <1>2, UnchangedGrows
<1>3. CASE /\ r.op = "create" /\ UNCHANGED system
           /\ chain' = Append(chain, [of |-> r.of, parent |-> r.to, done |-> {}])
  <2>1. r.of \in Templates /\ r.to \in Nat
    BY <1>3, RequestsAre DEF Flags
  <2>2. /\ chain' \in Seq(Resource) /\ Len(chain') = Len(chain) + 1
        /\ \A j \in DOMAIN chain : j \in DOMAIN chain' /\ chain'[j] = chain[j]
    BY <1>3, <2>1, CreateIs
  <2>3. QED
    BY <1>1, <1>3, <2>2 DEF Grows
<1>4. CASE r.op \in Marks /\ UNCHANGED system /\ chain' = [chain EXCEPT ![r.to].done = @ \cup {r.op}]
  <2>1. /\ chain' \in Seq(Resource) /\ Len(chain') = Len(chain) /\ DOMAIN chain' = DOMAIN chain
        /\ \A j \in DOMAIN chain :
              /\ chain'[j].of = chain[j].of /\ chain'[j].parent = chain[j].parent
              /\ chain'[j].done = IF j = r.to THEN chain[j].done \cup {r.op} ELSE chain[j].done
    BY <1>4, MarkIs
  <2>2. QED
    BY <1>1, <1>4, <2>1 DEF Grows
<1>5. CASE r.op \in Flags /\ system' = system \cup {r.op} /\ UNCHANGED chain
  BY <1>1, <1>5 DEF Grows, TypeOK
<1>6. QED
  BY <1>2, <1>3, <1>4, <1>5, ExecuteIs

LEMMA GoOnTypes ==
    ASSUME NEW c \in CallType, GoOnWith(c)
    PROVE  call' \in CallType /\ tries' \in 0..MaxTries
  BY NamesAssumption DEF GoOnWith

LEMMA GiveUpTypes ==
    ASSUME TypeOK, GiveUp
    PROVE  /\ proc' \in {"running", "over"} /\ call' \in CallType /\ tries' \in 0..MaxTries
           /\ abandoned' \subseteq Range(Sections) \ Essential /\ abandoned \subseteq abandoned'
<1>1. CASE Sections[section] \in Essential
  BY <1>1 DEF GiveUp, TypeOK
<1>2. CASE Sections[section] \notin Essential
  <2>1. Sections[section] \in Range(Sections)
    BY DEF TypeOK, Range
  <2>2. call' \in CallType /\ tries' \in 0..MaxTries
    BY <1>2, GoOnTypes, CallsAre DEF GiveUp
  <2>3. QED
    BY <1>2, <2>1, <2>2 DEF GiveUp, TypeOK
<1>3. QED
  BY <1>1, <1>2

LEMMA FailedTypes ==
    ASSUME TypeOK, Failed
    PROVE  /\ proc' \in {"running", "over"} /\ call' \in CallType /\ tries' \in 0..MaxTries
           /\ abandoned' \subseteq Range(Sections) \ Essential /\ abandoned \subseteq abandoned'
           /\ UNCHANGED <<section, found>>
<1>1. CASE IsSearch /\ call.of \in Range(Projects)
  BY <1>1 DEF Failed, TypeOK
<1>2. CASE ~(IsSearch /\ call.of \in Range(Projects)) /\ tries = 0
  BY <1>2, GiveUpTypes DEF Failed
<1>3. CASE ~(IsSearch /\ call.of \in Range(Projects)) /\ tries # 0
  <2>1. tries' = tries - 1 /\ UNCHANGED <<proc, call, abandoned>>
    BY <1>3 DEF Failed, Retry, TriesLeft
  <2>2. tries' \in 0..MaxTries
    BY <1>3, <2>1, NamesAssumption DEF TypeOK
  <2>3. QED
    BY <1>3, <2>1, <2>2 DEF Failed, TypeOK
<1>4. QED
  BY <1>1, <1>2, <1>3

LEMMA OutstandingTypes ==
    ASSUME TypeOK
    PROVE  Outstanding \subseteq LateCall
<1>1. timeouts + runs \in Nat
  BY NamesAssumption DEF TypeOK
<1>2. ASSUME Sent, IsWrite
      PROVE  [call |-> Request, nr |-> timeouts + runs] \in LateCall
  BY <1>1, <1>2, RequestTypes DEF Sent, LateCall
<1>3. QED
  BY <1>2 DEF Outstanding

LEMMA StillFound ==
    ASSUME TypeOK, Grows
    PROVE  found \in [Templates -> 0..Len(chain')]
<1>1. Len(chain) \in Nat /\ Len(chain') \in Nat /\ Len(chain) <= Len(chain')
  BY DEF TypeOK, Grows
<1>2. QED
  BY <1>1 DEF TypeOK

(* The part of TypeOK about the client.                                    *)
ClientTypes ==
    /\ proc \in {"running", "over"} /\ section \in DOMAIN Sections
    /\ call \in CallType /\ tries \in 0..MaxTries
    /\ abandoned \subseteq Range(Sections) \ Essential

LEMMA TypeStep == TypeOK /\ [Next]_vars => TypeOK'
<1> SUFFICES ASSUME TypeOK, [Next]_vars
             PROVE  TypeOK'
  OBVIOUS
<1>1. CASE LogIn
  <2>1. call.of \in Users
    <3>1. call \in CallType /\ call.op = "login"
      BY <1>1 DEF LogIn, TypeOK
    <3>2. QED
      BY <3>1, CallsAre DEF Marks
  <2>2. call' \in CallType /\ tries' \in 0..MaxTries
    BY <1>1, AfterTypes, GoOnTypes DEF LogIn, TypeOK
  <2>3. QED
    BY <1>1, <2>1, <2>2 DEF LogIn, TypeOK, faults
<1>2. CASE CheckProvisionState
  <2>1. call' \in CallType /\ tries' \in 0..MaxTries /\ proc' \in {"running", "over"}
    <3>1. CASE "end" \in system
      BY <1>2, <3>1 DEF CheckProvisionState, TypeOK
    <3>2. CASE "end" \notin system
      BY <1>2, <3>2, AfterTypes, GoOnTypes DEF CheckProvisionState, TypeOK
    <3>3. QED
      BY <3>1, <3>2
  <2>2. QED
    BY <1>2, <2>1 DEF CheckProvisionState, TypeOK, faults
<1>3. CASE Find
  <2> DEFINE i == Found(call.of, Above(call.of))
  <2>1. call \in CallType /\ call.op \in {"find", "refetch"}
    BY <1>3 DEF Find, IsSearch, TypeOK
  <2>2. call' \in CallType /\ tries' \in 0..MaxTries
    BY <1>3, <2>1, AfterFindTypes, GoOnTypes DEF Find
  <2>3. i \in 0..Len(chain)
    BY FoundIs DEF Instances, TypeOK
  <2>4. found' \in [Templates -> 0..Len(chain)]
    BY <1>3, <2>3 DEF Find, TypeOK
  <2>5. QED
    BY <1>3, <2>2, <2>4 DEF Find, TypeOK, faults
<1>4. CASE Write
  <2>1. Request \in RequestType /\ Execute(Request)
    BY <1>4, RequestTypes DEF Write, Sent
  <2>2. /\ ClientTypes' /\ abandoned \subseteq abandoned'
    <3>1. CASE AlreadyExists(Request) /\ tries = 0
      BY <1>4, <3>1, GiveUpTypes DEF Write, ClientTypes, TypeOK
    <3>2. CASE ~(AlreadyExists(Request) /\ tries = 0)
      BY <1>4, <3>2, AfterTypes, GoOnTypes DEF Write, ClientTypes, TypeOK
    <3>3. QED
      BY <3>1, <3>2
  <2>3. Grows
    BY <2>1, <2>2, ExecuteGrows
  <2>4. found' \in [Templates -> 0..Len(chain')]
    BY <1>4, <2>3, StillFound DEF Write
  <2>5. late' \subseteq LateCall
    BY <1>4 DEF Write, TypeOK
  <2>6. QED
    BY <1>4, <2>2, <2>3, <2>4, <2>5 DEF Write, TypeOK, Grows, ClientTypes, faults
<1>5. CASE IsRefused
  BY <1>5, FailedTypes DEF IsRefused, TypeOK, faults
<1>6. CASE TokenIsRefused
  BY <1>6, FailedTypes DEF TokenIsRefused, TypeOK, faults
<1>7. CASE NextSection
  <2>1. CASE section = Len(Sections)
    BY <1>7, <2>1 DEF NextSection, TypeOK, faults
  <2>2. CASE section # Len(Sections)
    <3>1. section + 1 \in DOMAIN Sections
      BY <2>2, SectionsAre DEF TypeOK
    <3>2. call' \in CallType /\ tries' \in 0..MaxTries
      BY <1>7, <2>2, <3>1, FirstCallTypes, GoOnTypes DEF NextSection
    <3>3. QED
      BY <1>7, <2>2, <3>1, <3>2 DEF NextSection, TypeOK, faults
  <2>3. QED
    BY <2>1, <2>2
<1>8. CASE Refreshed
  BY <1>8 DEF Refreshed, TypeOK, faults, Users
<1>9. CASE Unanswered
  <2>1. late' \subseteq LateCall /\ doubtful' \subseteq LateCall
    BY <1>9, OutstandingTypes DEF Unanswered, LeaveOpen, TypeOK
  <2>2. timeouts' \in 0..MaxTimeouts
    BY <1>9, NamesAssumption DEF Unanswered, TypeOK
  <2>3. QED
    BY <1>9, <2>1, <2>2, FailedTypes DEF Unanswered, TypeOK
<1>10. CASE Dies
  <2>1. late' \subseteq LateCall /\ doubtful' \subseteq LateCall
    BY <1>10, OutstandingTypes DEF Dies, LeaveOpen, TypeOK
  <2>2. QED
    BY <1>10, <2>1 DEF Dies, TypeOK, client, faults
<1>11. CASE Restart
  <2>1. 1 \in DOMAIN Sections
    BY SectionsAre
  <2>2. call' \in CallType /\ tries' \in 0..MaxTries
    BY <1>11, <2>1, FirstCallTypes, GoOnTypes DEF Restart
  <2>3. found' \in [Templates -> 0..Len(chain)]
    BY <1>11 DEF Restart, TypeOK
  <2>4. token' \in [user: Users, valid: BOOLEAN] /\ refreshing' \in BOOLEAN
    BY <1>11 DEF Restart, Users
  <2>5. runs' \in Nat
    BY <1>11 DEF Restart, TypeOK
  <2>6. QED
    BY <1>11, <2>1, <2>2, <2>3, <2>4, <2>5 DEF Restart, TypeOK
<1>12. CASE ApiRestarts
  <2>1. token' \in [user: Users, valid: BOOLEAN]
    BY <1>12 DEF ApiRestarts, TypeOK
  <2>2. apiRestarts' \in 0..MaxApiRestarts
    BY <1>12, NamesAssumption DEF ApiRestarts, TypeOK
  <2>3. QED
    BY <1>12, <2>1, <2>2 DEF ApiRestarts, TypeOK
<1>13. ASSUME NEW r \in late, Late(r)
       PROVE  TypeOK'
  <2>1. r.call \in RequestType /\ Execute(r.call)
    BY <1>13 DEF Late, TypeOK, LateCall
  <2>2. abandoned' = abandoned
    BY <1>13 DEF Late
  <2>3. Grows
    BY <2>1, <2>2, ExecuteGrows
  <2>4. found' \in [Templates -> 0..Len(chain')]
    BY <1>13, <2>3, StillFound DEF Late, client
  <2>5. QED
    BY <1>13, <2>3, <2>4 DEF Late, TypeOK, Grows, client, faults
<1>14. CASE UNCHANGED vars
  BY <1>14 DEF vars, TypeOK, client, faults
<1>15. QED
  BY <1>1, <1>2, <1>3, <1>4, <1>5, <1>6, <1>7, <1>8, <1>9, <1>10, <1>11, <1>12, <1>13, <1>14
     DEF Next, Step

LEMMA TypeInit == Init => TypeOK
<1> SUFFICES ASSUME Init
             PROVE  TypeOK
  OBVIOUS
<1>1. 1 \in DOMAIN Sections
  BY SectionsAre
<1>2. call \in CallType
  BY <1>1, FirstCallTypes DEF Init
<1>3. token \in [user: Users, valid: BOOLEAN] /\ refreshing \in BOOLEAN
  BY DEF Init, Users
<1>4. 0 \in 0..MaxTimeouts /\ 0 \in 0..MaxApiRestarts /\ MaxTries \in 0..MaxTries
  BY NamesAssumption
<1>5. found \in [Templates -> 0..Len(chain)]
  BY DEF Init
<1>6. QED
  BY <1>1, <1>2, <1>3, <1>4, <1>5 DEF Init, TypeOK

-----------------------------------------------------------------------------
(* The walk through the templates: where the process stands after it has   *)
(* dealt with a template, with the parts of one, or before them.           *)

LEMMA AboveIs ==
    ASSUME NEW q \in Templates, NEW y \in Range(ChildrenOf[q])
    PROVE  y \in Templates /\ y \notin Range(Projects) /\ Parent(y) = q /\ Above(y) = found[q]
<1>1. Parent(y) = q
  BY ParentIs
<1>2. y \in Templates /\ y \notin Range(Projects)
  <2>1. CASE q \in Range(Projects)
    BY <2>1, Levels
  <2>2. CASE q \in Subprojects
    BY <2>2, Levels
  <2>3. CASE q \in Workflowitems
    BY <2>3, Levels
  <2>4. QED
    BY <2>1, <2>2, <2>3, Levels
<1>3. QED
  BY <1>1, <1>2 DEF Above

LEMMA PartsAreThere ==
    ASSUME NEW x \in Templates, Made(x), AllParts(x)
    PROVE  /\ PartsThere(found[x])
           /\ \A y \in Range(ChildrenOf[x]) : \E j \in Instances(y, found[x]) : IsWholePart(j)
<1>1. chain[found[x]].of = x
  BY DEF Made, Instances
<1>2. \A y \in Range(ChildrenOf[x]) : \E j \in Instances(y, found[x]) : IsWholePart(j)
  BY AboveIs DEF AllParts, IsPast
<1>3. QED
  BY <1>1, <1>2 DEF PartsThere, IsWholePart

(* What has been done for x, with all of its parts, is done with x.        *)
LEMMA DoneIsPast ==
    ASSUME NEW x \in Templates, Granted(x), AllParts(x), IsFinished(found[x])
    PROVE  IsPast(x) /\ IsWhole(found[x]) /\ chain[found[x]].of = x /\ found[x] \in DOMAIN chain
<1>1. Made(x) /\ chain[found[x]].of = x /\ found[x] \in DOMAIN chain
  BY DEF Granted, Made, Instances
<1>2. IsWholePart(found[x])
  BY <1>1, PartsAreThere DEF IsWholePart
<1>3. IsWhole(found[x])
  BY <1>1, PartsAreThere DEF IsWhole
<1>4. QED
  BY <1>1, <1>2, <1>3 DEF IsPast, Made

LEMMA FinishedUnlessClosed ==
    ASSUME NEW x \in Templates, Granted(x), x \notin ToClose
    PROVE  IsFinished(found[x])
<1>1. chain[found[x]].of = x
  BY DEF Granted, Made, Instances
<1>2. QED
  BY <1>1 DEF Granted, IsFinished, Wanted

LEMMA AtAssign ==
    ASSUME NEW x \in Templates, Enters(x), Granted(x), AllParts(x), x \in ToClose
    PROVE  At(Call("assign", x))
<1>1. AtTemplate("assign", x)
  BY DEF AtTemplate, Granted
<1>2. QED
  BY <1>1, CallsAre DEF At

LEMMA AtFind ==
    ASSUME NEW x \in Templates, Enters(x)
    PROVE  At(Call("find", x))
<1>1. AtTemplate("find", x)
  BY DEF AtTemplate, Marks
<1>2. QED
  BY <1>1, CallsAre DEF At

LEMMA AtNoCall ==
    SectionDone(section) => At(NoCall)
<1> SUFFICES ASSUME SectionDone(section)
             PROVE  At(NoCall)
  OBVIOUS
<1>1. AtFlag("none", None)
  BY DEF AtFlag
<1>2. QED
  BY <1>1, CallsAre, NamesAreNoTemplates DEF At

LEMMA AtCloseProject ==
    ASSUME NEW p \in Range(Projects), EntersProject(p), Granted(p), AllParts(p)
    PROVE  At(CloseProject(p))
<1>1. p \in Templates /\ p \notin Subprojects /\ p \notin Workflowitems
  BY Levels
<1>2. Enters(p)
  BY <1>1 DEF Enters
<1>3. CASE p \in ToClose
  BY <1>1, <1>2, <1>3, AtAssign DEF CloseProject, CloseIfWanted
<1>4. CASE p \notin ToClose
  <2>1. IsWhole(found[p]) /\ chain[found[p]].of = p /\ found[p] \in DOMAIN chain
    BY <1>1, <1>4, FinishedUnlessClosed, DoneIsPast
  <2>2. Sections[section] = p /\ p # "users"
    BY <1>1, NamesAreNoTemplates DEF EntersProject, SectionNames
  <2>3. SectionDone(section)
    BY <2>1, <2>2 DEF SectionDone
  <2>4. QED
    BY <1>4, <2>3, AtNoCall DEF CloseProject, CloseIfWanted
<1>5. QED
  BY <1>3, <1>4

LEMMA NextPart ==
    ASSUME NEW x \in Templates, x \notin Range(Projects), EarlierParts(x), IsPast(x)
    PROVE  /\ IsLastOne(x) => AllParts(Parent(x))
           /\ ~IsLastOne(x) => /\ EarlierParts(NextSibling(x)) /\ Parent(NextSibling(x)) = Parent(x)
                               /\ NextSibling(x) \in Range(ChildrenOf[Parent(x)])
<1>1. Parent(x) \in Templates
  BY ParentOfPart
<1>2. ASSUME IsLastOne(x)
      PROVE  AllParts(Parent(x))
  <2>1. \A y \in Range(ChildrenOf[Parent(x)]) : y \in Templates
    BY <1>1, ChildrenAre
  <2>2. QED
    BY <1>2, <2>1, LastOneIs DEF AllParts, EarlierParts
<1>3. ASSUME ~IsLastOne(x)
      PROVE  /\ EarlierParts(NextSibling(x)) /\ Parent(NextSibling(x)) = Parent(x)
             /\ NextSibling(x) \in Range(ChildrenOf[Parent(x)])
  BY <1>3, SiblingIs DEF EarlierParts
<1>4. QED
  BY <1>2, <1>3

LEMMA AtLeaveSubproject ==
    ASSUME NEW s \in Subprojects, EntersSubproject(s), IsPast(s)
    PROVE  At(LeaveSubproject(s))
<1> DEFINE p == Parent(s)
<1>1. s \in Templates /\ s \notin Range(Projects) /\ p \in Range(Projects) /\ p \in Templates
  BY Levels
<1>2. EntersProject(p) /\ Granted(p) /\ EarlierParts(s)
  BY DEF EntersSubproject
<1>3. CASE IsLastOne(s)
  <2>1. AllParts(p)
    BY <1>1, <1>2, <1>3, NextPart
  <2>2. QED
    BY <1>1, <1>2, <1>3, <2>1, AtCloseProject DEF LeaveSubproject
<1>4. CASE ~IsLastOne(s)
  <2> DEFINE n == NextSibling(s)
  <2>1. EarlierParts(n) /\ Parent(n) = p /\ n \in Range(ChildrenOf[p])
    BY <1>1, <1>2, <1>4, NextPart
  <2>2. n \in Subprojects /\ n \in Templates /\ n \notin Range(Projects) /\ n \notin Workflowitems
    BY <1>1, <2>1, Levels
  <2>3. Enters(n)
    BY <1>2, <2>1, <2>2 DEF Enters, EntersSubproject
  <2>4. QED
    BY <1>4, <2>2, <2>3, AtFind DEF LeaveSubproject
<1>5. QED
  BY <1>3, <1>4

LEMMA AtCloseSubproject ==
    ASSUME NEW s \in Subprojects, EntersSubproject(s), Granted(s), AllParts(s)
    PROVE  At(CloseSubproject(s))
<1>1. s \in Templates /\ s \notin Range(Projects) /\ s \notin Workflowitems
  BY Levels
<1>2. CASE s \in ToClose
  <2>1. Enters(s)
    BY <1>1 DEF Enters
  <2>2. QED
    BY <1>1, <1>2, <2>1, AtAssign DEF CloseSubproject, CloseIfWanted
<1>3. CASE s \notin ToClose
  <2>1. IsPast(s)
    BY <1>1, <1>3, FinishedUnlessClosed, DoneIsPast
  <2>2. QED
    BY <1>3, <2>1, AtLeaveSubproject DEF CloseSubproject, CloseIfWanted
<1>4. QED
  BY <1>2, <1>3

LEMMA AtLeaveWorkflowitem ==
    ASSUME NEW w \in Workflowitems, EntersWorkflowitem(w), IsPast(w)
    PROVE  At(LeaveWorkflowitem(w))
<1> DEFINE s == Parent(w)
<1>1. w \in Templates /\ w \notin Range(Projects) /\ s \in Subprojects /\ s \in Templates
  BY Levels
<1>2. EntersSubproject(s) /\ Granted(s) /\ EarlierParts(w)
  BY DEF EntersWorkflowitem
<1>3. CASE IsLastOne(w)
  <2>1. AllParts(s)
    BY <1>1, <1>2, <1>3, NextPart
  <2>2. QED
    BY <1>1, <1>2, <1>3, <2>1, AtCloseSubproject DEF LeaveWorkflowitem
<1>4. CASE ~IsLastOne(w)
  <2> DEFINE n == NextSibling(w)
  <2>1. EarlierParts(n) /\ Parent(n) = s /\ n \in Range(ChildrenOf[s])
    BY <1>1, <1>2, <1>4, NextPart
  <2>2. n \in Workflowitems /\ n \in Templates /\ n \notin Range(Projects) /\ n \notin Subprojects
    BY <1>1, <2>1, Levels
  <2>3. Enters(n)
    BY <1>2, <2>1, <2>2 DEF Enters, EntersWorkflowitem
  <2>4. QED
    BY <1>4, <2>2, <2>3, AtFind DEF LeaveWorkflowitem
<1>5. QED
  BY <1>3, <1>4

LEMMA AtLeave ==
    \A x \in Templates : Enters(x) /\ Granted(x) /\ AllParts(x) /\ IsFinished(found[x]) => At(Leave(x))
<1> SUFFICES ASSUME NEW x \in Templates, Enters(x), Granted(x), AllParts(x), IsFinished(found[x])
             PROVE  At(Leave(x))
  OBVIOUS
<1>1. IsPast(x) /\ IsWhole(found[x]) /\ chain[found[x]].of = x /\ found[x] \in DOMAIN chain
  BY DoneIsPast
<1>2. CASE x \in Workflowitems
  <2>1. EntersWorkflowitem(x) /\ x \notin Subprojects
    BY <1>2, Levels DEF Enters
  <2>2. Leave(x) = LeaveWorkflowitem(x)
    BY <1>2, <2>1 DEF Leave
  <2>3. QED
    BY <1>1, <1>2, <2>1, <2>2, AtLeaveWorkflowitem
<1>3. CASE x \in Subprojects
  <2>1. EntersSubproject(x) /\ x \notin Workflowitems
    BY <1>3, Levels DEF Enters
  <2>2. Leave(x) = LeaveSubproject(x)
    BY <1>3, <2>1 DEF Leave
  <2>3. QED
    BY <1>1, <1>3, <2>1, <2>2, AtLeaveSubproject
<1>4. CASE x \in Range(Projects)
  <2>1. Sections[section] = x /\ x # "users"
    BY <1>4, NamesAreNoTemplates DEF Enters, EntersProject, SectionNames
  <2>2. SectionDone(section)
    BY <1>1, <2>1 DEF SectionDone
  <2>3. Leave(x) = NoCall
    BY <1>4, Levels DEF Leave
  <2>4. QED
    BY <2>2, <2>3, AtNoCall
<1>5. QED
  BY <1>2, <1>3, <1>4, Levels

LEMMA AtClose ==
    \A x \in Templates : Enters(x) /\ Granted(x) /\ AllParts(x) => At(Close(x))
<1> SUFFICES ASSUME NEW x \in Templates, Enters(x), Granted(x), AllParts(x)
             PROVE  At(Close(x))
  OBVIOUS
<1>1. CASE x \in ToClose
  BY <1>1, AtAssign DEF Close, CloseIfWanted
<1>2. CASE x \notin ToClose
  <2>1. IsFinished(found[x])
    BY <1>2, FinishedUnlessClosed
  <2>2. QED
    BY <1>2, <2>1, AtLeave DEF Close, CloseIfWanted
<1>3. QED
  BY <1>1, <1>2

LEMMA AtPartsOf ==
    \A x \in Templates : Enters(x) /\ Granted(x) => At(PartsOf(x))
<1> SUFFICES ASSUME NEW x \in Templates, Enters(x), Granted(x)
             PROVE  At(PartsOf(x))
  OBVIOUS
<1>1. CASE ChildrenOf[x] = <<>>
  <2>1. Range(ChildrenOf[x]) = {}
    BY <1>1 DEF Range
  <2>2. AllParts(x)
    BY <2>1 DEF AllParts
  <2>3. QED
    BY <1>1, <2>2, AtClose DEF PartsOf
<1>2. CASE ChildrenOf[x] # <<>>
  <2> DEFINE y == Head(ChildrenOf[x])
  <2>1. y \in Range(ChildrenOf[x]) /\ y \in Templates /\ \A z : ~Before(z, y)
    BY <1>2, FirstPart
  <2>2. Parent(y) = x /\ EarlierParts(y)
    BY <2>1, ParentIs DEF EarlierParts
  <2>3. CASE x \in Range(Projects)
    <3>1. y \in Subprojects /\ y \notin Range(Projects) /\ y \notin Workflowitems
      BY <2>1, <2>3, Levels
    <3>2. Enters(y)
      BY <2>2, <2>3, <3>1 DEF Enters, EntersSubproject
    <3>3. QED
      BY <1>2, <2>1, <3>2, AtFind DEF PartsOf
  <2>4. CASE x \in Subprojects
    <3>1. y \in Workflowitems /\ y \notin Range(Projects) /\ y \notin Subprojects
      BY <2>1, <2>4, Levels
    <3>2. Enters(y)
      BY <2>2, <2>4, <3>1 DEF Enters, EntersWorkflowitem
    <3>3. QED
      BY <1>2, <2>1, <3>2, AtFind DEF PartsOf
  <2>5. CASE x \in Workflowitems
    BY <2>1, <2>5, Levels
  <2>6. QED
    BY <2>3, <2>4, <2>5, Levels
<1>3. QED
  BY <1>1, <1>2

(* A workflowitem that is found closed is left as it is.                   *)
LEMMA AtLeaveFound ==
    \A w \in Workflowitems : EntersWorkflowitem(w) /\ IsPast(w) => At(Leave(w))
<1> TAKE w \in Workflowitems
<1>1. Leave(w) = LeaveWorkflowitem(w)
  BY Levels DEF Leave
<1>2. QED
  BY <1>1, AtLeaveWorkflowitem

-----------------------------------------------------------------------------
(* What has been reached stays so when more is done.                       *)

LEMMA InstancesStay ==
    ASSUME TypeOK, Grows
    PROVE  \A x, i : Instances(x, i) \subseteq Instances(x, i)'
  BY DEF Grows, Instances

LEMMA FinishedStays ==
    ASSUME TypeOK, Grows, NEW i \in DOMAIN chain, IsFinished(i)
    PROVE  IsFinished(i)'
<1>1. chain'[i].of = chain[i].of /\ chain[i].done \subseteq chain'[i].done
  BY DEF Grows
<1>2. QED
  BY <1>1 DEF IsFinished, Wanted

LEMMA PartsStay ==
    ASSUME TypeOK, Grows, NEW i \in DOMAIN chain, PartsThere(i)
    PROVE  PartsThere(i)'
<1>1. chain'[i].of = chain[i].of
  BY DEF Grows
<1>2. \A y \in Range(ChildrenOf[chain[i].of]) : \E j \in Instances(y, i)' : IsFinished(j)'
  <2> TAKE y \in Range(ChildrenOf[chain[i].of])
  <2>1. PICK j \in Instances(y, i) : IsFinished(j)
    BY DEF PartsThere
  <2>2. j \in DOMAIN chain /\ j \in Instances(y, i)'
    BY <2>1, InstancesStay DEF Instances
  <2>3. QED
    BY <2>1, <2>2, FinishedStays
<1>3. QED
  BY <1>1, <1>2 DEF PartsThere

LEMMA WholePartStays ==
    ASSUME TypeOK, Grows, NEW i \in DOMAIN chain, IsWholePart(i)
    PROVE  IsWholePart(i)'
<1>1. IsFinished(i)' /\ PartsThere(i)'
  BY FinishedStays, PartsStay DEF IsWholePart
<1>2. QED
  BY <1>1 DEF IsWholePart

LEMMA WholeStays ==
    ASSUME TypeOK, Grows, NEW i \in DOMAIN chain, IsWhole(i)
    PROVE  IsWhole(i)'
<1>1. chain'[i].of = chain[i].of /\ IsFinished(i)'
  BY FinishedStays DEF Grows, IsWhole
<1>2. \A y \in Range(ChildrenOf[chain[i].of]) : \E j \in Instances(y, i)' : IsWholePart(j)'
  <2> TAKE y \in Range(ChildrenOf[chain[i].of])
  <2>1. PICK j \in Instances(y, i) : IsWholePart(j)
    BY DEF IsWhole
  <2>2. j \in DOMAIN chain /\ j \in Instances(y, i)'
    BY <2>1, InstancesStay DEF Instances
  <2>3. QED
    BY <2>1, <2>2, WholePartStays
<1>3. QED
  BY <1>1, <1>2 DEF IsWhole

LEMMA SectionStaysDone ==
    ASSUME TypeOK, Grows, NEW k, SectionDone(k)
    PROVE  SectionDone(k)'
<1>1. Sections[k] = "users" => {"createUser", "grantAll"} \subseteq system' \/ "users" \in abandoned'
  BY DEF SectionDone, Grows
<1>2. ASSUME Sections[k] \in Range(Projects) \ abandoned'
      PROVE  \E i \in DOMAIN chain' : chain'[i].of = Sections[k] /\ IsWhole(i)'
  <2>1. Sections[k] \in Range(Projects) \ abandoned
    BY <1>2 DEF Grows
  <2>2. PICK i \in DOMAIN chain : chain[i].of = Sections[k] /\ IsWhole(i)
    BY <2>1 DEF SectionDone
  <2>3. i \in DOMAIN chain' /\ chain'[i].of = Sections[k] /\ IsWhole(i)'
    BY <2>2, WholeStays DEF Grows
  <2>4. QED
    BY <2>3
<1>3. QED
  BY <1>1, <1>2 DEF SectionDone

LEMMA StaysJustified ==
    ASSUME TypeOK, Grows, NEW r, Justified(r)
    PROVE  Justified(r)'
<1>1. ASSUME r.op = "create"
      PROVE  /\ Under(r.of, r.to)'
             /\ r.of \in Workflowitems => Preceded(r.of, r.to, Len(chain) + 1)'
  <2>1. Under(r.of, r.to)'
    BY <1>1 DEF Justified, Under, Grows
  <2>2. ASSUME r.of \in Workflowitems
        PROVE  Preceded(r.of, r.to, Len(chain) + 1)'
    <3> DEFINE m == Len(chain) + 1
               n == Len(chain') + 1
    <3>1. m \in Nat /\ n \in Nat /\ m <= n
      BY DEF TypeOK, Grows
    <3>2. Preceded(r.of, r.to, m)
      BY <1>1, <2>2 DEF Justified
    <3> HIDE DEF m, n
    <3>3. \A y \in Workflowitems : Before(y, r.of) => \E j \in Instances(y, r.to)' : j < n
      <4> SUFFICES ASSUME NEW y \in Workflowitems, Before(y, r.of)
                   PROVE  \E j \in Instances(y, r.to)' : j < n
        OBVIOUS
      <4>1. PICK j \in Instances(y, r.to) : j < m
        BY <3>2 DEF Preceded
      <4>2. j \in Instances(y, r.to)' /\ j \in Nat
        BY <4>1, InstancesStay DEF Instances, TypeOK
      <4>3. QED
        BY <3>1, <4>1, <4>2
    <3>4. QED
      BY <3>3 DEF Preceded, n
  <2>3. QED
    BY <2>1, <2>2
<1>2. r.op \in Marks => r.to \in DOMAIN chain' /\ chain'[r.to].of = r.of
  BY DEF Justified, Grows
<1>3. ASSUME r.op = "close"
      PROVE  /\ Wanted(r.of) \ {"close"} \subseteq chain'[r.to].done
             /\ \A y \in Range(ChildrenOf[r.of]) : Instances(y, r.to)' # {}
  <2>1. r.to \in DOMAIN chain
    BY <1>3 DEF Justified, Marks
  <2>2. Wanted(r.of) \ {"close"} \subseteq chain[r.to].done
    BY <1>3 DEF Justified
  <2>3. \A y \in Range(ChildrenOf[r.of]) : Instances(y, r.to)' # {}
    BY <1>3, InstancesStay DEF Justified
  <2>4. QED
    BY <2>1, <2>2, <2>3 DEF Grows
<1>4. r.op = "end" => \A k \in DOMAIN Sections : SectionDone(k)'
  BY SectionStaysDone DEF Justified
<1>5. QED
  BY <1>1, <1>2, <1>3, <1>4 DEF Justified, Wanted

(* Where the process stands does not depend on what was found for the      *)
(* template it is about to look for.                                       *)
LEMMA PastStays ==
    ASSUME TypeOK, Grows, NEW y \in Templates, IsPast(y), Above(y)' = Above(y)
    PROVE  IsPast(y)'
<1>1. PICK j \in Instances(y, Above(y)) : IsWholePart(j)
  BY DEF IsPast
<1>2. j \in Instances(y, Above(y))' /\ IsWholePart(j)'
  <2>1. j \in DOMAIN chain /\ chain[j].of = y /\ chain[j].parent = Above(y)
    BY <1>1 DEF Instances
  <2>2. j \in DOMAIN chain' /\ chain'[j].of = y /\ chain'[j].parent = Above(y)
    BY <2>1 DEF Grows
  <2>3. QED
    BY <1>1, <2>1, <2>2, WholePartStays DEF Instances
<1>3. QED
  BY <1>2 DEF IsPast

LEMMA MadeStays ==
    ASSUME TypeOK, Grows, NEW y \in Templates, found'[y] = found[y], Above(y)' = Above(y)
    PROVE  /\ Made(y) => Made(y)'
           /\ Granted(y) => Granted(y)'
<1>1. ASSUME Made(y)
      PROVE  Made(y)' /\ found[y] \in DOMAIN chain /\ chain[found[y]].done \subseteq chain'[found[y]].done
  <2>1. found[y] \in DOMAIN chain /\ chain[found[y]].of = y /\ chain[found[y]].parent = Above(y)
    BY <1>1 DEF Made, Instances
  <2>2. /\ found[y] \in DOMAIN chain' /\ chain'[found[y]].of = y /\ chain'[found[y]].parent = Above(y)
        /\ chain[found[y]].done \subseteq chain'[found[y]].done
    BY <2>1 DEF Grows
  <2>3. QED
    BY <2>1, <2>2 DEF Made, Instances
<1>2. ASSUME Granted(y)
      PROVE  Granted(y)'
  <2>1. Made(y) /\ Wanted(y) \ {"assign", "close"} \subseteq chain[found[y]].done
    BY <1>2 DEF Granted
  <2>2. Made(y)' /\ chain[found[y]].done \subseteq chain'[found[y]].done
    BY <1>1, <2>1
  <2>3. QED
    BY <2>1, <2>2 DEF Granted, Wanted
<1>3. QED
  BY <1>1, <1>2

FoundElsewhere(x) == \A y \in Templates \ {x} : found'[y] = found[y]

LEMMA AboveStays ==
    ASSUME NEW x \in Templates, FoundElsewhere(x), NEW y \in Templates,
           y \in Range(Projects) \/ Parent(y) # x
    PROVE  Above(y)' = Above(y)
  BY ParentOfPart DEF Above, FoundElsewhere

LEMMA EarlierStay ==
    ASSUME TypeOK, Grows, NEW x \in Templates, FoundElsewhere(x), NEW y \in Templates,
           y \notin Range(Projects), Parent(y) # x, EarlierParts(y)
    PROVE  EarlierParts(y)'
<1>1. ASSUME NEW z \in Templates, Before(z, y)
      PROVE  IsPast(z)'
  <2>1. Parent(z) = Parent(y)
    BY <1>1, BeforeIs
  <2>2. Above(z)' = Above(z)
    BY <2>1, AboveStays
  <2>3. QED
    BY <1>1, <2>2, PastStays DEF EarlierParts
<1>2. QED
  BY <1>1 DEF EarlierParts

LEMMA EntersStays ==
    ASSUME TypeOK, Grows, section' = section, NEW x \in Templates, FoundElsewhere(x), Enters(x)
    PROVE  Enters(x)'
<1>1. \A p : EntersProject(p) => EntersProject(p)'
  BY DEF EntersProject
<1>2. ASSUME NEW p \in Range(Projects), p # x, Granted(p)
      PROVE  Granted(p)'
  <2>1. p \in Templates /\ found'[p] = found[p]
    BY <1>2, Levels DEF FoundElsewhere
  <2>2. Above(p)' = Above(p)
    BY <1>2, <2>1, AboveStays
  <2>3. QED
    BY <1>2, <2>1, <2>2, MadeStays
<1>3. ASSUME NEW s \in Subprojects, Parent(s) # x, EntersSubproject(s)
      PROVE  EntersSubproject(s)'
  <2>1. s \in Templates /\ s \notin Range(Projects) /\ Parent(s) \in Range(Projects)
    BY Levels
  <2>2. Granted(Parent(s))'
    BY <1>2, <1>3, <2>1 DEF EntersSubproject
  <2>3. EarlierParts(s)'
    BY <1>3, <2>1, EarlierStay DEF EntersSubproject
  <2>4. QED
    BY <1>1, <1>3, <2>2, <2>3 DEF EntersSubproject
<1>4. CASE x \in Range(Projects)
  BY <1>1, <1>4, Levels DEF Enters
<1>5. CASE x \in Subprojects
  <2>1. Parent(x) # x /\ x \notin Range(Projects) /\ x \notin Workflowitems
    BY <1>5, Levels
  <2>2. QED
    BY <1>3, <1>5, <2>1 DEF Enters
<1>6. CASE x \in Workflowitems
  <2> DEFINE s == Parent(x)
  <2>1. /\ s \in Subprojects /\ s # x /\ x \notin Range(Projects) /\ x \notin Subprojects
        /\ Parent(s) # x /\ s \in Templates /\ Parent(s) # s /\ s \notin Range(Projects)
    BY <1>6, Levels
  <2>2. EntersSubproject(s) /\ Granted(s) /\ EarlierParts(x)
    BY <1>6 DEF Enters, EntersWorkflowitem
  <2>3. EntersSubproject(s)'
    BY <1>3, <2>1, <2>2
  <2>4. Granted(s)'
    <3>1. found'[s] = found[s]
      BY <2>1 DEF FoundElsewhere
    <3>2. Above(s)' = Above(s)
      BY <2>1, AboveStays
    <3>3. QED
      BY <2>1, <2>2, <3>1, <3>2, MadeStays
  <2>5. EarlierParts(x)'
    BY <2>1, <2>2, EarlierStay
  <2>6. QED
    BY <2>1, <2>3, <2>4, <2>5 DEF Enters, EntersWorkflowitem
<1>7. QED
  BY <1>4, <1>5, <1>6, Levels

(* As long as nothing else is found, a call stays where the process is.    *)
LEMMA AtTemplateStays ==
    ASSUME TypeOK, Grows, UNCHANGED <<section, found>>, NEW x \in Templates, NEW op,
           AtTemplate(op, x)
    PROVE  AtTemplate(op, x)'
<1>1. Enters(x)'
  BY EntersStays DEF AtTemplate, FoundElsewhere
<1>2. Above(x)' = Above(x) /\ found'[x] = found[x]
  BY DEF Above
<1>3. Instances(x, Above(x)) # {} => Instances(x, Above(x))' # {}
  <2>1. Instances(x, Above(x)) \subseteq Instances(x, Above(x))'
    BY <1>2 DEF Grows, Instances
  <2>2. QED
    BY <2>1
<1>4. (Made(x) => Made(x)') /\ (Granted(x) => Granted(x)')
  BY <1>2, MadeStays
<1>5. ASSUME Made(x)
      PROVE  chain[found[x]].done \subseteq chain'[found[x]].done
  BY <1>5 DEF Made, Instances, Grows
<1>6. AllParts(x) => AllParts(x)'
  <2>1. ASSUME AllParts(x), NEW y \in Range(ChildrenOf[x])
        PROVE  IsPast(y)'
    <3>1. y \in Templates /\ IsPast(y)
      BY <2>1, ChildrenAre DEF AllParts
    <3>2. Above(y)' = Above(y)
      BY DEF Above
    <3>3. QED
      BY <3>1, <3>2, PastStays
  <2>2. QED
    BY <2>1 DEF AllParts
<1>7. op \in Marks => Made(x)
  BY DEF AtTemplate
<1>8. op = "grant" /\ x \in Workflowitems => "update" \in chain'[found[x]].done
  BY <1>5, <1>7 DEF AtTemplate, Marks
<1>9. op = "close" => "assign" \in chain'[found[x]].done
  BY <1>5, <1>7 DEF AtTemplate, Marks
<1>10. QED
  BY <1>1, <1>2, <1>3, <1>4, <1>6, <1>8, <1>9 DEF AtTemplate

LEMMA AtStays ==
    ASSUME TypeOK, Grows, UNCHANGED <<section, found, call>>, At(call)
    PROVE  At(call)'
<1>1. CASE call.of \in Templates
  BY <1>1, AtTemplateStays DEF At
<1>2. CASE call.of \notin Templates
  <2>1. AtFlag(call.op, call.of)
    BY <1>2 DEF At
  <2>2. SectionDone(section) => SectionDone(section)'
    BY SectionStaysDone
  <2>3. AtFlag(call.op, call.of)'
    BY <2>1, <2>2 DEF AtFlag, Grows
  <2>4. QED
    BY <1>2, <2>3 DEF At
<1>3. QED
  BY <1>1, <1>2

-----------------------------------------------------------------------------
(* What the execution of a justified call keeps.                           *)

LEMMA ResourceStays ==
    ASSUME TypeOK, Grows, ChainInv, NEW i \in DOMAIN chain
    PROVE  ResourceInv(i)'
<1> DEFINE x == chain[i].of
           p == chain[i].parent
<1>1. chain'[i].of = x /\ chain'[i].parent = p /\ i \in Nat
  BY DEF Grows, TypeOK
<1>2. p < i /\ Under(x, p)
  BY DEF ChainInv, ResourceInv
<1>3. \/ x \in Range(Projects) /\ p = 0
      \/ p \in DOMAIN chain' /\ x \in Range(ChildrenOf[chain'[p].of])
  BY <1>2 DEF Under, Grows
<1>4. Under(chain[i].of, chain[i].parent)'
  BY <1>1, <1>3 DEF Under
<1>5. ASSUME x \in Workflowitems, NEW y \in Workflowitems, Before(y, x)
      PROVE  \E j \in {k \in DOMAIN chain' : chain'[k].of = y /\ chain'[k].parent = p} : j < i
  <2>1. PICK j \in Instances(y, p) : j < i
    BY <1>5 DEF ChainInv, ResourceInv, Preceded
  <2>2. j \in {k \in DOMAIN chain' : chain'[k].of = y /\ chain'[k].parent = p}
    BY <2>1 DEF Instances, Grows
  <2>3. QED
    BY <2>1, <2>2
<1>6. x \in Workflowitems => Preceded(chain[i].of, chain[i].parent, i)'
  BY <1>1, <1>5 DEF Preceded, Instances
<1>7. QED
  BY <1>1, <1>2, <1>4, <1>6 DEF ResourceInv

LEMMA ChainStays ==
    ASSUME TypeOK, ChainInv, NEW r \in RequestType, Justified(r), Execute(r), Grows
    PROVE  ChainInv'
<1>1. CASE DOMAIN chain' = DOMAIN chain
  BY <1>1, ResourceStays DEF ChainInv
<1>2. CASE /\ r.op = "create" /\ chain' = Append(chain, [of |-> r.of, parent |-> r.to, done |-> {}])
  <2>0. PICK n : n = Len(chain) + 1
    OBVIOUS
  <2>1. r.of \in Templates /\ r.to \in Nat
    BY <1>2, RequestsAre DEF Flags
  <2>2. /\ DOMAIN chain' = DOMAIN chain \cup {n} /\ chain'[n].of = r.of /\ chain'[n].parent = r.to
        /\ n \in Nat /\ 0 < n /\ \A j \in DOMAIN chain : j < n
    BY <1>2, <2>0, <2>1, CreateIs DEF TypeOK
  <2>3. Under(r.of, r.to) /\ (r.of \in Workflowitems => Preceded(r.of, r.to, n))
    BY <1>2, <2>0 DEF Justified
  <2>4. r.to < n
    BY <2>2, <2>3 DEF Under
  <2>5. \/ r.of \in Range(Projects) /\ r.to = 0
        \/ r.to \in DOMAIN chain' /\ r.of \in Range(ChildrenOf[chain'[r.to].of])
    BY <2>3 DEF Under, Grows
  <2>6. Under(chain[n].of, chain[n].parent)'
    BY <2>2, <2>5 DEF Under
  <2>7. ASSUME r.of \in Workflowitems, NEW y \in Workflowitems, Before(y, r.of)
        PROVE  \E j \in {k \in DOMAIN chain' : chain'[k].of = y /\ chain'[k].parent = r.to} : j < n
    <3>1. PICK j \in Instances(y, r.to) : j < n
      BY <2>3, <2>7 DEF Preceded
    <3>2. j \in {k \in DOMAIN chain' : chain'[k].of = y /\ chain'[k].parent = r.to}
      BY <3>1 DEF Instances, Grows
    <3>3. QED
      BY <3>1, <3>2
  <2>8. chain'[n].of \in Workflowitems => Preceded(chain[n].of, chain[n].parent, n)'
    BY <2>2, <2>7 DEF Preceded, Instances
  <2>9. ResourceInv(n)'
    BY <2>2, <2>4, <2>6, <2>8 DEF ResourceInv
  <2>10. QED
    BY <2>2, <2>9, ResourceStays DEF ChainInv
<1>3. CASE r.op \in Marks /\ chain' = [chain EXCEPT ![r.to].done = @ \cup {r.op}]
  BY <1>1, <1>3, MarkIs
<1>4. CASE chain' = chain
  BY <1>1, <1>4
<1>5. QED
  BY <1>2, <1>3, <1>4, ExecuteIs

(* Closing is refused unless the parts are closed, and these are whole.    *)
LEMMA ClosedStayWhole ==
    ASSUME TypeOK, ClosedIsWhole, NEW r \in RequestType, Justified(r), Execute(r), Grows
    PROVE  ClosedIsWhole'
<1>1. ASSUME NEW i \in DOMAIN chain, Has(i, "close")
      PROVE  IsWhole(i)'
  BY <1>1, WholeStays DEF ClosedIsWhole
<1>2. CASE /\ r.op = "create" /\ chain' = Append(chain, [of |-> r.of, parent |-> r.to, done |-> {}])
  <2>1. r.of \in Templates /\ r.to \in Nat
    BY <1>2, RequestsAre DEF Flags
  <2>2. /\ DOMAIN chain' = DOMAIN chain \cup {Len(chain) + 1} /\ chain'[Len(chain) + 1].done = {}
        /\ \A j \in DOMAIN chain : chain'[j] = chain[j]
    BY <1>2, <2>1, CreateIs
  <2>3. QED
    BY <1>1, <2>2 DEF ClosedIsWhole, Has
<1>3. CASE r.op \in Marks /\ ~Refused(r) /\ chain' = [chain EXCEPT ![r.to].done = @ \cup {r.op}]
  <2>1. /\ DOMAIN chain' = DOMAIN chain
        /\ \A j \in DOMAIN chain :
              chain'[j].done = IF j = r.to THEN chain[j].done \cup {r.op} ELSE chain[j].done
    BY <1>3, MarkIs
  <2>2. ASSUME r.op = "close", ~Has(r.to, "close")
        PROVE  IsWhole(r.to)'
    <3> DEFINE i == r.to
               x == r.of
    <3>1. /\ i \in DOMAIN chain /\ chain[i].of = x /\ x \in ToClose
          /\ Wanted(x) \ {"close"} \subseteq chain[i].done
          /\ \A y \in Range(ChildrenOf[x]) : Instances(y, i) # {}
      BY <2>2 DEF Justified, Marks
    <3>2. InTheWay(i) = {}
      BY <1>3, <2>2 DEF Refused
    <3>3. chain'[i].of = x /\ chain'[i].done = chain[i].done \cup {"close"}
      BY <2>1, <2>2, <3>1 DEF Grows
    <3>4. IsFinished(i)'
      BY <3>1, <3>3 DEF IsFinished, Wanted
    <3>5. ASSUME NEW y \in Range(ChildrenOf[x])
          PROVE  \E j \in Instances(y, i)' : IsWholePart(j)'
      <4>1. PICK j : j \in Instances(y, i)
        BY <3>1
      <4>2. j \in DOMAIN chain /\ Has(j, "close")
        BY <3>2, <4>1 DEF InTheWay, Instances
      <4>3. IsWhole(j)
        BY <4>2 DEF ClosedIsWhole
      <4>4. IsWholePart(j)
        BY <4>3 DEF IsWhole, IsWholePart, PartsThere
      <4>5. j \in Instances(y, i)'
        BY <4>1, InstancesStay
      <4>6. QED
        BY <4>2, <4>4, <4>5, WholePartStays
    <3>6. QED
      BY <3>3, <3>4, <3>5 DEF IsWhole
  <2>3. ASSUME NEW i \in DOMAIN chain', "close" \in chain'[i].done
        PROVE  IsWhole(i)'
    <3>1. CASE Has(i, "close")
      BY <1>1, <2>1, <3>1
    <3>2. CASE ~Has(i, "close")
      <4>1. i = r.to /\ r.op = "close"
        BY <2>1, <2>3, <3>2 DEF Has
      <4>2. QED
        BY <2>2, <3>2, <4>1
    <3>3. QED
      BY <3>1, <3>2
  <2>4. QED
    BY <2>3 DEF ClosedIsWhole, Has
<1>4. CASE chain' = chain
  BY <1>1, <1>4 DEF ClosedIsWhole, Has
<1>5. QED
  BY <1>2, <1>3, <1>4, ExecuteIs

LEMMA EndStaysJustified ==
    ASSUME TypeOK, LateInv, NEW r \in RequestType, Justified(r), Execute(r), Grows
    PROVE  "end" \in system' => \A k \in DOMAIN Sections : SectionDone(k)'
<1>1. ASSUME "end" \in system'
      PROVE  \A k \in DOMAIN Sections : SectionDone(k)
  <2>1. "end" \in system \/ r.op = "end"
    BY <1>1, ExecuteIs
  <2>2. QED
    BY <2>1 DEF LateInv, Justified
<1>2. QED
  BY <1>1, SectionStaysDone

-----------------------------------------------------------------------------
(* The call the process makes is justified.                                *)

LEMMA CreationIsJustified ==
    ASSUME TypeOK, NEW x \in Templates, Enters(x)
    PROVE  /\ Under(x, Above(x))
           /\ x \in Workflowitems => Preceded(x, Above(x), Len(chain) + 1)
<1>1. CASE x \in Range(Projects)
  BY <1>1, Levels DEF Under, Above
<1>2. CASE x \notin Range(Projects)
  <2> DEFINE q == Parent(x)
  <2>1. x \in Range(ChildrenOf[q]) /\ Above(x) = found[q] /\ q \in Templates
    BY <1>2, ParentOfPart DEF Above
  <2>2. Made(q)
    BY <1>2, Levels DEF Enters, EntersSubproject, EntersWorkflowitem, Granted
  <2>3. found[q] \in DOMAIN chain /\ chain[found[q]].of = q
    BY <2>2 DEF Made, Instances
  <2>4. ASSUME x \in Workflowitems, NEW y \in Workflowitems, Before(y, x)
        PROVE  \E j \in Instances(y, Above(x)) : j < Len(chain) + 1
    <3>1. y \in Templates /\ Parent(y) = q /\ y \notin Range(Projects)
      BY <2>4, BeforeIs, Levels
    <3>2. IsPast(y)
      BY <2>4, <3>1, Levels DEF Enters, EntersWorkflowitem, EarlierParts
    <3>3. PICK j \in Instances(y, Above(y)) : TRUE
      BY <3>2 DEF IsPast
    <3>4. Above(y) = Above(x)
      BY <2>1, <3>1 DEF Above
    <3>5. j < Len(chain) + 1
      BY <3>3 DEF Instances, TypeOK
    <3>6. QED
      BY <3>3, <3>4, <3>5
  <2>5. QED
    BY <2>1, <2>3, <2>4 DEF Under, Preceded
<1>3. QED
  BY <1>1, <1>2

LEMMA RequestIsJustified ==
    ASSUME IInv, Running, IsWrite
    PROVE  Justified(Request)
<1> DEFINE x == call.of
<1>1. TypeOK /\ At(call) /\ \A k \in 1..(section - 1) : SectionDone(k)
  BY DEF IInv, ProcessInv, Running
<1>2. call \in CallType /\ Request.op = call.op /\ Request.of = x
  BY <1>1, RequestTypes DEF TypeOK
<1>3. CASE x \in Templates
  <2>1. AtTemplate(call.op, x) /\ Enters(x)
    BY <1>1, <1>3 DEF At, AtTemplate
  <2>2. call.op # "create" => Request.to = found[x]
    BY <1>1, <1>3, RequestTypes
  <2>3. call.op = "create" => Request.to = Above(x)
    BY <1>1, <1>3, RequestTypes
  <2>4. call.op \in Marks => found[x] \in DOMAIN chain /\ chain[found[x]].of = x
    BY <2>1 DEF AtTemplate, Made, Instances
  <2>5. call.op = "update" => x \in Workflowitems
    BY <2>1 DEF AtTemplate
  <2>6. ASSUME call.op = "close"
        PROVE  /\ x \in ToClose /\ Wanted(x) \ {"close"} \subseteq chain[found[x]].done
               /\ \A y \in Range(ChildrenOf[x]) : Instances(y, found[x]) # {}
    <3>1. x \in ToClose /\ Granted(x) /\ AllParts(x) /\ "assign" \in chain[found[x]].done
      BY <2>1, <2>6 DEF AtTemplate
    <3>2. \A y \in Range(ChildrenOf[x]) : Instances(y, found[x]) # {}
      BY <1>3, <3>1, AboveIs DEF AllParts, IsPast
    <3>3. QED
      BY <3>1, <3>2 DEF Granted
  <2>7. call.op # "end"
    BY <1>2, <1>3, CallsAre DEF Marks
  <2>8. call.op = "create" =>
            /\ Under(x, Request.to)
            /\ x \in Workflowitems => Preceded(x, Request.to, Len(chain) + 1)
    BY <1>1, <1>3, <2>1, <2>3, CreationIsJustified
  <2>9. QED
    BY <1>2, <2>2, <2>4, <2>5, <2>6, <2>7, <2>8 DEF Justified, Marks
<1>4. CASE x \notin Templates
  <2>1. call.op \in Flags
    BY <1>2, <1>4, CallsAre DEF IsWrite, IsSearch
  <2>2. ASSUME call.op = "end", NEW k \in DOMAIN Sections
        PROVE  SectionDone(k)
    <3>1. Sections[section] = "finish" /\ section \in DOMAIN Sections
      BY <1>1, <1>4, <2>2 DEF At, AtFlag, TypeOK
    <3>2. section = Len(Sections)
      BY <3>1, SectionsDiffer
    <3>3. k \in 1..(section - 1) \/ k = section
      BY <3>2, SectionsAre
    <3>4. "finish" \notin Range(Projects)
      BY Levels, NamesAreNoTemplates DEF SectionNames
    <3>5. QED
      BY <1>1, <3>1, <3>3, <3>4 DEF SectionDone
  <2>3. QED
    BY <1>2, <2>1, <2>2 DEF Justified, Flags, Marks
<1>5. QED
  BY <1>3, <1>4

LEMMA OutstandingIsJustified ==
    ASSUME IInv
    PROVE  \A o \in Outstanding : Justified(o.call)
  BY RequestIsJustified DEF Outstanding, Sent

-----------------------------------------------------------------------------
(* The steps.                                                              *)

LEMMA QuietKeeps ==
    ASSUME IInv, UNCHANGED <<chain, system>>, abandoned \subseteq abandoned',
           late' \subseteq late \cup Outstanding
    PROVE  Grows /\ ChainInv' /\ LateInv' /\ ClosedIsWhole'
<1>1. TypeOK /\ ChainInv /\ LateInv /\ ClosedIsWhole /\ Grows
  BY UnchangedGrows DEF IInv
<1>2. ChainInv'
  BY <1>1, ResourceStays DEF ChainInv
<1>3. LateInv'
  <2>1. \A l \in late \cup Outstanding : Justified(l.call)
    BY <1>1, OutstandingIsJustified DEF LateInv
  <2>2. \A l \in late' : Justified(l.call)'
    BY <1>1, <2>1, StaysJustified
  <2>3. "end" \in system' => \A k \in DOMAIN Sections : SectionDone(k)'
    BY <1>1, SectionStaysDone DEF LateInv
  <2>4. QED
    BY <2>2, <2>3 DEF LateInv
<1>4. ClosedIsWhole'
  BY <1>1, WholeStays DEF ClosedIsWhole, Has
<1>5. QED
  BY <1>1, <1>2, <1>3, <1>4

LEMMA ExecutionKeeps ==
    ASSUME IInv, NEW r \in RequestType, Justified(r), Execute(r), abandoned \subseteq abandoned',
           late' \subseteq late
    PROVE  Grows /\ ChainInv' /\ LateInv' /\ ClosedIsWhole'
<1>1. TypeOK /\ ChainInv /\ LateInv /\ ClosedIsWhole /\ Grows
  BY ExecuteGrows DEF IInv
<1>2. ChainInv' /\ ClosedIsWhole'
  BY <1>1, ChainStays, ClosedStayWhole
<1>3. \A l \in late' : Justified(l.call)'
  BY <1>1, StaysJustified DEF LateInv
<1>4. "end" \in system' => \A k \in DOMAIN Sections : SectionDone(k)'
  BY <1>1, EndStaysJustified
<1>5. QED
  BY <1>1, <1>2, <1>3, <1>4 DEF LateInv

(* The earlier sections stay done, whatever comes next in this one.        *)
LEMMA InSection ==
    ASSUME IInv, Grows, proc = "running", section' = section, At(call)'
    PROVE  ProcessInv'
<1>1. \A k \in 1..(section - 1) : SectionDone(k)'
  BY SectionStaysDone DEF IInv, ProcessInv
<1>2. QED
  BY <1>1 DEF ProcessInv

(* So does what has been reached, when something else happens meanwhile.   *)
LEMMA ProcessStays ==
    ASSUME IInv, Grows, UNCHANGED <<proc, section, call, found>>
    PROVE  ProcessInv'
<1>1. CASE proc = "running"
  <2>1. At(call)'
    BY <1>1, AtStays DEF IInv, ProcessInv
  <2>2. QED
    BY <1>1, <2>1, InSection
<1>2. CASE proc # "running"
  BY <1>2 DEF ProcessInv
<1>3. QED
  BY <1>1, <1>2

(* A section that is given up need not be done.                            *)
LEMMA GiveUpIsAt ==
    ASSUME IInv, Grows, proc = "running", GiveUp, section' = section
    PROVE  ProcessInv'
<1>1. CASE Sections[section] \in Essential
  BY <1>1 DEF GiveUp, ProcessInv
<1>2. CASE Sections[section] \notin Essential
  <2>1. Sections[section] \in abandoned' /\ call' = NoCall
    BY <1>2 DEF GiveUp, GoOnWith
  <2>2. SectionDone(section)'
    BY <2>1 DEF SectionDone
  <2>3. At(NoCall)'
    <3>1. (SectionDone(section) => At(NoCall))'
      BY AtNoCall, PTL
    <3>2. QED
      BY <2>2, <3>1
  <2>4. At(call)'
    BY <2>1, <2>3 DEF At
  <2>5. QED
    BY <2>4, InSection
<1>3. QED
  BY <1>1, <1>2

LEMMA FailedIsAt ==
    ASSUME IInv, Grows, proc = "running", Failed
    PROVE  ProcessInv'
<1>1. CASE IsSearch /\ call.of \in Range(Projects)
  BY <1>1 DEF Failed, ProcessInv
<1>2. CASE ~(IsSearch /\ call.of \in Range(Projects)) /\ tries = 0
  BY <1>2, GiveUpIsAt DEF Failed
<1>3. CASE ~(IsSearch /\ call.of \in Range(Projects)) /\ tries # 0
  BY <1>3, ProcessStays DEF Failed, Retry
<1>4. QED
  BY <1>1, <1>2, <1>3

(* From where the process goes where.                                      *)
WaysOn(x) ==
    /\ Enters(x) => At(Call("create", x))
    /\ Enters(x) /\ Instances(x, Above(x)) # {} => At(Call("refetch", x))
    /\ Enters(x) /\ Made(x) => At(Call(IF x \in Workflowitems THEN "update" ELSE "grant", x))
    /\ Enters(x) /\ Made(x) /\ "update" \in chain[found[x]].done => At(Call("grant", x))
    /\ Enters(x) /\ Granted(x) => At(PartsOf(x))
    /\ Enters(x) /\ Granted(x) /\ AllParts(x) /\ x \in ToClose
          /\ "assign" \in chain[found[x]].done => At(Call("close", x))
    /\ Enters(x) /\ Granted(x) /\ AllParts(x) /\ IsFinished(found[x]) => At(Leave(x))
    /\ x \in Workflowitems /\ Enters(x) /\ IsPast(x) => At(Leave(x))

LEMMA WayOn == \A x \in Templates : WaysOn(x)
<1> TAKE x \in Templates
<1>1. Enters(x) => At(Call("create", x))
  BY CallsAre DEF At, AtTemplate, Marks
<1>2. ASSUME Enters(x)
      PROVE  /\ Instances(x, Above(x)) # {} => At(Call("refetch", x))
             /\ Made(x) => At(Call(IF x \in Workflowitems THEN "update" ELSE "grant", x))
             /\ Made(x) /\ "update" \in chain[found[x]].done => At(Call("grant", x))
             /\ Granted(x) /\ AllParts(x) /\ x \in ToClose
                /\ "assign" \in chain[found[x]].done => At(Call("close", x))
  <2>1. Instances(x, Above(x)) # {} => AtTemplate("refetch", x)
    BY <1>2 DEF AtTemplate, Marks
  <2>2. Made(x) => AtTemplate(IF x \in Workflowitems THEN "update" ELSE "grant", x)
    BY <1>2 DEF AtTemplate
  <2>3. Made(x) /\ "update" \in chain[found[x]].done => AtTemplate("grant", x)
    BY <1>2 DEF AtTemplate
  <2>4. Granted(x) /\ AllParts(x) /\ x \in ToClose /\ "assign" \in chain[found[x]].done
            => AtTemplate("close", x)
    BY <1>2 DEF AtTemplate, Granted
  <2>5. \A op : AtTemplate(op, x) => At(Call(op, x))
    BY CallsAre DEF At
  <2>6. QED
    BY <2>1, <2>2, <2>3, <2>4, <2>5
<1>3. x \in Workflowitems /\ Enters(x) /\ IsPast(x) => At(Leave(x))
  BY AtLeaveFound DEF Enters
<1>4. QED
  BY <1>1, <1>2, <1>3, AtPartsOf, AtLeave DEF WaysOn

LEMMA WayOnThen == \A x \in Templates : WaysOn(x)'
<1>1. (\A x \in Templates : WaysOn(x))'
  BY WayOn, PTL
<1>2. QED
  BY <1>1

(* After an answer that is not about a template.                           *)
LEMMA AfterFlag ==
    ASSUME IInv, Grows, proc = "running", UNCHANGED section, call.of \notin Templates,
           call' = After(call), call.op \in Flags => call.op \in system',
           call.op \in {"start", "end", "createGroup", "login", "provisioned", "createUser", "grantAll"}
    PROVE  ProcessInv'
<1>1. call \in CallType /\ AtFlag(call.op, call.of)
  BY DEF IInv, TypeOK, ProcessInv, At
<1>2. /\ Root \notin Templates /\ Service \notin Templates /\ None \notin Templates /\ Root # Service
      /\ \A n \in SectionNames : n \notin Range(Projects)
  BY NamesAreNoTemplates, NamesAssumption, Levels
<1>3. CASE call.op = "login" /\ Sections[section] = "prepare"
  <2>1. call' = Call("provisioned", Root)
    BY <1>3 DEF After
  <2>2. AtFlag("provisioned", Root)'
    BY <1>3 DEF AtFlag
  <2>3. At(call)'
    BY <1>2, <2>1, <2>2, CallsAre DEF At
  <2>4. QED
    BY <2>3, InSection
<1>4. CASE call.op = "login" /\ Sections[section] = "finish"
  <2>1. call' = Call("end", Root)
    BY <1>4 DEF After
  <2>2. AtFlag("end", Root)'
    BY <1>4 DEF AtFlag
  <2>3. At(call)'
    BY <1>2, <2>1, <2>2, CallsAre DEF At
  <2>4. QED
    BY <2>3, InSection
<1>5. CASE call.op = "provisioned"
  <2>1. call' = Call("start", Root)
    BY <1>5 DEF After
  <2>2. AtFlag("start", Root)'
    BY <1>1, <1>5 DEF AtFlag
  <2>3. At(call)'
    BY <1>2, <2>1, <2>2, CallsAre DEF At
  <2>4. QED
    BY <2>3, InSection
<1>6. CASE call.op = "createUser"
  <2>1. call' = Call("grantAll", call.of)
    BY <1>6 DEF After
  <2>2. AtFlag("grantAll", call.of)'
    BY <1>1, <1>6 DEF AtFlag, Flags
  <2>3. At(call)'
    BY <2>1, <2>2, CallsAre DEF At
  <2>4. QED
    BY <2>3, InSection
<1>7. CASE \/ call.op \in {"start", "end", "createGroup", "grantAll"}
           \/ call.op = "login" /\ Sections[section] \notin {"prepare", "finish"}
  <2>1. call' = NoCall
    BY <1>7 DEF After
  <2>2. \/ Sections[section] = "users" /\ {"createUser", "grantAll"} \subseteq system'
        \/ Sections[section] \in SectionNames /\ Sections[section] # "users"
    BY <1>1, <1>7 DEF AtFlag, Grows, Flags, Essential, SectionNames
  <2>3. SectionDone(section)'
    BY <1>2, <2>2 DEF SectionDone, SectionNames
  <2>4. (SectionDone(section) => At(NoCall))'
    BY AtNoCall, PTL
  <2>5. At(call)'
    BY <2>1, <2>3, <2>4 DEF At
  <2>6. QED
    BY <2>5, InSection
<1>8. QED
  BY <1>3, <1>4, <1>5, <1>6, <1>7

(* After a search.                                                         *)
LEMMA AfterFound ==
    ASSUME IInv, Find
    PROVE  ProcessInv'
<1>1. PICK x, i : x = call.of /\ i = Found(x, Above(x))
  OBVIOUS
<1>2. /\ TypeOK /\ ClosedIsWhole /\ proc = "running" /\ IsSearch
      /\ section' = section /\ chain' = chain /\ system' = system /\ abandoned' = abandoned
      /\ found' = [found EXCEPT ![x] = i] /\ call' = AfterFind(call, i)
  BY <1>1 DEF IInv, Find, Sent, Running, GoOnWith
<1>3. Grows
  BY <1>2, UnchangedGrows
<1>4. x \in Templates /\ call.op \in {"find", "refetch"}
  BY <1>1, <1>2, CallsAre DEF TypeOK, IsSearch, Flags
<1>5. AtTemplate(call.op, x)
  BY <1>1, <1>2, <1>4 DEF IInv, ProcessInv, At
<1>6. FoundElsewhere(x) /\ found'[x] = i
  BY <1>2, <1>4 DEF FoundElsewhere, TypeOK
<1>7. x \in Range(Projects) \/ Parent(x) # x
  BY <1>4, Levels
<1>8. Enters(x)' /\ Above(x)' = Above(x)
  BY <1>2, <1>3, <1>4, <1>5, <1>6, <1>7, EntersStays, AboveStays DEF AtTemplate
<1>9. \/ i = 0 /\ Instances(x, Above(x)) = {}
      \/ i # 0 /\ i \in Instances(x, Above(x)) /\ i \in DOMAIN chain
  <2>1. 0 \notin DOMAIN chain
    BY <1>2 DEF TypeOK
  <2>2. i \in Instances(x, Above(x)) => i \in DOMAIN chain
    BY DEF Instances
  <2>3. QED
    BY <1>1, <1>2, <2>1, <2>2, FoundIs
<1>10. Instances(x, Above(x))' = Instances(x, Above(x))
  BY <1>2, <1>8 DEF Instances
<1>11. WaysOn(x)'
  BY <1>4, WayOnThen
<1>12. CASE i = 0
  <2>1. call.op = "find"
    BY <1>4, <1>5, <1>9, <1>12 DEF AtTemplate
  <2>2. call' = Call("create", x)
    BY <1>1, <1>2, <1>12, <2>1 DEF AfterFind, After
  <2>3. At(call)'
    BY <1>8, <1>11, <2>2 DEF WaysOn
  <2>4. QED
    BY <1>2, <1>3, <2>3, InSection
<1>13. CASE i # 0 /\ x \in Workflowitems /\ Has(i, "close")
  <2>1. IsWhole(i)
    BY <1>2, <1>9, <1>13 DEF ClosedIsWhole
  <2>2. IsPast(x)
    BY <1>9, <1>13, <2>1 DEF IsPast, IsWhole, IsWholePart, PartsThere
  <2>3. IsPast(x)'
    BY <1>2, <1>3, <1>4, <1>8, <2>2, PastStays
  <2>4. call' = Leave(x)
    BY <1>1, <1>2, <1>13 DEF AfterFind
  <2>5. At(call)'
    BY <1>8, <1>11, <1>13, <2>3, <2>4 DEF WaysOn
  <2>6. QED
    BY <1>2, <1>3, <2>5, InSection
<1>14. CASE i # 0 /\ ~(x \in Workflowitems /\ Has(i, "close"))
  <2>1. Made(x)'
    BY <1>6, <1>9, <1>10, <1>14 DEF Made
  <2>2. \/ call' = Call("refetch", x)
        \/ call' = Call(IF x \in Workflowitems THEN "update" ELSE "grant", x)
    BY <1>1, <1>2, <1>14, CallsAre DEF AfterFind, After
  <2>3. Instances(x, Above(x))' # {}
    BY <1>9, <1>10, <1>14
  <2>4. At(call)'
    BY <1>8, <1>11, <2>1, <2>2, <2>3 DEF WaysOn
  <2>5. QED
    BY <1>2, <1>3, <2>4, InSection
<1>15. QED
  BY <1>12, <1>13, <1>14

(* After a call that has had its effect.                                   *)
LEMMA EffectIs ==
    ASSUME TypeOK, NEW r \in RequestType, ~Refused(r), Execute(r)
    PROVE  /\ r.op \in Flags => r.op \in system'
           /\ r.op = "create" => \E j \in DOMAIN chain' : chain'[j].of = r.of /\ chain'[j].parent = r.to
           /\ r.op \in Marks /\ r.to \in DOMAIN chain => r.op \in chain'[r.to].done
<1>1. CASE AlreadyExists(r)
  BY <1>1, RequestsAre DEF Execute, AlreadyExists, Marks
<1>2. CASE ~AlreadyExists(r) /\ r.op = "create"
  <2>1. chain' = Append(chain, [of |-> r.of, parent |-> r.to, done |-> {}])
    BY <1>2 DEF Execute, Marks
  <2>2. r.of \in Templates /\ r.to \in Nat
    BY <1>2, RequestsAre DEF Flags
  <2>3. QED
    BY <1>2, <2>1, <2>2, CreateIs DEF Flags, Marks
<1>3. CASE ~AlreadyExists(r) /\ r.op \in Marks
  <2>1. chain' = [chain EXCEPT ![r.to].done = @ \cup {r.op}]
    BY <1>3 DEF Execute, Marks
  <2>2. QED
    BY <1>3, <2>1, MarkIs, RequestsAre DEF Marks
<1>4. CASE ~AlreadyExists(r) /\ r.op \in Flags
  <2>1. system' = system \cup {r.op}
    BY <1>4, RequestsAre DEF Execute
  <2>2. QED
    BY <1>4, <2>1, RequestsAre
<1>5. QED
  BY <1>1, <1>2, <1>3, <1>4, RequestsAre

LEMMA AfterWrite ==
    ASSUME IInv, Write, Grows
    PROVE  ProcessInv'
<1>1. /\ TypeOK /\ Running /\ proc = "running" /\ IsWrite /\ UNCHANGED <<section, found>>
      /\ ~Refused(Request) /\ Execute(Request)
  BY DEF IInv, Write, Sent, Running
<1>2. CASE AlreadyExists(Request) /\ tries = 0
  BY <1>1, <1>2, GiveUpIsAt DEF Write
<1>3. CASE ~(AlreadyExists(Request) /\ tries = 0)
  <2>1. call' = After(call) /\ proc' = proc
    BY <1>3 DEF Write, GoOnWith
  <2>2. /\ Request \in RequestType /\ Request.op = call.op /\ Request.of = call.of /\ call \in CallType
        /\ call.of \in Templates =>
              Request.to = IF call.op = "create" THEN Above(call.of) ELSE found[call.of]
    BY <1>1, RequestTypes DEF TypeOK
  <2>3. /\ call.op \in Flags => call.op \in system'
        /\ call.op = "create" =>
              \E j \in DOMAIN chain' : chain'[j].of = call.of /\ chain'[j].parent = Request.to
        /\ call.op \in Marks /\ Request.to \in DOMAIN chain => call.op \in chain'[Request.to].done
    BY <1>1, <2>2, EffectIs
  <2>4. CASE call.of \notin Templates
    <3>1. call.op \in {"start", "end", "createGroup", "createUser", "grantAll"}
      BY <1>1, <2>2, <2>4, CallsAre DEF IsWrite, IsSearch, Flags
    <3>2. QED
      BY <1>1, <2>1, <2>3, <2>4, <3>1, AfterFlag
  <2>5. CASE call.of \in Templates
    <3>1. PICK x, op : x = call.of /\ op = call.op
      OBVIOUS
    <3>2. x \in Templates /\ op \in Marks \cup {"create"}
      BY <1>1, <2>2, <2>5, <3>1, CallsAre DEF IsWrite, IsSearch
    <3>3. AtTemplate(op, x)
      BY <1>1, <2>5, <3>1 DEF IInv, ProcessInv, At
    <3>4. AtTemplate(op, x)' /\ Enters(x)'
      BY <1>1, <3>2, <3>3, AtTemplateStays DEF AtTemplate
    <3>5. Above(x)' = Above(x) /\ found'[x] = found[x]
      BY <1>1 DEF Above
    <3>6. op \in Marks => op \in chain'[found[x]].done
      <4>1. op \in Marks => Request.to = found[x] /\ found[x] \in DOMAIN chain
        BY <2>2, <2>5, <3>1, <3>3 DEF AtTemplate, Made, Instances, Marks
      <4>2. QED
        BY <2>3, <3>1, <4>1
    <3>7. WaysOn(x)'
      BY <3>2, WayOnThen
    <3>8. CASE op = "create"
      <4>1. Instances(x, Above(x))' # {}
        BY <2>2, <2>3, <2>5, <3>1, <3>5, <3>8 DEF Instances
      <4>2. call' = Call("refetch", x)
        BY <2>1, <3>1, <3>8 DEF After
      <4>3. At(call)'
        BY <3>4, <3>7, <4>1, <4>2 DEF WaysOn
      <4>4. QED
        BY <1>1, <4>3, InSection
    <3>9. CASE op = "update"
      <4>1. Made(x)' /\ "update" \in chain'[found'[x]].done
        BY <3>4, <3>5, <3>6, <3>9 DEF AtTemplate, Marks
      <4>2. call' = Call("grant", x)
        BY <2>1, <3>1, <3>9 DEF After
      <4>3. At(call)'
        BY <3>4, <3>7, <4>1, <4>2 DEF WaysOn
      <4>4. QED
        BY <1>1, <4>3, InSection
    <3>10. CASE op = "grant"
      <4>1. Granted(x)'
        BY <3>4, <3>5, <3>6, <3>10 DEF AtTemplate, Granted, Wanted, Marks
      <4>2. call' = PartsOf(x)
        BY <2>1, <3>1, <3>10 DEF After
      <4>3. At(call)'
        BY <3>4, <3>7, <4>1, <4>2 DEF WaysOn
      <4>4. QED
        BY <1>1, <4>3, InSection
    <3>11. CASE op = "assign"
      <4>1. x \in ToClose /\ Granted(x)' /\ AllParts(x)' /\ "assign" \in chain'[found'[x]].done
        BY <3>4, <3>5, <3>6, <3>11 DEF AtTemplate, Marks
      <4>2. call' = Call("close", x)
        BY <2>1, <3>1, <3>11 DEF After
      <4>3. At(call)'
        BY <3>4, <3>7, <4>1, <4>2 DEF WaysOn
      <4>4. QED
        BY <1>1, <4>3, InSection
    <3>12. CASE op = "close"
      <4>1. /\ Granted(x)' /\ AllParts(x)' /\ "assign" \in chain'[found'[x]].done
            /\ "close" \in chain'[found'[x]].done
        BY <3>4, <3>5, <3>6, <3>12 DEF AtTemplate, Marks
      <4>2. chain'[found'[x]].of = x
        BY <4>1 DEF Granted, Made, Instances
      <4>3. IsFinished(found[x])'
        BY <4>1, <4>2 DEF Granted, IsFinished, Wanted
      <4>4. call' = Leave(x)
        BY <2>1, <3>1, <3>12 DEF After
      <4>5. At(call)'
        BY <3>4, <3>7, <4>1, <4>3, <4>4 DEF WaysOn
      <4>6. QED
        BY <1>1, <4>5, InSection
    <3>13. QED
      BY <3>2, <3>8, <3>9, <3>10, <3>11, <3>12 DEF Marks
  <2>6. QED
    BY <2>4, <2>5
<1>4. QED
  BY <1>2, <1>3

(* At the start of a section.                                              *)
LEMMA AtFirstCall ==
    ASSUME section' \in DOMAIN Sections, call' = FirstCall(Sections[section'])
    PROVE  At(call)'
<1>1. Root \notin Templates /\ Service \notin Templates /\ Root # Service
  BY NamesAreNoTemplates, NamesAssumption
<1>2. CASE Sections[section'] \in Range(Projects)
  <2>1. PICK p : p = Sections[section']
    OBVIOUS
  <2>2. /\ p \in Templates /\ p \notin SectionNames /\ p \notin Subprojects /\ p \notin Workflowitems
        /\ p \in Range(Projects)
    BY <1>2, <2>1, Levels, NamesAreNoTemplates
  <2>3. call' = Call("find", p)
    BY <2>1, <2>2 DEF FirstCall, SectionNames
  <2>4. Enters(p)'
    BY <2>1, <2>2 DEF Enters, EntersProject
  <2>5. AtTemplate("find", p)'
    BY <2>4 DEF AtTemplate, Marks
  <2>6. QED
    BY <2>2, <2>3, <2>5, CallsAre DEF At
<1>3. CASE Sections[section'] \in SectionNames
  <2>1. call' \in {Call("login", Root), Call("createUser", Service), Call("createGroup", Service),
                   Call("login", Service)}
    BY <1>3 DEF FirstCall, SectionNames
  <2>2. /\ call' = Call("login", Root) => Sections[section'] \in {"prepare", "finish"}
        /\ call' = Call("createUser", Service) => Sections[section'] = "users"
        /\ call' = Call("createGroup", Service) => Sections[section'] = "groups"
        /\ call' = Call("login", Service) => Sections[section'] = "impersonate"
    BY <1>1, <1>3 DEF FirstCall, SectionNames, Call
  <2>3. AtFlag(call.op, call.of)'
    BY <1>1, <2>1, <2>2, CallsAre DEF AtFlag, Essential
  <2>4. call'.of \notin Templates
    BY <1>1, <2>1, CallsAre
  <2>5. QED
    BY <2>3, <2>4 DEF At
<1>4. QED
  BY <1>2, <1>3, SectionsDiffer

LEMMA IInvStep == IInv /\ [Next]_vars => IInv'
<1> SUFFICES ASSUME IInv, [Next]_vars
             PROVE  IInv'
  OBVIOUS
<1>1. TypeOK /\ TypeOK'
  BY TypeStep DEF IInv
<1>2. ASSUME ChainInv' /\ LateInv' /\ ClosedIsWhole', ProcessInv'
      PROVE  IInv'
  BY <1>1, <1>2 DEF IInv
<1>3. CASE LogIn
  <2>1. Grows /\ ChainInv' /\ LateInv' /\ ClosedIsWhole'
    BY <1>3, QuietKeeps DEF LogIn
  <2>2. call.of \notin Templates
    <3>1. call \in CallType /\ call.op = "login"
      BY <1>1, <1>3 DEF LogIn, TypeOK
    <3>2. QED
      BY <3>1, CallsAre DEF Marks
  <2>3. ProcessInv'
    BY <1>3, <2>1, <2>2, AfterFlag DEF LogIn, Sent, Running, GoOnWith, Flags
  <2>4. QED
    BY <1>2, <2>1, <2>3
<1>4. CASE CheckProvisionState
  <2>1. Grows /\ ChainInv' /\ LateInv' /\ ClosedIsWhole'
    BY <1>4, QuietKeeps DEF CheckProvisionState
  <2>2. CASE "end" \in system
    BY <1>2, <1>4, <2>1, <2>2 DEF CheckProvisionState, ProcessInv
  <2>3. CASE "end" \notin system
    <3>1. call.of \notin Templates
      <4>1. call \in CallType /\ call.op = "provisioned"
        BY <1>1, <1>4 DEF CheckProvisionState, TypeOK
      <4>2. QED
        BY <4>1, CallsAre DEF Marks
    <3>2. ProcessInv'
      BY <1>4, <2>1, <2>3, <3>1, AfterFlag DEF CheckProvisionState, Sent, Running, GoOnWith, Flags
    <3>3. QED
      BY <1>2, <2>1, <3>2
  <2>4. QED
    BY <2>2, <2>3
<1>5. CASE Find
  <2>1. ChainInv' /\ LateInv' /\ ClosedIsWhole'
    BY <1>5, QuietKeeps DEF Find
  <2>2. QED
    BY <1>2, <1>5, <2>1, AfterFound
<1>6. CASE Write
  <2>1. Request \in RequestType /\ Justified(Request) /\ Execute(Request)
    BY <1>1, <1>6, RequestTypes, RequestIsJustified DEF Write, Sent
  <2>2. abandoned \subseteq abandoned'
    BY <1>1, <1>6, GiveUpTypes DEF Write
  <2>3. Grows /\ ChainInv' /\ LateInv' /\ ClosedIsWhole'
    BY <1>6, <2>1, <2>2, ExecutionKeeps DEF Write
  <2>4. QED
    BY <1>2, <1>6, <2>3, AfterWrite
<1>7. CASE IsRefused
  <2>1. Failed /\ proc = "running" /\ abandoned \subseteq abandoned'
    BY <1>1, <1>7, FailedTypes DEF IsRefused, Sent, Running
  <2>2. Grows /\ ChainInv' /\ LateInv' /\ ClosedIsWhole'
    BY <1>7, <2>1, QuietKeeps DEF IsRefused
  <2>3. QED
    BY <1>2, <2>1, <2>2, FailedIsAt
<1>8. CASE TokenIsRefused
  <2>1. Failed /\ proc = "running" /\ abandoned \subseteq abandoned'
    BY <1>1, <1>8, FailedTypes DEF TokenIsRefused, Running
  <2>2. Grows /\ ChainInv' /\ LateInv' /\ ClosedIsWhole'
    BY <1>8, <2>1, QuietKeeps DEF TokenIsRefused
  <2>3. QED
    BY <1>2, <2>1, <2>2, FailedIsAt
<1>9. CASE NextSection
  <2>1. Grows /\ ChainInv' /\ LateInv' /\ ClosedIsWhole'
    BY <1>9, QuietKeeps DEF NextSection
  <2>2. CASE section = Len(Sections)
    BY <1>2, <1>9, <2>1, <2>2 DEF NextSection, ProcessInv
  <2>3. CASE section # Len(Sections)
    <3>1. section' = section + 1 /\ call' = FirstCall(Sections[section']) /\ proc = "running"
      BY <1>9, <2>3 DEF NextSection, GoOnWith
    <3>2. section' \in DOMAIN Sections /\ section \in Nat
      BY <1>1, SectionsAre DEF TypeOK
    <3>3. At(call)'
      BY <3>1, <3>2, AtFirstCall
    <3>4. SectionDone(section)
      BY <1>9, CallsAre, NamesAreNoTemplates DEF NextSection, IInv, ProcessInv, At, AtFlag
    <3>5. \A k \in 1..section : SectionDone(k)
      <4>1. \A k \in 1..section : k \in 1..(section - 1) \/ k = section
        BY <3>2
      <4>2. QED
        BY <3>1, <3>4, <4>1 DEF IInv, ProcessInv
    <3>6. \A k \in 1..section : SectionDone(k)'
      BY <1>1, <2>1, <3>5, SectionStaysDone
    <3>7. section' - 1 = section
      BY <3>1, <3>2
    <3>8. ProcessInv'
      BY <3>3, <3>6, <3>7 DEF ProcessInv
    <3>9. QED
      BY <1>2, <2>1, <3>8
  <2>4. QED
    BY <2>2, <2>3
<1>10. CASE Refreshed
  BY <1>2, <1>10, QuietKeeps, ProcessStays DEF Refreshed
<1>11. CASE Unanswered
  <2>1. Failed /\ proc = "running" /\ abandoned \subseteq abandoned'
    BY <1>1, <1>11, FailedTypes DEF Unanswered, Running
  <2>2. Grows /\ ChainInv' /\ LateInv' /\ ClosedIsWhole'
    BY <1>11, <2>1, QuietKeeps DEF Unanswered, LeaveOpen
  <2>3. QED
    BY <1>2, <2>1, <2>2, FailedIsAt
<1>12. CASE Dies
  <2>1. ChainInv' /\ LateInv' /\ ClosedIsWhole'
    BY <1>12, QuietKeeps DEF Dies, LeaveOpen
  <2>2. QED
    BY <1>2, <1>12, <2>1 DEF Dies, ProcessInv
<1>13. CASE Restart
  <2>1. ChainInv' /\ LateInv' /\ ClosedIsWhole'
    BY <1>13, QuietKeeps DEF Restart
  <2>2. section' = 1 /\ call' = FirstCall(Sections[section']) /\ section' \in DOMAIN Sections
    BY <1>13, SectionsAre DEF Restart, GoOnWith
  <2>3. At(call)'
    BY <2>2, AtFirstCall
  <2>4. ProcessInv'
    BY <2>2, <2>3 DEF ProcessInv
  <2>5. QED
    BY <1>2, <2>1, <2>4
<1>14. CASE ApiRestarts
  BY <1>2, <1>14, QuietKeeps, ProcessStays DEF ApiRestarts
<1>15. ASSUME NEW r \in late, Late(r)
       PROVE  IInv'
  <2>1. r.call \in RequestType /\ Justified(r.call) /\ Execute(r.call)
    BY <1>1, <1>15 DEF Late, TypeOK, LateCall, IInv, LateInv
  <2>2. Grows /\ ChainInv' /\ LateInv' /\ ClosedIsWhole'
    BY <1>15, <2>1, ExecutionKeeps DEF Late
  <2>3. ProcessInv'
    BY <1>15, <2>2, ProcessStays DEF Late, client
  <2>4. QED
    BY <1>2, <2>2, <2>3
<1>16. CASE UNCHANGED vars
  <2>1. Grows /\ ChainInv' /\ LateInv' /\ ClosedIsWhole'
    BY <1>16, QuietKeeps DEF vars
  <2>2. ProcessInv'
    BY <1>16, <2>1, ProcessStays DEF vars, client
  <2>3. QED
    BY <1>2, <2>1, <2>2
<1>17. QED
  BY <1>3, <1>4, <1>5, <1>6, <1>7, <1>8, <1>9, <1>10, <1>11, <1>12, <1>13, <1>14, <1>15, <1>16
     DEF Next, Step

LEMMA IInvInit == Init => IInv
<1> SUFFICES ASSUME Init
             PROVE  IInv
  OBVIOUS
<1>1. TypeOK
  BY TypeInit
<1>2. DOMAIN chain = {} /\ system = {} /\ late = {}
  BY DEF Init
<1>3. ChainInv /\ LateInv /\ ClosedIsWhole
  BY <1>2 DEF ChainInv, LateInv, ClosedIsWhole
<1>4. section = 1 /\ section \in DOMAIN Sections /\ call = Call("login", Root)
  BY SectionsAre DEF Init, FirstCall
<1>5. At(call)
  BY <1>4, SectionsAre, CallsAre, NamesAreNoTemplates, NamesAssumption DEF At, AtFlag, Essential
<1>6. ProcessInv
  BY <1>4, <1>5 DEF ProcessInv
<1>7. QED
  BY <1>1, <1>3, <1>6 DEF IInv

LEMMA IInvHolds == Spec => []IInv
<1>1. QED
  BY IInvInit, IInvStep, PTL DEF Spec

(* The state of provisioning, of the API it calls and of the calls that    *)
(* were left open has the expected form, in every state.                   *)
THEOREM TypeCorrect == Spec => []TypeOK
<1>1. IInv => TypeOK
  BY DEF IInv
<1>2. QED
  BY <1>1, IInvHolds, PTL

(* When the end flag is on the chain, all that the templates ask for is    *)
(* there, but for the sections a run has given up: whatever calls were     *)
(* refused, not answered, executed late or made by a run that was killed.  *)
THEOREM TheEndMeansComplete == Spec => []EndedMeansComplete
<1>1. IInv => EndedMeansComplete
  <2> SUFFICES ASSUME IInv, "end" \in system
               PROVE  /\ {"createUser", "grantAll"} \subseteq system \/ "users" \in abandoned
                      /\ \A p \in Range(Projects) \ abandoned :
                            \E i \in DOMAIN chain : chain[i].of = p /\ IsWhole(i)
    BY DEF EndedMeansComplete
  <2>1. \A k \in DOMAIN Sections : SectionDone(k)
    BY DEF IInv, LateInv
  <2>2. 2 \in DOMAIN Sections /\ Sections[2] = "users"
    BY SectionsAre
  <2>3. {"createUser", "grantAll"} \subseteq system \/ "users" \in abandoned
    BY <2>1, <2>2 DEF SectionDone
  <2>4. ASSUME NEW p \in Range(Projects) \ abandoned
        PROVE  \E i \in DOMAIN chain : chain[i].of = p /\ IsWhole(i)
    <3>1. PICK k \in DOMAIN Sections : Sections[k] = p
      BY SectionsDiffer
    <3>2. QED
      BY <2>1, <3>1 DEF SectionDone
  <2>5. QED
    BY <2>3, <2>4
<1>2. QED
  BY <1>1, IInvHolds, PTL

(* What is closed has all of its parts, and these are closed if they are   *)
(* to be: a call to close that was left open waits for the parts as well.  *)
THEOREM TheClosedAreWhole == Spec => []ClosedIsWhole
<1>1. IInv => ClosedIsWhole
  BY DEF IInv
<1>2. QED
  BY <1>1, IInvHolds, PTL

-----------------------------------------------------------------------------
(* How often a resource has been made.                                     *)

LEMMA InstancesAreFinite ==
    ASSUME TypeOK
    PROVE  \A x, i : IsFiniteSet(Instances(x, i))
<1> TAKE x, i
<1>1. Len(chain) \in Nat /\ DOMAIN chain = 1..Len(chain)
  BY DEF TypeOK
<1>2. IsFiniteSet(1..Len(chain))
  BY <1>1, FS_Interval
<1>3. Instances(x, i) \subseteq 1..Len(chain)
  BY <1>1 DEF Instances
<1>4. QED
  BY <1>2, <1>3, FS_Subset

LEMMA CountTypes ==
    TypeOK /\ DoubtInv => \A x, i :
        /\ IsFiniteSet(Instances(x, i)) /\ IsFiniteSet(OfCreation(late, x, i))
        /\ IsFiniteSet(OfCreation(doubtful, x, i))
        /\ Cardinality(Instances(x, i)) \in Nat /\ Cardinality(OfCreation(late, x, i)) \in Nat
        /\ Doubts(x, i) \in Nat /\ Cardinality(OfCreation(late, x, i)) <= Doubts(x, i)
<1> SUFFICES ASSUME TypeOK, DoubtInv, NEW x, NEW i
             PROVE  /\ IsFiniteSet(Instances(x, i)) /\ IsFiniteSet(OfCreation(late, x, i))
                    /\ IsFiniteSet(OfCreation(doubtful, x, i))
                    /\ Cardinality(Instances(x, i)) \in Nat
                    /\ Cardinality(OfCreation(late, x, i)) \in Nat
                    /\ Doubts(x, i) \in Nat /\ Cardinality(OfCreation(late, x, i)) <= Doubts(x, i)
  OBVIOUS
<1>1. IsFiniteSet(Instances(x, i))
  BY InstancesAreFinite
<1>2. IsFiniteSet(OfCreation(doubtful, x, i))
  <2>1. OfCreation(doubtful, x, i) \subseteq doubtful
    BY DEF OfCreation
  <2>2. QED
    BY <2>1, FS_Subset DEF DoubtInv
<1>3. OfCreation(late, x, i) \subseteq OfCreation(doubtful, x, i)
  BY DEF OfCreation, DoubtInv
<1>4. /\ IsFiniteSet(OfCreation(late, x, i))
      /\ Cardinality(OfCreation(late, x, i)) <= Cardinality(OfCreation(doubtful, x, i))
  BY <1>2, <1>3, FS_Subset
<1>5. QED
  BY <1>1, <1>2, <1>4, FS_CardinalityType DEF Doubts

LEMMA CountsAre ==
    TypeOK /\ DoubtInv => \A x, i : Known(x, i) \in Nat /\ Doubts(x, i) \in Nat
  BY CountTypes DEF Known

LEMMA CountsAreThen ==
    TypeOK' /\ DoubtInv' => \A x, i : Known(x, i)' \in Nat /\ Doubts(x, i)' \in Nat
<1>1. (TypeOK /\ DoubtInv => \A x, i : Known(x, i) \in Nat /\ Doubts(x, i) \in Nat)'
  BY CountsAre, PTL
<1>2. QED
  BY <1>1

(* No step but a creation brings a resource nearer to being there twice.   *)
NoNearer == \A x, i : Known(x, i)' + Doubts(x, i) <= Known(x, i) + Doubts(x, i)'

LEMMA QuietIsNoNearer ==
    ASSUME TypeOK, DoubtInv, \A x, i : Instances(x, i)' = Instances(x, i), doubtful' = doubtful,
           late' \subseteq late
    PROVE  NoNearer
<1> SUFFICES ASSUME NEW x, NEW i
             PROVE  Known(x, i)' + Doubts(x, i) <= Known(x, i) + Doubts(x, i)'
  BY DEF NoNearer
<1>1. OfCreation(late', x, i) \subseteq OfCreation(late, x, i)
  BY DEF OfCreation
<1>2. /\ IsFiniteSet(OfCreation(late, x, i)) /\ Cardinality(OfCreation(late, x, i)) \in Nat
      /\ Cardinality(Instances(x, i)) \in Nat /\ Doubts(x, i) \in Nat
  BY CountTypes
<1>3. /\ Cardinality(OfCreation(late', x, i)) <= Cardinality(OfCreation(late, x, i))
      /\ Cardinality(OfCreation(late', x, i)) \in Nat
  BY <1>1, <1>2, FS_Subset, FS_CardinalityType
<1>4. Known(x, i)' = Cardinality(Instances(x, i)) + Cardinality(OfCreation(late', x, i))
  BY DEF Known, OfCreation
<1>5. Doubts(x, i)' = Doubts(x, i)
  BY DEF Doubts, OfCreation
<1>6. QED
  BY <1>2, <1>3, <1>4, <1>5 DEF Known

LEMMA InstancesAfter ==
    ASSUME TypeOK, NEW r \in RequestType, Execute(r)
    PROVE  /\ \A x, i : <<r.op, r.of, r.to>> # <<"create", x, i>> => Instances(x, i)' = Instances(x, i)
           /\ \A x, i : \/ Instances(x, i)' = Instances(x, i)
                        \/ Instances(x, i)' = Instances(x, i) \cup {Len(chain) + 1}
<1>1. CASE chain' = chain
  BY <1>1 DEF Instances
<1>2. CASE r.op = "create" /\ chain' = Append(chain, [of |-> r.of, parent |-> r.to, done |-> {}])
  <2> DEFINE n == Len(chain) + 1
  <2>1. r.of \in Templates /\ r.to \in Nat
    BY <1>2, RequestsAre DEF Flags
  <2>2. /\ \A j \in DOMAIN chain : chain'[j] = chain[j]
        /\ DOMAIN chain' = DOMAIN chain \cup {n} /\ n \notin DOMAIN chain
        /\ chain'[n].of = r.of /\ chain'[n].parent = r.to
    BY <1>2, <2>1, CreateIs
  <2> HIDE DEF n
  <2>3. \A x, i : <<r.of, r.to>> # <<x, i>> => Instances(x, i)' = Instances(x, i)
    BY <2>2 DEF Instances
  <2>4. \A x, i : <<r.of, r.to>> = <<x, i>> => Instances(x, i)' = Instances(x, i) \cup {n}
    BY <2>2 DEF Instances
  <2>5. QED
    BY <1>2, <2>3, <2>4 DEF n
<1>3. CASE r.op \in Marks /\ chain' = [chain EXCEPT ![r.to].done = @ \cup {r.op}]
  <2>1. /\ DOMAIN chain' = DOMAIN chain
        /\ \A j \in DOMAIN chain : chain'[j].of = chain[j].of /\ chain'[j].parent = chain[j].parent
    BY <1>3, MarkIs
  <2>2. QED
    BY <2>1 DEF Instances
<1>4. QED
  BY <1>1, <1>2, <1>3, ExecuteIs

LEMMA OneMoreAtMost ==
    ASSUME TypeOK, DoubtInv, NEW r \in RequestType, Execute(r), NEW x, NEW i
    PROVE  /\ Cardinality(Instances(x, i)') \in Nat
           /\ Cardinality(Instances(x, i)') <= Cardinality(Instances(x, i)) + 1
<1>1. IsFiniteSet(Instances(x, i)) /\ Cardinality(Instances(x, i)) \in Nat
  BY CountTypes
<1>2. CASE Instances(x, i)' = Instances(x, i)
  BY <1>1, <1>2
<1>3. CASE Instances(x, i)' = Instances(x, i) \cup {Len(chain) + 1}
  <2>1. PICK S, n : S = Instances(x, i) /\ n = Len(chain) + 1
    OBVIOUS
  <2>2. Cardinality(S \cup {n}) = IF n \in S THEN Cardinality(S) ELSE Cardinality(S) + 1
    BY <1>1, <2>1, FS_AddElement
  <2>3. Instances(x, i)' = S \cup {n}
    BY <1>3, <2>1
  <2>4. QED
    BY <1>1, <2>1, <2>2, <2>3
<1>4. QED
  BY <1>2, <1>3, InstancesAfter

(* A call that was left open counts already when it is executed.           *)
LEMMA LateIsNoNearer ==
    ASSUME TypeOK, DoubtInv, NEW r \in late, Late(r)
    PROVE  NoNearer
<1>1. r.call \in RequestType /\ Execute(r.call) /\ doubtful' = doubtful /\ late' \subseteq late
      /\ r \notin late'
  BY DEF TypeOK, LateCall, Late
<1> SUFFICES ASSUME NEW x, NEW i
             PROVE  Known(x, i)' + Doubts(x, i) <= Known(x, i) + Doubts(x, i)'
  BY DEF NoNearer
<1>2. /\ IsFiniteSet(OfCreation(late, x, i)) /\ Cardinality(OfCreation(late, x, i)) \in Nat
      /\ Cardinality(Instances(x, i)) \in Nat /\ Doubts(x, i) \in Nat
  BY CountTypes
<1>3. Known(x, i)' = Cardinality(Instances(x, i)') + Cardinality(OfCreation(late', x, i))
  BY DEF Known, OfCreation
<1>4. Doubts(x, i)' = Doubts(x, i)
  BY <1>1 DEF Doubts, OfCreation
<1>5. OfCreation(late', x, i) \subseteq OfCreation(late, x, i)
  BY <1>1 DEF OfCreation
<1>6. /\ Cardinality(OfCreation(late', x, i)) <= Cardinality(OfCreation(late, x, i))
      /\ Cardinality(OfCreation(late', x, i)) \in Nat
  BY <1>2, <1>5, FS_Subset, FS_CardinalityType
<1>7. CASE <<r.call.op, r.call.of, r.call.to>> # <<"create", x, i>>
  <2>1. Instances(x, i)' = Instances(x, i)
    BY <1>1, <1>7, InstancesAfter
  <2>2. QED
    BY <1>2, <1>3, <1>4, <1>6, <2>1 DEF Known
<1>8. CASE <<r.call.op, r.call.of, r.call.to>> = <<"create", x, i>>
  <2>1. OfCreation(late', x, i) \subseteq OfCreation(late, x, i) \ {r} /\ r \in OfCreation(late, x, i)
    BY <1>1, <1>8 DEF OfCreation
  <2>2. /\ IsFiniteSet(OfCreation(late, x, i) \ {r})
        /\ Cardinality(OfCreation(late, x, i) \ {r}) = Cardinality(OfCreation(late, x, i)) - 1
    BY <1>2, <2>1, FS_RemoveElement
  <2>3. Cardinality(OfCreation(late', x, i)) <= Cardinality(OfCreation(late, x, i)) - 1
    BY <2>1, <2>2, FS_Subset
  <2>4. /\ Cardinality(Instances(x, i)') \in Nat
        /\ Cardinality(Instances(x, i)') <= Cardinality(Instances(x, i)) + 1
    BY <1>1, OneMoreAtMost
  <2>5. QED
    BY <1>2, <1>3, <1>4, <1>6, <2>3, <2>4 DEF Known
<1>9. QED
  BY <1>7, <1>8

LEMMA NrTypes ==
    TypeOK => timeouts + runs \in Nat /\ \A d \in late \cup doubtful : d.nr \in Nat
<1>1. TypeOK => timeouts + runs \in Nat
  BY NamesAssumption DEF TypeOK
<1>2. TypeOK => \A d \in late \cup doubtful : d.nr \in Nat
  BY DEF TypeOK, LateCall
<1>3. QED
  BY <1>1, <1>2

LEMMA NrTypesThen ==
    TypeOK' => timeouts' + runs' \in Nat
<1>1. TypeOK' => timeouts' \in Nat /\ runs' \in Nat
  BY NamesAssumption DEF TypeOK
<1>2. QED
  BY <1>1

(* A creation that is left open is a new one, and is doubtful.             *)
LEMMA OutstandingIs ==
    ASSUME TypeOK, DoubtInv, proc = "running"
    PROVE  \/ Outstanding = {}
           \/ \E o : /\ Outstanding = {o} /\ o \notin late /\ o \notin doubtful
                     /\ o.nr = timeouts + runs
<1>1. timeouts + runs \in Nat /\ \A d \in late \cup doubtful : d.nr \in Nat
  BY NrTypes, NrTypesThen
<1>2. CASE Sent /\ IsWrite
  <2> DEFINE o == [call |-> Request, nr |-> timeouts + runs]
  <2>1. Outstanding = {o} /\ o.nr = timeouts + runs
    BY <1>2 DEF Outstanding
  <2>2. \A d \in late \cup doubtful : d.nr # o.nr
    BY <1>1, <2>1 DEF DoubtInv
  <2>3. o \notin late /\ o \notin doubtful
    BY <2>2
  <2>4. QED
    BY <2>1, <2>3
<1>3. CASE ~(Sent /\ IsWrite)
  BY <1>3 DEF Outstanding
<1>4. QED
  BY <1>2, <1>3

LEMMA LeftOpenIsNoNearer ==
    ASSUME TypeOK, DoubtInv, proc = "running", LeaveOpen, chain' = chain
    PROVE  NoNearer
<1>1. \A x, i : Instances(x, i)' = Instances(x, i)
  BY DEF Instances
<1>2. CASE Outstanding = {}
  <2>1. late' = late /\ doubtful' = doubtful
    BY <1>2 DEF LeaveOpen
  <2>2. QED
    BY <1>1, <2>1, QuietIsNoNearer
<1>3. ASSUME NEW o, Outstanding = {o}, o \notin late, o \notin doubtful
      PROVE  NoNearer
  <2>1. late' = late \cup {o} /\ doubtful' = IF o.call.op = "create" THEN doubtful \cup {o} ELSE doubtful
    BY <1>3 DEF LeaveOpen
  <2> SUFFICES ASSUME NEW x, NEW i
               PROVE  Known(x, i)' + Doubts(x, i) <= Known(x, i) + Doubts(x, i)'
    BY DEF NoNearer
  <2>2. PICK L, D : L = OfCreation(late, x, i) /\ D = OfCreation(doubtful, x, i)
    OBVIOUS
  <2>3. /\ IsFiniteSet(L) /\ Cardinality(L) \in Nat /\ Cardinality(Instances(x, i)) \in Nat
        /\ IsFiniteSet(D) /\ Cardinality(D) \in Nat
    BY <2>2, CountTypes DEF Doubts
  <2>4. /\ Known(x, i) = Cardinality(Instances(x, i)) + Cardinality(L) /\ Doubts(x, i) = Cardinality(D)
        /\ Known(x, i)' = Cardinality(Instances(x, i)) + Cardinality(OfCreation(late', x, i))
        /\ Doubts(x, i)' = Cardinality(OfCreation(doubtful', x, i))
    BY <1>1, <2>2 DEF Known, Doubts, OfCreation
  <2>5. CASE <<o.call.op, o.call.of, o.call.to>> = <<"create", x, i>>
    <3>1. OfCreation(late', x, i) = L \cup {o} /\ OfCreation(doubtful', x, i) = D \cup {o}
      BY <2>1, <2>2, <2>5 DEF OfCreation
    <3>2. o \notin L /\ o \notin D
      BY <1>3, <2>2 DEF OfCreation
    <3>3. Cardinality(L \cup {o}) = Cardinality(L) + 1 /\ Cardinality(D \cup {o}) = Cardinality(D) + 1
      BY <2>3, <3>2, FS_AddElement
    <3>4. QED
      BY <2>3, <2>4, <3>1, <3>3
  <2>6. CASE <<o.call.op, o.call.of, o.call.to>> # <<"create", x, i>>
    <3>1. OfCreation(late', x, i) = L /\ OfCreation(doubtful', x, i) = D
      BY <2>1, <2>2, <2>6 DEF OfCreation
    <3>2. QED
      BY <2>3, <2>4, <3>1
  <2>7. QED
    BY <2>5, <2>6
<1>4. QED
  BY <1>2, <1>3, OutstandingIs

LEMMA DoubtStays ==
    ASSUME TypeOK, TypeOK', DoubtInv, late' \subseteq late, doubtful' = doubtful,
           timeouts + runs <= timeouts' + runs',
           proc' = "running" => proc = "running" \/ timeouts + runs < timeouts' + runs'
    PROVE  DoubtInv'
<1>1. /\ timeouts + runs \in Nat /\ timeouts' + runs' \in Nat
      /\ \A d \in late \cup doubtful : d.nr \in Nat
  BY NrTypes, NrTypesThen
<1>2. \A d \in late' \cup doubtful' :
          d.nr <= timeouts' + runs' /\ (proc' = "running" => d.nr < timeouts' + runs')
  <2> TAKE d \in late' \cup doubtful'
  <2>1. d.nr <= timeouts + runs /\ (proc = "running" => d.nr < timeouts + runs) /\ d.nr \in Nat
    BY <1>1 DEF DoubtInv
  <2>2. QED
    BY <1>1, <2>1
<1>3. QED
  BY <1>2 DEF DoubtInv

LEMMA DoubtAfterLeaving ==
    ASSUME TypeOK, TypeOK', DoubtInv, proc = "running", LeaveOpen, timeouts + runs <= timeouts' + runs',
           proc' = "running" => timeouts + runs < timeouts' + runs'
    PROVE  DoubtInv'
<1>1. CASE Outstanding = {}
  <2>1. late' = late /\ doubtful' = doubtful
    BY <1>1 DEF LeaveOpen
  <2>2. QED
    BY <2>1, DoubtStays
<1>2. ASSUME NEW o, Outstanding = {o}, o.nr = timeouts + runs
      PROVE  DoubtInv'
  <2>1. late' = late \cup {o} /\ doubtful' = IF o.call.op = "create" THEN doubtful \cup {o} ELSE doubtful
    BY <1>2 DEF LeaveOpen
  <2>2. /\ timeouts + runs \in Nat /\ timeouts' + runs' \in Nat
        /\ \A d \in late \cup doubtful : d.nr \in Nat
    BY NrTypes, NrTypesThen
  <2>3. \A d \in late' \cup doubtful' :
            d.nr <= timeouts' + runs' /\ (proc' = "running" => d.nr < timeouts' + runs')
    <3> TAKE d \in late' \cup doubtful'
    <3>1. CASE d = o
      BY <1>2, <2>2, <3>1
    <3>2. CASE d \in late \cup doubtful
      <4>1. d.nr < timeouts + runs /\ d.nr \in Nat
        BY <2>2, <3>2 DEF DoubtInv
      <4>2. QED
        BY <2>2, <4>1
    <3>3. QED
      BY <2>1, <3>1, <3>2
  <2>4. IsFiniteSet(doubtful')
    BY <2>1, FS_AddElement DEF DoubtInv
  <2>5. /\ \A d \in doubtful' : d.call.op = "create"
        /\ \A l \in late' : l.call.op = "create" => l \in doubtful'
    BY <2>1 DEF DoubtInv
  <2>6. QED
    BY <2>3, <2>4, <2>5 DEF DoubtInv
<1>3. QED
  BY <1>1, <1>2, OutstandingIs

(* Only a search that finds nothing leads to a creation.                   *)
LEMMA NoCreation ==
    /\ \A x \in Templates : Leave(x).op # "create" /\ PartsOf(x).op # "create"
    /\ \A c \in CallType : c.op # "find" => After(c).op # "create"
    /\ \A k \in DOMAIN Sections : FirstCall(Sections[k]).op # "create"
<1>1. \A x, c : c.op # "create" => CloseIfWanted(x, c).op # "create"
  BY CallsAre DEF CloseIfWanted
<1>2. \A p : CloseProject(p).op # "create"
  BY <1>1, CallsAre DEF CloseProject
<1>3. \A s : LeaveSubproject(s).op # "create"
  BY <1>2, CallsAre DEF LeaveSubproject
<1>4. \A s : CloseSubproject(s).op # "create"
  BY <1>1, <1>3 DEF CloseSubproject
<1>5. \A w : LeaveWorkflowitem(w).op # "create"
  BY <1>4, CallsAre DEF LeaveWorkflowitem
<1>6. \A x \in Templates : Leave(x).op # "create"
  <2> TAKE x \in Templates
  <2>1. x \in Workflowitems => Leave(x) = LeaveWorkflowitem(x)
    BY Levels DEF Leave
  <2>2. x \in Subprojects => Leave(x) = LeaveSubproject(x)
    BY Levels DEF Leave
  <2>3. x \notin Subprojects /\ x \notin Workflowitems => Leave(x) = NoCall
    BY DEF Leave
  <2>4. QED
    BY <1>3, <1>5, <2>1, <2>2, <2>3, CallsAre
<1>7. \A x \in Templates : PartsOf(x).op # "create"
  BY <1>1, <1>6, CallsAre DEF PartsOf, Close
<1>8. ASSUME NEW c \in CallType, c.op # "find"
      PROVE  After(c).op # "create"
  <2>1. CASE c.op \in {"create", "refetch", "update", "assign", "provisioned", "createUser"}
    BY <2>1, CallsAre DEF After
  <2>2. CASE c.op = "login"
    BY <2>2, CallsAre DEF After
  <2>3. CASE c.op \in {"grant", "close"}
    <3>1. c.of \in Templates
      BY <2>3, CallsAre DEF Flags
    <3>2. QED
      BY <1>6, <1>7, <2>3, <3>1 DEF After
  <2>4. CASE c.op \in {"none", "grantAll", "createGroup", "start", "end"}
    BY <2>4, CallsAre DEF After
  <2>5. QED
    BY <1>8, <2>1, <2>2, <2>3, <2>4, CallsAre DEF Marks, Flags
<1>9. ASSUME NEW k \in DOMAIN Sections
      PROVE  FirstCall(Sections[k]).op # "create"
  BY CallsAre DEF FirstCall
<1>10. QED
  BY <1>6, <1>7, <1>8, <1>9

LEMMA NotCreating ==
    ASSUME call'.op # "create" \/ proc' # "running"
    PROVE  CreateInv'
  BY DEF CreateInv

LEMMA StillCreating ==
    ASSUME TypeOK, DoubtInv, DoubtInv', TypeOK', CreateInv, NoNearer, UNCHANGED <<found, call>>,
           proc' = "running" => proc = "running"
    PROVE  CreateInv'
<1> SUFFICES ASSUME proc' = "running", call'.op = "create", NEW i \in Nat, i = Above(call.of)'
             PROVE  (Known(call.of, i) <= Doubts(call.of, i))'
  BY DEF CreateInv
<1>1. PICK x : x = call.of
  OBVIOUS
<1>2. i = Above(x)
  BY <1>1 DEF Above
<1>3. Known(x, i) <= Doubts(x, i)
  BY <1>1, <1>2 DEF CreateInv
<1>4. Known(x, i)' + Doubts(x, i) <= Known(x, i) + Doubts(x, i)'
  BY DEF NoNearer
<1>5. Known(x, i) \in Nat /\ Doubts(x, i) \in Nat
  BY CountsAre
<1>6. Known(x, i)' \in Nat /\ Doubts(x, i)' \in Nat
  BY CountsAreThen
<1>7. Known(x, i)' <= Doubts(x, i)'
  BY <1>3, <1>4, <1>5, <1>6
<1>8. x = call'.of
  BY <1>1
<1>9. QED
  BY <1>7, <1>8 DEF Known, Doubts, OfCreation, Instances

(* A search that finds nothing.                                            *)
LEMMA CreatingAfterFind ==
    ASSUME TypeOK, DoubtInv, Find
    PROVE  CreateInv'
<1>1. PICK x, i : x = call.of /\ i = Found(x, Above(x))
  OBVIOUS
<1>2. /\ IsSearch /\ chain' = chain /\ late' = late /\ doubtful' = doubtful
      /\ found' = [found EXCEPT ![x] = i] /\ call' = AfterFind(call, i)
  BY <1>1 DEF Find, GoOnWith
<1>3. x \in Templates /\ call \in CallType /\ call.op \in {"find", "refetch"}
  BY <1>1, <1>2, CallsAre DEF TypeOK, IsSearch, Flags
<1>4. CASE i # 0 \/ call.op # "find"
  <2>1. Call("refetch", x) \in CallType /\ Call("refetch", x).op # "find" /\ Call("refetch", x).op # "create"
    BY <1>3, CallsAre
  <2>2. \/ call' = After(call) /\ call.op # "find"
        \/ call' = Leave(x)
        \/ call' = Call("refetch", x)
        \/ call' = After(Call("refetch", x))
    BY <1>1, <1>2, <1>4 DEF AfterFind
  <2>3. call'.op # "create"
    BY <1>3, <2>1, <2>2, NoCreation
  <2>4. QED
    BY <2>3, NotCreating
<1>5. CASE i = 0 /\ call.op = "find"
  <2>1. call' = Call("create", x)
    BY <1>1, <1>2, <1>5 DEF AfterFind, After
  <2>2. x \in Range(Projects) \/ Parent(x) # x
    BY <1>3, Levels
  <2>3. Above(x)' = Above(x)
    BY <1>2, <1>3, <2>2, AboveStays DEF FoundElsewhere, TypeOK
  <2>4. 0 \notin Instances(x, Above(x))
    BY DEF Instances, TypeOK
  <2>5. Instances(x, Above(x)) = {}
    BY <1>1, <1>5, <2>4, FoundIs
  <2> SUFFICES ASSUME NEW j \in Nat, j = Above(x)'
               PROVE  Known(x, j)' <= Doubts(x, j)'
    BY <2>1, CallsAre DEF CreateInv, Known, Doubts, OfCreation, Instances, Above
  <2>6. Cardinality(Instances(x, j)) = 0
    BY <2>3, <2>5, FS_EmptySet
  <2>7. /\ Cardinality(OfCreation(late, x, j)) <= Doubts(x, j)
        /\ Cardinality(OfCreation(late, x, j)) \in Nat
    BY CountTypes
  <2>8. Known(x, j) <= Doubts(x, j)
    BY <2>6, <2>7 DEF Known
  <2>9. QED
    BY <1>2, <2>8 DEF Known, Doubts, OfCreation, Instances
<1>6. QED
  BY <1>4, <1>5

(* A creation that is answered was not known before.                       *)
LEMMA CountAfterWrite ==
    ASSUME TypeOK, CountInv, Write, NEW x \in Templates, NEW i \in Nat
    PROVE  Known(x, i)' <= 1 + Doubts(x, i)'
<1>1. DoubtInv /\ CreateInv /\ Known(x, i) <= 1 + Doubts(x, i)
  BY DEF CountInv
<1>2. /\ Request \in RequestType /\ Execute(Request) /\ Running /\ late' \subseteq late
      /\ doubtful' = doubtful /\ proc = "running"
  BY RequestTypes DEF Write, Sent, Running
<1>3. Known(x, i) \in Nat /\ Doubts(x, i) \in Nat /\ Cardinality(Instances(x, i)) \in Nat
      /\ IsFiniteSet(OfCreation(late, x, i)) /\ Cardinality(OfCreation(late, x, i)) \in Nat
  BY <1>1, CountsAre, CountTypes
<1>4. Doubts(x, i)' = Doubts(x, i)
  BY <1>2 DEF Doubts, OfCreation
<1>5. Known(x, i)' = Cardinality(Instances(x, i)') + Cardinality(OfCreation(late', x, i))
  BY DEF Known, OfCreation
<1>6. OfCreation(late', x, i) \subseteq OfCreation(late, x, i)
  BY <1>2 DEF OfCreation
<1>7. /\ Cardinality(OfCreation(late', x, i)) <= Cardinality(OfCreation(late, x, i))
      /\ Cardinality(OfCreation(late', x, i)) \in Nat
  BY <1>3, <1>6, FS_Subset, FS_CardinalityType
<1>8. CASE <<Request.op, Request.of, Request.to>> # <<"create", x, i>>
  <2>1. Instances(x, i)' = Instances(x, i)
    BY <1>2, <1>8, InstancesAfter
  <2>2. QED
    BY <1>1, <1>3, <1>4, <1>5, <1>7, <2>1 DEF Known
<1>9. CASE <<Request.op, Request.of, Request.to>> = <<"create", x, i>>
  <2>1. call.op = "create" /\ call.of = x /\ i = Above(x)
    BY <1>2, <1>9, RequestTypes
  <2>2. Known(x, i) <= Doubts(x, i)
    BY <1>1, <1>2, <2>1 DEF CreateInv
  <2>3. /\ Cardinality(Instances(x, i)') \in Nat
        /\ Cardinality(Instances(x, i)') <= Cardinality(Instances(x, i)) + 1
    BY <1>1, <1>2, OneMoreAtMost
  <2>4. QED
    BY <1>3, <1>4, <1>5, <1>7, <2>2, <2>3 DEF Known
<1>10. QED
  BY <1>8, <1>9

(* What a step keeps that comes no nearer to a duplicate.                  *)
LEMMA CountStays ==
    ASSUME CountInv, TypeOK, TypeOK', NoNearer, DoubtInv'
    PROVE  \A x \in Templates, i \in Nat : Known(x, i)' <= 1 + Doubts(x, i)'
<1> SUFFICES ASSUME NEW x \in Templates, NEW i \in Nat
             PROVE  Known(x, i)' <= 1 + Doubts(x, i)'
  OBVIOUS
<1>1. DoubtInv /\ Known(x, i) <= 1 + Doubts(x, i)
  BY DEF CountInv
<1>2. /\ Known(x, i) \in Nat /\ Doubts(x, i) \in Nat
      /\ Known(x, i)' \in Nat /\ Doubts(x, i)' \in Nat
  BY <1>1, CountsAre, CountsAreThen
<1>3. Known(x, i)' + Doubts(x, i) <= Known(x, i) + Doubts(x, i)'
  BY DEF NoNearer
<1>4. QED
  BY <1>1, <1>2, <1>3

LEMMA CountInvThen ==
    ASSUME DoubtInv', \A x \in Templates, i \in Nat : Known(x, i)' <= 1 + Doubts(x, i)', CreateInv'
    PROVE  CountInv'
  BY DEF CountInv

(* When nothing is made or left open, and nobody starts to create.         *)
LEMMA QuietCount ==
    ASSUME CountInv, TypeOK, TypeOK', UNCHANGED <<chain, late, doubtful>>,
           timeouts + runs <= timeouts' + runs',
           proc' = "running" => proc = "running" \/ timeouts + runs < timeouts' + runs',
           \/ call'.op # "create"
           \/ proc' # "running"
           \/ UNCHANGED <<found, call>> /\ proc = "running"
           \/ CreateInv'
    PROVE  CountInv'
<1>1. DoubtInv /\ CreateInv
  BY DEF CountInv
<1>2. DoubtInv'
  BY <1>1, DoubtStays
<1>3. NoNearer
  BY <1>1, QuietIsNoNearer DEF Instances
<1>4. \A x \in Templates, i \in Nat : Known(x, i)' <= 1 + Doubts(x, i)'
  BY <1>2, <1>3, CountStays
<1>5. CreateInv'
  BY <1>1, <1>2, <1>3, NotCreating, StillCreating
<1>6. QED
  BY <1>2, <1>4, <1>5, CountInvThen

LEMMA FailedCreating ==
    ASSUME Failed
    PROVE  \/ call'.op # "create"
           \/ proc' # "running"
           \/ UNCHANGED <<found, call, proc>>
<1>1. CASE IsSearch /\ call.of \in Range(Projects)
  BY <1>1 DEF Failed
<1>2. CASE ~(IsSearch /\ call.of \in Range(Projects)) /\ tries = 0
  BY <1>2, CallsAre DEF Failed, GiveUp, GoOnWith
<1>3. CASE ~(IsSearch /\ call.of \in Range(Projects)) /\ tries # 0
  BY <1>3 DEF Failed, Retry
<1>4. QED
  BY <1>1, <1>2, <1>3

LEMMA CountStep == CountInv /\ TypeOK /\ [Next]_vars => CountInv'
<1> SUFFICES ASSUME CountInv, TypeOK, [Next]_vars
             PROVE  CountInv'
  OBVIOUS
<1>1. TypeOK' /\ DoubtInv /\ CreateInv /\ call \in CallType /\ timeouts + runs \in Nat
  BY TypeStep, NrTypes DEF CountInv, TypeOK
<1>2. CASE LogIn
  <2>1. call'.op # "create"
    BY <1>1, <1>2, NoCreation DEF LogIn, GoOnWith
  <2>2. QED
    BY <1>1, <1>2, <2>1, QuietCount DEF LogIn, faults
<1>3. CASE CheckProvisionState
  <2>1. call'.op # "create" \/ proc' # "running"
    BY <1>1, <1>3, NoCreation DEF CheckProvisionState, GoOnWith
  <2>2. UNCHANGED <<chain, late, doubtful, timeouts, runs>> /\ proc = "running"
    BY <1>3 DEF CheckProvisionState, faults, Sent, Running
  <2>3. QED
    BY <1>1, <2>1, <2>2, QuietCount
<1>4. CASE Find
  <2>1. CreateInv'
    BY <1>1, <1>4, CreatingAfterFind
  <2>2. QED
    BY <1>1, <1>4, <2>1, QuietCount DEF Find, faults
<1>5. CASE Write
  <2>1. \A x \in Templates, i \in Nat : Known(x, i)' <= 1 + Doubts(x, i)'
    BY <1>5, CountAfterWrite
  <2>2. late' \subseteq late /\ UNCHANGED <<doubtful, timeouts, runs>> /\ proc = "running"
    BY <1>5 DEF Write, faults, Sent, Running
  <2>3. DoubtInv'
    BY <1>1, <2>2, DoubtStays
  <2>4. call'.op # "create" \/ proc' # "running"
    <3>1. CASE AlreadyExists(Request) /\ tries = 0
      BY <1>5, <3>1, CallsAre DEF Write, GiveUp, GoOnWith
    <3>2. CASE ~(AlreadyExists(Request) /\ tries = 0)
      BY <1>1, <1>5, <3>2, NoCreation DEF Write, GoOnWith, IsWrite, IsSearch
    <3>3. QED
      BY <3>1, <3>2
  <2>5. QED
    BY <2>1, <2>3, <2>4, NotCreating, CountInvThen
<1>6. CASE IsRefused
  <2>1. UNCHANGED <<chain, late, doubtful, timeouts, runs>> /\ proc = "running" /\ Failed
    BY <1>6 DEF IsRefused, faults, Sent, Running
  <2>2. QED
    BY <1>1, <2>1, FailedCreating, QuietCount
<1>7. CASE TokenIsRefused
  <2>1. UNCHANGED <<chain, late, doubtful, timeouts, runs>> /\ proc = "running" /\ Failed
    BY <1>7 DEF TokenIsRefused, faults, Running
  <2>2. QED
    BY <1>1, <2>1, FailedCreating, QuietCount
<1>8. CASE NextSection
  <2>1. call'.op # "create" \/ proc' # "running"
    <3>1. CASE section = Len(Sections)
      BY <1>8, <3>1 DEF NextSection
    <3>2. CASE section # Len(Sections)
      <4>1. section' \in DOMAIN Sections /\ call' = FirstCall(Sections[section'])
        BY <1>1, <1>8, <3>2 DEF NextSection, GoOnWith, TypeOK
      <4>2. QED
        BY <4>1, NoCreation
    <3>3. QED
      BY <3>1, <3>2
  <2>2. UNCHANGED <<chain, late, doubtful, timeouts, runs>> /\ proc = "running"
    BY <1>8 DEF NextSection, faults
  <2>3. QED
    BY <1>1, <2>1, <2>2, QuietCount
<1>9. CASE Refreshed
  BY <1>1, <1>9, QuietCount DEF Refreshed, faults
<1>10. CASE Unanswered
  <2>1. /\ LeaveOpen /\ chain' = chain /\ Failed /\ proc = "running"
        /\ timeouts' = timeouts + 1 /\ runs' = runs
    BY <1>10 DEF Unanswered, Running
  <2>2. timeouts + runs < timeouts' + runs'
    BY <1>1, <2>1, NamesAssumption DEF TypeOK
  <2>3. DoubtInv' /\ NoNearer
    BY <1>1, <2>1, <2>2, DoubtAfterLeaving, LeftOpenIsNoNearer, NrTypesThen
  <2>4. CreateInv'
    BY <1>1, <2>1, <2>3, FailedCreating, NotCreating, StillCreating
  <2>5. QED
    BY <1>1, <2>3, <2>4, CountStays, CountInvThen
<1>11. CASE Dies
  <2>1. /\ LeaveOpen /\ chain' = chain /\ proc = "running" /\ proc' = "over"
        /\ timeouts' = timeouts /\ runs' = runs
    BY <1>11 DEF Dies, Running, faults
  <2>2. DoubtInv' /\ NoNearer
    BY <1>1, <2>1, DoubtAfterLeaving, LeftOpenIsNoNearer
  <2>3. CreateInv'
    BY <2>1, NotCreating
  <2>4. QED
    BY <1>1, <2>2, <2>3, CountStays, CountInvThen
<1>12. CASE Restart
  <2>1. call'.op # "create"
    BY <1>12, SectionsAre, NoCreation DEF Restart, GoOnWith
  <2>2. timeouts + runs < timeouts' + runs'
    BY <1>1, <1>12, NamesAssumption DEF Restart, TypeOK
  <2>3. timeouts + runs <= timeouts' + runs'
    BY <1>1, <2>2, NrTypesThen
  <2>4. QED
    BY <1>1, <1>12, <2>1, <2>2, <2>3, QuietCount DEF Restart
<1>13. CASE ApiRestarts
  <2>1. UNCHANGED <<chain, late, doubtful, timeouts, runs, proc, found, call>>
    BY <1>13 DEF ApiRestarts
  <2>2. proc = "running" \/ proc' # "running"
    BY <2>1
  <2>3. QED
    BY <1>1, <2>1, <2>2, QuietCount
<1>14. ASSUME NEW r \in late, Late(r)
       PROVE  CountInv'
  <2>1. NoNearer
    BY <1>1, <1>14, LateIsNoNearer
  <2>2. late' \subseteq late /\ UNCHANGED <<doubtful, timeouts, runs, proc, found, call>>
    BY <1>14 DEF Late, client, faults
  <2>3. DoubtInv'
    BY <1>1, <2>2, DoubtStays
  <2>4. CreateInv'
    BY <1>1, <2>1, <2>2, <2>3, StillCreating
  <2>5. QED
    BY <1>1, <2>1, <2>3, <2>4, CountStays, CountInvThen
<1>15. CASE UNCHANGED vars
  <2>1. UNCHANGED <<chain, late, doubtful, timeouts, runs, proc, found, call>>
    BY <1>15 DEF vars, client, faults
  <2>2. proc = "running" \/ proc' # "running"
    BY <2>1
  <2>3. QED
    BY <1>1, <2>1, <2>2, QuietCount
<1>16. QED
  BY <1>2, <1>3, <1>4, <1>5, <1>6, <1>7, <1>8, <1>9, <1>10, <1>11, <1>12, <1>13, <1>14, <1>15
     DEF Next, Step

LEMMA CountInit == Init => CountInv
<1> SUFFICES ASSUME Init
             PROVE  CountInv
  OBVIOUS
<1>1. DOMAIN chain = {} /\ late = {} /\ doubtful = {}
  BY DEF Init
<1>2. DoubtInv
  BY <1>1, FS_EmptySet DEF DoubtInv
<1>3. \A x, i : Known(x, i) = 0 /\ Doubts(x, i) = 0
  <2>1. \A x, i : /\ Instances(x, i) = {} /\ OfCreation(late, x, i) = {}
                  /\ OfCreation(doubtful, x, i) = {}
    BY <1>1 DEF Instances, OfCreation
  <2>2. QED
    BY <2>1, FS_EmptySet DEF Known, Doubts
<1>4. QED
  BY <1>2, <1>3 DEF CountInv, CreateInv

(* A resource is there once, and once more at most for each creation of it *)
(* that was not answered: no run makes again what it can find, however     *)
(* calls are repeated, executed late or made by a second run.              *)
THEOREM DuplicatesHaveACause == Spec => []DuplicatesNeedTimeouts
<1>1. TypeOK /\ CountInv => DuplicatesNeedTimeouts
  <2> SUFFICES ASSUME TypeOK, CountInv, NEW x \in Templates, NEW i \in 0..Len(chain)
               PROVE  Cardinality(Instances(x, i)) <=
                        1 + Cardinality({d \in doubtful : d.call.of = x /\ d.call.to = i})
    BY DEF DuplicatesNeedTimeouts
  <2>1. Known(x, i) <= 1 + Doubts(x, i)
    BY DEF CountInv, TypeOK
  <2>2. {d \in doubtful : d.call.of = x /\ d.call.to = i} = OfCreation(doubtful, x, i)
    BY DEF CountInv, DoubtInv, OfCreation
  <2>3. /\ Cardinality(Instances(x, i)) \in Nat /\ Cardinality(OfCreation(late, x, i)) \in Nat
        /\ Doubts(x, i) \in Nat
    BY CountTypes DEF CountInv
  <2>4. Cardinality(Instances(x, i)) <= 1 + Doubts(x, i)
    BY <2>1, <2>3 DEF Known
  <2>5. Cardinality({d \in doubtful : d.call.of = x /\ d.call.to = i}) = Doubts(x, i)
    BY <2>2 DEF Doubts
  <2>6. QED
    BY <2>4, <2>5
<1>2. QED
  BY <1>1, CountInit, CountStep, TypeCorrect, PTL DEF Spec

-----------------------------------------------------------------------------
(* What a first run has closed lies behind it.                             *)

LEMMA BeforeTwice ==
    ASSUME NEW x, NEW y, NEW z, Before(x, y), Before(y, z)
    PROVE  Before(x, z)
<1>1. PICK q \in Templates : \E j, k \in DOMAIN ChildrenOf[q] :
          j < k /\ ChildrenOf[q][j] = x /\ ChildrenOf[q][k] = y
  BY DEF Before
<1>2. PICK j \in DOMAIN ChildrenOf[q], k \in DOMAIN ChildrenOf[q] :
          j < k /\ ChildrenOf[q][j] = x /\ ChildrenOf[q][k] = y
  BY <1>1
<1>3. PICK r \in Templates : \E m, n \in DOMAIN ChildrenOf[r] :
          m < n /\ ChildrenOf[r][m] = y /\ ChildrenOf[r][n] = z
  BY DEF Before
<1>4. PICK m \in DOMAIN ChildrenOf[r], n \in DOMAIN ChildrenOf[r] :
          m < n /\ ChildrenOf[r][m] = y /\ ChildrenOf[r][n] = z
  BY <1>3
<1>5. PlaceOf(y) = k /\ Parent(y) = q
  BY <1>2, PlaceIs
<1>6. PlaceOf(y) = m /\ Parent(y) = r
  BY <1>4, PlaceIs
<1>7. r = q /\ m = k
  BY <1>5, <1>6
<1>8. j \in Nat /\ k \in Nat /\ n \in Nat
  BY <1>7, ChildrenAre
<1>9. j < n
  BY <1>2, <1>4, <1>7, <1>8
<1>10. QED
  BY <1>2, <1>4, <1>7, <1>9 DEF Before

(* The templates all of whose calls come after w.                          *)
Ahead(w, x) ==
    \/ x \in Subprojects /\ Before(Parent(w), x)
    \/ x \in Workflowitems /\ Before(Parent(w), Parent(x))
    \/ x \in Workflowitems /\ Before(w, x)

LEMMA AheadComesAfter ==
    \A w, x, op : Ahead(w, x) => ComesAfter(w, Call(op, x))
  BY CallsAre DEF Ahead, ComesAfter

LEMMA LeavingComesAfter ==
    ASSUME NEW w \in Workflowitems
    PROVE  /\ ComesAfter(w, NoCall)
           /\ \A p \in Range(Projects) : ComesAfter(w, CloseProject(p))
           /\ \A s \in Subprojects : s = Parent(w) \/ Before(Parent(w), s) =>
                 ComesAfter(w, LeaveSubproject(s)) /\ ComesAfter(w, CloseSubproject(s))
           /\ \A x \in Workflowitems : x = w \/ Ahead(w, x) => ComesAfter(w, LeaveWorkflowitem(x))
           /\ \A x \in Templates : \/ x \in Range(Projects)
                                   \/ x = Parent(w)
                                   \/ x = w
                                   \/ Ahead(w, x)
                 => ComesAfter(w, Leave(x))
<1>1. ComesAfter(w, NoCall)
  BY CallsAre, NamesAreNoTemplates DEF ComesAfter
<1>2. \A p \in Range(Projects) : ComesAfter(w, CloseProject(p))
  BY <1>1, CallsAre DEF CloseProject, CloseIfWanted, ComesAfter
<1>3. ASSUME NEW s \in Subprojects, s = Parent(w) \/ Before(Parent(w), s)
      PROVE  ComesAfter(w, LeaveSubproject(s)) /\ ComesAfter(w, CloseSubproject(s))
  <2>1. s \in Templates /\ s \notin Range(Projects) /\ Parent(s) \in Range(Projects)
    BY Levels
  <2>2. ASSUME ~IsLastOne(s)
        PROVE  ComesAfter(w, Call("find", NextSibling(s)))
    <3>1. /\ NextSibling(s) \in Range(ChildrenOf[Parent(s)]) /\ Before(s, NextSibling(s))
      BY <2>1, <2>2, SiblingIs
    <3>2. NextSibling(s) \in Subprojects /\ Before(Parent(w), NextSibling(s))
      BY <1>3, <2>1, <3>1, Levels, BeforeTwice
    <3>3. QED
      BY <3>2, AheadComesAfter DEF Ahead
  <2>3. ComesAfter(w, LeaveSubproject(s))
    BY <1>2, <2>1, <2>2 DEF LeaveSubproject
  <2>4. ComesAfter(w, Call("assign", s))
    BY <1>3, CallsAre DEF ComesAfter
  <2>5. QED
    BY <2>3, <2>4 DEF CloseSubproject, CloseIfWanted
<1>4. ASSUME NEW x \in Workflowitems, x = w \/ Ahead(w, x)
      PROVE  ComesAfter(w, LeaveWorkflowitem(x))
  <2>1. /\ x \in Templates /\ x \notin Range(Projects) /\ x \notin Subprojects
        /\ Parent(x) \in Subprojects /\ Parent(x) \in Templates
    BY Levels
  <2>2. x = w \/ Before(w, x) \/ Before(Parent(w), Parent(x))
    BY <1>4, <2>1 DEF Ahead
  <2>3. ASSUME ~IsLastOne(x)
        PROVE  ComesAfter(w, Call("find", NextSibling(x)))
    <3>1. /\ NextSibling(x) \in Range(ChildrenOf[Parent(x)]) /\ Before(x, NextSibling(x))
          /\ Parent(NextSibling(x)) = Parent(x)
      BY <2>1, <2>3, SiblingIs
    <3>2. NextSibling(x) \in Workflowitems
      BY <2>1, <3>1, Levels
    <3>3. Before(w, NextSibling(x)) \/ Before(Parent(w), Parent(NextSibling(x)))
      BY <2>2, <3>1, BeforeTwice
    <3>4. QED
      BY <3>2, <3>3, AheadComesAfter DEF Ahead
  <2>4. Parent(x) = Parent(w) \/ Before(Parent(w), Parent(x))
    BY <2>2, BeforeIs
  <2>5. QED
    BY <1>3, <2>1, <2>3, <2>4 DEF LeaveWorkflowitem
<1>5. ASSUME NEW x \in Templates, \/ x \in Range(Projects)
                                  \/ x = Parent(w)
                                  \/ x = w
                                  \/ Ahead(w, x)
      PROVE  ComesAfter(w, Leave(x))
  <2>1. CASE x \in Range(Projects)
    BY <1>1, <2>1, Levels DEF Leave
  <2>2. CASE x \in Subprojects
    <3>1. x # w /\ x \notin Range(Projects) /\ x \notin Workflowitems /\ Leave(x) = LeaveSubproject(x)
      BY <2>2, Levels DEF Leave
    <3>2. x = Parent(w) \/ Before(Parent(w), x)
      BY <1>5, <3>1 DEF Ahead
    <3>3. QED
      BY <1>3, <2>2, <3>1, <3>2
  <2>3. CASE x \in Workflowitems
    <3>1. x \notin Range(Projects) /\ x \notin Subprojects /\ Parent(w) \in Subprojects
          /\ Leave(x) = LeaveWorkflowitem(x)
      BY <2>3, Levels DEF Leave
    <3>2. QED
      BY <1>4, <1>5, <2>3, <3>1
  <2>4. QED
    BY <2>1, <2>2, <2>3, Levels
<1>6. QED
  BY <1>1, <1>2, <1>3, <1>4, <1>5

LEMMA AheadGoesOn ==
    ASSUME NEW w \in Workflowitems, NEW x \in Templates, Ahead(w, x), NEW c \in CallType, c.of = x
    PROVE  /\ ComesAfter(w, After(c))
           /\ c.op \in {"find", "refetch"} => \A i : ComesAfter(w, AfterFind(c, i))
<1>1. ComesAfter(w, Leave(x))
  BY LeavingComesAfter
<1>2. \A op : ComesAfter(w, Call(op, x))
  BY AheadComesAfter
<1>3. ComesAfter(w, Close(x))
  BY <1>1, <1>2 DEF Close, CloseIfWanted
<1>4. ComesAfter(w, PartsOf(x))
  <2>1. CASE ChildrenOf[x] = <<>>
    BY <1>3, <2>1 DEF PartsOf
  <2>2. CASE ChildrenOf[x] # <<>>
    <3> DEFINE y == Head(ChildrenOf[x])
    <3>1. y \in Range(ChildrenOf[x])
      BY <2>2, FirstPart
    <3>2. Parent(y) = x
      BY <3>1, ParentIs
    <3>3. x \in Subprojects
      BY <3>1, Levels DEF Ahead
    <3>4. y \in Workflowitems /\ Before(Parent(w), Parent(y))
      BY <3>1, <3>2, <3>3, Levels DEF Ahead
    <3>5. ComesAfter(w, Call("find", y))
      BY <3>4, AheadComesAfter DEF Ahead
    <3>6. QED
      BY <2>2, <3>5 DEF PartsOf
  <2>3. QED
    BY <2>1, <2>2
<1>5. \A d \in CallType : d.of = x => ComesAfter(w, After(d))
  <2> TAKE d \in CallType
  <2> HAVE d.of = x
  <2>1. d.op \in Marks \cup {"find", "create", "refetch"}
    BY CallsAre
  <2>2. CASE d.op \in {"find", "create", "refetch", "update", "assign"}
    BY <1>2, <2>2 DEF After
  <2>3. CASE d.op = "grant"
    BY <1>4, <2>3 DEF After
  <2>4. CASE d.op = "close"
    BY <1>1, <2>4 DEF After
  <2>5. QED
    BY <2>1, <2>2, <2>3, <2>4 DEF Marks
<1>6. Call("refetch", x) \in CallType /\ Call("refetch", x).of = x
  BY CallsAre
<1>7. c.op \in {"find", "refetch"} => \A i : ComesAfter(w, AfterFind(c, i))
  BY <1>1, <1>2, <1>5, <1>6 DEF AfterFind
<1>8. QED
  BY <1>5, <1>7

LEMMA GoesOn ==
    ASSUME NEW w \in Workflowitems, NEW c \in CallType, ComesAfter(w, c)
    PROVE  /\ ComesAfter(w, After(c))
           /\ c.op \in {"find", "refetch"} => \A i : ComesAfter(w, AfterFind(c, i))
<1>1. /\ w \in Templates /\ Parent(w) \in Subprojects /\ Parent(w) \in Templates
      /\ Parent(w) \notin Range(Projects) /\ Parent(w) \notin Workflowitems /\ w \notin Subprojects
      /\ w \notin Range(Projects)
  BY Levels
<1>2. CASE c.of \notin Templates
  <2>1. c.op \in Flags \cup {"none", "login", "provisioned"} /\ c.op \notin {"find", "refetch"}
    BY <1>2, CallsAre DEF Flags
  <2>2. After(c).of \notin Templates
    BY <1>2, <2>1, CallsAre, NamesAreNoTemplates DEF After, Flags
  <2>3. QED
    BY <2>1, <2>2 DEF ComesAfter
<1>3. CASE c.of \in Templates /\ Ahead(w, c.of)
  BY <1>3, AheadGoesOn
<1>4. CASE /\ c.of \in Templates /\ c.op \in {"assign", "close"}
           /\ c.of \in Range(Projects) \/ c.of = Parent(w)
  <2>1. ComesAfter(w, Call("close", c.of)) /\ ComesAfter(w, Leave(c.of))
    BY <1>1, <1>4, CallsAre, LeavingComesAfter DEF ComesAfter
  <2>2. QED
    BY <1>4, <2>1 DEF After
<1>5. CASE c.of = w /\ c.op = "close"
  <2>1. ComesAfter(w, Leave(w))
    BY <1>1, LeavingComesAfter
  <2>2. QED
    BY <1>5, <2>1 DEF After
<1>6. QED
  BY <1>2, <1>3, <1>4, <1>5 DEF ComesAfter, Ahead

LEMMA BehindStays ==
    ASSUME NEW w \in Workflowitems, Behind(w), section' = section,
           ComesAfter(w, call) => ComesAfter(w, call')
    PROVE  Behind(w)'
  BY DEF Behind, ComesAfter

BehindKept == proc' = "running" => \A w \in Workflowitems : Behind(w) => Behind(w)'

LEMMA BehindAfter ==
    ASSUME TypeOK, section' = section,
           \/ proc' # "running"
           \/ call' = call
           \/ call' = NoCall
           \/ call' = After(call)
           \/ call.op \in {"find", "refetch"} /\ \E i : call' = AfterFind(call, i)
    PROVE  BehindKept
<1> SUFFICES ASSUME proc' = "running", NEW w \in Workflowitems, Behind(w)
             PROVE  Behind(w)'
  BY DEF BehindKept
<1>1. call \in CallType
  BY DEF TypeOK
<1>2. ASSUME ComesAfter(w, call)
      PROVE  ComesAfter(w, call')
  BY <1>1, <1>2, GoesOn, LeavingComesAfter
<1>3. QED
  BY <1>2, BehindStays

LEMMA BehindAfterFailure ==
    ASSUME TypeOK, Failed
    PROVE  BehindKept
<1>1. section' = section
  BY DEF Failed
<1>2. proc' # "running" \/ call' = call \/ call' = NoCall
  BY DEF Failed, GiveUp, Retry, GoOnWith
<1>3. QED
  BY <1>1, <1>2, BehindAfter

LEMMA BehindAfterSection ==
    ASSUME TypeOK, NextSection
    PROVE  BehindKept
<1> SUFFICES ASSUME proc' = "running", NEW w \in Workflowitems, Behind(w)
             PROVE  Behind(w)'
  BY DEF BehindKept
<1>1. section' = section + 1 /\ section \in Nat /\ section > 0
  BY SectionsAre DEF NextSection, TypeOK
<1>2. section' - 1 = section /\ section \in 1..section
  BY <1>1
<1>3. PICK k \in 1..section : Sections[k] = Parent(Parent(w))
  <2>1. CASE \E k \in 1..(section - 1) : Sections[k] = Parent(Parent(w))
    <3>1. PICK k \in 1..(section - 1) : Sections[k] = Parent(Parent(w))
      BY <2>1
    <3>2. k \in 1..section
      BY <1>1
    <3>3. QED
      BY <3>1, <3>2
  <2>2. CASE Sections[section] = Parent(Parent(w))
    BY <1>2, <2>2
  <2>3. QED
    BY <2>1, <2>2 DEF Behind
<1>4. QED
  BY <1>2, <1>3 DEF Behind

LEMMA RequestIsBehind ==
    ASSUME IInv, Running, call.op = "close", call.of \in Workflowitems
    PROVE  Behind(call.of)
<1>1. PICK w \in Workflowitems : w = call.of
  OBVIOUS
<1>2. w \in Templates
  BY Levels
<1>3. AtTemplate("close", w)
  BY <1>1, <1>2 DEF IInv, ProcessInv, Running, At
<1>4. EntersWorkflowitem(w)
  BY <1>3 DEF AtTemplate, Enters
<1>5. Sections[section] = Parent(Parent(w))
  BY <1>4 DEF EntersWorkflowitem, EntersSubproject, EntersProject
<1>6. QED
  BY <1>1, <1>5 DEF Behind, ComesAfter

LEMMA ClosedBefore ==
    ASSUME TypeOK, NEW r \in RequestType, Justified(r), Execute(r),
           NEW i \in DOMAIN chain', "close" \in chain'[i].done
    PROVE  \/ i \in DOMAIN chain /\ Has(i, "close") /\ chain'[i].of = chain[i].of
           \/ r.op = "close" /\ chain'[i].of = r.of
<1>1. CASE chain' = chain
  BY <1>1 DEF Has
<1>2. CASE r.op = "create" /\ chain' = Append(chain, [of |-> r.of, parent |-> r.to, done |-> {}])
  <2>1. r.of \in Templates /\ r.to \in Nat
    BY <1>2, RequestsAre DEF Flags
  <2>2. /\ DOMAIN chain' = DOMAIN chain \cup {Len(chain) + 1} /\ chain'[Len(chain) + 1].done = {}
        /\ \A j \in DOMAIN chain : chain'[j] = chain[j]
    BY <1>2, <2>1, CreateIs
  <2>3. QED
    BY <2>2 DEF Has
<1>3. CASE r.op \in Marks /\ chain' = [chain EXCEPT ![r.to].done = @ \cup {r.op}]
  <2>1. /\ DOMAIN chain' = DOMAIN chain
        /\ \A j \in DOMAIN chain :
              /\ chain'[j].of = chain[j].of
              /\ chain'[j].done = IF j = r.to THEN chain[j].done \cup {r.op} ELSE chain[j].done
    BY <1>3, MarkIs
  <2>2. chain[r.to].of = r.of
    BY <1>3 DEF Justified
  <2>3. QED
    BY <2>1, <2>2 DEF Has
<1>4. QED
  BY <1>1, <1>2, <1>3, ExecuteIs

(* When nothing is closed.                                                 *)
LEMMA FirstRunStays ==
    ASSUME FirstRunInv, IInv, chain' = chain, runs' = runs, late' \subseteq late \cup Outstanding,
           proc' = "running" => proc = "running", BehindKept
    PROVE  FirstRunInv'
<1> SUFFICES ASSUME runs = 1, proc' = "running", proc = "running"
             PROVE  /\ \A i \in DOMAIN chain :
                          chain[i].of \in Workflowitems /\ Has(i, "close") => Behind(chain[i].of)'
                    /\ \A l \in late' :
                          l.call.op = "close" /\ l.call.of \in Workflowitems => Behind(l.call.of)'
  BY DEF FirstRunInv, Has, Behind, ComesAfter
<1>1. ASSUME NEW i \in DOMAIN chain, chain[i].of \in Workflowitems, Has(i, "close")
      PROVE  Behind(chain[i].of)'
  <2>1. PICK w \in Workflowitems : w = chain[i].of
    BY <1>1
  <2>2. Behind(w)'
    BY <1>1, <2>1 DEF FirstRunInv, BehindKept
  <2>3. QED
    BY <2>1, <2>2 DEF Behind, ComesAfter
<1>2. ASSUME NEW l \in late', l.call.op = "close", l.call.of \in Workflowitems
      PROVE  Behind(l.call.of)'
  <2>1. Behind(l.call.of)
    <3>1. CASE l \in late
      BY <1>2, <3>1 DEF FirstRunInv
    <3>2. CASE l \in Outstanding
      <4>1. l.call = Request /\ Running
        BY <3>2 DEF Outstanding, Sent
      <4>2. call.op = "close" /\ call.of = l.call.of
        BY <1>2, <4>1, RequestTypes DEF IInv
      <4>3. QED
        BY <1>2, <4>1, <4>2, RequestIsBehind
    <3>3. QED
      BY <3>1, <3>2
  <2>2. QED
    BY <1>2, <2>1 DEF BehindKept
<1>3. QED
  BY <1>1, <1>2

(* When a call is executed that was justified and lies behind.             *)
LEMMA FirstRunExecutes ==
    ASSUME FirstRunInv, IInv, NEW r \in RequestType, Justified(r), Execute(r), runs' = runs,
           late' \subseteq late, proc' = "running" => proc = "running", BehindKept,
           runs = 1 /\ proc = "running" /\ r.op = "close" /\ r.of \in Workflowitems => Behind(r.of)
    PROVE  FirstRunInv'
<1> SUFFICES ASSUME runs = 1, proc' = "running", proc = "running"
             PROVE  /\ \A i \in DOMAIN chain' :
                          chain'[i].of \in Workflowitems /\ "close" \in chain'[i].done
                            => \A w \in Workflowitems : w = chain'[i].of => Behind(w)'
                    /\ \A l \in late' :
                          l.call.op = "close" /\ l.call.of \in Workflowitems => Behind(l.call.of)'
  BY DEF FirstRunInv, Has, Behind, ComesAfter
<1>1. ASSUME NEW i \in DOMAIN chain', "close" \in chain'[i].done,
             NEW w \in Workflowitems, w = chain'[i].of
      PROVE  Behind(w)'
  <2>1. \/ i \in DOMAIN chain /\ Has(i, "close") /\ w = chain[i].of
        \/ r.op = "close" /\ w = r.of
    BY <1>1, ClosedBefore DEF IInv
  <2>2. Behind(w)
    BY <2>1 DEF FirstRunInv
  <2>3. QED
    BY <2>2 DEF BehindKept
<1>2. ASSUME NEW l \in late', l.call.op = "close", l.call.of \in Workflowitems
      PROVE  Behind(l.call.of)'
  <2>1. Behind(l.call.of)
    BY <1>2 DEF FirstRunInv
  <2>2. QED
    BY <1>2, <2>1 DEF BehindKept
<1>3. QED
  BY <1>1, <1>2

LEMMA FirstRunStep == FirstRunInv /\ IInv /\ [Next]_vars => FirstRunInv'
<1> SUFFICES ASSUME FirstRunInv, IInv, [Next]_vars
             PROVE  FirstRunInv'
  OBVIOUS
<1>1. TypeOK
  BY DEF IInv
<1>2. CASE LogIn
  <2>1. UNCHANGED <<chain, runs, late, proc, section>> /\ call' = After(call)
    BY <1>2 DEF LogIn, GoOnWith, faults
  <2>2. BehindKept
    BY <1>1, <2>1, BehindAfter
  <2>3. QED
    BY <2>1, <2>2, FirstRunStays
<1>3. CASE CheckProvisionState
  <2>1. /\ UNCHANGED <<chain, runs, late, section>> /\ proc = "running"
        /\ call' = After(call) \/ proc' # "running"
    BY <1>3 DEF CheckProvisionState, GoOnWith, faults, Sent, Running
  <2>2. BehindKept
    BY <1>1, <2>1, BehindAfter
  <2>3. QED
    BY <2>1, <2>2, FirstRunStays
<1>4. CASE Find
  <2>1. /\ UNCHANGED <<chain, runs, late, proc, section>> /\ call.op \in {"find", "refetch"}
        /\ \E i : call' = AfterFind(call, i)
    BY <1>4 DEF Find, GoOnWith, faults, IsSearch
  <2>2. BehindKept
    BY <1>1, <2>1, BehindAfter
  <2>3. QED
    BY <2>1, <2>2, FirstRunStays
<1>5. CASE Write
  <2>1. /\ Request \in RequestType /\ Justified(Request) /\ Execute(Request) /\ Running
        /\ Request.op = call.op /\ Request.of = call.of
    BY <1>1, <1>5, RequestTypes, RequestIsJustified DEF Write, Sent
  <2>2. late' \subseteq late /\ runs' = runs /\ section' = section /\ proc = "running"
    BY <1>5, <2>1 DEF Write, faults, Running
  <2>3. proc' # "running" \/ call' = NoCall \/ call' = After(call)
    BY <1>5 DEF Write, GiveUp, GoOnWith
  <2>4. BehindKept
    BY <1>1, <2>2, <2>3, BehindAfter
  <2>5. Request.op = "close" /\ Request.of \in Workflowitems => Behind(Request.of)
    BY <2>1, RequestIsBehind
  <2>6. QED
    BY <2>1, <2>2, <2>4, <2>5, FirstRunExecutes
<1>6. CASE IsRefused
  <2>1. UNCHANGED <<chain, runs, late>> /\ proc = "running" /\ BehindKept
    BY <1>1, <1>6, BehindAfterFailure DEF IsRefused, faults, Sent, Running
  <2>2. QED
    BY <2>1, FirstRunStays
<1>7. CASE TokenIsRefused
  <2>1. UNCHANGED <<chain, runs, late>> /\ proc = "running" /\ BehindKept
    BY <1>1, <1>7, BehindAfterFailure DEF TokenIsRefused, faults, Running
  <2>2. QED
    BY <2>1, FirstRunStays
<1>8. CASE NextSection
  <2>1. UNCHANGED <<chain, runs, late>> /\ proc = "running" /\ BehindKept
    BY <1>1, <1>8, BehindAfterSection DEF NextSection, faults
  <2>2. QED
    BY <2>1, FirstRunStays
<1>9. CASE Refreshed
  <2>1. UNCHANGED <<chain, runs, late, proc, section, call>>
    BY <1>9 DEF Refreshed, faults
  <2>2. BehindKept
    BY <1>1, <2>1, BehindAfter
  <2>3. QED
    BY <2>1, <2>2, FirstRunStays
<1>10. CASE Unanswered
  <2>1. /\ UNCHANGED <<chain, runs>> /\ late' = late \cup Outstanding /\ proc = "running"
        /\ BehindKept
    BY <1>1, <1>10, BehindAfterFailure DEF Unanswered, LeaveOpen, Running
  <2>2. QED
    BY <2>1, FirstRunStays
<1>11. CASE Dies
  BY <1>11 DEF Dies, FirstRunInv, faults
<1>12. CASE Restart
  BY <1>1, <1>12 DEF Restart, FirstRunInv, TypeOK
<1>13. CASE ApiRestarts
  <2>1. UNCHANGED <<chain, runs, late, proc, section, call>>
    BY <1>13 DEF ApiRestarts
  <2>2. BehindKept
    BY <1>1, <2>1, BehindAfter
  <2>3. QED
    BY <2>1, <2>2, FirstRunStays
<1>14. ASSUME NEW r \in late, Late(r)
       PROVE  FirstRunInv'
  <2>1. r.call \in RequestType /\ Justified(r.call) /\ Execute(r.call)
    BY <1>1, <1>14 DEF Late, TypeOK, LateCall, IInv, LateInv
  <2>2. late' \subseteq late /\ UNCHANGED <<runs, proc, section, call>>
    BY <1>14 DEF Late, client, faults
  <2>3. BehindKept
    BY <1>1, <2>2, BehindAfter
  <2>4. runs = 1 /\ proc = "running" /\ r.call.op = "close" /\ r.call.of \in Workflowitems
            => Behind(r.call.of)
    BY <1>14 DEF FirstRunInv
  <2>5. QED
    BY <2>1, <2>2, <2>3, <2>4, FirstRunExecutes
<1>15. CASE UNCHANGED vars
  <2>1. UNCHANGED <<chain, runs, late, proc, section, call>>
    BY <1>15 DEF vars, client, faults
  <2>2. BehindKept
    BY <1>1, <2>1, BehindAfter
  <2>3. QED
    BY <2>1, <2>2, FirstRunStays
<1>16. QED
  BY <1>2, <1>3, <1>4, <1>5, <1>6, <1>7, <1>8, <1>9, <1>10, <1>11, <1>12, <1>13, <1>14, <1>15
     DEF Next, Step

LEMMA FirstRunInit == Init => FirstRunInv
  BY DEF Init, FirstRunInv

-----------------------------------------------------------------------------
(* Why a call is refused.                                                  *)

(* A first run updates no workflowitem that is closed.                     *)
LEMMA UpdatesOpenOnes ==
    ASSUME IInv, FirstRunInv, Running, call.op = "update", runs = 1
    PROVE  ~Has(Request.to, "close")
<1>1. PICK w : w = call.of
  OBVIOUS
<1>2. call \in CallType /\ TypeOK /\ proc = "running" /\ At(call)
  BY DEF IInv, ProcessInv, Running, TypeOK
<1>3. w \in Templates
  BY <1>1, <1>2, CallsAre DEF Flags
<1>4. AtTemplate("update", w) /\ Made(w) /\ w \in Workflowitems
  BY <1>1, <1>2, <1>3 DEF At, AtTemplate, Marks
<1>5. Request.to = found[w] /\ found[w] \in DOMAIN chain /\ chain[found[w]].of = w
  BY <1>1, <1>2, <1>3, <1>4, RequestTypes DEF Made, Instances
<1>6. Sections[section] = Parent(Parent(w))
  BY <1>4 DEF AtTemplate, Enters, EntersWorkflowitem, EntersSubproject, EntersProject
<1>7. SUFFICES ASSUME Behind(w)
               PROVE  FALSE
  BY <1>2, <1>4, <1>5 DEF FirstRunInv
<1>8. /\ w \notin Range(Projects) /\ w \notin Subprojects /\ w # Parent(w)
      /\ ~Before(Parent(w), Parent(w)) /\ ~Before(w, w)
  BY <1>4, Levels, BeforeIs
<1>9. ~ComesAfter(w, call)
  BY <1>1, <1>3, <1>8 DEF ComesAfter
<1>10. section \in DOMAIN Sections /\ section \in Nat /\ \A k \in 1..(section - 1) : k \in DOMAIN Sections
  BY <1>2, SectionsAre DEF TypeOK
<1>11. \A k \in 1..(section - 1) : Sections[k] # Sections[section]
  BY <1>10, SectionsDiffer
<1>12. QED
  BY <1>6, <1>7, <1>9, <1>11 DEF Behind

NoDuplicates == \A x \in Templates, i \in 0..Len(chain) : Cardinality(Instances(x, i)) <= 1

LEMMA OnlyOne ==
    ASSUME TypeOK, NoDuplicates, NEW x \in Templates, NEW i \in 0..Len(chain),
           NEW j \in Instances(x, i), NEW k \in Instances(x, i)
    PROVE  j = k
<1> SUFFICES ASSUME j # k
             PROVE  FALSE
  OBVIOUS
<1>1. IsFiniteSet(Instances(x, i))
  BY InstancesAreFinite
<1>2. PICK S : S = {j}
  OBVIOUS
<1>3. IsFiniteSet(S) /\ Cardinality(S) = 1
  BY <1>2, FS_Singleton
<1>4. Cardinality(S \cup {k}) = 2
  <2>1. k \notin S
    BY <1>2
  <2>2. Cardinality(S \cup {k}) = IF k \in S THEN Cardinality(S) ELSE Cardinality(S) + 1
    BY <1>3, FS_AddElement
  <2>3. QED
    BY <1>3, <2>1, <2>2
<1>5. S \cup {k} \subseteq Instances(x, i)
  BY <1>2
<1>6. Cardinality(S \cup {k}) <= Cardinality(Instances(x, i)) /\ Cardinality(Instances(x, i)) \in Nat
  BY <1>1, <1>5, FS_Subset, FS_CardinalityType
<1>7. Cardinality(Instances(x, i)) <= 1
  BY DEF NoDuplicates
<1>8. QED
  BY <1>4, <1>6, <1>7

(* What would be in the way of closing a resource is closed already.       *)
LEMMA NothingInTheWay ==
    ASSUME IInv, NoDuplicates, NEW x \in Templates, AtTemplate("close", x)
    PROVE  InTheWay(found[x]) = {}
<1> DEFINE i == found[x]
<1>1. /\ TypeOK /\ ChainInv /\ Made(x) /\ x \in ToClose /\ AllParts(x) /\ Enters(x)
      /\ i \in DOMAIN chain /\ chain[i].of = x /\ chain[i].parent = Above(x) /\ i \in Nat /\ i # 0
      /\ i \in 0..Len(chain) /\ Above(x) \in 0..Len(chain) /\ DOMAIN chain = 1..Len(chain)
  BY AboveTypes DEF IInv, AtTemplate, Made, Instances, Marks, TypeOK
<1>2. ASSUME NEW y \in Templates, IsPast(y), y \in ToClose, Above(y) \in 0..Len(chain),
             NEW j \in Instances(y, Above(y))
      PROVE  Has(j, "close")
  <2>1. PICK k \in Instances(y, Above(y)) : IsWholePart(k)
    BY <1>2 DEF IsPast
  <2>2. j = k
    BY <1>1, <1>2, OnlyOne
  <2>3. IsFinished(j) /\ chain[j].of = y
    BY <1>2, <2>1, <2>2 DEF IsWholePart, Instances
  <2>4. QED
    BY <1>2, <2>3 DEF IsFinished, Wanted, Has
<1>3. ASSUME NEW j \in DOMAIN chain, chain[j].parent = i
      PROVE  Has(j, "close")
  <2>1. PICK y : y = chain[j].of
    OBVIOUS
  <2>2. Under(y, i)
    BY <1>1, <1>3, <2>1 DEF ChainInv, ResourceInv
  <2>3. y \in Range(ChildrenOf[x])
    BY <1>1, <2>2 DEF Under
  <2>4. y \in Templates /\ Above(y) = i /\ IsPast(y) /\ y \in ToClose
    BY <1>1, <2>3, AboveIs, ToCloseAssumption DEF AllParts
  <2>5. j \in Instances(y, Above(y))
    BY <1>3, <2>1, <2>4 DEF Instances
  <2>6. QED
    BY <1>1, <1>2, <2>4, <2>5
<1>4. ASSUME x \in Workflowitems, NEW j \in DOMAIN chain, j < i, chain[j].parent = chain[i].parent
      PROVE  Has(j, "close")
  <2>1. PICK y, s : y = chain[j].of /\ s = Parent(x)
    OBVIOUS
  <2>2. /\ s \in Templates /\ s \in Subprojects /\ x \notin Range(Projects) /\ Above(x) = found[s]
        /\ x \in Range(ChildrenOf[s])
    BY <1>4, <2>1, Levels DEF Above
  <2>3. Made(s) /\ EarlierParts(x)
    BY <1>1, <1>4, <2>1, Levels DEF Enters, EntersWorkflowitem, Granted
  <2>4. found[s] \in DOMAIN chain /\ chain[found[s]].of = s /\ found[s] # 0
    BY <1>1, <2>3 DEF Made, Instances
  <2>5. chain[j].parent = found[s] /\ Under(y, found[s]) /\ ResourceInv(j)
    BY <1>1, <1>4, <2>1, <2>2 DEF ChainInv, ResourceInv
  <2>6. y \in Range(ChildrenOf[s])
    BY <2>4, <2>5 DEF Under
  <2>7. y \in Templates /\ y \in Workflowitems /\ Above(y) = found[s] /\ Parent(y) = s
    BY <2>2, <2>6, AboveIs, Levels
  <2>8. j \in Instances(y, Above(x)) /\ i \in Instances(x, Above(x)) /\ j \in Nat
    BY <1>1, <2>1, <2>2, <2>5 DEF Instances
  <2>9. PICK m \in DOMAIN ChildrenOf[s], n \in DOMAIN ChildrenOf[s] :
            ChildrenOf[s][m] = y /\ ChildrenOf[s][n] = x
    BY <2>2, <2>6 DEF Range
  <2>10. m \in Nat /\ n \in Nat
    BY <2>2, ChildrenAre
  <2>11. CASE m < n
    <3>1. Before(y, x)
      BY <2>2, <2>9, <2>11 DEF Before
    <3>2. IsPast(y)
      BY <2>3, <2>7, <3>1 DEF EarlierParts
    <3>3. y \in ToClose
      <4>1. m \in 1..n
        BY <2>2, <2>9, <2>10, <2>11, ChildrenAre
      <4>2. ChildrenOf[s][n] \in ToClose
        BY <1>1, <2>9
      <4>3. QED
        BY <2>2, <2>9, <4>1, <4>2, ToCloseAssumption
    <3>4. QED
      BY <1>1, <1>2, <2>2, <2>7, <2>8, <3>2, <3>3
  <2>12. CASE m = n
    <3>1. j \in Instances(x, Above(x))
      BY <2>8, <2>9, <2>12
    <3>2. j = i
      BY <1>1, <2>8, <3>1, OnlyOne
    <3>3. QED
      BY <1>1, <1>4, <3>2
  <2>13. CASE n < m
    <3>1. Before(x, y)
      BY <2>2, <2>9, <2>13 DEF Before
    <3>2. Preceded(y, Above(x), j)
      BY <2>1, <2>2, <2>5, <2>7 DEF ResourceInv
    <3>3. PICK k \in Instances(x, Above(x)) : k < j
      BY <1>4, <3>1, <3>2 DEF Preceded
    <3>4. k = i
      BY <1>1, <2>8, <3>3, OnlyOne
    <3>5. QED
      BY <1>1, <1>4, <2>8, <3>3, <3>4
  <2>14. QED
    BY <2>10, <2>11, <2>12, <2>13
<1>5. QED
  BY <1>1, <1>3, <1>4 DEF InTheWay

(* The order of the calls is such that none is refused, but for the causes *)
(* that are listed: users given up, a client that has become root, a       *)
(* second run, a resource that is there twice.                             *)
THEOREM RefusalsAreExplained == Spec => []RefusalsHaveACause
<1>1. IInv /\ FirstRunInv => RefusalsHaveACause
  <2> SUFFICES ASSUME IInv, FirstRunInv, Running, Refused(Request)
               PROVE  \/ "users" \in abandoned
                      \/ token.user = Root
                      \/ runs > 1 /\ call.op = "update"
                      \/ \E x \in Templates, i \in 0..Len(chain) : Cardinality(Instances(x, i)) > 1
    BY DEF RefusalsHaveACause
  <2>0. (\A x \in Templates, i \in 0..Len(chain) : ~(Cardinality(Instances(x, i)) > 1)) => NoDuplicates
    <3> SUFFICES ASSUME \A x \in Templates, i \in 0..Len(chain) : ~(Cardinality(Instances(x, i)) > 1),
                        NEW x \in Templates, NEW i \in 0..Len(chain)
                 PROVE  Cardinality(Instances(x, i)) <= 1
      BY DEF NoDuplicates
    <3>1. PICK S : S = Instances(x, i)
      OBVIOUS
    <3>2. Cardinality(S) \in Nat
      BY <3>1, InstancesAreFinite, FS_CardinalityType DEF IInv
    <3>3. QED
      BY <3>1, <3>2
  <2> SUFFICES ASSUME "users" \notin abandoned, token.user # Root,
                      ~(runs > 1 /\ call.op = "update"), NoDuplicates
               PROVE  FALSE
    BY <2>0
  <2>1. /\ TypeOK /\ proc = "running" /\ At(call) /\ call \in CallType
        /\ \A k \in 1..(section - 1) : SectionDone(k)
        /\ Request.op = call.op /\ Request.of = call.of /\ Request.as = token.user
    BY RequestTypes DEF IInv, ProcessInv, Running, TypeOK
  <2>2. section \in DOMAIN Sections /\ section \in Nat
    BY <2>1, SectionsAre DEF TypeOK
  <2>3. ASSUME section > 2
        PROVE  {"createUser", "grantAll"} \subseteq system
    <3>1. 2 \in 1..(section - 1) /\ Sections[2] = "users"
      BY <2>2, <2>3, SectionsAre
    <3>2. QED
      BY <2>1, <3>1 DEF SectionDone
  <2>4. CASE call.op = "login" /\ call.of = Service /\ "createUser" \notin system
    <3>1. Sections[section] = "impersonate"
      BY <2>1, <2>4, NamesAreNoTemplates DEF At, AtFlag
    <3>2. section = 4
      BY <2>2, <3>1, SectionsDiffer
    <3>3. QED
      BY <2>3, <2>4, <3>2
  <2>5. CASE call.op = "create" /\ call.of \in Range(Projects) /\ "grantAll" \notin system
    <3>1. call.of = Sections[section]
      BY <2>1, <2>5, Levels DEF At, AtTemplate, Enters, EntersProject
    <3>2. section > 4
      BY <2>2, <2>5, <3>1, SectionsDiffer
    <3>3. QED
      BY <2>2, <2>3, <2>5, <3>2
  <2>6. CASE call.op = "update" /\ Has(Request.to, "close")
    <3>1. runs = 1
      BY <2>1, <2>6 DEF FirstRunInv, TypeOK
    <3>2. QED
      BY <2>6, <3>1, UpdatesOpenOnes
  <2>7. CASE call.op = "close" /\ (~Has(Request.to, "assign") \/ InTheWay(Request.to) # {})
    <3>1. PICK x : x = call.of
      OBVIOUS
    <3>2. x \in Templates
      BY <2>1, <2>7, <3>1, CallsAre DEF Flags
    <3>3. AtTemplate("close", x) /\ Request.to = found[x]
      BY <2>1, <2>7, <3>1, <3>2, RequestTypes DEF At
    <3>4. Has(Request.to, "assign")
      BY <3>3 DEF AtTemplate, Has
    <3>5. QED
      BY <2>7, <3>2, <3>3, <3>4, NothingInTheWay
  <2>8. QED
    BY <2>1, <2>4, <2>5, <2>6, <2>7 DEF Refused
<1>2. QED
  BY <1>1, FirstRunInit, FirstRunStep, IInvHolds, PTL DEF Spec

=============================================================================
