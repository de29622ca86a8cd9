---------------------------- MODULE Provisioning ----------------------------
(***************************************************************************)
(* Filling a new installation with users, groups and projects              *)
(* (provisioning/src): one process that makes one call of the API after    *)
(* the other, as root and then as a service user, between a start flag and *)
(* an end flag that it keeps on the chain.  What is to be made is a tree   *)
(* of templates; a resource is found again by its display name.            *)
(*                                                                         *)
(* The API may answer a call or refuse it.  It may fail to answer within   *)
(* the ten seconds the client waits: the call is then made again, and the  *)
(* first one may still be executed, at any later time.  The API may be     *)
(* restarted, with a new secret for its tokens.  The process may be killed *)
(* and run again.  Calls of the API are atomic here (their interleavings   *)
(* are in Lifecycle); one permission stands for those of a template.       *)
(***************************************************************************)
EXTENDS Naturals, Sequences, FiniteSets, SequencesExt

CONSTANTS
    Projects,       \* the project files, in the order they are read
    ChildrenOf,     \* the subprojects and workflowitems in a template
    ToClose,        \* the templates whose status is "closed"
    Service,        \* serviceUser
    Root,
    None,
    MaxTries,       \* how often withRetry repeats a call: 24 in the code
    MaxTimeouts,    \* bound: calls that are not answered
    MaxRuns,        \* bound: runs of the process
    MaxApiRestarts  \* bound: restarts of the API

Templates     == DOMAIN ChildrenOf
Subprojects   == UNION {Range(ChildrenOf[p]) : p \in Range(Projects)}
Workflowitems == UNION {Range(ChildrenOf[s]) : s \in Subprojects}

(* The templates are a tree of projects, subprojects and workflowitems.    *)
ASSUME TreeAssumption ==
    /\ Projects \in Seq(Templates) /\ IsInjective(Projects)
    /\ \A t \in Templates : ChildrenOf[t] \in Seq(Templates) /\ IsInjective(ChildrenOf[t])
    /\ \A t, u \in Templates : Range(ChildrenOf[t]) \cap Range(ChildrenOf[u]) # {} => t = u
    /\ Templates = Range(Projects) \cup Subprojects \cup Workflowitems
    /\ Range(Projects) \cap (Subprojects \cup Workflowitems) = {}
    /\ Subprojects \cap Workflowitems = {}
    /\ \A w \in Workflowitems : ChildrenOf[w] = <<>>

(* What is to be closed can be: its parts are to be closed, too, and so    *)
(* are the workflowitems that come before it.  All of src/data is so.      *)
ASSUME ToCloseAssumption ==
    /\ ToClose \subseteq Templates
    /\ \A t \in ToClose : Range(ChildrenOf[t]) \subseteq ToClose
    /\ \A s \in Subprojects : \A k \in DOMAIN ChildrenOf[s] :
            ChildrenOf[s][k] \in ToClose => \A j \in 1..k : ChildrenOf[s][j] \in ToClose

ASSUME NamesAssumption ==
    /\ ({Service, Root, None} \cup {"prepare", "users", "groups", "impersonate", "finish"})
            \cap Templates = {}
    /\ Service # Root /\ None \notin {Service, Root}
    /\ {MaxTries, MaxTimeouts, MaxRuns, MaxApiRestarts} \subseteq Nat

VARIABLES
    chain,      \* the resources, in the order of their creation
    system,     \* the other calls that have had an effect: users, flags
    proc,       \* whether the process is running
    section,    \* what it is working on: an index into Sections
    call,       \* the call it makes next in this section, if any
    tries,      \* how often that one may still be repeated
    found,      \* the resource found for each template, 0 for none
    token,      \* whom the client's token stands for, and if it is valid
    refreshing, \* the interceptor is logging in again; nobody waits for it
    late,       \* calls that were not answered, which may still be executed
    doubtful,   \* history: creations that were not answered
    abandoned,  \* history: sections given up
    timeouts, runs, apiRestarts

client == <<section, call, tries, found, token>>
faults == <<timeouts, runs, apiRestarts>>
vars   == <<chain, system, proc, client, refreshing, late, doubtful, abandoned, faults>>

-----------------------------------------------------------------------------
(* What is to be done, and in which order: provisionBlockchain.  The       *)
(* sections in Essential are not inside a try that swallows what went      *)
(* wrong.                                                                  *)

Sections  == <<"prepare", "users", "groups", "impersonate">> \o Projects \o <<"finish">>
Essential == {"prepare", "impersonate", "finish"}

Call(op, x) == [op |-> op, of |-> x]
NoCall      == Call("none", None)

FirstCall(s) ==
    CASE s = "prepare"     -> Call("login", Root)
      [] s = "users"       -> Call("createUser", Service)
      [] s = "groups"      -> Call("createGroup", Service)
      [] s = "impersonate" -> Call("login", Service)
      [] s = "finish"      -> Call("login", Root)
      [] OTHER             -> Call("find", s)

(* The template x is a part of.                                            *)
Parent(x)  == CHOOSE q \in Templates : x \in Range(ChildrenOf[q])
PlaceOf(x) == CHOOSE k \in DOMAIN ChildrenOf[Parent(x)] : ChildrenOf[Parent(x)][k] = x
IsLastOne(x)   == PlaceOf(x) = Len(ChildrenOf[Parent(x)])
NextSibling(x) == ChildrenOf[Parent(x)][PlaceOf(x) + 1]

NeverAssigned(x, leave) == IF x \in ToClose THEN Call("close", x) ELSE leave   \* mutant
CloseIfWanted(x, leave) == IF x \in ToClose THEN Call("assign", x) ELSE leave

(* provisionFromData, provisionSubproject and provisionWorkflowitem: the   *)
(* call that comes after the parts of x, and the one that comes after x.   *)
CloseProject(p)      == CloseIfWanted(p, NoCall)
LeaveSubproject(s)   == IF IsLastOne(s) THEN CloseProject(Parent(s)) ELSE Call("find", NextSibling(s))
CloseSubproject(s)   == CloseIfWanted(s, LeaveSubproject(s))
LeaveWorkflowitem(w) == IF IsLastOne(w) THEN CloseSubproject(Parent(w)) ELSE Call("find", NextSibling(w))

Leave(x) ==
    CASE x \in Workflowitems -> LeaveWorkflowitem(x)
      [] x \in Subprojects   -> LeaveSubproject(x)
      [] OTHER               -> NoCall
Close(x) == CloseIfWanted(x, Leave(x))

ClosedAtOnce(x) ==                  \* mutant: closed before its parts are made
    IF x \in ToClose \/ ChildrenOf[x] = <<>> THEN Close(x) ELSE Call("find", Head(ChildrenOf[x]))
PartsOf(x) == IF ChildrenOf[x] = <<>> THEN Close(x) ELSE Call("find", Head(ChildrenOf[x]))

After(c) ==
    CASE c.op = "login" /\ Sections[section] = "prepare" -> Call("provisioned", Root)
      [] c.op = "login" /\ Sections[section] = "finish"  -> Call("end", Root)
      [] c.op = "provisioned" -> Call("start", Root)
      [] c.op = "createUser"  -> Call("grantAll", c.of)
      [] c.op = "find"        -> Call("create", c.of)
      [] c.op = "create"      -> Call("refetch", c.of)
      [] c.op = "refetch"     -> Call(IF c.of \in Workflowitems THEN "update" ELSE "grant", c.of)
      [] c.op = "update"      -> Call("grant", c.of)
      [] c.op = "grant"       -> PartsOf(c.of)
      [] c.op = "assign"      -> Call("close", c.of)
      [] c.op = "close"       -> Leave(c.of)
      [] OTHER                -> NoCall

-----------------------------------------------------------------------------
(* The API.  A request is a call with the id of the resource it is about   *)
(* (of the parent, for a creation) and the user it is made by.             *)

Instances(x, parent) == {i \in DOMAIN chain : chain[i].of = x /\ chain[i].parent = parent}

Marks == {"update", "grant", "assign", "close"}
Has(i, op) == op \in chain[i].done

(* workflowitems are closed in their order, the others after their parts   *)
InTheWay(i) ==
    {j \in DOMAIN chain : ~Has(j, "close")
        /\ \/ chain[j].parent = i
           \/ chain[i].of \in Workflowitems /\ j < i /\ chain[j].parent = chain[i].parent}

Refused(r) ==
    \/ r.op = "login" /\ r.of = Service /\ "createUser" \notin system
    \/ r.op = "create" /\ r.as = Root
    \/ r.op = "create" /\ r.of \in Range(Projects) /\ "grantAll" \notin system
    \/ r.op = "update" /\ Has(r.to, "close")
    \/ /\ r.op = "close" /\ ~Has(r.to, "close")
       /\ (r.as # Root /\ ~Has(r.to, "assign")) \/ InTheWay(r.to) # {}

AlreadyExists(r) == r.op \in {"createUser", "createGroup"} /\ r.op \in system

Execute(r) ==
    IF Refused(r) \/ AlreadyExists(r) THEN UNCHANGED <<chain, system>>
    ELSE CASE r.op = "create" -> /\ chain' = Append(chain, [of |-> r.of, parent |-> r.to, done |-> {}])
                                 /\ UNCHANGED system
           [] r.op \in Marks  -> /\ chain' = [chain EXCEPT ![r.to].done = @ \cup {r.op}]
                                 /\ UNCHANGED system
           [] OTHER           -> system' = system \cup {r.op} /\ UNCHANGED chain

(* Only a creation has an effect when it is executed once more.            *)
Twins(r) == {l \in late : r.op # "create" /\ <<l.call.op, l.call.of, l.call.to>> = <<r.op, r.of, r.to>>}

(* project.list and subproject.list keep the order of creation,            *)
(* workflowitem.list shows the closed items first; find takes the first.   *)
First(S) == CHOOSE i \in S : \A j \in S : i <= j

Found(x, parent) ==
    LET all    == Instances(x, parent)
        closed == {i \in all : Has(i, "close")}
    IN  IF all = {} THEN 0
        ELSE First(IF x \in Workflowitems /\ closed # {} THEN closed ELSE all)

-----------------------------------------------------------------------------
(* The client.                                                             *)

IsSearch == call.op \in {"find", "refetch"}
IsWrite  == ~IsSearch /\ call.op \notin {"login", "provisioned", "none"}

Above(x) == IF x \in Range(Projects) THEN 0 ELSE found[Parent(x)]
Request ==
    [op |-> call.op, of |-> call.of, as |-> token.user,
     to |-> IF call.of \notin Templates THEN 0
            ELSE IF call.op = "create" THEN Above(call.of) ELSE found[call.of]]

Running == proc = "running" /\ call # NoCall
Sent    == Running /\ (token.valid \/ call.op = "login")

GoOnWith(c) == call' = c /\ tries' = MaxTries

(* withRetry has given up: provisionUsers, provisionGroups and             *)
(* provisionFromData catch what it throws, provisionBlockchain exits.      *)
GiveUp ==
    IF Sections[section] \in Essential
      THEN proc' = "over" /\ UNCHANGED <<call, tries, abandoned>>
      ELSE /\ abandoned' = abandoned \cup {Sections[section]}
           /\ GoOnWith(NoCall)
           /\ UNCHANGED proc

CountsUp(n)  == n + 1       \* mutant
NotCounted(n) == n          \* mutant: withRetry(cb, maxTimes--)
TriesLeft(n) == n - 1

Retry == /\ tries' = TriesLeft(tries) /\ UNCHANGED <<proc, call, abandoned>>

(* findProject exits the process, whatever the error.                      *)
Failed ==
    /\ IF IsSearch /\ call.of \in Range(Projects)
         THEN proc' = "over" /\ UNCHANGED <<call, tries, abandoned>>
         ELSE IF tries = 0 THEN GiveUp ELSE Retry
    /\ UNCHANGED <<section, found>>

-----------------------------------------------------------------------------
Init ==
    /\ chain = <<>> /\ system = {} /\ proc = "running"
    /\ section = 1 /\ call = FirstCall(Sections[1]) /\ tries = MaxTries
    /\ found = [x \in Templates |-> 0]
    /\ token = [user |-> None, valid |-> FALSE] /\ refreshing = FALSE
    /\ late = {} /\ doubtful = {} /\ abandoned = {}
    /\ timeouts = 0 /\ runs = 1 /\ apiRestarts = 0

LogIn ==
    /\ Sent /\ call.op = "login" /\ ~Refused(Request)
    /\ token' = [user |-> call.of, valid |-> TRUE]
    /\ GoOnWith(After(call))
    /\ UNCHANGED <<chain, system, proc, section, found, refreshing, late, doubtful, abandoned, faults>>

(* checkProvisionState                                                     *)
CheckProvisionState ==
    /\ Sent /\ call.op = "provisioned"
    /\ IF "end" \in system THEN proc' = "over" /\ UNCHANGED <<call, tries>>
                           ELSE GoOnWith(After(call)) /\ UNCHANGED proc
    /\ UNCHANGED <<chain, system, section, found, token, refreshing, late, doubtful, abandoned, faults>>

(* A resource that is there is not created; a workflowitem that is closed  *)
(* is left as it is.  Its children are looked for all the same.            *)
CreatedAgain(c, i) ==               \* mutant: created although it is there
    IF i # 0 /\ c.of \in Workflowitems /\ Has(i, "close") THEN Leave(c.of) ELSE After(c)
LeftAlone(c, i) ==                  \* mutant: what is there is left as it is
    IF i # 0 THEN Leave(c.of) ELSE After(c)
AfterFind(c, i) ==
    IF i = 0 THEN After(c)
    ELSE IF c.of \in Workflowitems /\ Has(i, "close") THEN Leave(c.of)
    ELSE IF c.op = "find" /\ c.of \in Range(Projects) THEN Call("refetch", c.of)
    ELSE After(Call("refetch", c.of))

Find ==
    /\ Sent /\ IsSearch
    /\ LET i == Found(call.of, Above(call.of))
       IN  /\ found' = [found EXCEPT ![call.of] = i]
           /\ GoOnWith(AfterFind(call, i))
    /\ UNCHANGED <<chain, system, proc, section, token, refreshing, late, doubtful, abandoned, faults>>

(* A conflict is as good as an answer, unless it is the last try.          *)
Write ==
    /\ Sent /\ IsWrite /\ ~Refused(Request)
    /\ Execute(Request) /\ late' = late \ Twins(Request)
    /\ IF AlreadyExists(Request) /\ tries = 0
         THEN GiveUp
         ELSE GoOnWith(After(call)) /\ UNCHANGED <<proc, abandoned>>
    /\ UNCHANGED <<section, found, token, refreshing, doubtful, faults>>

IsRefused ==
    /\ Sent /\ Refused(Request) /\ Failed
    /\ UNCHANGED <<chain, system, token, refreshing, late, doubtful, faults>>

(* Status 401: the interceptor starts to log in again.                     *)
TokenIsRefused ==
    /\ Running /\ ~Sent /\ Failed
    /\ refreshing' = TRUE
    /\ UNCHANGED <<chain, system, token, late, doubtful, faults>>

(* impersonate(currentUser).  That is root, since provisionBlockchain does *)
(* not set it when it goes on as the service user.                         *)
Refreshed ==
    /\ proc = "running" /\ refreshing
    /\ token' = [user |-> Root, valid |-> TRUE] /\ refreshing' = FALSE
    /\ UNCHANGED <<chain, system, proc, section, call, tries, found, late, doubtful, abandoned, faults>>

NextSection ==
    /\ proc = "running" /\ call = NoCall
    /\ IF section = Len(Sections)
         THEN proc' = "over" /\ UNCHANGED <<section, call, tries>>
         ELSE /\ section' = section + 1 /\ GoOnWith(FirstCall(Sections[section + 1]))
              /\ UNCHANGED proc
    /\ UNCHANGED <<chain, system, found, token, refreshing, late, doubtful, abandoned, faults>>

-----------------------------------------------------------------------------
(* What goes wrong.                                                        *)

Outstanding == IF Sent /\ IsWrite THEN {[call |-> Request, nr |-> timeouts + runs]} ELSE {}

LeaveOpen == /\ late' = late \cup Outstanding
             /\ doubtful' = doubtful \cup {o \in Outstanding : o.call.op = "create"}

(* The connection is refused or reset, or the client has waited for ten    *)
(* seconds.                                                                *)
Unanswered ==
    /\ Running /\ timeouts < MaxTimeouts /\ timeouts' = timeouts + 1
    /\ LeaveOpen
    /\ Failed
    /\ UNCHANGED <<chain, system, token, refreshing, runs, apiRestarts>>

(* An error withRetry does not know, or the process is killed.             *)
Dies ==
    /\ Running /\ runs < MaxRuns
    /\ proc' = "over" /\ LeaveOpen
    /\ UNCHANGED <<chain, system, client, refreshing, abandoned, faults>>

Late(r) ==
    /\ r \in late /\ late' = late \ ({r} \cup Twins(r.call))
    /\ Execute(r.call)
    /\ UNCHANGED <<proc, client, refreshing, doubtful, abandoned, faults>>

Restart ==
    /\ proc = "over" /\ runs < MaxRuns /\ runs' = runs + 1
    /\ proc' = "running"
    /\ section' = 1 /\ GoOnWith(FirstCall(Sections[1]))
    /\ found' = [x \in Templates |-> 0]
    /\ token' = [user |-> None, valid |-> FALSE] /\ refreshing' = FALSE
    /\ UNCHANGED <<chain, system, late, doubtful, abandoned, timeouts, apiRestarts>>

(* The secret of the tokens is drawn anew, unless it is configured.        *)
ApiRestarts ==
    /\ token.valid /\ apiRestarts < MaxApiRestarts /\ apiRestarts' = apiRestarts + 1
    /\ token' = [token EXCEPT !.valid = FALSE]
    /\ UNCHANGED <<chain, system, proc, section, call, tries, found, refreshing, late, doubtful,
                   abandoned, timeouts, runs>>

Step ==
    \/ LogIn \/ CheckProvisionState \/ Find \/ Write \/ IsRefused
    \/ TokenIsRefused \/ NextSection

Next ==
    \/ Step \/ Refreshed \/ Unanswered \/ Dies \/ Restart \/ ApiRestarts
    \/ \E r \in late : Late(r)

(* A call is answered, refused or given up after some time, and the        *)
(* process then goes on.  Nothing says that a late call is ever executed.  *)
Spec == Init /\ [][Next]_vars /\ WF_vars(Step)

-----------------------------------------------------------------------------
Flags == {"createUser", "grantAll", "createGroup", "start", "end"}
Users == {None, Root, Service}

Resource    == [of: Templates, parent: Nat, done: SUBSET Marks]
CallType    == [op: Marks \cup {"find", "create", "refetch"}, of: Templates]
                   \cup [op: Flags \cup {"none", "login", "provisioned"}, of: Users]
RequestType == [op: Marks \cup {"create"}, of: Templates, as: Users, to: Nat]
                   \cup [op: Flags, of: Users, as: Users, to: {0}]
LateCall    == [call: RequestType, nr: Nat]

TypeOK ==
    /\ chain \in Seq(Resource)
    /\ system \subseteq Flags
    /\ proc \in {"running", "over"} /\ section \in DOMAIN Sections
    /\ call \in CallType /\ tries \in 0..MaxTries
    /\ found \in [Templates -> 0..Len(chain)]
    /\ token \in [user: Users, valid: BOOLEAN] /\ refreshing \in BOOLEAN
    /\ late \subseteq LateCall /\ doubtful \subseteq LateCall
    /\ abandoned \subseteq Range(Sections) \ Essential
    /\ timeouts \in 0..MaxTimeouts /\ runs \in Nat /\ apiRestarts \in 0..MaxApiRestarts

(* All of a template is there: the resource, what is granted on it, that   *)
(* it is closed if it is to be, and its parts.                             *)
Wanted(x) ==
    {"grant"} \cup (IF x \in Workflowitems THEN {"update"} ELSE {})
              \cup (IF x \in ToClose THEN {"assign", "close"} ELSE {})

IsFinished(i)  == Wanted(chain[i].of) \subseteq chain[i].done
PartsThere(i)  == \A y \in Range(ChildrenOf[chain[i].of]) : \E j \in Instances(y, i) : IsFinished(j)
IsWholePart(i) == IsFinished(i) /\ PartsThere(i)
IsWhole(i) ==
    /\ IsFinished(i)
    /\ \A y \in Range(ChildrenOf[chain[i].of]) : \E j \in Instances(y, i) : IsWholePart(j)

(* When the end flag is on the chain, after which provisioning is never    *)
(* tried again, all that was to be made is there, but for the parts a run  *)
(* has given up.                                                           *)
EndedMeansComplete ==
    "end" \in system =>
        /\ {"createUser", "grantAll"} \subseteq system \/ "users" \in abandoned
        /\ \A p \in Range(Projects) \ abandoned :
                \E i \in DOMAIN chain : chain[i].of = p /\ IsWhole(i)

(* A resource is there once, and once more for each time its creation was  *)
(* not answered: no run makes again what is there.                         *)
DuplicatesNeedTimeouts ==
    \A x \in Templates, i \in 0..Len(chain) :
        Cardinality(Instances(x, i)) <=
            1 + Cardinality({d \in doubtful : d.call.of = x /\ d.call.to = i})

(* Closing an open resource is refused unless all of its parts are closed, *)
(* creating one is refused for lack of a permission: the order of the      *)
(* calls is such that none is ever refused, until a call has been made     *)
(* twice, the users have been given up, the client acts as root, or the    *)
(* last call of a killed run closes a workflowitem that is being updated.  *)
RefusalsHaveACause ==
    Running /\ Refused(Request) =>
        \/ "users" \in abandoned
        \/ token.user = Root
        \/ runs > 1 /\ call.op = "update"
        \/ \E x \in Templates, i \in 0..Len(chain) : Cardinality(Instances(x, i)) > 1

(* What is closed has all of its parts, closed.                            *)
ClosedIsWhole ==
    \A i \in DOMAIN chain : Has(i, "close") => IsWhole(i)

(* A run comes to an end.                                                  *)
EventuallyOver == <>[](proc = "over")

=============================================================================
