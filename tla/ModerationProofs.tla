-------------------------- MODULE ModerationProofs --------------------------
(***************************************************************************)
(* Theorems about Moderation for any number of users, codes, moderators    *)
(* and history entries.                                                    *)
(*                                                                         *)
(* The one fact that makes decisions safe to overlap is that a decision    *)
(* under way is about a row that exists (Targeted): a row is never deleted *)
(* and no decision goes back to pending, so whatever was committed in      *)
(* between, the new status is either reachable from the present one or     *)
(* equal to it.                                                            *)
(***************************************************************************)
EXTENDS Moderation, TLAPS

Targeted == \A w \in Workers :
  request[w].op = "change" => /\ status[request[w].user] # None
                              /\ request[w].new \in Targets

Inv == TypeOK /\ Targeted

USE DEF Statuses, VALID_TRANSITIONS, Lifecycle!Statuses, Lifecycle!VALID_TRANSITIONS

(* What the requests of a worker look like when it starts a commit.        *)
LEMMA RequestShape ==
  ASSUME TypeOK, NEW w \in Workers
  PROVE  /\ request[w].op = "enroll" => request[w].code \in Codes
         /\ request[w].op = "change" => /\ request[w].user \in Users
                                        /\ request[w].seen \in Statuses
                                        /\ request[w].new \in Statuses
BY DEF TypeOK, Idle, Enrolling, Deciding, Targets

LEMMA InitInv == Init => Inv
<1> SUFFICES ASSUME Init PROVE Inv
  OBVIOUS
<1>1. TypeOK
  BY ModerationAssumption DEF Init, TypeOK, Entry
<1>2. Targeted
  BY DEF Init, Targeted, Idle
<1> QED
  BY <1>1, <1>2 DEF Inv

(* Appending a well-formed entry keeps the history a sequence of entries.  *)
LEMMA RecordTyped ==
  ASSUME history \in Seq(Entry), NEW u \in Users,
         NEW previous \in Statuses \cup {None}, NEW new \in Statuses,
         Record(u, previous, new)
  PROVE  history' \in Seq(Entry)
<1>1. [user |-> u, previous_status |-> previous, new_status |-> new] \in Entry
  BY DEF Entry
<1> QED
  BY <1>1 DEF Record

LEMMA StepInv == Inv /\ [Next]_vars => Inv'
<1> SUFFICES ASSUME Inv, [Next]_vars PROVE Inv'
  OBVIOUS
<1> USE DEF Inv
<1>1. CASE UNCHANGED vars
  BY <1>1 DEF vars, TypeOK, Targeted, EntriesOf
<1>2. ASSUME NEW w \in Workers, DrawCode(w) PROVE Inv'
  <2>1. PICK c \in Codes : request' = [request EXCEPT ![w] = [op |-> "enroll", code |-> c]]
    BY <1>2 DEF DrawCode
  <2>2. [op |-> "enroll", code |-> c] \in Enrolling
    BY DEF Enrolling
  <2>3. TypeOK'
    BY <1>2, <2>1, <2>2 DEF TypeOK, DrawCode
  <2>4. Targeted'
    BY <1>2, <2>1 DEF TypeOK, Targeted, DrawCode
  <2> QED
    BY <2>3, <2>4
<1>3. ASSUME NEW w \in Workers, CommitEnroll(w) PROVE Inv'
  <2>1. PICK u \in Users \ Enrolled :
          /\ status' = [status EXCEPT ![u] = "pending"]
          /\ code' = [code EXCEPT ![u] = request[w].code]
          /\ Record(u, None, "pending")
    BY <1>3 DEF CommitEnroll
  <2>2. history' \in Seq(Entry)
    BY <2>1, RecordTyped DEF TypeOK
  <2>3. request[w].code \in Codes
    BY <1>3, RequestShape DEF CommitEnroll
  <2>4. TypeOK'
    BY <1>3, <2>1, <2>2, <2>3, ModerationAssumption DEF TypeOK, CommitEnroll, Done
  <2>5. Targeted'
    BY <1>3, <2>1, ModerationAssumption, RequestShape DEF TypeOK, Targeted, CommitEnroll, Done, Idle
  <2> QED
    BY <2>4, <2>5
<1>4. ASSUME NEW w \in Workers, CommitChange(w) PROVE Inv'
  <2> DEFINE r == request[w]
  <2>1. r.user \in Users /\ r.seen \in Statuses /\ r.new \in Statuses /\ status[r.user] # None
    BY <1>4, RequestShape DEF CommitChange, Targeted
  <2>2. /\ status' = [status EXCEPT ![r.user] = r.new]
        /\ Record(r.user, r.seen, r.new)
    BY <1>4 DEF CommitChange
  <2>3. history' \in Seq(Entry)
    BY <2>1, <2>2, RecordTyped DEF TypeOK
  <2>4. TypeOK'
    BY <1>4, <2>1, <2>2, <2>3, ModerationAssumption DEF TypeOK, CommitChange, Done
  <2>5. Targeted'
    BY <1>4, <2>1, <2>2, ModerationAssumption, RequestShape DEF TypeOK, Targeted, CommitChange, Done, Idle
  <2> QED
    BY <2>4, <2>5
<1>5. ASSUME NEW w \in Workers, Abort(w) PROVE Inv'
  <2>1. TypeOK'
    BY <1>5 DEF TypeOK, Abort, Done
  <2>2. Targeted'
    BY <1>5 DEF TypeOK, Targeted, Abort, Done, Idle
  <2> QED
    BY <2>1, <2>2
<1>6. ASSUME NEW w \in Workers, NEW u \in Users, LoadUser(w, u) PROVE Inv'
  <2>1. PICK new \in Targets \cap VALID_TRANSITIONS[status[u]] : Decide(w, u, new)
    BY <1>6 DEF LoadUser
  <2>2. status[u] \in Statuses
    BY <1>6 DEF LoadUser, Enrolled, TypeOK
  <2>3. [op |-> "change", user |-> u, seen |-> status[u], new |-> new] \in Deciding
    BY <2>1, <2>2 DEF Deciding, Targets
  <2>4. TypeOK'
    BY <1>6, <2>1, <2>3 DEF TypeOK, LoadUser, Decide
  <2>5. Targeted'
    BY <1>6, <2>1, <2>2, ModerationAssumption DEF TypeOK, Targeted, LoadUser, Decide
  <2> QED
    BY <2>4, <2>5
<1> QED
  BY <1>1, <1>2, <1>3, <1>4, <1>5, <1>6 DEF Next, Step

LEMMA Invariance == Spec => []Inv
BY InitInv, StepInv, PTL DEF Spec

(* Every row, history entry and request is well formed, in every           *)
(* interleaving of enrolments and decisions.                               *)
THEOREM TypeCorrect == Spec => []TypeOK
BY Invariance, PTL DEF Inv

(* A decision moves the row along VALID_TRANSITIONS or leaves it alone.    *)
LEMMA CommitMoves ==
  ASSUME Inv, NEW w \in Workers, CommitChange(w)
  PROVE  [Lifecycle!Next]_status
<1> DEFINE u == request[w].user
           new == request[w].new
<1>1. u \in Users /\ status[u] \in Statuses /\ new \in Targets
  BY RequestShape DEF Inv, TypeOK, Targeted, CommitChange
<1>2. status' = [status EXCEPT ![u] = new]
  BY DEF CommitChange
<1>3. CASE status[u] = new
  <2>1. status' = status
    BY <1>1, <1>2, <1>3 DEF Inv, TypeOK
  <2> QED
    BY <2>1
<1>4. CASE status[u] # new
  <2>1. new \in VALID_TRANSITIONS[status[u]]
    BY <1>1, <1>4 DEF Targets
  <2>2. Lifecycle!Change(u)
    BY <1>1, <1>2, <2>1 DEF Lifecycle!Change
  <2> QED
    BY <1>1, <2>2 DEF Lifecycle!Next
<1> QED
  BY <1>3, <1>4

LEMMA StepMoves == Inv /\ [Next]_vars => [Lifecycle!Next]_status
<1> SUFFICES ASSUME Inv, [Next]_vars PROVE [Lifecycle!Next]_status
  OBVIOUS
<1>1. ASSUME NEW w \in Workers, CommitEnroll(w) PROVE [Lifecycle!Next]_status
  BY <1>1 DEF CommitEnroll, Enrolled, Lifecycle!Enroll, Lifecycle!Next
<1>2. ASSUME NEW w \in Workers, CommitChange(w) PROVE [Lifecycle!Next]_status
  BY <1>2, CommitMoves
<1>3. ASSUME NEW w \in Workers, DrawCode(w) \/ Abort(w) \/ \E u \in Users : LoadUser(w, u)
      PROVE  UNCHANGED status
  BY <1>3 DEF DrawCode, Abort, LoadUser
<1> QED
  BY <1>1, <1>2, <1>3 DEF Next, Step, vars

(* Moderation implements UserStatus: with any number of moderators at work *)
(* at once, the stored status of every user only moves along               *)
(* VALID_TRANSITIONS.                                                      *)
THEOREM StatusFollowsTransitions == Spec => LifecycleSpec
<1>1. Init => Lifecycle!Init
  BY DEF Init, Lifecycle!Init
<1> QED
  BY <1>1, Invariance, StepMoves, PTL DEF Spec, LifecycleSpec, Lifecycle!Spec

(* No two accounts have one client code, though enrolments look a code up  *)
(* long before they commit it.                                             *)
THEOREM CodesStayDistinct == Spec => []CodesDistinct
<1>1. Init => CodesDistinct
  BY DEF Init, CodesDistinct, Enrolled
<1>2. Inv /\ CodesDistinct /\ [Next]_vars => CodesDistinct'
  <2> SUFFICES ASSUME Inv, CodesDistinct, [Next]_vars PROVE CodesDistinct'
    OBVIOUS
  <2>1. ASSUME NEW w \in Workers, CommitEnroll(w) PROVE CodesDistinct'
    BY <2>1 DEF CommitEnroll, CodesDistinct, Enrolled, Inv, TypeOK
  <2>2. ASSUME NEW w \in Workers, CommitChange(w) PROVE CodesDistinct'
    <3>1. request[w].user \in Enrolled
      BY <2>2, RequestShape DEF CommitChange, Inv, Targeted, Enrolled
    <3> QED
      BY <2>2, <3>1 DEF CommitChange, CodesDistinct, Enrolled, Inv, TypeOK
  <2>3. ASSUME NEW w \in Workers, DrawCode(w) \/ Abort(w) \/ \E u \in Users : LoadUser(w, u)
        PROVE  CodesDistinct'
    BY <2>3 DEF DrawCode, Abort, LoadUser, CodesDistinct, Enrolled
  <2>4. CASE UNCHANGED vars
    BY <2>4 DEF vars, CodesDistinct, Enrolled
  <2> QED
    BY <2>1, <2>2, <2>3, <2>4 DEF Next, Step
<1> QED
  BY <1>1, <1>2, Invariance, PTL DEF Spec

(* An entry for u on top of the history makes it explain u's new status    *)
(* and leaves what it says of everyone else as it was.                     *)
LEMMA RecordExplains ==
  ASSUME TypeOK, HistoryExplains, NEW u \in Users, NEW previous, NEW new \in Statuses,
         status' = [status EXCEPT ![u] = new], Record(u, previous, new)
  PROVE  HistoryExplains'
<1> DEFINE n == Len(history) + 1
<1>1. /\ Len(history) \in Nat /\ DOMAIN history = 1 .. Len(history)
      /\ DOMAIN history' = 1 .. n
      /\ history'[n] = [user |-> u, previous_status |-> previous, new_status |-> new]
      /\ \A i \in DOMAIN history : history'[i] = history[i]
  BY DEF TypeOK, Record
<1> SUFFICES ASSUME NEW v \in Users, status'[v] # None
             PROVE  \E i \in EntriesOf(v)' : /\ \A j \in EntriesOf(v)' : j <= i
                                             /\ history'[i].new_status = status'[v]
  BY DEF HistoryExplains, Enrolled
<1>2. CASE v = u
  <2>1. n \in EntriesOf(v)' /\ \A j \in EntriesOf(v)' : j <= n
    BY <1>1, <1>2 DEF EntriesOf
  <2>2. history'[n].new_status = status'[v]
    BY <1>1, <1>2 DEF TypeOK
  <2> QED
    BY <2>1, <2>2
<1>3. CASE v # u
  <2>1. EntriesOf(v)' = EntriesOf(v) /\ EntriesOf(v) \subseteq DOMAIN history
    BY <1>1, <1>3 DEF EntriesOf
  <2>2. status'[v] = status[v] /\ v \in Enrolled
    BY <1>3 DEF TypeOK, Enrolled
  <2>3. PICK i \in EntriesOf(v) : /\ \A j \in EntriesOf(v) : j <= i
                                  /\ history[i].new_status = status[v]
    BY <2>2 DEF HistoryExplains
  <2> QED
    BY <1>1, <2>1, <2>2, <2>3
<1> QED
  BY <1>2, <1>3

(* The last entry of a user's history is the status the row has, so the    *)
(* history never loses the decision that counts.                           *)
THEOREM HistoryEndsWithStatus == Spec => []HistoryExplains
<1>1. Init => HistoryExplains
  BY DEF Init, HistoryExplains, Enrolled
<1>2. Inv /\ HistoryExplains /\ [Next]_vars => HistoryExplains'
  <2> SUFFICES ASSUME Inv, HistoryExplains, [Next]_vars PROVE HistoryExplains'
    OBVIOUS
  <2>1. ASSUME NEW w \in Workers, CommitEnroll(w) PROVE HistoryExplains'
    BY <2>1, RecordExplains DEF CommitEnroll, Inv
  <2>2. ASSUME NEW w \in Workers, CommitChange(w) PROVE HistoryExplains'
    BY <2>2, RequestShape, RecordExplains DEF CommitChange, Inv
  <2>3. ASSUME NEW w \in Workers, DrawCode(w) \/ Abort(w) \/ \E u \in Users : LoadUser(w, u)
        PROVE  UNCHANGED <<status, history>>
    BY <2>3 DEF DrawCode, Abort, LoadUser
  <2>4. CASE UNCHANGED <<status, history>>
    BY <2>4 DEF HistoryExplains, Enrolled, EntriesOf
  <2> QED
    BY <2>1, <2>2, <2>3, <2>4 DEF Next, Step, vars
<1> QED
  BY <1>1, <1>2, Invariance, PTL DEF Spec

(* Who has no row has no entry, and a decision under way was checked       *)
(* against a status that an entry of its user gave.                        *)
Supported(r) ==
  r.op = "change" =>
    /\ r.new \in VALID_TRANSITIONS[r.seen]
    /\ \E i \in DOMAIN history : history[i].user = r.user /\ history[i].new_status = r.seen

Considered ==
  /\ \A u \in Users : status[u] = None => EntriesOf(u) = {}
  /\ \A w \in Workers : Supported(request[w])

HistoryInv == Inv /\ HistoryExplains /\ Considered /\ HistoryValid

(* An entry for u that is its first, or allowed by an earlier one.         *)
LEMMA RecordValid ==
  ASSUME TypeOK, HistoryValid, NEW u \in Users, NEW previous, NEW new, Record(u, previous, new),
         \/ EntriesOf(u) = {} /\ previous = None /\ new = "pending"
         \/ /\ \E i \in EntriesOf(u) : history[i].new_status = previous
            /\ new \in VALID_TRANSITIONS[previous]
  PROVE  /\ HistoryValid'
         /\ \A v \in Users \ {u} : EntriesOf(v)' = EntriesOf(v)
         /\ \A i \in DOMAIN history : i \in DOMAIN history' /\ history'[i] = history[i]
<1> DEFINE n == Len(history) + 1
<1>1. /\ Len(history) \in Nat /\ DOMAIN history = 1 .. Len(history)
      /\ DOMAIN history' = 1 .. n
      /\ history'[n] = [user |-> u, previous_status |-> previous, new_status |-> new]
      /\ \A i \in DOMAIN history : history'[i] = history[i]
  BY DEF TypeOK, Record
<1>2. n \notin DOMAIN history /\ \A i \in DOMAIN history : i \in DOMAIN history' /\ i < n
  BY <1>1
<1> DEFINE after(v) == {j \in DOMAIN history' : history'[j].user = v}
<1>3. \A v : EntriesOf(v)' = after(v) /\ after(v) = EntriesOf(v) \cup IF v = u THEN {n} ELSE {}
  BY <1>1, <1>2 DEF EntriesOf
<1>4. ASSUME NEW i \in DOMAIN history'
      PROVE  LET e == history'[i]
                 earlier == {j \in after(e.user) : j < i} IN
               IF earlier = {} THEN e.previous_status = None /\ e.new_status = "pending"
               ELSE /\ \E j \in earlier : history'[j].new_status = e.previous_status
                    /\ e.new_status \in VALID_TRANSITIONS[e.previous_status]
  <2> DEFINE e == history'[i]
             before == {j \in EntriesOf(e.user) : j < i}
             earlier == {j \in after(e.user) : j < i}
  <2>1. earlier = before
    <3>1. ~(n < i)
      BY <1>1
    <3>2. after(e.user) = EntriesOf(e.user) \cup IF e.user = u THEN {n} ELSE {}
      BY <1>3
    <3> HIDE DEF after, e, n
    <3> QED BY <3>1, <3>2
  <2>2. \A j \in before : history'[j] = history[j] /\ j \in DOMAIN history
    BY <1>1 DEF EntriesOf
  <2>3. CASE i \in DOMAIN history
    <3>1. e = history[i]
      BY <1>1, <2>3
    <3>2. IF before = {} THEN e.previous_status = None /\ e.new_status = "pending"
          ELSE /\ \E j \in before : history[j].new_status = e.previous_status
               /\ e.new_status \in VALID_TRANSITIONS[e.previous_status]
      BY <2>3, <3>1 DEF HistoryValid
    <3> HIDE DEF after, e, before, earlier
    <3> QED BY <2>1, <2>2, <3>2 DEF e, earlier
  <2>4. CASE i = n
    <3>1. e.user = u /\ e.previous_status = previous /\ e.new_status = new
      BY <1>1, <2>4
    <3>2. before = EntriesOf(u)
      BY <1>2, <2>4, <3>1 DEF EntriesOf
    <3> QED BY <2>1, <2>2, <3>1, <3>2
  <2> QED BY <1>1, <2>3, <2>4
<1>5. \A v : EntriesOf(v)' = after(v)
  BY <1>3
<1> HIDE DEF after, n
<1>6. HistoryValid'
  BY <1>4, <1>5 DEF HistoryValid, EntriesOf
<1>7. \A v \in Users \ {u} : EntriesOf(v)' = EntriesOf(v)
  BY <1>3
<1> QED BY <1>1, <1>2, <1>6, <1>7

(* Entries stay what they were, so what was considered still was.          *)
LEMMA KeepsConsidered ==
  ASSUME TypeOK, Considered,
         \A i \in DOMAIN history : i \in DOMAIN history' /\ history'[i] = history[i],
         \A v \in Workers : request'[v] = request[v] \/ request'[v].op # "change"
  PROVE  \A v \in Workers : Supported(request[v])'
BY DEF Considered, Supported

LEMMA StepHistory == HistoryInv /\ [Next]_vars => HistoryInv'
<1> SUFFICES ASSUME HistoryInv, [Next]_vars PROVE HistoryInv'
  OBVIOUS
<1>0. /\ Inv /\ TypeOK /\ Targeted /\ HistoryExplains /\ Considered /\ HistoryValid
      /\ Inv' /\ Idle.op = "idle"
  BY StepInv DEF HistoryInv, Inv, Idle
<1>1. ASSUME NEW w \in Workers, CommitEnroll(w) PROVE HistoryInv'
  <2>1. PICK u \in Users \ Enrolled : status' = [status EXCEPT ![u] = "pending"]
                                      /\ Record(u, None, "pending")
    BY <1>1 DEF CommitEnroll
  <2>2. status[u] = None /\ EntriesOf(u) = {}
    BY <1>0, <2>1 DEF Enrolled, Considered
  <2>3. /\ HistoryValid'
        /\ \A v \in Users \ {u} : EntriesOf(v)' = EntriesOf(v)
        /\ \A i \in DOMAIN history : i \in DOMAIN history' /\ history'[i] = history[i]
    BY <1>0, <2>1, <2>2, RecordValid
  <2>4. \A v \in Workers : request'[v] = request[v] \/ request'[v].op # "change"
    BY <1>0, <1>1 DEF CommitEnroll, Done, TypeOK
  <2>5. HistoryExplains'
    BY <1>0, <2>1, RecordExplains
  <2>6. \A v \in Users : status'[v] = None => EntriesOf(v)' = {}
    BY <1>0, <2>1, <2>3, ModerationAssumption DEF TypeOK, Considered
  <2>7. Considered'
    BY <1>0, <1>1, <2>3, <2>4, <2>6, KeepsConsidered DEF Considered
  <2> QED BY <1>0, <2>3, <2>5, <2>7 DEF HistoryInv
<1>2. ASSUME NEW w \in Workers, CommitChange(w) PROVE HistoryInv'
  <2> DEFINE u == request[w].user
             new == request[w].new
             seen == request[w].seen
  <2>1. /\ u \in Users /\ new \in Statuses /\ seen \in Statuses
        /\ status[u] # None /\ new \in Targets
        /\ new \in VALID_TRANSITIONS[seen]
        /\ \E i \in EntriesOf(u) : history[i].new_status = seen
    BY <1>0, <1>2, RequestShape DEF CommitChange, Considered, Supported, Targeted, EntriesOf
  <2>2. status' = [status EXCEPT ![u] = new] /\ Record(u, seen, new)
    BY <1>2 DEF CommitChange
  <2>3. /\ HistoryValid'
        /\ \A v \in Users \ {u} : EntriesOf(v)' = EntriesOf(v)
        /\ \A i \in DOMAIN history : i \in DOMAIN history' /\ history'[i] = history[i]
    BY <1>0, <2>1, <2>2, RecordValid
  <2>4. \A v \in Workers : request'[v] = request[v] \/ request'[v].op # "change"
    BY <1>0, <1>2 DEF CommitChange, Done, TypeOK
  <2>5. HistoryExplains'
    BY <1>0, <2>1, <2>2, RecordExplains
  <2>6. \A v \in Users : status'[v] = None => EntriesOf(v)' = {}
    BY <1>0, <2>1, <2>2, <2>3, ModerationAssumption DEF TypeOK, Considered, Targets
  <2>7. Considered'
    BY <1>0, <1>2, <2>3, <2>4, <2>6, KeepsConsidered DEF Considered
  <2> QED BY <1>0, <2>3, <2>5, <2>7 DEF HistoryInv
<1>3. ASSUME NEW w \in Workers, NEW u \in Users, LoadUser(w, u) PROVE HistoryInv'
  <2>1. PICK new \in Targets \cap VALID_TRANSITIONS[status[u]] : Decide(w, u, new)
    BY <1>3 DEF LoadUser
  <2>2. UNCHANGED <<status, code, history>> /\ u \in Enrolled
    BY <1>3 DEF LoadUser
  <2>3. \E i \in EntriesOf(u) : history[i].new_status = status[u]
    BY <1>0, <2>2 DEF HistoryExplains
  <2> DEFINE r == [op |-> "change", user |-> u, seen |-> status[u], new |-> new]
  <2>4. \A v \in Workers : request'[v] = request[v] \/ request'[v] = r
    BY <1>0, <2>1 DEF Decide, TypeOK
  <2>5. /\ r.new \in VALID_TRANSITIONS[r.seen]
        /\ \E i \in EntriesOf(r.user) : history[i].new_status = r.seen
    BY <2>1, <2>3
  <2> HIDE DEF r
  <2>6. Considered'
    BY <1>0, <2>2, <2>4, <2>5 DEF Considered, Supported, EntriesOf
  <2> QED BY <1>0, <2>2, <2>6
          DEF HistoryInv, HistoryExplains, HistoryValid, Enrolled, EntriesOf
<1>4. ASSUME UNCHANGED <<status, code, history>>,
             \A v \in Workers : request'[v] = request[v] \/ request'[v].op # "change"
      PROVE  HistoryInv'
  BY <1>0, <1>4
     DEF HistoryInv, HistoryExplains, Considered, Supported, HistoryValid, Enrolled, EntriesOf
<1>5. ASSUME NEW w \in Workers, DrawCode(w) \/ Abort(w) PROVE HistoryInv'
  BY <1>0, <1>4, <1>5 DEF DrawCode, Abort, Done, TypeOK
<1>6. CASE UNCHANGED vars
  BY <1>4, <1>6 DEF vars
<1> QED BY <1>1, <1>2, <1>3, <1>5, <1>6 DEF Next, Step

(* Every entry of a history starts it or records an allowed transition     *)
(* from a status that an earlier entry gave, however many decisions        *)
(* overlap.                                                                *)
THEOREM HistoryIsValid == Spec => []HistoryValid
<1>1. Init => HistoryInv
  <2>1. Init => HistoryExplains /\ Considered /\ HistoryValid
    BY DEF Init, HistoryExplains, Considered, Supported, HistoryValid, Enrolled, EntriesOf, Idle
  <2> QED BY <2>1, InitInv DEF HistoryInv
<1>2. HistoryInv => HistoryValid
  BY DEF HistoryInv
<1> QED
  BY <1>1, <1>2, StepHistory, PTL DEF Spec
=============================================================================
