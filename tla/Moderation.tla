----------------------------- MODULE Moderation -----------------------------
(***************************************************************************)
(* Enrolment (services/enrollment.py) and moderation                       *)
(* (services/moderation.py) of user accounts, with their status history.   *)
(*                                                                         *)
(* A request reads in one step and commits in a later one, with other      *)
(* requests in between: the status a moderator's decision was checked      *)
(* against may be gone when it is written, and so may the client code an   *)
(* enrolment found free.  A commit is atomic: the row and its history      *)
(* entry are one transaction.                                              *)
(***************************************************************************)
EXTENDS Integers, Sequences

CONSTANTS
  Users,       \* bound on user rows
  Codes,       \* client codes that generate_client_code may draw
  Workers,     \* threads that serve requests
  MaxHistory,  \* bound on history rows
  None

VARIABLES
  status,   \* status[u]: users.status, None while there is no row u
  code,     \* code[u]: users.client_code
  history,  \* user_status_history, in the order of the commits
  request   \* request[w]: what the request of w has read

vars == <<status, code, history, request>>

ASSUME ModerationAssumption ==
  /\ None \notin Users \cup Codes \cup {"pending", "approved", "rejected", "blocked"}
  /\ MaxHistory \in Nat

Lifecycle == INSTANCE UserStatus

Statuses == Lifecycle!Statuses
VALID_TRANSITIONS == Lifecycle!VALID_TRANSITIONS

\* The statuses that the approve, reject, block and unblock routes ask for.
Targets == {"approved", "rejected", "blocked"}

Idle == [op |-> "idle"]
Enrolling == [op : {"enroll"}, code : Codes]
Deciding == [op : {"change"}, user : Users, seen : Statuses, new : Targets]

Entry == [user : Users, previous_status : Statuses \cup {None}, new_status : Statuses]

Enrolled == {u \in Users : status[u] # None}

Init ==
  /\ status = [u \in Users |-> None]
  /\ code = [u \in Users |-> None]
  /\ history = <<>>
  /\ request = [w \in Workers |-> Idle]

Record(u, previous, new) ==
  /\ Len(history) < MaxHistory
  /\ history' = Append(history, [user |-> u, previous_status |-> previous, new_status |-> new])

Done(w) == request' = [request EXCEPT ![w] = Idle]

---------------------------------------------------------------------------
(* enroll_user                                                             *)

\* The loop: codes are drawn until a SELECT finds one that nobody has.
DrawCode(w) ==
  /\ request[w] = Idle
  /\ \E c \in Codes \ {code[u] : u \in Users} :
       request' = [request EXCEPT ![w] = [op |-> "enroll", code |-> c]]
  /\ UNCHANGED <<status, code, history>>

\* Mistake: client_code is not UNIQUE.
CommitEnroll_Duplicate(w) ==
  /\ request[w].op = "enroll"
  /\ \E u \in Users \ Enrolled :
       /\ status' = [status EXCEPT ![u] = "pending"]
       /\ code' = [code EXCEPT ![u] = request[w].code]
       /\ Record(u, None, "pending")
  /\ Done(w)

CommitEnroll(w) ==
  /\ request[w].op = "enroll"
  /\ request[w].code \notin {code[u] : u \in Users}
  /\ \E u \in Users \ Enrolled :
       /\ status' = [status EXCEPT ![u] = "pending"]
       /\ code' = [code EXCEPT ![u] = request[w].code]
       /\ Record(u, None, "pending")
  /\ Done(w)

---------------------------------------------------------------------------
(* change_user_status                                                      *)

Decide(w, u, new) ==
  request' = [request EXCEPT ![w] = [op |-> "change", user |-> u, seen |-> status[u], new |-> new]]

\* Mistake: the transition is not looked up.
LoadUser_AnyTransition(w, u) ==
  /\ request[w] = Idle /\ u \in Enrolled
  /\ \E new \in Targets : Decide(w, u, new)
  /\ UNCHANGED <<status, code, history>>

\* Mistake: unblocking puts the account back into the queue.
LoadUser_Requeues(w, u) ==
  /\ request[w] = Idle /\ u \in Enrolled
  /\ \E new \in (IF status[u] = "blocked" THEN {"pending"} ELSE Targets \cap VALID_TRANSITIONS[status[u]]) :
       Decide(w, u, new)
  /\ UNCHANGED <<status, code, history>>

\* The row, and the transition from the status it has; a user who is not
\* there and a transition that is not valid change nothing.
LoadUser(w, u) ==
  /\ request[w] = Idle /\ u \in Enrolled
  /\ \E new \in Targets \cap VALID_TRANSITIONS[status[u]] : Decide(w, u, new)
  /\ UNCHANGED <<status, code, history>>

\* Mistake: the history entry is written only if the row is as it was read.
CommitChange_Unrecorded(w) ==
  /\ request[w].op = "change"
  /\ LET r == request[w] IN
     /\ status' = [status EXCEPT ![r.user] = r.new]
     /\ IF status[r.user] = r.seen THEN Record(r.user, r.seen, r.new) ELSE UNCHANGED history
  /\ Done(w)
  /\ UNCHANGED code

\* The UPDATE names the row by its id only, whatever its status is by now.
CommitChange(w) ==
  /\ request[w].op = "change"
  /\ LET r == request[w] IN
     /\ status' = [status EXCEPT ![r.user] = r.new]
     /\ Record(r.user, r.seen, r.new)
  /\ Done(w)
  /\ UNCHANGED code

\* The commit fails (a code taken meanwhile, a lost connection), or the
\* process dies: the transaction is rolled back.
Abort(w) ==
  /\ request[w] # Idle
  /\ Done(w)
  /\ UNCHANGED <<status, code, history>>

---------------------------------------------------------------------------
Step(w) == DrawCode(w) \/ CommitEnroll(w) \/ CommitChange(w) \/ Abort(w)

Next == \E w \in Workers : Step(w) \/ \E u \in Users : LoadUser(w, u)

Spec == Init /\ [][Next]_vars

---------------------------------------------------------------------------
(* Rows are well formed: a user has a code as soon as there is a row.      *)
TypeOK ==
  /\ status \in [Users -> Statuses \cup {None}]
  /\ code \in [Users -> Codes \cup {None}]
  /\ \A u \in Users : status[u] = None <=> code[u] = None
  /\ history \in Seq(Entry)
  /\ request \in [Workers -> {Idle} \cup Enrolling \cup Deciding]

(* However the decisions of moderators overlap, the stored status of a     *)
(* user only moves along VALID_TRANSITIONS, and never back to pending.     *)
LifecycleSpec == Lifecycle!Spec

(* A client code names one user, though it was looked up before the commit.*)
CodesDistinct == \A u, v \in Enrolled : u # v => code[u] # code[v]

EntriesOf(u) == {i \in DOMAIN history : history[i].user = u}

(* The last entry in a user's history says what the status is, and there   *)
(* is one: no decision is applied without its entry, or the reverse.       *)
HistoryExplains == \A u \in Enrolled :
  \E i \in EntriesOf(u) :
    /\ \A j \in EntriesOf(u) : j <= i
    /\ history[i].new_status = status[u]

(* A history starts with the enrolment.  Every later entry records a      *)
(* transition that is allowed, from a status that an earlier entry gave to *)
(* that user, even if a decision that overlapped has changed it since.     *)
HistoryValid == \A i \in DOMAIN history :
  LET e == history[i]
      earlier == {j \in EntriesOf(e.user) : j < i} IN
    IF earlier = {} THEN e.previous_status = None /\ e.new_status = "pending"
    ELSE /\ \E j \in earlier : history[j].new_status = e.previous_status
         /\ e.new_status \in VALID_TRANSITIONS[e.previous_status]
=============================================================================
