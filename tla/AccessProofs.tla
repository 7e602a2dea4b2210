---------------------------- MODULE AccessProofs ----------------------------
(***************************************************************************)
(* Theorems about Access for any number of users, groups, streams, paths   *)
(* and threads.                                                            *)
(*                                                                         *)
(* A request stands at a place because of what it read on the way there,   *)
(* and what it read was true, or false, at that moment (Reasons).  A step  *)
(* of somebody else leaves the request alone and can only add to what was  *)
(* noted of it, so the reasons stay; a step of its own adds the reason for *)
(* the place it goes to.                                                   *)
(***************************************************************************)
EXTENDS Access, TLAPS

\* noted keeps the facts that the properties ask for.
HeldFacts == {"approved", "served", "named", "active", "on", "access"}
FailedFacts == {"approved", "served", "named", "active", "on", "direct"} \cup Groups

NotesAsked == (HeldFacts \X {"held"}) \cup (FailedFacts \X {"failed"}) \subseteq Noting

PathsDistinct == \A s, t \in Streams : s # t => stream[s].path # stream[t].path

After(v, places) == request[v].at \in places

Checking == {"direct", "group", "admitted"}

(* Why a request is where it is: the reasons to go on...                   *)
Reasons(v) ==
  /\ After(v, {"stream"} \cup Checking) => Was(v, "approved")
  /\ After(v, Checking) /\ request[v].op = "find" => Was(v, "on")
  /\ After(v, Checking) /\ request[v].op = "list" => Was(v, "active")
  /\ After(v, {"user", "stream"} \cup Checking) /\ request[v].op = "admit" =>
       /\ Was(v, "served")
       /\ request[v].same => Was(v, "named")
       /\ Was(v, "on") \/ WasNot(v, "named")
  /\ After(v, Checking) /\ request[v].op = "admit" => Was(v, "named")
  /\ After(v, {"admitted"}) => Was(v, "access")

(* ... and the reasons to refuse.                                          *)
Lacks(v) ==
  /\ After(v, {"group"}) => WasNot(v, "direct")
  /\ After(v, {"refused"}) =>
       \/ WasNot(v, "approved")
       \/ Unserved(v)
       \/ WasNot(v, "direct") /\ \A g \in Groups : WasNot(v, g)

Named(v) == request[v].op # "find" \/ After(v, Checking) => request[v].stream \in Streams

Explained(v) == request[v] # Idle => Reasons(v) /\ Lacks(v) /\ Named(v)

\* A user that a request found approved has not disappeared since.
Known(v) == request[v] # Idle /\ After(v, {"stream"} \cup Checking) => status[request[v].user] # None

Inv == TypeOK /\ PathsDistinct /\ \A v \in Viewers : Explained(v) /\ Known(v)

(* What holds, or fails, of a request once a step is over is noted, unless *)
(* the request was answered before it.                                     *)
LEMMA FactNoted ==
  ASSUME NotesAsked, Observe, NEW v \in Viewers, request'[v] # Idle, ~Answered(v),
         NEW f, Asks(f, request[v])'
  PROVE  /\ f \in HeldFacts /\ Holds(f, request[v])' => Was(v, f)'
         /\ f \in FailedFacts /\ ~Holds(f, request[v])' => WasNot(v, f)'
<1>1. noted'[v] = noted[v] \cup Facts(request[v])'
  BY DEF Observe
<1>2. /\ f \in HeldFacts => <<f, "held">> \in Noting
      /\ f \in FailedFacts => <<f, "failed">> \in Noting
  BY DEF NotesAsked
<1>3. f \in HeldFacts /\ Holds(f, request[v])' => <<f, "held">> \in Facts(request[v])'
  BY <1>2 DEF Facts
<1>4. f \in FailedFacts /\ ~Holds(f, request[v])' => <<f, "failed">> \in Facts(request[v])'
  BY <1>2 DEF Facts
<1> QED
  BY <1>1, <1>3, <1>4 DEF Was, WasNot

(* The same, for a step that leaves the tables alone, fact by fact.        *)
LEMMA ReadNoted ==
  ASSUME NotesAsked, Observe, UNCHANGED tables, NEW v \in Viewers, request'[v] # Idle,
         ~Answered(v)
  PROVE  LET r == request'[v] IN
    /\ status[r.user] = "approved" => Was(v, "approved")'
    /\ status[r.user] # "approved" => WasNot(v, "approved")'
    /\ ActiveAt(r.path) # {} => Was(v, "served")'
    /\ ActiveAt(r.path) = {} => WasNot(v, "served")'
    /\ r.stream # None =>
         /\ r.op = "admit" /\ stream[r.stream].path = r.path => Was(v, "named")'
         /\ r.op = "admit" /\ stream[r.stream].path # r.path => WasNot(v, "named")'
         /\ r.op = "list" /\ stream[r.stream].active => Was(v, "active")'
         /\ r.op = "list" /\ ~stream[r.stream].active => WasNot(v, "active")'
         /\ r.stream \in ActiveAt(r.path) => Was(v, "on")'
         /\ r.stream \notin ActiveAt(r.path) => WasNot(v, "on")'
         /\ HasAccess(r.user, r.stream) => Was(v, "access")'
         /\ ~Granted(r.user, r.stream) => WasNot(v, "direct")'
         /\ \A g \in Groups : ~ThroughGroup(r.user, r.stream, g) => WasNot(v, g)'
<1> DEFINE r == request'[v]
<1> USE DEF tables, acl, HeldFacts, FailedFacts
<1>1. /\ status[r.user] = "approved" => Was(v, "approved")'
      /\ status[r.user] # "approved" => WasNot(v, "approved")'
  BY FactNoted, AccessAssumption DEF Holds, Asks
<1>2. /\ ActiveAt(r.path) # {} => Was(v, "served")'
      /\ ActiveAt(r.path) = {} => WasNot(v, "served")'
  BY FactNoted, AccessAssumption DEF Holds, Asks, ActiveAt
<1>3. ASSUME r.stream # None, r.op = "admit"
      PROVE  /\ stream[r.stream].path = r.path => Was(v, "named")'
             /\ stream[r.stream].path # r.path => WasNot(v, "named")'
  BY <1>3, FactNoted, AccessAssumption DEF Holds, Asks
<1>4. ASSUME r.stream # None, r.op = "list"
      PROVE  /\ stream[r.stream].active => Was(v, "active")'
             /\ ~stream[r.stream].active => WasNot(v, "active")'
  BY <1>4, FactNoted, AccessAssumption DEF Holds, Asks
<1>5. ASSUME r.stream # None
      PROVE  /\ r.stream \in ActiveAt(r.path) => Was(v, "on")'
             /\ r.stream \notin ActiveAt(r.path) => WasNot(v, "on")'
  BY <1>5, FactNoted, AccessAssumption DEF Holds, Asks, ActiveAt
<1>6. ASSUME r.stream # None
      PROVE  /\ HasAccess(r.user, r.stream) => Was(v, "access")'
             /\ ~Granted(r.user, r.stream) => WasNot(v, "direct")'
  BY <1>6, FactNoted, AccessAssumption DEF Holds, Asks, HasAccess, Granted, ThroughGroup
<1>7. ASSUME r.stream # None, NEW g \in Groups, ~ThroughGroup(r.user, r.stream, g)
      PROVE  WasNot(v, g)'
  BY <1>7, FactNoted, AccessAssumption DEF Holds, Asks, ThroughGroup
<1> QED
  BY <1>1, <1>2, <1>3, <1>4, <1>5, <1>6, <1>7

---------------------------------------------------------------------------
(* Types                                                                   *)

LEMMA RequestShape ==
  ASSUME TypeOK, NEW v \in Viewers, request[v] # Idle
  PROVE  /\ request[v] \in Request
         /\ request[v].op \in Ops /\ request[v].at \in Places
         /\ request[v].user \in Users /\ request[v].stream \in Streams \cup {None}
         /\ request[v].path \in Names \cup {None} /\ request[v].same \in BOOLEAN
BY DEF TypeOK, Request

\* What a step of the administrators keeps true of the tables.
TablesOK ==
  /\ status \in [Users -> Account!Statuses \cup {None}]
  /\ stream \in [Streams -> [path : Paths, active : BOOLEAN]]
  /\ PathsDistinct
  /\ groups \subseteq Groups
  /\ members \subseteq {u \in Users : status[u] # None} \X groups
  /\ direct \subseteq {u \in Users : status[u] # None} \X Streams
  /\ shared \subseteq groups \X Streams

(* An account that has enrolled stays.                                     *)
LEMMA ModerateKeeps ==
  ASSUME TablesOK, Moderate
  PROVE  /\ status' \in [Users -> Account!Statuses \cup {None}]
         /\ \A u \in Users : status[u] # None => status'[u] # None
<1>1. PICK u \in Users : Account!Enroll(u) \/ Account!Change(u)
  BY DEF Moderate, Account!Next
<1>2. CASE Account!Enroll(u)
  BY <1>2, AccessAssumption DEF TablesOK, Account!Enroll, Account!Statuses
<1>3. CASE Account!Change(u)
  <2>1. PICK new \in Account!VALID_TRANSITIONS[status[u]] : status' = [status EXCEPT ![u] = new]
    BY <1>3 DEF Account!Change
  <2>2. new \in Account!Statuses /\ new # None
    BY <1>3, <2>1, AccessAssumption DEF Account!Change, Account!Statuses, Account!VALID_TRANSITIONS
  <2> QED
    BY <2>1, <2>2 DEF TablesOK
<1> QED
  BY <1>1, <1>2, <1>3

LEMMA AdministerKeeps ==
  ASSUME TablesOK, Administer
  PROVE  TablesOK' /\ \A u \in Users : status[u] # None => status'[u] # None
<1>1. CASE Moderate
  BY <1>1, ModerateKeeps DEF Moderate, TablesOK, PathsDistinct, acl
<1>2. ASSUME NEW s \in Streams, Patch(s) PROVE TablesOK' /\ UNCHANGED status
  <2>1. PICK p \in Paths \ {stream[t].path : t \in Streams \ {s}}, a \in BOOLEAN :
          stream' = [stream EXCEPT ![s] = [path |-> p, active |-> a]]
    BY <1>2 DEF Patch
  <2>2. PathsDistinct'
    BY <2>1 DEF TablesOK, PathsDistinct
  <2> QED
    BY <1>2, <2>1, <2>2 DEF Patch, TablesOK, acl
<1>3. ASSUME NEW g \in Groups, CreateGroup(g) PROVE TablesOK' /\ UNCHANGED status
  BY <1>3 DEF CreateGroup, TablesOK, PathsDistinct
<1>4. ASSUME NEW g \in Groups, NEW u \in Users, AddMember(u, g) \/ RemoveMember(u, g)
      PROVE  TablesOK' /\ UNCHANGED status
  BY <1>4 DEF AddMember, RemoveMember, TablesOK, PathsDistinct
<1>5. ASSUME NEW g \in Groups, NEW s \in Streams, GrantGroup(g, s) \/ RevokeGroup(g, s)
      PROVE  TablesOK' /\ UNCHANGED status
  BY <1>5 DEF GrantGroup, RevokeGroup, TablesOK, PathsDistinct
<1>6. ASSUME NEW u \in Users, NEW s \in Streams, GrantUser(u, s) \/ RevokeUser(u, s)
      PROVE  TablesOK' /\ UNCHANGED status
  BY <1>6 DEF GrantUser, RevokeUser, TablesOK, PathsDistinct
<1> QED
  BY <1>1, <1>2, <1>3, <1>4, <1>5, <1>6 DEF Administer

LEMMA TablesTyped == Inv => TablesOK
BY DEF Inv, TypeOK, TablesOK

---------------------------------------------------------------------------
(* A step of somebody else                                                 *)

LEMMA KeptExplained ==
  ASSUME Observe, NEW v \in Viewers, request'[v] = request[v], Explained(v)
  PROVE  Explained(v)'
<1> SUFFICES ASSUME request[v] # Idle PROVE (Reasons(v) /\ Lacks(v) /\ Named(v))'
  BY DEF Explained
<1>1. noted[v] \subseteq noted'[v]
  BY DEF Observe
<1>2. Reasons(v)'
  BY <1>1 DEF Explained, Reasons, After, Was, WasNot
<1>3. Lacks(v)'
  BY <1>1 DEF Explained, Lacks, Unserved, After, Was, WasNot
<1>4. Named(v)'
  BY DEF Explained, Named, After
<1> QED
  BY <1>2, <1>3, <1>4

LEMMA ObserveTyped == Observe => noted' \in [Viewers -> SUBSET Noting] \/ noted \notin [Viewers -> SUBSET Noting]
BY DEF Observe, Facts

LEMMA AdministerInv == Inv /\ Administer /\ Observe => Inv'
<1> SUFFICES ASSUME Inv, Administer, Observe PROVE Inv'
  OBVIOUS
<1>1. TablesOK' /\ \A u \in Users : status[u] # None => status'[u] # None
  BY TablesTyped, AdministerKeeps
<1>2. UNCHANGED <<tokens, request>>
  BY DEF Administer
<1>3. TypeOK' /\ PathsDistinct'
  BY <1>1, <1>2, ObserveTyped DEF Inv, TypeOK, TablesOK
<1>4. ASSUME NEW v \in Viewers PROVE Explained(v)' /\ Known(v)'
  <2>1. Explained(v)'
    BY <1>2, KeptExplained DEF Inv
  <2>2. Known(v)'
    BY <1>1, <1>2, RequestShape DEF Inv, Known, After
  <2> QED
    BY <2>1, <2>2
<1> QED
  BY <1>3, <1>4 DEF Inv

---------------------------------------------------------------------------
(* A step of the request itself                                            *)

\* What there is to show of a step of v that goes on to a request r.
LEMMA StepOf ==
  ASSUME Inv, Observe, UNCHANGED tables, NEW v \in Viewers,
         NEW r \in {Idle} \cup Request, request' = [request EXCEPT ![v] = r],
         tokens' \subseteq {u \in Users : status[u] # None} \X Streams,
         Explained(v)', Known(v)'
  PROVE  Inv'
<1>1. request' \in [Viewers -> {Idle} \cup Request]
  BY DEF Inv, TypeOK
<1>2. TypeOK' /\ PathsDistinct'
  BY <1>1, ObserveTyped DEF Inv, TypeOK, PathsDistinct, tables, acl
<1>3. ASSUME NEW w \in Viewers PROVE Explained(w)' /\ Known(w)'
  <2>1. CASE w = v
    BY <2>1
  <2>2. CASE w # v
    <3>1. request'[w] = request[w]
      BY <2>2 DEF Inv, TypeOK
    <3>2. Explained(w)'
      BY <3>1, KeptExplained DEF Inv
    <3>3. Known(w)'
      BY <3>1 DEF Inv, Known, After, tables
    <3> QED
      BY <3>2, <3>3
  <2> QED
    BY <2>1, <2>2
<1> QED
  BY <1>2, <1>3 DEF Inv

LEMMA ConnectInv ==
  ASSUME Inv, NotesAsked, Observe, UNCHANGED tables, NEW v \in Viewers,
         NEW t \in tokens, NEW p \in Names, Connect(v, t, p)
  PROVE  Inv'
<1> DEFINE r == [op |-> "admit", at |-> IF ActiveAt(p) = {} THEN "refused" ELSE "user",
                 user |-> t[1], stream |-> t[2], path |-> p, same |-> t[2] \in ActiveAt(p)]
<1>1. r \in Request /\ t[2] \in Streams /\ t[2] # None /\ t[1] \in Users
  BY AccessAssumption DEF Inv, TypeOK, Request, Ops, Places
<1>2. request' = [request EXCEPT ![v] = r] /\ UNCHANGED tokens /\ ~Answered(v)
  BY DEF Connect, Begin, Answered
<1>3. request'[v] = r /\ r # Idle
  BY <1>2 DEF Inv, TypeOK, Idle
<1>4. /\ ActiveAt(p) # {} => Was(v, "served")'
      /\ t[2] \in ActiveAt(p) => Was(v, "on")' /\ Was(v, "named")'
      /\ t[2] \notin ActiveAt(p) => WasNot(v, "on")'
      /\ stream[t[2]].path # p => WasNot(v, "named")'
  BY <1>1, <1>2, <1>3, ReadNoted DEF ActiveAt
<1>5. ActiveAt(p) # {} /\ t[2] \notin ActiveAt(p) => stream[t[2]].path # p
  BY <1>1 DEF Inv, PathsDistinct, ActiveAt
<1>6. Reasons(v)'
  <2>1. request'[v].at \in {"user", "refused"} /\ (request'[v].at = "user" => ActiveAt(p) # {})
    BY <1>3
  <2>2. request'[v].same => Was(v, "named")'
    <3>1. request'[v].same = (t[2] \in ActiveAt(p))
      BY <1>3
    <3> QED
      BY <1>4, <3>1, Zenon
  <2>3. request'[v].op = "admit"
    BY <1>3
  <2> QED
    BY <1>4, <1>5, <2>1, <2>2, <2>3 DEF Reasons, After, Checking
<1>7. Lacks(v)'
  <2>1. ActiveAt(p) = {} => WasNot(v, "on")'
    BY <1>4
  <2> QED
    BY <1>3, <2>1 DEF Lacks, After, Unserved
<1>8. Named(v)' /\ Known(v)'
  BY <1>1, <1>3 DEF Named, Known, After, Checking
<1> QED
  BY <1>1, <1>2, <1>6, <1>7, <1>8, StepOf DEF Explained, Inv, TypeOK

LEMMA AskInv ==
  ASSUME Inv, NotesAsked, Observe, UNCHANGED tables, NEW v \in Viewers,
         NEW u \in Users, NEW op \in {"issue", "list", "find"},
         NEW s \in Streams \cup {None}, NEW p \in Names \cup {None},
         op # "find" => s \in Streams, Ask(v, u, op, s, p)
  PROVE  Inv'
<1> DEFINE at == IF status[u] # "approved" THEN "refused" ELSE IF op = "issue" THEN "direct" ELSE "stream"
           r == [op |-> op, at |-> at, user |-> u, stream |-> s, path |-> p, same |-> FALSE]
<1>1. r \in Request
  BY DEF Request, Ops, Places
<1>2. request' = [request EXCEPT ![v] = r] /\ UNCHANGED tokens /\ ~Answered(v)
  BY DEF Ask, Begin, Answered
<1>3. request'[v] = r /\ r # Idle
  BY <1>2 DEF Inv, TypeOK, Idle
<1>4. /\ status[u] = "approved" => Was(v, "approved")'
      /\ status[u] # "approved" => WasNot(v, "approved")'
  BY <1>2, <1>3, ReadNoted
<1>5. Reasons(v)'
  BY <1>3, <1>4 DEF Reasons, After, Checking
<1>6. Lacks(v)'
  BY <1>3, <1>4 DEF Lacks, After
<1>7. Named(v)'
  BY <1>3 DEF Named, After, Checking
<1>8. Known(v)'
  BY <1>3, AccessAssumption DEF Known, After, Checking, tables
<1> QED
  BY <1>1, <1>2, <1>5, <1>6, <1>7, <1>8, StepOf DEF Explained, Inv, TypeOK

\* A step that only moves on: what was noted before is noted still.
LEMMA Moved ==
  ASSUME Inv, Observe, NEW v \in Viewers, request[v] # Idle, NEW place \in Places, Goto(v, place)
  PROVE  /\ request' = [request EXCEPT ![v] = [request[v] EXCEPT !.at = place]]
         /\ [request[v] EXCEPT !.at = place] \in Request
         /\ request'[v] # Idle /\ request'[v].at = place /\ request'[v].op = request[v].op
         /\ request'[v].user = request[v].user /\ request'[v].stream = request[v].stream
         /\ request'[v].path = request[v].path /\ request'[v].same = request[v].same
         /\ noted[v] \subseteq noted'[v]
<1>1. request[v] \in Request
  BY RequestShape DEF Inv
<1>2. /\ request' = [request EXCEPT ![v] = [request[v] EXCEPT !.at = place]]
      /\ [request[v] EXCEPT !.at = place] \in Request
  <2>1. [request[v] EXCEPT !.at = place] \in Request
    BY <1>1 DEF Request
  <2>2. request' = [request EXCEPT ![v] = [request[v] EXCEPT !.at = place]]
    BY DEF Goto
  <2> QED
    BY <2>1, <2>2
<1>3. request'[v] = [request[v] EXCEPT !.at = place]
  BY <1>2 DEF Inv, TypeOK
<1>4. request'[v] # Idle
  BY <1>1, <1>3 DEF Request, Idle, Ops
<1> QED
  BY <1>1, <1>2, <1>3, <1>4 DEF Request, Observe

\* StepOf for the steps that only move on, without a new token.
LEMMA MoveInv ==
  ASSUME Inv, Observe, UNCHANGED tables, NEW v \in Viewers, request[v] # Idle,
         NEW place \in Places, Goto(v, place), UNCHANGED tokens,
         Reasons(v)', Lacks(v)', Named(v)', Known(v)'
  PROVE  Inv'
<1> DEFINE r == [request[v] EXCEPT !.at = place]
<1>1. request' = [request EXCEPT ![v] = r] /\ r \in {Idle} \cup Request
  BY Moved
<1>2. tokens' \subseteq {u \in Users : status[u] # None} \X Streams
  BY DEF Inv, TypeOK
<1>3. Explained(v)'
  BY DEF Explained
<1> HIDE DEF r
<1> QED
  BY <1>1, <1>2, <1>3, StepOf

LEMMA ReadUserInv ==
  ASSUME Inv, NotesAsked, Observe, UNCHANGED tables, NEW v \in Viewers, ReadUser(v)
  PROVE  Inv'
<1> DEFINE r == request[v]
           place == IF <<r.user, r.stream>> \notin tokens THEN "expired"
                    ELSE IF status[r.user] # "approved" THEN "refused" ELSE "stream"
<1>1. /\ r # Idle /\ r.op = "admit" /\ r.at = "user" /\ place \in Places
      /\ Goto(v, place) /\ UNCHANGED tokens /\ ~Answered(v)
  BY DEF ReadUser, At, Places, Answered
<1>2. /\ request'[v] # Idle /\ request'[v].at = place /\ request'[v].op = "admit"
      /\ request'[v].user = r.user /\ request'[v].stream = r.stream
      /\ request'[v].same = r.same /\ noted[v] \subseteq noted'[v]
  BY <1>1, Moved
<1>3. /\ status[r.user] = "approved" => Was(v, "approved")'
      /\ status[r.user] # "approved" => WasNot(v, "approved")'
  BY <1>1, <1>2, ReadNoted
<1>4. Reasons(v)'
  BY <1>1, <1>2, <1>3 DEF Inv, Explained, Reasons, After, Checking, Was, WasNot
<1>5. Lacks(v)'
  BY <1>2, <1>3 DEF Lacks, After
<1>6. Named(v)'
  BY <1>1, <1>2 DEF Inv, Explained, Named, After, Checking
<1>7. Known(v)'
  BY <1>2, AccessAssumption DEF Known, After, Checking, tables
<1> QED
  BY <1>1, <1>4, <1>5, <1>6, <1>7, MoveInv

LEMMA ReadStreamInv ==
  ASSUME Inv, NotesAsked, Observe, UNCHANGED tables, NEW v \in Viewers, ReadStream(v)
  PROVE  Inv'
<1> DEFINE r == request[v]
           place == IF r.same \/ stream[r.stream].path = r.path THEN "direct" ELSE "refused"
<1>1. /\ r # Idle /\ r.op = "admit" /\ r.at = "stream" /\ place \in Places
      /\ Goto(v, place) /\ UNCHANGED tokens /\ ~Answered(v)
  BY DEF ReadStream, At, Places, Answered
<1>2. /\ request'[v] # Idle /\ request'[v].at = place /\ request'[v].op = "admit"
      /\ request'[v].user = r.user /\ request'[v].stream = r.stream /\ request'[v].path = r.path
      /\ request'[v].same = r.same /\ noted[v] \subseteq noted'[v]
  BY <1>1, Moved
<1>3. r.stream \in Streams /\ r.stream # None
  BY <1>1, AccessAssumption DEF Inv, Explained, Named
<1>4. /\ stream[r.stream].path = r.path => Was(v, "named")'
      /\ r.stream \notin ActiveAt(r.path) => WasNot(v, "on")'
  BY <1>1, <1>2, <1>3, ReadNoted
<1>5. Was(v, "approved") /\ (r.same => Was(v, "named")) /\ Was(v, "served")
      /\ (Was(v, "on") \/ WasNot(v, "named"))
  BY <1>1 DEF Inv, Explained, Reasons, After
<1>6. Reasons(v)'
  BY <1>2, <1>4, <1>5 DEF Reasons, After, Checking, Was, WasNot
<1>7. Lacks(v)'
  <2>1. place = "refused" => WasNot(v, "on")'
    BY <1>4 DEF ActiveAt
  <2> QED
    BY <1>2, <2>1 DEF Lacks, After, Unserved
<1>8. Named(v)' /\ Known(v)'
  BY <1>1, <1>2, <1>3 DEF Named, Known, After, Checking, Inv, tables
<1> QED
  BY <1>1, <1>6, <1>7, <1>8, MoveInv

LEMMA ListStreamInv ==
  ASSUME Inv, NotesAsked, Observe, UNCHANGED tables, NEW v \in Viewers, ListStream(v)
  PROVE  Inv'
<1> DEFINE r == request[v]
           place == IF stream[r.stream].active THEN "direct" ELSE "refused"
<1>1. /\ r # Idle /\ r.op = "list" /\ r.at = "stream" /\ place \in Places
      /\ Goto(v, place) /\ UNCHANGED tokens /\ ~Answered(v)
  BY DEF ListStream, At, Places, Answered
<1>2. /\ request'[v] # Idle /\ request'[v].at = place /\ request'[v].op = "list"
      /\ request'[v].user = r.user /\ request'[v].stream = r.stream
      /\ noted[v] \subseteq noted'[v]
  BY <1>1, Moved
<1>3. r.stream \in Streams /\ r.stream # None
  BY <1>1, AccessAssumption DEF Inv, Explained, Named
<1>4. /\ place = "direct" => Was(v, "active")'
      /\ place = "refused" => WasNot(v, "active")'
  BY <1>1, <1>2, <1>3, ReadNoted
<1>5. Was(v, "approved")
  BY <1>1 DEF Inv, Explained, Reasons, After
<1>6. Reasons(v)'
  BY <1>2, <1>4, <1>5 DEF Reasons, After, Checking, Was
<1>7. Lacks(v)'
  BY <1>2, <1>4 DEF Lacks, After, Unserved
<1>8. Named(v)' /\ Known(v)'
  BY <1>1, <1>2, <1>3 DEF Named, Known, After, Checking, Inv, tables
<1> QED
  BY <1>1, <1>6, <1>7, <1>8, MoveInv

LEMMA FindStreamInv ==
  ASSUME Inv, NotesAsked, Observe, UNCHANGED tables, NEW v \in Viewers, FindStream(v)
  PROVE  Inv'
<1> DEFINE r == request[v]
<1>1. r # Idle /\ r.op = "find" /\ r.at = "stream" /\ UNCHANGED tokens /\ ~Answered(v)
  BY DEF FindStream, At, Answered
<1>2. Was(v, "approved") /\ status[r.user] # None
  BY <1>1 DEF Inv, Explained, Reasons, After, Known
<1>3. CASE r.path \in Keys \/ ActiveAt(r.path) = {}
  <2>1. Goto(v, "refused") /\ "refused" \in Places
    BY <1>3 DEF FindStream, Places
  <2>2. /\ request'[v] # Idle /\ request'[v].at = "refused" /\ request'[v].op = "find"
        /\ request'[v].path = r.path
    BY <1>1, <2>1, Moved
  <2>3. r.path \notin Keys => WasNot(v, "served")'
    BY <1>1, <1>3, <2>2, ReadNoted
  <2>4. Lacks(v)'
    BY <2>2, <2>3 DEF Lacks, After, Unserved
  <2>5. Reasons(v)' /\ Named(v)' /\ Known(v)'
    BY <2>2 DEF Reasons, Named, Known, After, Checking
  <2> QED
    BY <1>1, <2>1, <2>4, <2>5, MoveInv
<1>4. CASE ~(r.path \in Keys \/ ActiveAt(r.path) = {})
  <2>1. PICK s \in ActiveAt(r.path) : request' = [request EXCEPT ![v].stream = s, ![v].at = "direct"]
    BY <1>4 DEF FindStream
  <2> DEFINE q == [r EXCEPT !.stream = s, !.at = "direct"]
  <2>2. s \in Streams /\ s # None
    BY AccessAssumption DEF ActiveAt
  <2>3. r \in Request
    BY <1>1, RequestShape DEF Inv
  <2>4. q \in Request
    BY <2>2, <2>3 DEF Request, Places
  <2>5. request' = [request EXCEPT ![v] = q]
    BY <2>1
  <2>6. /\ request'[v] = q /\ q.op = "find" /\ q.at = "direct" /\ q.stream = s
        /\ q.path = r.path /\ q.user = r.user /\ q # Idle
    BY <1>1, <2>3, <2>5 DEF Inv, TypeOK, Request, Idle
  <2> HIDE DEF q
  <2>7. Was(v, "on")'
    BY <1>1, <2>2, <2>6, ReadNoted
  <2>8. noted[v] \subseteq noted'[v]
    BY <2>6 DEF Observe
  <2>9. Reasons(v)' /\ Lacks(v)'
    BY <1>2, <2>6, <2>7, <2>8 DEF Reasons, Lacks, After, Checking, Was
  <2>10. Named(v)' /\ Known(v)'
    BY <1>2, <2>2, <2>6 DEF Named, Known, After, Checking, tables
  <2>11. Explained(v)' /\ tokens' \subseteq {u \in Users : status[u] # None} \X Streams
    BY <1>1, <2>9, <2>10 DEF Explained, Inv, TypeOK
  <2> QED
    BY <2>4, <2>5, <2>10, <2>11, StepOf
<1> QED
  BY <1>3, <1>4

(* A positive decision: the reasons are those of the check before it, and  *)
(* the access that the last SELECT found.                                  *)
LEMMA AdmitInv ==
  ASSUME Inv, NotesAsked, Observe, UNCHANGED tables, NEW v \in Viewers,
         request[v] # Idle, request[v].at \in {"direct", "group"}, Admit(v),
         HasAccess(request[v].user, request[v].stream)
  PROVE  Inv'
<1> DEFINE r == request[v]
           q == [r EXCEPT !.at = "admitted"]
<1>1. Goto(v, "admitted") /\ "admitted" \in Places /\ ~Answered(v)
  BY DEF Admit, Places, Answered
<1>2. /\ request' = [request EXCEPT ![v] = q] /\ q \in Request
      /\ request'[v] # Idle /\ request'[v].at = "admitted" /\ request'[v].op = r.op
      /\ request'[v].user = r.user /\ request'[v].stream = r.stream
      /\ request'[v].path = r.path /\ request'[v].same = r.same
      /\ noted[v] \subseteq noted'[v]
  BY <1>1, Moved
<1>3. r.stream \in Streams /\ r.stream # None /\ r.user \in Users /\ status[r.user] # None
  BY RequestShape, AccessAssumption DEF Inv, Explained, Named, Known, After, Checking
<1>4. Was(v, "access")'
  BY <1>1, <1>2, <1>3, ReadNoted
<1>5. Reasons(v)'
  BY <1>2, <1>4 DEF Inv, Explained, Reasons, After, Checking, Was, WasNot
<1>6. Lacks(v)' /\ Named(v)' /\ Known(v)'
  BY <1>2, <1>3 DEF Lacks, Named, Known, After, Checking, tables
<1>7. tokens' \subseteq {u \in Users : status[u] # None} \X Streams
  <2>1. <<r.user, r.stream>> \in {u \in Users : status[u] # None} \X Streams
    BY <1>3
  <2>2. tokens' \subseteq tokens \cup {<<r.user, r.stream>>}
    BY DEF Admit
  <2> QED
    BY <2>1, <2>2 DEF Inv, TypeOK
<1>8. Explained(v)'
  BY <1>5, <1>6 DEF Explained
<1> HIDE DEF q
<1> QED
  BY <1>2, <1>6, <1>7, <1>8, StepOf

LEMMA CheckDirectInv ==
  ASSUME Inv, NotesAsked, Observe, UNCHANGED tables, NEW v \in Viewers, CheckDirect(v)
  PROVE  Inv'
<1> DEFINE r == request[v]
<1>1. r # Idle /\ r.op \in Ops /\ r.at = "direct" /\ ~Answered(v)
  BY DEF CheckDirect, At, Answered
<1>2. CASE Granted(r.user, r.stream)
  BY <1>1, <1>2, AdmitInv DEF CheckDirect, HasAccess
<1>3. CASE ~Granted(r.user, r.stream)
  <2>1. Goto(v, "group") /\ UNCHANGED tokens /\ "group" \in Places
    BY <1>3 DEF CheckDirect, Places
  <2>2. /\ request'[v] # Idle /\ request'[v].at = "group" /\ request'[v].op = r.op
        /\ request'[v].user = r.user /\ request'[v].stream = r.stream
        /\ request'[v].path = r.path /\ request'[v].same = r.same
        /\ noted[v] \subseteq noted'[v]
    BY <1>1, <2>1, Moved
  <2>3. r.stream \in Streams /\ r.stream # None /\ status[r.user] # None
    BY <1>1, AccessAssumption DEF Inv, Explained, Named, Known, After, Checking
  <2>4. WasNot(v, "direct")'
    BY <1>1, <1>3, <2>2, <2>3, ReadNoted
  <2>5. Reasons(v)'
    BY <1>1, <2>2 DEF Inv, Explained, Reasons, After, Checking, Was, WasNot
  <2>6. Lacks(v)' /\ Named(v)' /\ Known(v)'
    BY <2>2, <2>3, <2>4 DEF Lacks, Named, Known, After, Checking, tables
  <2> QED
    BY <1>1, <2>1, <2>5, <2>6, MoveInv
<1> QED
  BY <1>2, <1>3

LEMMA CheckGroupInv ==
  ASSUME Inv, NotesAsked, Observe, UNCHANGED tables, NEW v \in Viewers, CheckGroup(v)
  PROVE  Inv'
<1> DEFINE r == request[v]
<1>1. r # Idle /\ r.op \in Ops /\ r.at = "group" /\ ~Answered(v)
  BY DEF CheckGroup, At, Answered
<1>2. CASE \E g \in Groups : ThroughGroup(r.user, r.stream, g)
  BY <1>1, <1>2, AdmitInv DEF CheckGroup, HasAccess
<1>3. CASE ~\E g \in Groups : ThroughGroup(r.user, r.stream, g)
  <2>1. Goto(v, "refused") /\ UNCHANGED tokens /\ "refused" \in Places
    BY <1>3 DEF CheckGroup, Refuse, Places
  <2>2. /\ request'[v] # Idle /\ request'[v].at = "refused" /\ request'[v].op = r.op
        /\ request'[v].user = r.user /\ request'[v].stream = r.stream
        /\ noted[v] \subseteq noted'[v]
    BY <1>1, <2>1, Moved
  <2>3. r.stream \in Streams /\ r.stream # None
    BY <1>1, AccessAssumption DEF Inv, Explained, Named, After, Checking
  <2>4. \A g \in Groups : WasNot(v, g)'
    BY <1>1, <1>3, <2>2, <2>3, ReadNoted
  <2>5. WasNot(v, "direct")'
    BY <1>1, <2>2 DEF Inv, Explained, Lacks, After, WasNot
  <2>6. Lacks(v)'
    BY <2>2, <2>4, <2>5 DEF Lacks, After
  <2>7. Reasons(v)' /\ Named(v)' /\ Known(v)'
    BY <2>2, <2>3 DEF Reasons, Named, Known, After, Checking
  <2> QED
    BY <1>1, <2>1, <2>6, <2>7, MoveInv
<1> QED
  BY <1>2, <1>3

LEMMA ReturnInv ==
  ASSUME Inv, Observe, UNCHANGED tables, NEW v \in Viewers, Return(v)
  PROVE  Inv'
<1>1. request' = [request EXCEPT ![v] = Idle] /\ UNCHANGED tokens
  BY DEF Return
<1>2. request'[v] = Idle
  BY <1>1 DEF Inv, TypeOK
<1> QED
  BY <1>1, <1>2, StepOf DEF Explained, Known, Inv, TypeOK

LEMMA ServeInv ==
  ASSUME Inv, NotesAsked, Observe, UNCHANGED tables, NEW v \in Viewers, Serve(v)
  PROVE  Inv'
<1>1. CASE \E t \in tokens, p \in Names : Connect(v, t, p)
  BY <1>1, ConnectInv
<1>2. ASSUME NEW u \in Users, NEW s \in Streams, NEW op \in {"issue", "list"}, Ask(v, u, op, s, None)
      PROVE  Inv'
  BY <1>2, AskInv
<1>3. ASSUME NEW u \in Users, NEW p \in Names, Ask(v, u, "find", None, p)
      PROVE  Inv'
  BY <1>3, AskInv
<1> QED
  BY <1>1, <1>2, <1>3, ReadUserInv, ReadStreamInv, FindStreamInv, ListStreamInv,
     CheckDirectInv, CheckGroupInv, ReturnInv DEF Serve

---------------------------------------------------------------------------
(* The theorems                                                            *)

LEMMA InitInv == Init => Inv
<1> SUFFICES ASSUME Init PROVE Inv
  OBVIOUS
<1>1. TypeOK /\ PathsDistinct
  BY AccessAssumption DEF Init, Account!Init, Account!Statuses, TypeOK, PathsDistinct
<1>2. \A v \in Viewers : Explained(v) /\ Known(v)
  BY DEF Init, Explained, Known
<1> QED
  BY <1>1, <1>2 DEF Inv

LEMMA StutterInv == Inv /\ UNCHANGED vars => Inv'
<1> SUFFICES ASSUME Inv, UNCHANGED vars PROVE Inv'
  OBVIOUS
<1> USE DEF vars, tables, acl
<1>1. TypeOK' /\ PathsDistinct'
  BY DEF Inv, TypeOK, PathsDistinct
<1>2. \A v \in Viewers : Explained(v)' /\ Known(v)'
  BY DEF Inv, Explained, Known, Reasons, Lacks, Named, After, Unserved, Was, WasNot
<1> QED
  BY <1>1, <1>2 DEF Inv

LEMMA ExpireInv == Inv /\ Expire /\ Observe => Inv'
<1> SUFFICES ASSUME Inv, Expire, Observe PROVE Inv'
  OBVIOUS
<1>1. TypeOK' /\ PathsDistinct'
  BY ObserveTyped DEF Expire, Inv, TypeOK, PathsDistinct, tables, acl
<1>2. ASSUME NEW v \in Viewers PROVE Explained(v)' /\ Known(v)'
  BY KeptExplained DEF Expire, Inv, Known, After, tables
<1> QED
  BY <1>1, <1>2 DEF Inv

LEMMA StepInv == ASSUME NotesAsked PROVE Inv /\ [Next]_vars => Inv'
BY StutterInv, AdministerInv, ExpireInv, ServeInv DEF Next

LEMMA Invariance == ASSUME NotesAsked PROVE Spec => []Inv
BY InitInv, StepInv, PTL DEF Spec

(* Grants, memberships and tokens are of users, groups and streams that    *)
(* exist, whatever requests and administrators do at the same time.        *)
THEOREM TypeCorrect == ASSUME NotesAsked PROVE Spec => []TypeOK
BY Invariance, PTL DEF Inv

(* Nobody is admitted, given a token or shown a stream unless everything   *)
(* it takes was true at some moment of that very request.                  *)
THEOREM AdmissionsAreJustified == ASSUME NotesAsked PROVE Spec => []AdmissionJustified
<1>1. Inv => AdmissionJustified
  BY DEF Inv, Explained, Reasons, AdmissionJustified, At, After, Checking, Ops
<1> QED
  BY <1>1, Invariance, PTL

(* The hook admits nobody to an inactive stream whose path stays the same. *)
THEOREM InactiveIsNotWatched == ASSUME NotesAsked PROVE Spec => []InactiveNotWatched
<1>1. Inv => InactiveNotWatched
  BY DEF Inv, Explained, Reasons, InactiveNotWatched, At, After, Checking
<1> QED
  BY <1>1, Invariance, PTL

(* Whoever is refused lacked something at some moment of the request: the  *)
(* approval, the stream, or each of the grants that would have helped.     *)
THEOREM RefusalsAreJustified == ASSUME NotesAsked PROVE Spec => []RefusalJustified
<1>1. Inv => RefusalJustified
  BY DEF Inv, Explained, Lacks, RefusalJustified, At, After
<1> QED
  BY <1>1, Invariance, PTL
=============================================================================
