------------------------------- MODULE Access -------------------------------
(***************************************************************************)
(* Who may watch what: grants and groups (services/permissions.py), the    *)
(* issue of playback tokens and the check of one when MediaMTX asks        *)
(* whether a viewer may read a path (services/playback.py,                 *)
(* mediamtx_hooks.py), and a viewer's list of streams (services/viewer.py).*)
(*                                                                         *)
(* A decision reads the user, the stream, the direct grants and the group  *)
(* grants in statements of their own, at READ COMMITTED, with moderators   *)
(* and administrators at work in between.  What a request loaded stays in  *)
(* its identity map: a row is read once.  noted is not in the code; it     *)
(* holds what was true, and what was false, at some moment of a request.   *)
(*                                                                         *)
(* Accounts follow UserStatus, which Moderation implements.  A change of   *)
(* the permission tables is one step: no row they refer to is ever         *)
(* deleted, and a duplicate meets a unique constraint.                     *)
(***************************************************************************)
CONSTANTS
  Users, Groups, Streams, Paths,
  Keys,     \* names that are registered as ingest keys, perhaps of paths too
  Viewers,  \* threads that serve viewers and MediaMTX
  Noting,   \* what noted keeps
  None

VARIABLES
  status,   \* users.status
  stream,   \* output_streams: playback_path and is_active
  groups,   \* rows of groups
  members, direct, shared,  \* group_members, stream_permissions_user and _group
  tokens,   \* playback tokens, by sub and sid, that have not expired
  request,  \* what each thread is doing
  noted     \* noted[v]: the facts that held, or failed, during v's request

acl == <<groups, members, direct, shared>>
tables == <<status, stream, acl>>
vars == <<tables, tokens, request, noted>>

ASSUME AccessAssumption ==
  /\ None \notin Users \cup Streams \cup Paths \cup Keys \cup {"pending", "approved", "rejected", "blocked"}
  /\ Groups \cap {"approved", "served", "named", "active", "on", "access", "direct"} = {}

Account == INSTANCE UserStatus

\* What a viewer may ask for as a path.
Names == Paths \cup Keys

Granted(u, s) == <<u, s>> \in direct

ThroughGroup(u, s, g) == <<u, g>> \in members /\ <<g, s>> \in shared

HasAccess(u, s) == Granted(u, s) \/ \E g \in Groups : ThroughGroup(u, s, g)

ActiveAt(p) == {s \in Streams : stream[s].active /\ stream[s].path = p}

Idle == [op |-> "idle"]

(* op: admit - the hook's read, token and path given; issue - a token for  *)
(* a stream; find - a token for a path; list - one of the streams of the   *)
(* viewer's list, whose decisions do not touch each other.                 *)
Ops == {"admit", "issue", "find", "list"}
Places == {"user", "stream", "direct", "group", "admitted", "refused", "expired"}

Request ==
  [op : Ops, at : Places, user : Users, stream : Streams \cup {None},
   path : Names \cup {None}, same : BOOLEAN]

---------------------------------------------------------------------------
(* What is true and what is false of a request at one moment               *)

Holds(fact, r) ==
  \/ fact = "approved" /\ status[r.user] = "approved"
  \/ fact = "served" /\ ActiveAt(r.path) # {}
  \/ fact = "named" /\ stream[r.stream].path = r.path
  \/ fact = "active" /\ stream[r.stream].active
  \/ fact = "on" /\ r.stream \in ActiveAt(r.path)
  \/ fact = "access" /\ HasAccess(r.user, r.stream)
  \/ fact = "direct" /\ Granted(r.user, r.stream)
  \/ fact \in Groups /\ ThroughGroup(r.user, r.stream, fact)

\* A request for a path asks nothing of a stream before it has found one, only
\* the hook compares paths, and only a list looks at is_active by itself.
Asks(fact, r) ==
  /\ fact \in {"approved", "served"} \/ r.stream # None
  /\ fact = "named" => r.op = "admit"
  /\ fact = "active" => r.op = "list"

Facts(r) == {n \in Noting : Asks(n[1], r) /\ (n[2] = "held" <=> Holds(n[1], r))}

Answered(v) == request[v] # Idle /\ request[v].at \in {"admitted", "refused", "expired"}

\* Every step, whoever takes it, is a moment of the requests under way, up to
\* the one that answers.
Observe == noted' = [v \in Viewers |->
  IF request'[v] = Idle THEN {}
  ELSE IF Answered(v) THEN noted[v] ELSE noted[v] \cup Facts(request[v])']

Init ==
  /\ Account!Init
  /\ stream \in [Streams -> [path : Paths, active : BOOLEAN]]
  /\ \A s, t \in Streams : s # t => stream[s].path # stream[t].path
  /\ groups = {} /\ members = {} /\ direct = {} /\ shared = {}
  /\ tokens = {}
  /\ request = [v \in Viewers |-> Idle]
  /\ noted = [v \in Viewers |-> {}]

---------------------------------------------------------------------------
(* Administrators                                                          *)

Moderate == Account!Next /\ UNCHANGED <<stream, acl>>

\* update_output_stream and automatic activation, in what they leave behind.
Patch(s) ==
  /\ \E p \in Paths \ {stream[t].path : t \in Streams \ {s}}, a \in BOOLEAN :
       stream' = [stream EXCEPT ![s] = [path |-> p, active |-> a]]
  /\ stream' # stream
  /\ UNCHANGED <<status, acl>>

CreateGroup(g) ==
  /\ g \notin groups /\ groups' = groups \cup {g}
  /\ UNCHANGED <<status, stream, members, direct, shared>>

AddMember(u, g) ==
  /\ status[u] # None /\ g \in groups /\ <<u, g>> \notin members
  /\ members' = members \cup {<<u, g>>}
  /\ UNCHANGED <<status, stream, groups, direct, shared>>

RemoveMember(u, g) ==
  /\ <<u, g>> \in members /\ members' = members \ {<<u, g>>}
  /\ UNCHANGED <<status, stream, groups, direct, shared>>

GrantUser(u, s) ==
  /\ status[u] # None /\ <<u, s>> \notin direct
  /\ direct' = direct \cup {<<u, s>>}
  /\ UNCHANGED <<status, stream, groups, members, shared>>

RevokeUser(u, s) ==
  /\ <<u, s>> \in direct /\ direct' = direct \ {<<u, s>>}
  /\ UNCHANGED <<status, stream, groups, members, shared>>

GrantGroup(g, s) ==
  /\ g \in groups /\ <<g, s>> \notin shared
  /\ shared' = shared \cup {<<g, s>>}
  /\ UNCHANGED <<status, stream, groups, members, direct>>

RevokeGroup(g, s) ==
  /\ <<g, s>> \in shared /\ shared' = shared \ {<<g, s>>}
  /\ UNCHANGED <<status, stream, groups, members, direct>>

Administer ==
  /\ \/ Moderate
     \/ \E s \in Streams : Patch(s)
     \/ \E g \in Groups :
          \/ CreateGroup(g)
          \/ \E u \in Users : AddMember(u, g) \/ RemoveMember(u, g)
          \/ \E s \in Streams : GrantGroup(g, s) \/ RevokeGroup(g, s)
     \/ \E u \in Users, s \in Streams : GrantUser(u, s) \/ RevokeUser(u, s)
  /\ UNCHANGED <<tokens, request>>

\* exp passes.
Expire ==
  /\ \E t \in tokens : tokens' = tokens \ {t}
  /\ UNCHANGED <<tables, request>>

---------------------------------------------------------------------------
(* Requests of viewers and of MediaMTX's hook                              *)

Begin(v, op, at, u, s, p, same) ==
  /\ request[v] = Idle
  /\ request' = [request EXCEPT ![v] =
       [op |-> op, at |-> at, user |-> u, stream |-> s, path |-> p, same |-> same]]

At(v, ops, place) == request[v] # Idle /\ request[v].op \in ops /\ request[v].at = place

Goto(v, place) == request' = [request EXCEPT ![v].at = place]

\* Mistake: the path is looked up without is_active.
Connect_Inactive(v, t, p) ==
  /\ LET found == {s \in Streams : stream[s].path = p} IN
     Begin(v, "admit", IF found = {} THEN "refused" ELSE "user", t[1], t[2], p, t[2] \in found)
  /\ UNCHANGED tokens

\* The first statement of a hook's read: the active stream of the path.  It
\* stays loaded, so that db.get(sid) returns it if it is the token's.
Connect(v, t, p) ==
  /\ Begin(v, "admit", IF ActiveAt(p) = {} THEN "refused" ELSE "user", t[1], t[2], p, t[2] \in ActiveAt(p))
  /\ UNCHANGED tokens

\* Mistake: the hook trusts the token for the user's status.
ReadUser_TrustsToken(v) ==
  /\ At(v, {"admit"}, "user")
  /\ Goto(v, IF <<request[v].user, request[v].stream>> \notin tokens THEN "expired" ELSE "stream")
  /\ UNCHANGED tokens

\* decode_jwt, then the user the token is for.
ReadUser(v) ==
  /\ At(v, {"admit"}, "user")
  /\ Goto(v, IF <<request[v].user, request[v].stream>> \notin tokens THEN "expired"
             ELSE IF status[request[v].user] # "approved" THEN "refused" ELSE "stream")
  /\ UNCHANGED tokens

ReadStream(v) ==
  /\ At(v, {"admit"}, "stream")
  /\ Goto(v, IF request[v].same \/ stream[request[v].stream].path = request[v].path
             THEN "direct" ELSE "refused")
  /\ UNCHANGED tokens

\* issue_playback_token_for_output_stream reads the user first, whatever it
\* is then asked for; a list of streams does too.
Ask(v, u, op, s, p) ==
  /\ Begin(v, op, IF status[u] # "approved" THEN "refused"
                  ELSE IF op = "issue" THEN "direct" ELSE "stream", u, s, p, FALSE)
  /\ UNCHANGED tokens

\* An ingest key is no playback path; nor is the path of an inactive stream.
FindStream(v) ==
  /\ At(v, {"find"}, "stream")
  /\ IF request[v].path \in Keys \/ ActiveAt(request[v].path) = {}
     THEN Goto(v, "refused")
     ELSE \E s \in ActiveAt(request[v].path) :
            request' = [request EXCEPT ![v].stream = s, ![v].at = "direct"]
  /\ UNCHANGED tokens

ListStream(v) ==
  /\ At(v, {"list"}, "stream")
  /\ Goto(v, IF stream[request[v].stream].active THEN "direct" ELSE "refused")
  /\ UNCHANGED tokens

\* The decision is positive: an issue signs and returns a token.
Admit(v) ==
  /\ Goto(v, "admitted")
  /\ tokens' = IF request[v].op \in {"issue", "find"}
               THEN tokens \cup {<<request[v].user, request[v].stream>>} ELSE tokens

Refuse(v) == Goto(v, "refused") /\ UNCHANGED tokens

\* Mistake: a group is not asked for once there is no direct grant.
CheckDirect_Only(v) ==
  /\ At(v, Ops, "direct")
  /\ IF Granted(request[v].user, request[v].stream) THEN Admit(v) ELSE Refuse(v)

CheckDirect(v) ==
  /\ At(v, Ops, "direct")
  /\ IF Granted(request[v].user, request[v].stream) THEN Admit(v)
     ELSE Goto(v, "group") /\ UNCHANGED tokens

CheckGroup(v) ==
  /\ At(v, Ops, "group")
  /\ IF \E g \in Groups : ThroughGroup(request[v].user, request[v].stream, g)
     THEN Admit(v) ELSE Refuse(v)

\* The response is sent, or the process dies.
Return(v) ==
  /\ request[v] # Idle
  /\ request' = [request EXCEPT ![v] = Idle]
  /\ UNCHANGED tokens

Serve(v) ==
  \/ \E t \in tokens, p \in Names : Connect(v, t, p)
  \/ \E u \in Users :
       \/ \E s \in Streams, op \in {"issue", "list"} : Ask(v, u, op, s, None)
       \/ \E p \in Names : Ask(v, u, "find", None, p)
  \/ ReadUser(v) \/ ReadStream(v) \/ FindStream(v) \/ ListStream(v)
  \/ CheckDirect(v) \/ CheckGroup(v) \/ Return(v)

\* An answer is on its way, and nothing that others do can change it any more:
\* they wait until it is returned.
Answering == \E v \in Viewers : Answered(v)

Next ==
  /\ \/ Administer /\ ~Answering
     \/ Expire /\ ~Answering
     \/ (\E v \in Viewers : Serve(v)) /\ UNCHANGED tables
  /\ Observe

Spec == Init /\ [][Next]_vars

---------------------------------------------------------------------------
(* Grants and memberships are of users and groups that exist; a token is   *)
(* for a user who once enrolled.                                           *)
TypeOK ==
  /\ status \in [Users -> Account!Statuses \cup {None}]
  /\ stream \in [Streams -> [path : Paths, active : BOOLEAN]]
  /\ groups \subseteq Groups
  /\ members \subseteq {u \in Users : status[u] # None} \X groups
  /\ direct \subseteq {u \in Users : status[u] # None} \X Streams
  /\ shared \subseteq groups \X Streams
  /\ tokens \subseteq {u \in Users : status[u] # None} \X Streams
  /\ request \in [Viewers -> {Idle} \cup Request]
  /\ noted \in [Viewers -> SUBSET Noting]

Was(v, fact) == <<fact, "held">> \in noted[v]
WasNot(v, fact) == <<fact, "failed">> \in noted[v]

(* What a viewer is admitted to is justified: the user was approved, the   *)
(* path was served, the stream of the token was at that path and access to *)
(* it was granted, each at some moment of the request itself, however old  *)
(* the token is and whoever changes the tables meanwhile.  So are a token  *)
(* and an entry of the list.                                               *)
AdmissionJustified == \A v \in Viewers : At(v, Ops, "admitted") =>
  /\ Was(v, "approved") /\ Was(v, "access")
  /\ request[v].op = "admit" => Was(v, "served") /\ Was(v, "named")
  /\ request[v].op = "find" => Was(v, "on")
  /\ request[v].op = "list" => Was(v, "active")

(* Nobody watches a stream that was inactive, unless its playback path was *)
(* changed during the request: the hook looks for an active stream at the  *)
(* path, and compares the token's stream by its path only.                 *)
InactiveNotWatched == \A v \in Viewers :
  At(v, {"admit"}, "admitted") => Was(v, "on") \/ WasNot(v, "named")

\* What the request wants of the stream and the path was missing.
Unserved(v) ==
  \/ request[v].op = "admit" /\ WasNot(v, "on")
  \/ request[v].op = "find" /\ (WasNot(v, "served") \/ request[v].path \in Keys)
  \/ request[v].op = "list" /\ WasNot(v, "active")

(* A viewer who is refused lacked something: the approval, the stream, or  *)
(* at some moment the direct grant and at some moment each group's.  More  *)
(* cannot be said, and README.md:598-601 does: an access that moves from a *)
(* group to a direct grant between the two SELECTs is seen by neither.     *)
RefusalJustified == \A v \in Viewers : At(v, Ops, "refused") =>
  \/ WasNot(v, "approved")
  \/ Unserved(v)
  \/ WasNot(v, "direct") /\ \A g \in Groups : WasNot(v, g)
=============================================================================
