--------------------------- MODULE IngestControl ---------------------------
(***************************************************************************)
(* The ingest control plane of the backend: the ingest_sessions and        *)
(* output_streams tables, and the requests of services/ingest.py and       *)
(* services/streams.py that read and write them.                           *)
(*                                                                         *)
(* FastAPI runs every handler in a thread of its own with a database       *)
(* session of its own (db.py: autoflush off, expire_on_commit off, READ    *)
(* COMMITTED, no row locks).  A handler therefore reads a row in one step  *)
(* and writes it in a later one, and SQLAlchemy's UPDATE names only the    *)
(* columns whose value differs from the value that was loaded: a worker    *)
(* holds a CHANGE, a row in which an untouched column is Keep, and the     *)
(* commit lays it over whatever the row holds by then.                     *)
(*                                                                         *)
(* A timestamp is "null" or "set"; a fresh utcnow() never equals a stored  *)
(* one, so an assignment of it is always written.  Ids grow in the order   *)
(* of created_at.  Labels, metadata, last_seen_at and the audit and event  *)
(* logs are left out: nothing in the code branches on them.                *)
(***************************************************************************)
EXTENDS Integers

CONSTANTS
  Workers,     \* the threads of the pool that serve requests
  SessionIds,  \* bound on ingest_sessions rows
  StreamIds,   \* bound on output_streams rows
  Keys,        \* ingest keys: path segments publishers use, and generated ones
  PathNames,   \* playback paths an administrator chooses
  AutoPath,    \* AutoPath[s] is "out-" and the first 12 characters of id s
  Operations,  \* the operations the environment requests
  Patches,     \* the bodies of PATCH /output-streams/{id} it sends
  None,        \* SQL NULL, and the absence of a row
  Keep         \* a column the pending UPDATE does not name

VARIABLES
  sessions,    \* the ingest_sessions table
  streams,     \* the output_streams table
  req          \* what each worker is doing

vars == <<sessions, streams, req>>

Paths == PathNames \cup {AutoPath[s] : s \in SessionIds}
Statuses == {"created", "live", "ended", "revoked"}
Stamps == {"null", "set"}
Visibilities == {"private", "disabled"}  \* "public" and "unlisted" act as "private"
Flags == {"yes", "no"}

SessionRow == [key: Keys, status: Statuses, started: Stamps, ended: Stamps,
               revoked: Stamps, stream: StreamIds \cup {None}]
StreamRow == [path: Paths, visibility: Visibilities, active: Flags,
              source: SessionIds \cup {None}]

SessionChange == [key: Keys \cup {Keep}, status: Statuses \cup {Keep},
                  started: Stamps \cup {Keep}, ended: Stamps \cup {Keep},
                  revoked: Stamps \cup {Keep},
                  stream: StreamIds \cup {None, Keep}]
StreamChange == [path: Paths \cup {Keep}, visibility: Visibilities \cup {Keep},
                 active: Flags \cup {Keep}, source: SessionIds \cup {None, Keep}]

NoSessionChange == [key |-> Keep, status |-> Keep, started |-> Keep,
                    ended |-> Keep, revoked |-> Keep, stream |-> Keep]
NoStreamChange == [path |-> Keep, visibility |-> Keep, active |-> Keep,
                   source |-> Keep]

Ops == {"start", "stop", "create", "rotate", "revoke", "bind",
        "create_stream", "update_stream"}

(* idle     - between requests                                             *)
(* register - the publisher's key was not found and is about to be inserted*)
(* mark     - mark_ingest_started is about to read the session             *)
(* commit   - rows are loaded and modified, the commit is to come          *)
(* media    - the database part is over, the media plane is to be called   *)
Stages == {"idle", "register", "mark", "commit", "media"}

Request == [stage: Stages, op: Ops \cup {None}, key: Keys \cup {None},
            session: SessionIds \cup {None}, stream: StreamIds \cup {None},
            path: Paths \cup {None},
            change: SessionChange, streamChange: StreamChange]

Idle == [stage |-> "idle", op |-> None, key |-> None, session |-> None,
         stream |-> None, path |-> None,
         change |-> NoSessionChange, streamChange |-> NoStreamChange]

ASSUME ConstantsAssumption ==
  /\ SessionIds \subseteq Nat /\ StreamIds \subseteq Nat
  /\ AutoPath \in [SessionIds -> Paths]
  /\ Operations \subseteq Ops /\ Patches \subseteq StreamChange

ASSUME SentinelAssumption ==
  /\ None \notin Workers \cup SessionIds \cup StreamIds \cup Keys \cup Paths
  /\ Keep \notin SessionIds \cup StreamIds \cup Keys \cup Paths \cup {None}
  /\ Keep \notin Statuses \cup Stamps \cup Visibilities \cup Flags
  /\ None \notin SessionRow \cup StreamRow \cup Ops

---------------------------------------------------------------------------
(* Tables and the unit of work                                             *)

Stored(table) == {i \in DOMAIN table : table[i] # None}

\* The id the next INSERT receives; empty when the bound is reached.
NextId(table) == {i \in DOMAIN table : /\ table[i] = None
                                       /\ \A j \in DOMAIN table : table[j] = None => i <= j}

WithKey(k) == {s \in Stored(sessions) : sessions[s].key = k}
WithPath(p) == {t \in Stored(streams) : streams[t].path = p}
WithSource(s) == {t \in Stored(streams) : streams[t].source = s}

\* What an assignment adds to the UPDATE: nothing when the loaded value is equal.
Assign(loaded, value) == IF value = loaded THEN Keep ELSE value

Written(change, current) == IF change = Keep THEN current ELSE change

FlushSession(row, c) ==
  [key     |-> Written(c.key, row.key),
   status  |-> Written(c.status, row.status),
   started |-> Written(c.started, row.started),
   ended   |-> Written(c.ended, row.ended),
   revoked |-> Written(c.revoked, row.revoked),
   stream  |-> Written(c.stream, row.stream)]

FlushStream(row, c) ==
  [path       |-> Written(c.path, row.path),
   visibility |-> Written(c.visibility, row.visibility),
   active     |-> Written(c.active, row.active),
   source     |-> Written(c.source, row.source)]

\* Mistake: the lifecycle's first phase spelt as README.md:17 spells it.
NewSession_Ready(k, t) == [key |-> k, status |-> "ready", started |-> "null",
                           ended |-> "null", revoked |-> "null", stream |-> t]

NewSession(k, t) == [key |-> k, status |-> "created", started |-> "null",
                     ended |-> "null", revoked |-> "null", stream |-> t]

NewStream(p, v, s) == [path |-> p, visibility |-> v, source |-> s,
                       active |-> IF v = "disabled" THEN "no" ELSE "yes"]

---------------------------------------------------------------------------
(* What the handlers assign, relative to the row they loaded               *)

\* Mistake: a publish that resumes does not clear ended_at.
StartChange_KeepsEnd(row, t) ==
  [NoSessionChange EXCEPT
     !.status = Assign(row.status, "live"),
     !.started = IF row.started = "null" THEN "set" ELSE Keep,
     !.stream = IF t = None THEN Keep ELSE Assign(row.stream, t)]

StartChange(row, t) ==
  [NoSessionChange EXCEPT
     !.status = Assign(row.status, "live"),
     !.started = IF row.started = "null" THEN "set" ELSE Keep,
     !.ended = Assign(row.ended, "null"),
     !.stream = IF t = None THEN Keep ELSE Assign(row.stream, t)]

StopChange(row) ==
  [NoSessionChange EXCEPT
     !.status = IF row.status = "revoked" THEN Keep ELSE Assign(row.status, "ended"),
     !.ended = "set"]

RotateChange(row, k) ==
  [NoSessionChange EXCEPT
     !.key = k,
     !.status = Assign(row.status, "created"),
     !.started = Assign(row.started, "null"),
     !.ended = Assign(row.ended, "null")]

\* Mistake: revoked_at is left out.
RevokeChange_Unstamped(row) ==
  [NoSessionChange EXCEPT
     !.status = Assign(row.status, "revoked"),
     !.ended = IF row.ended = "null" THEN "set" ELSE Keep]

RevokeChange(row) ==
  [NoSessionChange EXCEPT
     !.status = Assign(row.status, "revoked"),
     !.revoked = "set",
     !.ended = IF row.ended = "null" THEN "set" ELSE Keep]

\* Mistake: the stream is switched on without a look at its visibility.
StartStreamChange_Enables(row, s) ==
  [NoStreamChange EXCEPT !.source = Assign(row.source, s),
                         !.active = Assign(row.active, "yes")]

\* mark_ingest_started also makes the stream its own and switches it on.
StartStreamChange(row, s) ==
  [NoStreamChange EXCEPT
     !.source = Assign(row.source, s),
     !.active = Assign(row.active, IF row.visibility = "disabled" THEN "no" ELSE "yes")]

\* The body's is_active overrides what visibility = "disabled" implies.
PatchChange(row, patch) ==
  LET active == IF patch.active = Keep /\ patch.visibility = "disabled"
                THEN "no" ELSE patch.active
  IN  [path       |-> Assign(row.path, patch.path),
       visibility |-> Assign(row.visibility, patch.visibility),
       active     |-> Assign(row.active, active),
       source     |-> Assign(row.source, patch.source)]

\* resolve_output_stream_for_ingest: the bound stream, else the oldest one that
\* names the session as its source, else (None) one to be created at the flush.
Resolved(s) ==
  IF sessions[s].stream # None THEN {sessions[s].stream}
  ELSE IF WithSource(s) = {} THEN {None}
  ELSE {t \in WithSource(s) : \A u \in WithSource(s) : t <= u}

---------------------------------------------------------------------------
Init ==
  /\ sessions = [s \in SessionIds |-> None]
  /\ streams = [t \in StreamIds |-> None]
  /\ req = [w \in Workers |-> Idle]

Accepts(w, op) == op \in Operations /\ req[w] = Idle

(* Publishing: handle_publish_start, called by MediaMTX's auth hook        *)

\* get_or_create_publish_session selects by key; the row it finds is dropped.
LookupForPublish(w, k) ==
  /\ Accepts(w, "start")
  /\ req' = [req EXCEPT ![w] = [Idle EXCEPT
               !.op = "start", !.key = k,
               !.stage = IF WithKey(k) = {} THEN "register" ELSE "mark"]]
  /\ UNCHANGED <<sessions, streams>>

\* Mistake: no unique index on ingest_key stops the second registration.
AutoRegister_Unchecked(w) ==
  /\ req[w].stage = "register"
  /\ \E s \in NextId(sessions) :
       sessions' = [sessions EXCEPT ![s] = NewSession(req[w].key, None)]
  /\ req' = [req EXCEPT ![w].stage = "mark"]
  /\ UNCHANGED streams

\* An unknown key registers itself; a key inserted meanwhile is a DatabaseError.
AutoRegister(w) ==
  /\ req[w].stage = "register"
  /\ WithKey(req[w].key) = {}
  /\ \E s \in NextId(sessions) :
       sessions' = [sessions EXCEPT ![s] = NewSession(req[w].key, None)]
  /\ req' = [req EXCEPT ![w].stage = "mark"]
  /\ UNCHANGED streams

\* Mistake: a revoked session is not turned away.
LoadForStart_AdmitsRevoked(w) ==
  /\ req[w].stage = "mark"
  /\ \E s \in WithKey(req[w].key) : \E t \in Resolved(s) :
       req' = [req EXCEPT ![w] = [@ EXCEPT
                 !.stage = "commit", !.session = s, !.stream = t,
                 !.change = StartChange(sessions[s], t),
                 !.streamChange = IF t = None THEN NoStreamChange
                                  ELSE StartStreamChange(streams[t], s)]]
  /\ UNCHANGED <<sessions, streams>>

\* mark_ingest_started reads the session again and resolves its stream: two
\* SELECTs in one step, so that the session and its stream are read together.
LoadForStart(w) ==
  /\ req[w].stage = "mark"
  /\ \E s \in WithKey(req[w].key) :
       /\ sessions[s].status # "revoked"
       /\ \E t \in Resolved(s) :
            req' = [req EXCEPT ![w] = [@ EXCEPT
                      !.stage = "commit", !.session = s, !.stream = t,
                      !.change = StartChange(sessions[s], t),
                      !.streamChange = IF t = None THEN NoStreamChange
                                       ELSE StartStreamChange(streams[t], s)]]
  /\ UNCHANGED <<sessions, streams>>

\* 404 or 409 becomes "ingest denied" and a publish_denied audit row.
DenyStart(w) ==
  /\ req[w].stage = "mark"
  /\ \A s \in WithKey(req[w].key) : sessions[s].status = "revoked"
  /\ req' = [req EXCEPT ![w] = Idle]
  /\ UNCHANGED <<sessions, streams>>

\* The stream the commit writes: the loaded one, or one it inserts.
WritesStream(r, t) ==
  IF r.stream # None
  THEN /\ t = r.stream
       /\ streams' = [streams EXCEPT ![t] = FlushStream(@, r.streamChange)]
  ELSE /\ t \in NextId(streams) /\ WithPath(AutoPath[r.session]) = {}
       /\ streams' = [streams EXCEPT ![t] =
                        NewStream(AutoPath[r.session], "private", r.session)]

\* A stream that is created binds the session to it in the same commit.
Binding(r, t) == IF r.stream = None THEN [r.change EXCEPT !.stream = t] ELSE r.change

CommitStart(w) ==
  LET r == req[w] IN
  /\ r.stage = "commit" /\ r.op = "start"
  /\ \E t \in StreamIds :
       /\ WritesStream(r, t)
       /\ sessions' = [sessions EXCEPT ![r.session] = FlushSession(@, Binding(r, t))]
       \* db.refresh: the path is the one stored now
       /\ req' = [req EXCEPT ![w] = [Idle EXCEPT
                    !.stage = "media", !.op = "start", !.key = r.key,
                    !.path = streams'[t].path]]

(* Unpublishing: handle_publish_stop                                       *)

\* The session and the stream it resolves to are read together here as well.
LoadForStop(w, k) ==
  /\ Accepts(w, "stop")
  /\ LET loaded == [Idle EXCEPT !.stage = "commit", !.op = "stop", !.key = k] IN
     \/ WithKey(k) = {} /\ req' = [req EXCEPT ![w] = loaded]
     \/ \E s \in WithKey(k) : \E t \in Resolved(s) :
          req' = [req EXCEPT ![w] = [loaded EXCEPT
                    !.session = s, !.stream = t,
                    !.path = IF t = None THEN AutoPath[s] ELSE streams[t].path,
                    !.change = [StopChange(sessions[s]) EXCEPT
                      !.stream = IF t = None THEN Keep
                                 ELSE Assign(sessions[s].stream, t)]]]
  /\ UNCHANGED <<sessions, streams>>

\* What resolve left pending on the loaded session: its binding, not its end.
ResolveOnly(r) == [r EXCEPT !.change = [NoSessionChange EXCEPT !.stream = r.change.stream]]

\* mark_ingest_stopped selects by key again: the session it loaded before comes
\* back with the attributes loaded then, any other one comes back fresh.
CommitStop(w) ==
  LET r == req[w] IN
  /\ r.stage = "commit" /\ r.op = "stop"
  /\ \/ /\ r.session \in WithKey(r.key)
        /\ \E t \in StreamIds :
             /\ WritesStream(r, t)
             /\ sessions' = [sessions EXCEPT ![r.session] = FlushSession(@, Binding(r, t))]
     \/ /\ r.session # None
        /\ \E s \in WithKey(r.key) \ {r.session}, t \in StreamIds :
             /\ WritesStream(r, t)
             /\ sessions' = [sessions EXCEPT
                  ![r.session] = FlushSession(@, Binding(ResolveOnly(r), t)),
                  ![s] = FlushSession(@, StopChange(@))]
     \/ /\ r.session = None
        /\ \E s \in WithKey(r.key) :
             sessions' = [sessions EXCEPT ![s] = FlushSession(@, StopChange(@))]
        /\ UNCHANGED streams
  /\ req' = [req EXCEPT ![w] = [Idle EXCEPT !.stage = "media", !.op = "stop",
                                           !.key = r.key, !.path = r.path]]

\* The key is gone: nothing is committed before the media calls.
StopUnknown(w) ==
  /\ req[w].stage = "commit" /\ req[w].op = "stop" /\ WithKey(req[w].key) = {}
  /\ req' = [req EXCEPT ![w] = [ResolveOnly(@) EXCEPT !.stage = "media"]]
  /\ UNCHANGED <<sessions, streams>>

\* The handler returns.  Whatever is still pending is rolled back.
Finish(w) ==
  /\ req[w].stage = "media"
  /\ req' = [req EXCEPT ![w] = Idle]
  /\ UNCHANGED <<sessions, streams>>

\* POST /internal/media/publish-stop audits the unknown key, and commits with
\* the audit row what resolve left pending.
FinishIgnoredStop(w) ==
  LET r == req[w] IN
  /\ r.stage = "media" /\ r.op = "stop" /\ r.session # None
  /\ \E t \in StreamIds :
       /\ WritesStream(r, t)
       /\ sessions' = [sessions EXCEPT ![r.session] = FlushSession(@, Binding(r, t))]
  /\ req' = [req EXCEPT ![w] = Idle]

(* Administration of ingest sessions                                       *)

\* The check of the key and the INSERT: a unique index makes them one step.
CreateSession(w, k, t) ==
  /\ Accepts(w, "create")
  /\ WithKey(k) = {}
  /\ t \in Stored(streams) \cup {None}
  /\ \E s \in NextId(sessions) : sessions' = [sessions EXCEPT ![s] = NewSession(k, t)]
  /\ UNCHANGED <<streams, req>>

LoadSession(w, op, s, change) ==
  /\ Accepts(w, op)
  /\ req' = [req EXCEPT ![w] = [Idle EXCEPT !.stage = "commit", !.op = op,
                                           !.session = s, !.change = change]]
  /\ UNCHANGED <<sessions, streams>>

\* Mistake: the key of a revoked session may be rotated.
LoadForRotate_AdmitsRevoked(w) ==
  \E s \in Stored(sessions), k \in Keys :
    /\ WithKey(k) = {}
    /\ LoadSession(w, "rotate", s, RotateChange(sessions[s], k))

LoadForRotate(w) ==
  \E s \in Stored(sessions), k \in Keys :
    /\ sessions[s].status # "revoked"
    /\ WithKey(k) = {}
    /\ LoadSession(w, "rotate", s, RotateChange(sessions[s], k))

LoadForRevoke(w) ==
  \E s \in Stored(sessions) : LoadSession(w, "revoke", s, RevokeChange(sessions[s]))

\* Mistake: the stream of the request's body is not looked up.
LoadForBind_Unchecked(w) ==
  \E s \in Stored(sessions), t \in StreamIds \cup {None} :
    LoadSession(w, "bind", s,
      [NoSessionChange EXCEPT !.stream = Assign(sessions[s].stream, t)])

LoadForBind(w) ==
  \E s \in Stored(sessions), t \in Stored(streams) \cup {None} :
    LoadSession(w, "bind", s,
      [NoSessionChange EXCEPT !.stream = Assign(sessions[s].stream, t)])

CommitSession(w) ==
  LET r == req[w] IN
  /\ r.stage = "commit" /\ r.op \in {"rotate", "revoke", "bind"}
  /\ r.change.key = Keep \/ WithKey(r.change.key) = {}
  /\ sessions' = [sessions EXCEPT ![r.session] = FlushSession(@, r.change)]
  /\ req' = [req EXCEPT ![w] = Idle]
  /\ UNCHANGED streams

(* Administration of output streams                                        *)

CreateStream(w, p, v, s) ==
  /\ Accepts(w, "create_stream")
  /\ WithPath(p) = {}
  /\ s \in Stored(sessions) \cup {None}
  /\ \E t \in NextId(streams) : streams' = [streams EXCEPT ![t] = NewStream(p, v, s)]
  /\ UNCHANGED <<sessions, req>>

LoadForUpdate(w, t, patch) ==
  /\ Accepts(w, "update_stream")
  /\ t \in Stored(streams)
  /\ patch.path = Keep \/ WithPath(patch.path) \subseteq {t}
  /\ patch.source \in Stored(sessions) \cup {None, Keep}
  /\ req' = [req EXCEPT ![w] = [Idle EXCEPT
               !.stage = "commit", !.op = "update_stream", !.stream = t,
               !.streamChange = PatchChange(streams[t], patch)]]
  /\ UNCHANGED <<sessions, streams>>

CommitUpdate(w) ==
  LET r == req[w] IN
  /\ r.stage = "commit" /\ r.op = "update_stream"
  /\ r.streamChange.path = Keep \/ WithPath(r.streamChange.path) \subseteq {r.stream}
  /\ streams' = [streams EXCEPT ![r.stream] = FlushStream(@, r.streamChange)]
  /\ req' = [req EXCEPT ![w] = Idle]
  /\ UNCHANGED sessions

---------------------------------------------------------------------------
\* A unique index refuses the write, or the connection fails: the exception
\* leaves the handler, get_db closes the database session, all is rolled back.
DatabaseError(w) ==
  /\ req[w].stage \in {"register", "mark", "commit"}
  /\ req' = [req EXCEPT ![w] = Idle]
  /\ UNCHANGED <<sessions, streams>>

\* The process dies.  Only what was committed is left.
Crash ==
  /\ req' = [w \in Workers |-> Idle]
  /\ UNCHANGED <<sessions, streams>>

DatabaseStep(w) ==
  \/ AutoRegister(w) \/ LoadForStart(w) \/ DenyStart(w) \/ CommitStart(w)
  \/ CommitStop(w) \/ StopUnknown(w)
  \/ CommitSession(w) \/ CommitUpdate(w)
  \/ DatabaseError(w)

Receive(w) ==
  \/ \E k \in Keys : LookupForPublish(w, k) \/ LoadForStop(w, k)
  \/ \E k \in Keys, t \in StreamIds \cup {None} : CreateSession(w, k, t)
  \/ LoadForRotate(w) \/ LoadForRevoke(w) \/ LoadForBind(w)
  \/ \E p \in PathNames, v \in Visibilities, s \in SessionIds \cup {None} :
       CreateStream(w, p, v, s)
  \/ \E t \in StreamIds, patch \in Patches : LoadForUpdate(w, t, patch)

Return(w) == Finish(w) \/ FinishIgnoredStop(w)

Next == Crash \/ \E w \in Workers : Receive(w) \/ DatabaseStep(w) \/ Return(w)

Spec == Init /\ [][Next]_vars

---------------------------------------------------------------------------
(* The same control plane if every handler held the rows it loaded until   *)
(* its commit (SELECT ... FOR UPDATE): what the code promises to requests  *)
(* on one session, or on one stream, that do not overlap.                  *)

Pending(w) == req[w].stage = "commit"

\* The sessions the pending commit of w may write.
HeldSessions(w) ==
  {s \in Stored(sessions) : \/ s = req[w].session
                            \/ req[w].op = "stop" /\ sessions[s].key = req[w].key}

NoOverlap ==
  \A v, w \in Workers :
    v # w /\ Pending(v) /\ Pending(w) =>
      /\ HeldSessions(v) \cap HeldSessions(w) = {}
      /\ req[v].stream = None \/ req[v].stream # req[w].stream

LockedSpec == Init /\ [][Next /\ NoOverlap']_vars

---------------------------------------------------------------------------
(* Properties                                                              *)

\* What a request holds in each stage.
RequestShape(r) ==
  /\ r.stage \in {"register", "mark"} => r.op = "start"
  /\ r.op \in {"start", "stop"} => r.key \in Keys
  /\ r.stage = "commit" =>
       r.op \in {"start", "stop", "rotate", "revoke", "bind", "update_stream"}
  /\ r.stage = "commit" /\ r.op \in {"start", "rotate", "revoke", "bind"} =>
       r.session # None
  /\ r.stage = "commit" /\ r.op = "update_stream" => r.stream # None

TypeOK ==
  /\ sessions \in [SessionIds -> SessionRow \cup {None}]
  /\ streams \in [StreamIds -> StreamRow \cup {None}]
  /\ req \in [Workers -> Request]
  /\ \A w \in Workers : RequestShape(req[w])

\* Whatever the interleaving, a row that says "revoked" carries revoked_at: no
\* commit of another request can wipe it (ingest.py:178-195 writes both, but a
\* second revoke need not write status, and every other handler may write it).
RevokedIsStamped ==
  \A s \in Stored(sessions) :
    sessions[s].status = "revoked" => sessions[s].revoked = "set"

RequestReferences(r) ==
  /\ r.session \in Stored(sessions) \cup {None}
  /\ r.stream \in Stored(streams) \cup {None}
  /\ r.change.stream \in Stored(streams) \cup {None, Keep}
  /\ r.streamChange.source \in Stored(sessions) \cup {None, Keep}

\* Bindings and sources name stored rows, those a pending commit is about to
\* write included, so resolve's "bound but missing" branch (ingest.py:199-202)
\* never runs and no commit is refused by a foreign key.
ReferencesExist ==
  /\ \A s \in Stored(sessions) : sessions[s].stream \in Stored(streams) \cup {None}
  /\ \A t \in Stored(streams) : streams[t].source \in Stored(sessions) \cup {None}
  /\ \A w \in Workers : RequestReferences(req[w])

\* No two sessions share a key and no two streams a path.
Distinct ==
  /\ \A s1, s2 \in Stored(sessions) : sessions[s1].key = sessions[s2].key => s1 = s2
  /\ \A t1, t2 \in Stored(streams) : streams[t1].path = streams[t2].path => t1 = t2

\* A session is settled when it is revoked and no request that loaded it before
\* the revocation is still about to write another status over it.
Settled(s) ==
  /\ sessions[s] # None
  /\ sessions[s].status = "revoked"
  /\ \A w \in Workers : Pending(w) /\ req[w].session = s =>
       req[w].change.status \in {Keep, "revoked"}

\* Once settled, a revocation is final: no later publish, stop, rotation or
\* rebinding, interleaved in any way, brings the session back.  The window in
\* which a revocation can be lost closes with the requests that were in flight.
SettledForever == [][\A s \in SessionIds : Settled(s) => Settled(s)']_vars

\* The row of a session tells one story: the status agrees with the timestamps
\* that its handlers set and clear (ingest.py:154-195, 240-266, 271-292).
RowsConsistent ==
  \A s \in Stored(sessions) :
    LET row == sessions[s] IN
    /\ row.status = "created" => row.started = "null" /\ row.ended = "null"
    /\ row.status = "live" => row.started = "set" /\ row.ended = "null"
    /\ row.status \in {"ended", "revoked"} => row.ended = "set"
    /\ row.status = "revoked" <=> row.revoked = "set"

\* A stream is off when it is disabled, not active, and no request that loaded it
\* before is about to switch it on.
Off(t) ==
  /\ streams[t] # None
  /\ streams[t].visibility = "disabled" /\ streams[t].active = "no"
  /\ \A w \in Workers : Pending(w) /\ req[w].stream = t => req[w].streamChange.active # "yes"

\* An administrator asks for the stream: is_active, or another visibility.
Reopens(w, t) ==
  /\ Pending(w) /\ req[w].op = "update_stream" /\ req[w].stream = t
  /\ req[w].streamChange.active = "yes" \/ req[w].streamChange.visibility = "private"

\* Once a stream is off, only an administrator who asks for it brings it back: no
\* publish into it, first, repeated or late, and no edit of something else does,
\* however they overlap (ingest.py:250, streams.py:153-160).  A PATCH of is_active
\* may, also while the stream stays disabled, and so may a publish that loaded it
\* before it was disabled.
OffUntilReopened ==
  [][\A t \in StreamIds : Off(t) /\ ~Off(t)' =>
       \E w \in Workers : req'[w] # req[w] /\ (Reopens(w, t) \/ Reopens(w, t)')]_vars

\* The lifecycle of the sessions as README.md:17 gives it, with "none" before the
\* row exists.
Phase == [s \in SessionIds |-> IF sessions[s] = None THEN "none" ELSE sessions[s].status]

Lifecycle == INSTANCE SessionLifecycle WITH phase <- Phase

\* Requests that do not overlap take a session through its lifecycle only, one
\* move at a time, and never out of "revoked".
LifecycleSpec == Lifecycle!Spec

\* tests/test_api.py:166, test_revoked_ingest_session_cannot_publish: a session
\* that was revoked does not go live again.
RevokedCannotPublish ==
  [][\A s \in SessionIds :
       sessions[s] # None /\ sessions[s].status = "revoked"
         => sessions'[s].status # "live"]_vars
============================================================================
