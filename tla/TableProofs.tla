---------------------------- MODULE TableProofs ----------------------------
(***************************************************************************)
(* The rows of the two tables of IngestControl, for every value of the     *)
(* constants.                                                              *)
(*                                                                         *)
(* For requests that interleave in any way: keys and paths are unique.  A  *)
(* step gives one session a key nobody has, and one stream such a path, or *)
(* leaves keys and paths alone (KeyStep, PathStep), because only a         *)
(* rotation holds a key and only a PATCH a path (Names).  And a stream     *)
(* that is off stays off until an administrator asks for it, because of    *)
(* what the pending commits hold (HoldsStream).                            *)
(*                                                                         *)
(* For requests that do not overlap (LockedSpec): the columns of a row     *)
(* agree and sessions move as SessionLifecycle has them, because what a    *)
(* pending commit writes still fits the row it was computed from (Holds).  *)
(***************************************************************************)
EXTENDS IngestProofs

KeyValue(s) == IF sessions[s] = None THEN None ELSE sessions[s].key
PathValue(t) == IF streams[t] = None THEN None ELSE streams[t].path

KeyStep ==
  \/ \A s \in SessionIds : KeyValue(s)' = KeyValue(s)
  \/ \E s \in SessionIds, k \in Keys :
       /\ WithKey(k) = {}
       /\ \A u \in SessionIds : KeyValue(u)' = IF u = s THEN k ELSE KeyValue(u)

PathStep ==
  \/ \A t \in StreamIds : PathValue(t)' = PathValue(t)
  \/ \E t \in StreamIds, p \in Paths :
       /\ WithPath(p) = {}
       /\ \A u \in StreamIds : PathValue(u)' = IF u = t THEN p ELSE PathValue(u)

\* Only a rotation holds a key, and only a PATCH a path.
Named(r) ==
  /\ r.change.key # Keep => r.op = "rotate"
  /\ r.streamChange.path # Keep => r.op = "update_stream"

Names == \A w \in Workers : Named(req[w])

RowInv == Inv /\ Names /\ Distinct

LEMMA NothingNamed == Named(Idle)
BY DEF Named, Idle, NoSessionChange, NoStreamChange

\* One request moves on, and what it holds then is named.
LEMMA NamedStep ==
  ASSUME RowInv, NEW w \in Workers, NEW r, Named(r), req' = [req EXCEPT ![w] = r]
  PROVE  Names'
BY DEF RowInv, Inv, TypeOK, Names, Named

\* A step that leaves both tables alone names nothing.
LEMMA QuietTables == UNCHANGED <<sessions, streams>> => KeyStep /\ PathStep
BY DEF KeyStep, PathStep, KeyValue, PathValue

LEMMA InsertedKey ==
  ASSUME Inv, NEW k \in Keys, WithKey(k) = {}, NEW t \in StreamIds \cup {None},
         NEW s \in NextId(sessions),
         sessions' = [sessions EXCEPT ![s] = NewSession(k, t)]
  PROVE  KeyStep
<1>1. s \in SessionIds /\ sessions \in [SessionIds -> SessionRow \cup {None}]
  BY StoredType DEF Inv, TypeOK
<1>2. NewSession(k, t) # None /\ NewSession(k, t).key = k
  BY NewRowType, SentinelAssumption DEF NewSession
<1>3. \A u \in SessionIds : KeyValue(u)' = IF u = s THEN k ELSE KeyValue(u)
  BY <1>1, <1>2 DEF KeyValue
<1> QED BY <1>1, <1>3 DEF KeyStep

LEMMA FlushedKey ==
  ASSUME NEW row \in SessionRow, NEW c \in SessionChange
  PROVE  /\ FlushSession(row, c).key = IF c.key = Keep THEN row.key ELSE c.key
         /\ FlushSession(row, c) # None
BY FlushSessionType, SentinelAssumption DEF FlushSession, Written

\* A commit that names no key leaves the keys alone, whichever rows it writes.
LEMMA KeptKeys ==
  ASSUME Inv,
         \A u \in SessionIds :
           \/ sessions'[u] = sessions[u]
           \/ /\ u \in Stored(sessions)
              /\ \E c \in SessionChange :
                   c.key = Keep /\ sessions'[u] = FlushSession(sessions[u], c)
  PROVE  KeyStep
<1> SUFFICES ASSUME NEW u \in SessionIds
             PROVE  KeyValue(u)' = KeyValue(u)
  BY DEF KeyStep
<1>1. CASE sessions'[u] = sessions[u]
  BY <1>1 DEF KeyValue
<1>2. CASE /\ u \in Stored(sessions)
           /\ \E c \in SessionChange :
                c.key = Keep /\ sessions'[u] = FlushSession(sessions[u], c)
  BY <1>2, FlushedKey, StoredType, SentinelAssumption DEF KeyValue, Inv, SessionRow
<1> QED BY <1>1, <1>2

\* One row is written by a change that names no key.
LEMMA KeptKey ==
  ASSUME Inv, NEW s \in Stored(sessions), NEW c \in SessionChange, c.key = Keep,
         sessions' = [sessions EXCEPT ![s] = FlushSession(@, c)]
  PROVE  KeyStep
BY KeptKeys, StoredType DEF Inv, TypeOK

LEMMA RotatedKey ==
  ASSUME Inv, NEW s \in Stored(sessions), NEW c \in SessionChange, c.key # Keep,
         WithKey(c.key) = {},
         sessions' = [sessions EXCEPT ![s] = FlushSession(@, c)]
  PROVE  KeyStep
<1>1. /\ s \in SessionIds /\ sessions[s] \in SessionRow
      /\ sessions \in [SessionIds -> SessionRow \cup {None}]
  BY StoredType DEF Inv, TypeOK
<1>2. FlushSession(sessions[s], c).key = c.key /\ FlushSession(sessions[s], c) # None
  BY <1>1, FlushedKey
<1>3. c.key \in Keys
  BY DEF SessionChange
<1>4. \A u \in SessionIds : KeyValue(u)' = IF u = s THEN c.key ELSE KeyValue(u)
  BY <1>1, <1>2 DEF KeyValue
<1> QED BY <1>1, <1>3, <1>4 DEF KeyStep

---------------------------------------------------------------------------
(* Paths                                                                   *)

LEMMA InsertedPath ==
  ASSUME Inv, NEW p \in Paths, WithPath(p) = {}, NEW v \in Visibilities,
         NEW s \in SessionIds \cup {None}, NEW t \in NextId(streams),
         streams' = [streams EXCEPT ![t] = NewStream(p, v, s)]
  PROVE  PathStep
<1>1. t \in StreamIds /\ streams \in [StreamIds -> StreamRow \cup {None}]
  BY StoredType DEF Inv, TypeOK
<1>2. NewStream(p, v, s) # None /\ NewStream(p, v, s).path = p
  BY NewRowType, SentinelAssumption DEF NewStream
<1>3. \A u \in StreamIds : PathValue(u)' = IF u = t THEN p ELSE PathValue(u)
  BY <1>1, <1>2 DEF PathValue
<1> QED BY <1>1, <1>3 DEF PathStep

LEMMA FlushedPath ==
  ASSUME NEW row \in StreamRow, NEW c \in StreamChange
  PROVE  /\ FlushStream(row, c).path = IF c.path = Keep THEN row.path ELSE c.path
         /\ FlushStream(row, c) # None
BY FlushStreamType, SentinelAssumption DEF FlushStream, Written

LEMMA KeptPath ==
  ASSUME Inv, NEW t \in Stored(streams), NEW c \in StreamChange, c.path = Keep,
         streams' = [streams EXCEPT ![t] = FlushStream(@, c)]
  PROVE  PathStep
<1>1. /\ t \in StreamIds /\ streams[t] \in StreamRow /\ streams[t] # None
      /\ streams \in [StreamIds -> StreamRow \cup {None}]
  BY StoredType DEF Inv, TypeOK, Stored
<1>2. FlushStream(streams[t], c).path = streams[t].path /\ FlushStream(streams[t], c) # None
  BY <1>1, FlushedPath
<1>3. \A u \in StreamIds : PathValue(u)' = PathValue(u)
  BY <1>1, <1>2 DEF PathValue
<1> QED BY <1>3 DEF PathStep

\* The path is nobody's yet, or the stream's own already.
LEMMA RenamedPath ==
  ASSUME Inv, NEW t \in Stored(streams), NEW c \in StreamChange, c.path # Keep,
         WithPath(c.path) \subseteq {t},
         streams' = [streams EXCEPT ![t] = FlushStream(@, c)]
  PROVE  PathStep
<1>1. /\ t \in StreamIds /\ streams[t] \in StreamRow /\ streams[t] # None
      /\ streams \in [StreamIds -> StreamRow \cup {None}]
  BY StoredType DEF Inv, TypeOK, Stored
<1>2. FlushStream(streams[t], c).path = c.path /\ FlushStream(streams[t], c) # None
  BY <1>1, FlushedPath
<1>3. c.path \in Paths
  BY DEF StreamChange
<1>4. \A u \in StreamIds : PathValue(u)' = IF u = t THEN c.path ELSE PathValue(u)
  BY <1>1, <1>2 DEF PathValue
<1>5. CASE WithPath(c.path) = {}
  BY <1>1, <1>3, <1>4, <1>5 DEF PathStep
<1>6. CASE WithPath(c.path) = {t}
  <2>1. streams[t].path = c.path
    BY <1>6 DEF WithPath
  <2> QED BY <1>1, <1>4, <2>1 DEF PathStep, PathValue
<1> QED BY <1>5, <1>6

\* What a publish or a stop commits to its stream: it loads a path only to keep it.
LEMMA WritesStreamPath ==
  ASSUME RowInv, NEW w \in Workers, req[w].op \in {"start", "stop"},
         req[w].session # None, NEW t \in StreamIds, WritesStream(req[w], t)
  PROVE  PathStep
<1>1. req[w] \in Request /\ RequestReferences(req[w]) /\ Named(req[w])
  BY DEF RowInv, Inv, TypeOK, ReferencesExist, Names
<1>2. CASE req[w].stream # None
  <2>1. req[w].streamChange.path = Keep /\ req[w].streamChange \in StreamChange
    BY <1>1 DEF Named, Request
  <2>2. t \in Stored(streams) /\ t = req[w].stream
    BY <1>1, <1>2 DEF RequestReferences, WritesStream
  <2> QED BY <1>2, <2>1, <2>2, KeptPath DEF WritesStream, RowInv
<1>3. CASE req[w].stream = None
  <2>1. req[w].session \in Stored(sessions) /\ req[w].session \in SessionIds
    BY <1>1, StoredType DEF RequestReferences, RowInv, Inv
  <2>2. AutoPath[req[w].session] \in Paths
    BY <2>1 DEF Paths
  <2> QED BY <1>3, <2>1, <2>2, InsertedPath DEF WritesStream, Visibilities, RowInv
<1> QED BY <1>2, <1>3

---------------------------------------------------------------------------
(* One lemma for each way a step changes the tables                        *)

Tables == KeyStep /\ PathStep /\ Names'

\* What the commit of a publish or of a stop writes to its session.
LEMMA BoundRow ==
  ASSUME RowInv, NEW r \in Request, r.session \in Stored(sessions),
         NEW t \in StreamIds, r.change.key = Keep
  PROVE  Binding(r, t) \in SessionChange /\ Binding(r, t).key = Keep
<1>1. r.change \in SessionChange
  BY DEF Request
<1> QED BY <1>1 DEF Binding, SessionChange

LEMMA CommitTables ==
  ASSUME RowInv, NEW w \in Workers, req[w].op \in {"start", "stop"},
         req[w].session \in Stored(sessions), NEW t \in StreamIds,
         WritesStream(req[w], t),
         sessions' = [sessions EXCEPT ![req[w].session] = FlushSession(@, Binding(req[w], t))]
  PROVE  KeyStep /\ PathStep
<1> DEFINE r == req[w]
<1>1. /\ r \in Request /\ RequestReferences(r) /\ Named(r) /\ Inv
      /\ r.session \in SessionIds /\ r.session # None
      /\ sessions \in [SessionIds -> SessionRow \cup {None}]
  BY StoredType, SentinelAssumption DEF RowInv, Inv, TypeOK, ReferencesExist, Names
<1>2. r.change.key = Keep
  BY <1>1 DEF Named
<1>3. Binding(r, t) \in SessionChange /\ Binding(r, t).key = Keep
  BY <1>1, <1>2, BoundRow
<1>4. KeyStep
  BY <1>1, <1>3, KeptKey
<1>5. PathStep
  BY <1>1, WritesStreamPath
<1> QED BY <1>4, <1>5

LEMMA CommitStartTables ==
  ASSUME RowInv, NEW w \in Workers, CommitStart(w)
  PROVE  Tables
<1>1. req[w].session \in Stored(sessions)
  BY DEF RowInv, Inv, TypeOK, ReferencesExist, RequestReferences, RequestShape, CommitStart
<1>2. KeyStep /\ PathStep
  BY <1>1, CommitTables DEF CommitStart
<1>3. PICK p : req' = [req EXCEPT ![w] = [Idle EXCEPT
                   !.stage = "media", !.op = "start", !.key = req[w].key, !.path = p]]
  BY DEF CommitStart
<1>4. Names'
  <2> DEFINE r == [Idle EXCEPT !.stage = "media", !.op = "start", !.key = req[w].key,
                               !.path = p]
  <2>1. Named(r)
    BY DEF Named, Idle, NoSessionChange, NoStreamChange
  <2> HIDE DEF r
  <2> QED BY <1>3, <2>1, NamedStep DEF r
<1> QED BY <1>2, <1>4 DEF Tables

LEMMA FinishIgnoredStopTables ==
  ASSUME RowInv, NEW w \in Workers, FinishIgnoredStop(w)
  PROVE  Tables
<1>1. req[w].session \in Stored(sessions)
  BY DEF RowInv, Inv, TypeOK, ReferencesExist, RequestReferences, FinishIgnoredStop
<1>2. KeyStep /\ PathStep
  BY <1>1, CommitTables DEF FinishIgnoredStop
<1>3. Names'
  BY NothingNamed, NamedStep DEF FinishIgnoredStop
<1> QED BY <1>2, <1>3 DEF Tables

LEMMA StopChangeFacts ==
  ASSUME NEW row \in SessionRow
  PROVE  StopChange(row) \in SessionChange /\ StopChange(row).key = Keep
BY DEF StopChange, SessionRow, SessionChange, NoSessionChange, Assign, Statuses, Stamps

LEMMA CommitStopTables ==
  ASSUME RowInv, NEW w \in Workers, CommitStop(w)
  PROVE  Tables
<1> DEFINE r == req[w]
           q == ResolveOnly(r)
<1>1. /\ r \in Request /\ RequestReferences(r) /\ Named(r) /\ Inv /\ TypeOK
      /\ sessions \in [SessionIds -> SessionRow \cup {None}]
  BY DEF RowInv, Inv, TypeOK, ReferencesExist, Names
<1>2. \A s \in Stored(sessions) : /\ s \in SessionIds /\ sessions[s] \in SessionRow
                                  /\ StopChange(sessions[s]) \in SessionChange
                                  /\ StopChange(sessions[s]).key = Keep
  BY <1>1, StoredType, StopChangeFacts
<1>3. Names'
  <2> DEFINE n == [Idle EXCEPT !.stage = "media", !.op = "stop", !.key = r.key,
                               !.path = r.path]
  <2>1. Named(n)
    BY DEF Named, Idle, NoSessionChange, NoStreamChange
  <2>2. req' = [req EXCEPT ![w] = n]
    BY DEF CommitStop
  <2> HIDE DEF n
  <2> QED BY <2>1, <2>2, NamedStep
<1>4. CASE r.session \in WithKey(r.key) /\ \E t \in StreamIds :
             /\ WritesStream(r, t)
             /\ sessions' = [sessions EXCEPT ![r.session] = FlushSession(@, Binding(r, t))]
  <2>1. r.session \in Stored(sessions)
    BY <1>1, <1>4, StoredType
  <2>2. KeyStep /\ PathStep
    BY <1>4, <2>1, CommitTables DEF CommitStop
  <2> QED BY <1>3, <2>2 DEF Tables
<1>5. ASSUME r.session # None, NEW s \in WithKey(r.key) \ {r.session}, NEW t \in StreamIds,
             WritesStream(r, t),
             sessions' = [sessions EXCEPT ![r.session] = FlushSession(@, Binding(q, t)),
                                          ![s] = FlushSession(@, StopChange(@))]
      PROVE  Tables
  <2>1. /\ r.session \in Stored(sessions) /\ r.session \in SessionIds
        /\ s \in Stored(sessions) /\ s \in SessionIds /\ s # r.session
    BY <1>1, <1>2, <1>5, StoredType DEF RequestReferences
  <2>2. q \in Request /\ q.session = r.session /\ q.stream = r.stream /\ q.change.key = Keep
    BY <1>1 DEF ResolveOnly, Request, SessionChange, NoSessionChange
  <2>3. Binding(q, t) \in SessionChange /\ Binding(q, t).key = Keep
    BY <2>1, <2>2, BoundRow
  <2>4. /\ sessions'[r.session] = FlushSession(sessions[r.session], Binding(q, t))
        /\ sessions'[s] = FlushSession(sessions[s], StopChange(sessions[s]))
        /\ \A u \in SessionIds \ {s, r.session} : sessions'[u] = sessions[u]
    BY <1>1, <1>5, <2>1
  <2> HIDE DEF q
  <2>5. KeyStep
    BY <1>1, <1>2, <2>1, <2>3, <2>4, KeptKeys
  <2>6. PathStep
    BY <1>5, WritesStreamPath DEF CommitStop
  <2> QED BY <1>3, <2>5, <2>6 DEF Tables
<1>6. ASSUME NEW s \in WithKey(r.key), UNCHANGED streams,
             sessions' = [sessions EXCEPT ![s] = FlushSession(@, StopChange(@))]
      PROVE  Tables
  <2>1. s \in Stored(sessions)
    BY <1>1, StoredType
  <2>2. sessions' = [sessions EXCEPT ![s] = FlushSession(@, StopChange(sessions[s]))]
    BY <1>6
  <2>3. KeyStep
    BY <1>1, <1>2, <2>1, <2>2, KeptKey
  <2> QED BY <1>3, <1>6, <2>3 DEF Tables, PathStep, PathValue
<1> QED BY <1>4, <1>5, <1>6 DEF CommitStop

LEMMA CommitSessionTables ==
  ASSUME RowInv, NEW w \in Workers, CommitSession(w)
  PROVE  Tables
<1> DEFINE r == req[w]
<1>1. /\ r \in Request /\ Inv /\ r.session \in Stored(sessions)
  BY DEF RowInv, Inv, TypeOK, ReferencesExist, RequestReferences, RequestShape, CommitSession
<1>2. r.change \in SessionChange
  BY <1>1 DEF Request
<1>3. KeyStep
  BY <1>1, <1>2, KeptKey, RotatedKey DEF CommitSession
<1>4. PathStep
  BY DEF CommitSession, PathStep, PathValue
<1>5. Names'
  BY NothingNamed, NamedStep DEF CommitSession
<1> QED BY <1>3, <1>4, <1>5 DEF Tables

LEMMA CommitUpdateTables ==
  ASSUME RowInv, NEW w \in Workers, CommitUpdate(w)
  PROVE  Tables
<1> DEFINE r == req[w]
<1>1. r \in Request /\ Inv /\ Named(r) /\ r.stream \in Stored(streams)
  BY DEF RowInv, Inv, TypeOK, ReferencesExist, RequestReferences, RequestShape,
         CommitUpdate, Names
<1>2. r.streamChange \in StreamChange
  BY <1>1 DEF Request
<1>3. PathStep
  BY <1>1, <1>2, KeptPath, RenamedPath DEF CommitUpdate, Named
<1>4. KeyStep
  BY DEF CommitUpdate, KeyStep, KeyValue
<1>5. Names'
  BY NothingNamed, NamedStep DEF CommitUpdate
<1> QED BY <1>3, <1>4, <1>5 DEF Tables

LEMMA AutoRegisterTables ==
  ASSUME RowInv, NEW w \in Workers, AutoRegister(w)
  PROVE  Tables
<1>1. req[w].key \in Keys /\ Inv /\ Named(req[w]) /\ req[w] \in Request
  BY DEF RowInv, Inv, TypeOK, RequestShape, AutoRegister, Names
<1>2. KeyStep
  BY <1>1, InsertedKey DEF AutoRegister
<1>3. PathStep
  BY DEF AutoRegister, PathStep, PathValue
<1>4. Names'
  <2> DEFINE r == [req[w] EXCEPT !.stage = "mark"]
  <2>1. Named(r)
    BY <1>1 DEF Named, Request
  <2> HIDE DEF r
  <2> QED BY <2>1, NamedStep DEF AutoRegister, r
<1> QED BY <1>2, <1>3, <1>4 DEF Tables

LEMMA CreateTables ==
  ASSUME RowInv, NEW w \in Workers,
         \/ \E k \in Keys, t \in StreamIds \cup {None} : CreateSession(w, k, t)
         \/ \E p \in PathNames, v \in Visibilities, s \in SessionIds \cup {None} :
              CreateStream(w, p, v, s)
  PROVE  Tables
<1>1. ASSUME NEW k \in Keys, NEW t \in StreamIds \cup {None}, CreateSession(w, k, t)
      PROVE  Tables
  <2>1. KeyStep
    BY <1>1, InsertedKey DEF CreateSession, RowInv
  <2> QED BY <1>1, <2>1 DEF CreateSession, PathStep, PathValue, RowInv, Names, Tables
<1>2. ASSUME NEW p \in PathNames, NEW v \in Visibilities, NEW s \in SessionIds \cup {None},
             CreateStream(w, p, v, s)
      PROVE  Tables
  <2>1. PathStep
    BY <1>2, InsertedPath DEF CreateStream, RowInv, Paths
  <2> QED BY <1>2, <2>1 DEF CreateStream, KeyStep, KeyValue, RowInv, Names, Tables
<1> QED BY <1>1, <1>2

\* A request that moves on without a write.
LEMMA MovedTables ==
  ASSUME RowInv, NEW w \in Workers, NEW r, Named(r), req' = [req EXCEPT ![w] = r],
         UNCHANGED <<sessions, streams>>
  PROVE  Tables
BY NamedStep, QuietTables DEF Tables

LEMMA LookupForPublishTables ==
  ASSUME RowInv, NEW w \in Workers, NEW k \in Keys, LookupForPublish(w, k)
  PROVE  Tables
<1> DEFINE r == [Idle EXCEPT !.op = "start", !.key = k,
                             !.stage = IF WithKey(k) = {} THEN "register" ELSE "mark"]
<1>1. Named(r)
  BY DEF Named, Idle, NoSessionChange, NoStreamChange
<1>2. req' = [req EXCEPT ![w] = r] /\ UNCHANGED <<sessions, streams>>
  BY DEF LookupForPublish
<1> HIDE DEF r
<1> QED BY <1>1, <1>2, MovedTables

LEMMA LoadForStopTables ==
  ASSUME RowInv, NEW w \in Workers, NEW k \in Keys, LoadForStop(w, k)
  PROVE  Tables
<1> DEFINE loaded == [Idle EXCEPT !.stage = "commit", !.op = "stop", !.key = k]
<1>1. UNCHANGED <<sessions, streams>>
  BY DEF LoadForStop
<1>2. CASE req' = [req EXCEPT ![w] = loaded]
  <2>1. Named(loaded)
    BY DEF Named, Idle, NoSessionChange, NoStreamChange
  <2> HIDE DEF loaded
  <2> QED BY <1>1, <1>2, <2>1, MovedTables
<1>3. ASSUME NEW s \in WithKey(k), NEW t \in Resolved(s),
             req' = [req EXCEPT ![w] = [loaded EXCEPT
                       !.session = s, !.stream = t,
                       !.path = IF t = None THEN AutoPath[s] ELSE streams[t].path,
                       !.change = [StopChange(sessions[s]) EXCEPT
                         !.stream = IF t = None THEN Keep
                                    ELSE Assign(sessions[s].stream, t)]]]
      PROVE  Tables
  <2> DEFINE c == [StopChange(sessions[s]) EXCEPT
                     !.stream = IF t = None THEN Keep ELSE Assign(sessions[s].stream, t)]
             p == IF t = None THEN AutoPath[s] ELSE streams[t].path
             r == [loaded EXCEPT !.session = s, !.stream = t, !.path = p, !.change = c]
  <2>1. c.key = Keep
    BY DEF StopChange, NoSessionChange
  <2> HIDE DEF c, p
  <2>2. Named(r)
    BY <2>1 DEF Named, Idle, NoStreamChange
  <2>3. req' = [req EXCEPT ![w] = r]
    BY <1>3 DEF c, p
  <2> HIDE DEF r
  <2> QED BY <1>1, <2>2, <2>3, MovedTables
<1> QED BY <1>2, <1>3 DEF LoadForStop

LEMMA LoadForStartTables ==
  ASSUME RowInv, NEW w \in Workers, LoadForStart(w)
  PROVE  Tables
<1>1. PICK s \in WithKey(req[w].key) : \E t \in Resolved(s) :
        req' = [req EXCEPT ![w] = [req[w] EXCEPT
                  !.stage = "commit", !.session = s, !.stream = t,
                  !.change = StartChange(sessions[s], t),
                  !.streamChange = IF t = None THEN NoStreamChange
                                   ELSE StartStreamChange(streams[t], s)]]
  BY DEF LoadForStart
<1>2. PICK t \in Resolved(s) :
        req' = [req EXCEPT ![w] = [req[w] EXCEPT
                  !.stage = "commit", !.session = s, !.stream = t,
                  !.change = StartChange(sessions[s], t),
                  !.streamChange = IF t = None THEN NoStreamChange
                                   ELSE StartStreamChange(streams[t], s)]]
  BY <1>1
<1> DEFINE c == StartChange(sessions[s], t)
           sc == IF t = None THEN NoStreamChange ELSE StartStreamChange(streams[t], s)
           r == [req[w] EXCEPT !.stage = "commit", !.session = s, !.stream = t,
                               !.change = c, !.streamChange = sc]
<1>3. c.key = Keep /\ sc.path = Keep
  BY DEF StartChange, StartStreamChange, NoSessionChange, NoStreamChange
<1> HIDE DEF c, sc
<1>4. req[w] \in Request
  BY DEF RowInv, Inv, TypeOK
<1>5. Named(r)
  BY <1>3, <1>4 DEF Named, Request
<1>6. req' = [req EXCEPT ![w] = r] /\ UNCHANGED <<sessions, streams>>
  BY <1>2 DEF LoadForStart, c, sc
<1> HIDE DEF r
<1> QED BY <1>5, <1>6, MovedTables

LEMMA LoadSessionTables ==
  ASSUME RowInv, NEW w \in Workers, NEW op, NEW s, NEW c, c.key # Keep => op = "rotate",
         LoadSession(w, op, s, c)
  PROVE  Tables
<1> DEFINE r == [Idle EXCEPT !.stage = "commit", !.op = op, !.session = s, !.change = c]
<1>1. Named(r)
  BY DEF Named, Idle, NoStreamChange
<1>2. req' = [req EXCEPT ![w] = r] /\ UNCHANGED <<sessions, streams>>
  BY DEF LoadSession
<1> HIDE DEF r
<1> QED BY <1>1, <1>2, MovedTables

LEMMA LoadForAdminTables ==
  ASSUME RowInv, NEW w \in Workers, LoadForRotate(w) \/ LoadForRevoke(w) \/ LoadForBind(w)
  PROVE  Tables
<1>1. CASE LoadForRotate(w)
  BY <1>1, LoadSessionTables DEF LoadForRotate
<1>2. CASE LoadForRevoke(w)
  <2>1. PICK s \in Stored(sessions) : LoadSession(w, "revoke", s, RevokeChange(sessions[s]))
    BY <1>2 DEF LoadForRevoke
  <2>2. RevokeChange(sessions[s]).key = Keep
    BY DEF RevokeChange, NoSessionChange
  <2> QED BY <2>1, <2>2, LoadSessionTables
<1>3. CASE LoadForBind(w)
  <2>1. PICK s \in Stored(sessions), t \in Stored(streams) \cup {None} :
          LoadSession(w, "bind", s,
            [NoSessionChange EXCEPT !.stream = Assign(sessions[s].stream, t)])
    BY <1>3 DEF LoadForBind
  <2>2. [NoSessionChange EXCEPT !.stream = Assign(sessions[s].stream, t)].key = Keep
    BY DEF NoSessionChange
  <2> QED BY <2>1, <2>2, LoadSessionTables
<1> QED BY <1>1, <1>2, <1>3

LEMMA LoadForUpdateTables ==
  ASSUME RowInv, NEW w \in Workers, NEW t \in StreamIds, NEW patch \in Patches,
         LoadForUpdate(w, t, patch)
  PROVE  Tables
<1> DEFINE r == [Idle EXCEPT !.stage = "commit", !.op = "update_stream", !.stream = t,
                             !.streamChange = PatchChange(streams[t], patch)]
<1>1. Named(r)
  BY DEF Named, Idle, NoSessionChange
<1>2. req' = [req EXCEPT ![w] = r] /\ UNCHANGED <<sessions, streams>>
  BY DEF LoadForUpdate
<1> HIDE DEF r
<1> QED BY <1>1, <1>2, MovedTables

LEMMA QuietStepTables ==
  ASSUME RowInv, NEW w \in Workers,
         DenyStart(w) \/ StopUnknown(w) \/ DatabaseError(w) \/ Finish(w)
  PROVE  Tables
<1>1. CASE StopUnknown(w)
  <2> DEFINE r == [ResolveOnly(req[w]) EXCEPT !.stage = "media"]
  <2>1. req[w] \in Request /\ Named(req[w])
    BY DEF RowInv, Inv, TypeOK, Names
  <2>2. Named(r)
    BY <2>1 DEF Named, ResolveOnly, NoSessionChange, Request
  <2>3. req' = [req EXCEPT ![w] = r] /\ UNCHANGED <<sessions, streams>>
    BY <1>1 DEF StopUnknown
  <2> HIDE DEF r
  <2> QED BY <2>2, <2>3, MovedTables
<1>2. CASE DenyStart(w) \/ DatabaseError(w) \/ Finish(w)
  BY <1>2, NothingNamed, MovedTables DEF DenyStart, DatabaseError, Finish
<1> QED BY <1>1, <1>2

LEMMA NextTables ==
  ASSUME RowInv, [Next]_vars
  PROVE  Tables
<1>1. CASE UNCHANGED vars
  BY <1>1, QuietTables DEF vars, RowInv, Names, Tables
<1>2. CASE Crash
  <2>1. Names'
    BY <1>2, NothingNamed DEF Crash, Names
  <2> QED BY <1>2, <2>1, QuietTables DEF Crash, Tables
<1>3. ASSUME NEW w \in Workers, Receive(w) PROVE Tables
  BY <1>3, LookupForPublishTables, LoadForStopTables, CreateTables, LoadForAdminTables,
     LoadForUpdateTables DEF Receive
<1>4. ASSUME NEW w \in Workers, DatabaseStep(w) PROVE Tables
  BY <1>4, AutoRegisterTables, LoadForStartTables, CommitStartTables, CommitStopTables,
     CommitSessionTables, CommitUpdateTables, QuietStepTables DEF DatabaseStep
<1>5. ASSUME NEW w \in Workers, Return(w) PROVE Tables
  BY <1>5, FinishIgnoredStopTables, QuietStepTables DEF Return
<1> QED BY <1>1, <1>2, <1>3, <1>4, <1>5 DEF Next

---------------------------------------------------------------------------
(* Unique keys and paths                                                   *)

LEMMA InitRowInv == Init => RowInv
<1> SUFFICES ASSUME Init PROVE RowInv
  OBVIOUS
<1>1. Inv
  BY InitInv
<1>2. Names
  BY NothingNamed DEF Init, Names
<1>3. Distinct
  BY DEF Init, Distinct, Stored
<1> QED BY <1>1, <1>2, <1>3 DEF RowInv

\* In terms of the names: two rows that have the same key or path are one row.
LEMMA DistinctNames ==
  ASSUME TypeOK
  PROVE  Distinct <=>
           /\ \A s, u \in SessionIds : KeyValue(s) = KeyValue(u) => s = u \/ KeyValue(s) = None
           /\ \A t, u \in StreamIds : PathValue(t) = PathValue(u) => t = u \/ PathValue(t) = None
BY SentinelAssumption DEF TypeOK, Distinct, Stored, KeyValue, PathValue, SessionRow, StreamRow

LEMMA NextRowInv == RowInv /\ [Next]_vars => RowInv'
<1> SUFFICES ASSUME RowInv, [Next]_vars PROVE RowInv'
  OBVIOUS
<1>1. Inv' /\ TypeOK' /\ TypeOK
  BY NextInv DEF RowInv, Inv
<1>2. KeyStep /\ PathStep /\ Names'
  BY NextTables DEF Tables
<1>3. \A s, u \in SessionIds : KeyValue(s)' = KeyValue(u)' => s = u \/ KeyValue(s)' = None
  <2>1. \A s, u \in SessionIds : KeyValue(s) = KeyValue(u) => s = u \/ KeyValue(s) = None
    BY <1>1, DistinctNames DEF RowInv
  <2>2. ASSUME NEW k \in Keys, WithKey(k) = {}, NEW s \in SessionIds
        PROVE  KeyValue(s) # k
    BY <1>1, <2>2, SentinelAssumption DEF KeyValue, WithKey, Stored, TypeOK
  <2> QED BY <1>2, <2>1, <2>2 DEF KeyStep
<1>4. \A t, u \in StreamIds : PathValue(t)' = PathValue(u)' => t = u \/ PathValue(t)' = None
  <2>1. \A t, u \in StreamIds : PathValue(t) = PathValue(u) => t = u \/ PathValue(t) = None
    BY <1>1, DistinctNames DEF RowInv
  <2>2. ASSUME NEW p \in Paths, WithPath(p) = {}, NEW t \in StreamIds
        PROVE  PathValue(t) # p
    BY <1>1, <2>2, SentinelAssumption DEF PathValue, WithPath, Stored, TypeOK
  <2> QED BY <1>2, <2>1, <2>2 DEF PathStep
<1>5. Distinct'
  BY <1>1, <1>3, <1>4, SentinelAssumption
     DEF TypeOK, Distinct, Stored, KeyValue, PathValue, SessionRow, StreamRow
<1> QED BY <1>1, <1>2, <1>5 DEF RowInv

\* Whatever requests interleave, no two sessions get the same key and no two
\* streams the same path (the checks of ingest.py:108-118, 154-175 and
\* streams.py:125-175 come before the write, the unique index after them).
THEOREM KeysAndPathsAreUnique == Spec => []Distinct
<1>1. RowInv => Distinct
  BY DEF RowInv
<1> QED BY <1>1, InitRowInv, NextRowInv, PTL DEF Spec

\* A step deletes no session: its key says that it is stored.
LEMMA StoredGrows ==
  ASSUME RowInv, [Next]_vars
  PROVE  \A s \in SessionIds : s \in Stored(sessions) => sessions'[s] # None
<1> SUFFICES ASSUME NEW s \in SessionIds, s \in Stored(sessions) PROVE sessions'[s] # None
  OBVIOUS
<1>1. KeyStep /\ TypeOK
  BY NextTables DEF Tables, RowInv, Inv
<1>2. KeyValue(s) # None
  BY <1>1, StoredType, SentinelAssumption DEF KeyValue, Stored, SessionRow
<1> QED BY <1>1, <1>2, SentinelAssumption DEF KeyStep, KeyValue

---------------------------------------------------------------------------
(***************************************************************************)
(* What IngestControl promises to requests that do not overlap             *)
(* (LockedSpec), for every value of the constants: the row of a session    *)
(* tells one story, the sessions implement SessionLifecycle, and a         *)
(* disabled stream is inactive.                                            *)
(*                                                                         *)
(* A pending commit was computed from the row it is about to write, and    *)
(* nobody else writes that row before it (NoOverlap); so each commit moves *)
(* one session (RowStep) by a change that fits its row (Holds).            *)
(***************************************************************************)

Story(row) ==
  /\ row.status = "created" => row.started = "null" /\ row.ended = "null"
  /\ row.status = "live" => row.started = "set" /\ row.ended = "null"
  /\ row.status \in {"ended", "revoked"} => row.ended = "set"
  /\ row.status = "revoked" <=> row.revoked = "set"

SameStory(a, b) ==
  a.status = b.status /\ a.started = b.started /\ a.ended = b.ended /\ a.revoked = b.revoked

\* A change that fits the row it was computed from.
Fits(row, c) ==
  /\ Story(FlushSession(row, c))
  /\ row.status = "revoked" => c.status \in {Keep, "revoked"}

\* A change that tells nothing.
Silent(c) == c.status = Keep /\ c.started = Keep /\ c.ended = Keep /\ c.revoked = Keep

Holds(r) ==
  /\ r.stage = "commit" /\ r.session # None => Fits(sessions[r.session], r.change)
  /\ r.stage = "media" => Silent(r.change)

LockedInv == Inv /\ NoOverlap /\ RowsConsistent /\ \A w \in Workers : Holds(req[w])

Same(s) ==
  \/ sessions'[s] = sessions[s]
  \/ s \in Stored(sessions) /\ sessions'[s] # None /\ SameStory(sessions'[s], sessions[s])

Inserted(s) ==
  /\ sessions[s] = None /\ sessions'[s] # None
  /\ sessions'[s].status = "created" /\ sessions'[s].started = "null"
  /\ sessions'[s].ended = "null" /\ sessions'[s].revoked = "null"

\* The pending commit of w writes a session it holds: what it loaded, or a stop.
Committed(w, s) ==
  /\ Pending(w) /\ s \in HeldSessions(w) /\ sessions'[s] # None
  /\ \/ /\ s = req[w].session
        /\ SameStory(sessions'[s], FlushSession(sessions[s], req[w].change))
     \/ SameStory(sessions'[s], FlushSession(sessions[s], StopChange(sessions[s])))

RowStep(w) ==
  \/ \A s \in SessionIds : Same(s)
  \/ \E s \in SessionIds : /\ Inserted(s) \/ Committed(w, s)
                           /\ \A u \in SessionIds \ {s} : Same(u)

\* What a request holds after its own step: nothing, or what it has just loaded.
ReqStep(w) ==
  /\ \A v \in Workers \ {w} : req'[v] = req[v]
  /\ \/ req'[w].stage \notin {"commit", "media"}
     \/ req'[w].stage = "media" /\ Silent(req'[w].change)
     \/ /\ req'[w].stage = "commit" /\ UNCHANGED sessions
        /\ \/ req'[w].session = None
           \/ /\ req'[w].session \in Stored(sessions)
              /\ Fits(sessions[req'[w].session], req'[w].change)

---------------------------------------------------------------------------
(* The handlers' changes fit the rows they were computed from.             *)

LEMMA StopFits ==
  ASSUME NEW row \in SessionRow, Story(row)
  PROVE  Fits(row, StopChange(row))
BY KeepIsNoValue
   DEF Fits, Story, FlushSession, Written, StopChange, NoSessionChange, Assign, SessionRow,
       Statuses, Stamps

LEMMA LoadsFit ==
  ASSUME NEW row \in SessionRow, Story(row), NEW t, NEW k
  PROVE  /\ row.status # "revoked" => Fits(row, StartChange(row, t))
         /\ row.status # "revoked" => Fits(row, RotateChange(row, k))
         /\ Fits(row, RevokeChange(row))
         /\ Fits(row, [NoSessionChange EXCEPT !.stream = t])
         /\ Fits(row, [StopChange(row) EXCEPT !.stream = t])
<1> USE KeepIsNoValue DEF Fits, Story, FlushSession, Written, NoSessionChange, Assign,
                          SessionRow, Statuses, Stamps
<1>1. row.status # "revoked" => Fits(row, StartChange(row, t))
  BY DEF StartChange
<1>2. row.status # "revoked" => Fits(row, RotateChange(row, k))
  BY DEF RotateChange
<1>3. Fits(row, RevokeChange(row))
  BY DEF RevokeChange
<1>4. Fits(row, [NoSessionChange EXCEPT !.stream = t])
  OBVIOUS
<1>5. Fits(row, [StopChange(row) EXCEPT !.stream = t])
  BY DEF StopChange
<1> QED BY <1>1, <1>2, <1>3, <1>4, <1>5

LEMMA StoredRow ==
  ASSUME Inv, RowsConsistent, NEW s \in Stored(sessions)
  PROVE  s \in SessionIds /\ sessions[s] \in SessionRow /\ Story(sessions[s])
BY StoredType DEF Inv, RowsConsistent, Story

---------------------------------------------------------------------------
(* Every step is such a step.                                              *)

LEMMA IdleStep ==
  ASSUME Inv, NEW w \in Workers, NEW r, req' = [req EXCEPT ![w] = r],
         r.stage \notin {"commit", "media"} \/ (r.stage = "media" /\ Silent(r.change))
  PROVE  ReqStep(w)
BY DEF Inv, TypeOK, ReqStep

LEMMA LoadStep ==
  ASSUME Inv, NEW w \in Workers, NEW r, req' = [req EXCEPT ![w] = r],
         UNCHANGED sessions, r.stage = "commit",
         \/ r.session = None
         \/ r.session \in Stored(sessions) /\ Fits(sessions[r.session], r.change)
  PROVE  RowStep(w) /\ ReqStep(w)
BY DEF Inv, TypeOK, ReqStep, RowStep, Same

LEMMA NoRow == ASSUME NEW w, UNCHANGED sessions PROVE RowStep(w)
BY DEF RowStep, Same

LEMMA InsertStep ==
  ASSUME Inv, NEW w, NEW k \in Keys, NEW t \in StreamIds \cup {None},
         NEW s \in NextId(sessions),
         sessions' = [sessions EXCEPT ![s] = NewSession(k, t)]
  PROVE  RowStep(w)
<1>1. /\ s \in SessionIds /\ sessions[s] = None
      /\ sessions \in [SessionIds -> SessionRow \cup {None}]
  BY DEF Inv, TypeOK, NextId
<1>2. NewSession(k, t) # None
  BY NewRowType, SentinelAssumption
<1>3. Inserted(s)
  BY <1>1, <1>2 DEF Inserted, NewSession
<1>4. \A u \in SessionIds \ {s} : Same(u)
  BY <1>1 DEF Same
<1> QED BY <1>1, <1>3, <1>4 DEF RowStep

LEMMA FlushSame ==
  ASSUME NEW row, NEW c, NEW d, SameStory(c, d)
  PROVE  SameStory(FlushSession(row, c), FlushSession(row, d))
BY DEF SameStory, FlushSession, Written

LEMMA SilentFlush ==
  ASSUME NEW row, NEW c, Silent(c) PROVE SameStory(FlushSession(row, c), row)
BY DEF Silent, SameStory, FlushSession, Written

\* A binding leaves the story of a change alone.
LEMMA BindingStory ==
  ASSUME NEW r \in Request, NEW t \in StreamIds
  PROVE  /\ Binding(r, t) \in SessionChange /\ SameStory(Binding(r, t), r.change)
         /\ Binding(ResolveOnly(r), t) \in SessionChange
         /\ Silent(Binding(ResolveOnly(r), t))
<1>1. r.change \in SessionChange
  BY DEF Request
<1>2. Binding(r, t) \in SessionChange /\ SameStory(Binding(r, t), r.change)
  BY <1>1 DEF Binding, SessionChange, SameStory
<1> DEFINE q == ResolveOnly(r)
<1>3. q.change \in SessionChange /\ Silent(q.change)
  BY <1>1 DEF ResolveOnly, Request, SessionChange, NoSessionChange, Silent
<1> HIDE DEF q
<1>4. Binding(q, t) \in SessionChange /\ Silent(Binding(q, t))
  BY <1>3 DEF Binding, SessionChange, Silent
<1> QED BY <1>2, <1>4 DEF q

LEMMA FlushStored ==
  ASSUME Inv, NEW s \in Stored(sessions), NEW c \in SessionChange
  PROVE  FlushSession(sessions[s], c) # None
BY StoredType, FlushSessionType, SentinelAssumption DEF Inv

\* One row is written by a request that waits to commit it.
LEMMA CommitRow ==
  ASSUME Inv, NEW w \in Workers, Pending(w), req[w].session \in Stored(sessions),
         NEW c \in SessionChange, SameStory(c, req[w].change),
         sessions' = [sessions EXCEPT ![req[w].session] = FlushSession(@, c)]
  PROVE  RowStep(w)
<1> DEFINE s == req[w].session
<1>1. s \in SessionIds /\ sessions \in [SessionIds -> SessionRow \cup {None}]
  BY StoredType DEF Inv, TypeOK
<1>2. sessions'[s] = FlushSession(sessions[s], c) /\ sessions'[s] # None
  BY <1>1, FlushStored
<1>3. Committed(w, s)
  BY <1>2, FlushSame DEF Committed, HeldSessions
<1>4. \A u \in SessionIds \ {s} : Same(u)
  BY <1>1 DEF Same
<1> QED BY <1>1, <1>3, <1>4 DEF RowStep

LEMMA CommitStartStep ==
  ASSUME LockedInv, NEW w \in Workers, CommitStart(w)
  PROVE  RowStep(w) /\ ReqStep(w)
<1>1. /\ Inv /\ req[w] \in Request /\ req[w].session \in Stored(sessions) /\ Pending(w)
  BY DEF LockedInv, Inv, TypeOK, ReferencesExist, RequestReferences, RequestShape,
         CommitStart, Pending
<1>2. PICK t \in StreamIds : sessions' = [sessions EXCEPT
             ![req[w].session] = FlushSession(@, Binding(req[w], t))]
  BY DEF CommitStart
<1>3. RowStep(w)
  BY <1>1, <1>2, BindingStory, CommitRow
<1>4. PICK p : req' = [req EXCEPT ![w] = [Idle EXCEPT
                   !.stage = "media", !.op = "start", !.key = req[w].key, !.path = p]]
  BY DEF CommitStart
<1> DEFINE r == [Idle EXCEPT !.stage = "media", !.op = "start", !.key = req[w].key,
                             !.path = p]
<1>5. r.stage = "media" /\ Silent(r.change)
  BY DEF Idle, Silent, NoSessionChange
<1>6. req' = [req EXCEPT ![w] = r]
  BY <1>4
<1> HIDE DEF r
<1> QED BY <1>1, <1>3, <1>5, <1>6, IdleStep

LEMMA FinishIgnoredStopStep ==
  ASSUME LockedInv, NEW w \in Workers, FinishIgnoredStop(w)
  PROVE  RowStep(w) /\ ReqStep(w)
<1> DEFINE r == req[w]
           s == r.session
<1>1. /\ Inv /\ r \in Request /\ s \in Stored(sessions) /\ s \in SessionIds
      /\ Silent(r.change) /\ sessions \in [SessionIds -> SessionRow \cup {None}]
  BY StoredType
     DEF LockedInv, Inv, TypeOK, ReferencesExist, RequestReferences, FinishIgnoredStop, Holds
<1>2. PICK t \in StreamIds : sessions' = [sessions EXCEPT ![s] = FlushSession(@, Binding(r, t))]
  BY DEF FinishIgnoredStop
<1>3. Binding(r, t) \in SessionChange /\ Silent(Binding(r, t))
  BY <1>1, BindingStory DEF SameStory, Silent
<1>4. sessions'[s] = FlushSession(sessions[s], Binding(r, t)) /\ sessions'[s] # None
  BY <1>1, <1>2, <1>3, FlushStored
<1>5. Same(s)
  BY <1>1, <1>3, <1>4, SilentFlush DEF Same
<1>6. \A u \in SessionIds \ {s} : Same(u)
  BY <1>1, <1>2 DEF Same
<1>7. RowStep(w)
  BY <1>5, <1>6 DEF RowStep
<1>8. ReqStep(w)
  BY <1>1, IdleStep DEF FinishIgnoredStop, Idle
<1> QED BY <1>7, <1>8

LEMMA CommitSessionStep ==
  ASSUME LockedInv, NEW w \in Workers, CommitSession(w)
  PROVE  RowStep(w) /\ ReqStep(w)
<1>1. /\ Inv /\ req[w] \in Request /\ req[w].session \in Stored(sessions) /\ Pending(w)
  BY DEF LockedInv, Inv, TypeOK, ReferencesExist, RequestReferences, RequestShape,
         CommitSession, Pending
<1>2. req[w].change \in SessionChange /\ SameStory(req[w].change, req[w].change)
  BY <1>1 DEF Request, SameStory
<1>3. RowStep(w)
  BY <1>1, <1>2, CommitRow DEF CommitSession
<1>4. ReqStep(w)
  BY <1>1, IdleStep DEF CommitSession, Idle
<1> QED BY <1>3, <1>4

LEMMA CommitStopStep ==
  ASSUME LockedInv, NEW w \in Workers, CommitStop(w)
  PROVE  RowStep(w) /\ ReqStep(w)
<1> DEFINE r == req[w]
<1>1. /\ Inv /\ r \in Request /\ RequestReferences(r) /\ TypeOK /\ Pending(w)
      /\ sessions \in [SessionIds -> SessionRow \cup {None}]
  BY DEF LockedInv, Inv, TypeOK, ReferencesExist, CommitStop, Pending
<1>2. \A s \in Stored(sessions) : s \in SessionIds /\ StopChange(sessions[s]) \in SessionChange
  <2> TAKE s \in Stored(sessions)
  <2>1. s \in SessionIds /\ sessions[s] \in SessionRow
    BY <1>1, StoredType
  <2> QED BY <2>1 DEF StopChange, SessionRow, SessionChange, NoSessionChange, Assign,
                      Statuses, Stamps
<1>3. ReqStep(w)
  <2> DEFINE n == [Idle EXCEPT !.stage = "media", !.op = "stop", !.key = r.key,
                               !.path = r.path]
  <2>1. n.stage = "media" /\ Silent(n.change)
    BY DEF Idle, Silent, NoSessionChange
  <2>2. req' = [req EXCEPT ![w] = n]
    BY DEF CommitStop
  <2> HIDE DEF n
  <2> QED BY <1>1, <2>1, <2>2, IdleStep
<1>4. CASE r.session \in WithKey(r.key) /\ \E t \in StreamIds :
             sessions' = [sessions EXCEPT ![r.session] = FlushSession(@, Binding(r, t))]
  <2>1. r.session \in Stored(sessions)
    BY <1>1, <1>4, StoredType
  <2> QED BY <1>1, <1>3, <1>4, <2>1, BindingStory, CommitRow
<1>5. ASSUME r.session # None, NEW s \in WithKey(r.key) \ {r.session}, NEW t \in StreamIds,
             sessions' = [sessions EXCEPT
                 ![r.session] = FlushSession(@, Binding(ResolveOnly(r), t)),
                 ![s] = FlushSession(@, StopChange(@))]
      PROVE  RowStep(w)
  <2> DEFINE b == Binding(ResolveOnly(r), t)
             c == StopChange(sessions[s])
  <2>1. /\ r.session \in Stored(sessions) /\ r.session \in SessionIds
        /\ s \in Stored(sessions) /\ s \in SessionIds /\ s # r.session
    BY <1>1, <1>2, <1>5, StoredType DEF RequestReferences
  <2>2. b \in SessionChange /\ Silent(b) /\ c \in SessionChange
    BY <1>1, <1>2, <2>1, BindingStory
  <2>3. /\ sessions'[r.session] = FlushSession(sessions[r.session], b)
        /\ sessions'[s] = FlushSession(sessions[s], c)
        /\ \A u \in SessionIds \ {s, r.session} : sessions'[u] = sessions[u]
    BY <1>1, <1>5, <2>1
  <2>4. sessions'[r.session] # None /\ sessions'[s] # None
    BY <1>1, <2>1, <2>2, <2>3, FlushStored
  <2>5. s \in HeldSessions(w)
    BY <2>1 DEF HeldSessions, WithKey, CommitStop
  <2>6. Committed(w, s)
    BY <1>1, <2>3, <2>4, <2>5 DEF Committed, SameStory
  <2> HIDE DEF b
  <2>7. Same(r.session)
    BY <2>1, <2>2, <2>3, <2>4, SilentFlush DEF Same
  <2>8. \A u \in SessionIds \ {s} : Same(u)
    BY <2>3, <2>7 DEF Same
  <2> QED BY <2>1, <2>6, <2>8 DEF RowStep
<1>6. ASSUME NEW s \in WithKey(r.key),
             sessions' = [sessions EXCEPT ![s] = FlushSession(@, StopChange(@))]
      PROVE  RowStep(w)
  <2> DEFINE c == StopChange(sessions[s])
  <2>1. s \in Stored(sessions) /\ s \in SessionIds /\ c \in SessionChange
    BY <1>1, <1>2, StoredType
  <2>2. /\ sessions'[s] = FlushSession(sessions[s], c)
        /\ \A u \in SessionIds \ {s} : sessions'[u] = sessions[u]
    BY <1>1, <1>6, <2>1
  <2>3. sessions'[s] # None
    BY <1>1, <2>1, <2>2, FlushStored
  <2>4. s \in HeldSessions(w)
    BY <2>1 DEF HeldSessions, WithKey, CommitStop
  <2>5. Committed(w, s)
    BY <1>1, <2>2, <2>3, <2>4 DEF Committed, SameStory
  <2> QED BY <2>1, <2>2, <2>5 DEF RowStep, Same
<1> QED BY <1>3, <1>4, <1>5, <1>6 DEF CommitStop

LEMMA LoadForStopStep ==
  ASSUME LockedInv, NEW w \in Workers, NEW k \in Keys, LoadForStop(w, k)
  PROVE  RowStep(w) /\ ReqStep(w)
<1> DEFINE loaded == [Idle EXCEPT !.stage = "commit", !.op = "stop", !.key = k]
<1>1. UNCHANGED sessions /\ Inv /\ RowsConsistent
  BY DEF LoadForStop, LockedInv
<1>2. CASE req' = [req EXCEPT ![w] = loaded]
  <2>1. loaded.stage = "commit" /\ loaded.session = None
    BY DEF Idle
  <2> HIDE DEF loaded
  <2> QED BY <1>1, <1>2, <2>1, LoadStep
<1>3. ASSUME NEW s \in WithKey(k), NEW t \in Resolved(s),
             req' = [req EXCEPT ![w] = [loaded EXCEPT
                       !.session = s, !.stream = t,
                       !.path = IF t = None THEN AutoPath[s] ELSE streams[t].path,
                       !.change = [StopChange(sessions[s]) EXCEPT
                         !.stream = IF t = None THEN Keep
                                    ELSE Assign(sessions[s].stream, t)]]]
      PROVE  RowStep(w) /\ ReqStep(w)
  <2> DEFINE b == IF t = None THEN Keep ELSE Assign(sessions[s].stream, t)
             c == [StopChange(sessions[s]) EXCEPT !.stream = b]
             p == IF t = None THEN AutoPath[s] ELSE streams[t].path
             r == [loaded EXCEPT !.session = s, !.stream = t, !.path = p, !.change = c]
  <2>1. s \in Stored(sessions) /\ sessions[s] \in SessionRow /\ Story(sessions[s])
    BY <1>1, StoredRow DEF WithKey
  <2> HIDE DEF b
  <2>2. Fits(sessions[s], c)
    BY <2>1, LoadsFit
  <2> HIDE DEF c, p
  <2>3. r.stage = "commit" /\ r.session = s /\ r.change = c
    BY DEF Idle
  <2>4. req' = [req EXCEPT ![w] = r]
    BY <1>3 DEF c, p, b
  <2> HIDE DEF r
  <2> QED BY <1>1, <2>1, <2>2, <2>3, <2>4, LoadStep
<1> QED BY <1>2, <1>3 DEF LoadForStop

LEMMA LoadForStartStep ==
  ASSUME LockedInv, NEW w \in Workers, LoadForStart(w)
  PROVE  RowStep(w) /\ ReqStep(w)
<1>0. Inv /\ RowsConsistent /\ req[w] \in Request
  BY DEF LockedInv, Inv, TypeOK
<1>1. PICK s \in WithKey(req[w].key) : sessions[s].status # "revoked" /\ \E t \in Resolved(s) :
        req' = [req EXCEPT ![w] = [req[w] EXCEPT
                  !.stage = "commit", !.session = s, !.stream = t,
                  !.change = StartChange(sessions[s], t),
                  !.streamChange = IF t = None THEN NoStreamChange
                                   ELSE StartStreamChange(streams[t], s)]]
  BY DEF LoadForStart
<1>2. PICK t \in Resolved(s) :
        req' = [req EXCEPT ![w] = [req[w] EXCEPT
                  !.stage = "commit", !.session = s, !.stream = t,
                  !.change = StartChange(sessions[s], t),
                  !.streamChange = IF t = None THEN NoStreamChange
                                   ELSE StartStreamChange(streams[t], s)]]
  BY <1>1
<1> DEFINE c == StartChange(sessions[s], t)
           sc == IF t = None THEN NoStreamChange ELSE StartStreamChange(streams[t], s)
           r == [req[w] EXCEPT !.stage = "commit", !.session = s, !.stream = t,
                               !.change = c, !.streamChange = sc]
<1>3. s \in Stored(sessions) /\ sessions[s] \in SessionRow /\ Story(sessions[s])
  BY <1>0, StoredRow DEF WithKey
<1>4. Fits(sessions[s], c)
  BY <1>1, <1>3, LoadsFit
<1> HIDE DEF c, sc
<1>5. r.stage = "commit" /\ r.session = s /\ r.change = c
  BY <1>0 DEF Request
<1>6. req' = [req EXCEPT ![w] = r] /\ UNCHANGED sessions
  BY <1>2 DEF LoadForStart, c, sc
<1> HIDE DEF r
<1> QED BY <1>0, <1>3, <1>4, <1>5, <1>6, LoadStep

LEMMA LoadSessionStep ==
  ASSUME LockedInv, NEW w \in Workers, NEW op, NEW s \in Stored(sessions), NEW c,
         Fits(sessions[s], c), LoadSession(w, op, s, c)
  PROVE  RowStep(w) /\ ReqStep(w)
<1> DEFINE r == [Idle EXCEPT !.stage = "commit", !.op = op, !.session = s, !.change = c]
<1>1. r.stage = "commit" /\ r.session = s /\ r.change = c
  BY DEF Idle
<1>2. req' = [req EXCEPT ![w] = r] /\ UNCHANGED sessions
  BY DEF LoadSession
<1> HIDE DEF r
<1> QED BY <1>1, <1>2, LoadStep DEF LockedInv

LEMMA ReceiveStep ==
  ASSUME LockedInv, NEW w \in Workers, Receive(w)
  PROVE  RowStep(w) /\ ReqStep(w)
<1>0. /\ Inv
      /\ \A s \in Stored(sessions) : sessions[s] \in SessionRow /\ Story(sessions[s])
  BY StoredRow DEF LockedInv
<1>1. ASSUME NEW k \in Keys, LookupForPublish(w, k) PROVE RowStep(w) /\ ReqStep(w)
  <2> DEFINE r == [Idle EXCEPT !.op = "start", !.key = k,
                               !.stage = IF WithKey(k) = {} THEN "register" ELSE "mark"]
  <2>1. r.stage \notin {"commit", "media"}
    BY DEF Idle
  <2>2. req' = [req EXCEPT ![w] = r] /\ UNCHANGED sessions
    BY <1>1 DEF LookupForPublish
  <2> HIDE DEF r
  <2> QED BY <1>0, <2>1, <2>2, IdleStep, NoRow
<1>2. ASSUME NEW k \in Keys, NEW t \in StreamIds \cup {None}, CreateSession(w, k, t)
      PROVE  RowStep(w) /\ ReqStep(w)
  <2>1. RowStep(w)
    BY <1>0, <1>2, InsertStep DEF CreateSession
  <2>2. ReqStep(w)
    BY <1>2 DEF CreateSession, Accepts, ReqStep, Idle
  <2> QED BY <2>1, <2>2
<1>3. CASE LoadForRotate(w)
  <2>1. PICK s \in Stored(sessions) : \E k \in Keys :
          /\ sessions[s].status # "revoked"
          /\ LoadSession(w, "rotate", s, RotateChange(sessions[s], k))
    BY <1>3 DEF LoadForRotate
  <2> QED BY <1>0, <2>1, LoadsFit, LoadSessionStep
<1>4. CASE LoadForRevoke(w)
  BY <1>0, <1>4, LoadsFit, LoadSessionStep DEF LoadForRevoke
<1>5. CASE LoadForBind(w)
  <2>1. PICK s \in Stored(sessions), t \in Stored(streams) \cup {None} :
          LoadSession(w, "bind", s,
            [NoSessionChange EXCEPT !.stream = Assign(sessions[s].stream, t)])
    BY <1>5 DEF LoadForBind
  <2> QED BY <1>0, <2>1, LoadsFit, LoadSessionStep
<1>6. ASSUME NEW p \in PathNames, NEW v \in Visibilities, NEW s \in SessionIds \cup {None},
             CreateStream(w, p, v, s)
      PROVE  RowStep(w) /\ ReqStep(w)
  BY <1>6, NoRow DEF CreateStream, Accepts, ReqStep, Idle
<1>7. ASSUME NEW t \in StreamIds, NEW patch \in Patches, LoadForUpdate(w, t, patch)
      PROVE  RowStep(w) /\ ReqStep(w)
  <2> DEFINE r == [Idle EXCEPT !.stage = "commit", !.op = "update_stream", !.stream = t,
                               !.streamChange = PatchChange(streams[t], patch)]
  <2>1. r.stage = "commit" /\ r.session = None
    BY DEF Idle
  <2>2. req' = [req EXCEPT ![w] = r] /\ UNCHANGED sessions
    BY <1>7 DEF LoadForUpdate
  <2> HIDE DEF r
  <2> QED BY <1>0, <2>1, <2>2, LoadStep
<1> QED BY <1>1, <1>2, <1>3, <1>4, <1>5, <1>6, <1>7, LoadForStopStep DEF Receive

LEMMA WorkerRows ==
  ASSUME LockedInv, NEW w \in Workers, DatabaseStep(w) \/ Return(w)
  PROVE  RowStep(w) /\ ReqStep(w)
<1>0. /\ Inv /\ req[w] \in Request /\ RequestShape(req[w])
      /\ Idle.stage = "idle"
  BY DEF LockedInv, Inv, TypeOK, Idle
<1>1. CASE AutoRegister(w)
  <2>1. req[w].key \in Keys
    BY <1>0, <1>1 DEF AutoRegister, RequestShape
  <2>2. RowStep(w)
    BY <1>0, <1>1, <2>1, InsertStep DEF AutoRegister
  <2> DEFINE r == [req[w] EXCEPT !.stage = "mark"]
  <2>3. r.stage = "mark"
    BY <1>0 DEF Request
  <2>4. req' = [req EXCEPT ![w] = r]
    BY <1>1 DEF AutoRegister
  <2> HIDE DEF r
  <2> QED BY <1>0, <2>2, <2>3, <2>4, IdleStep
<1>2. CASE StopUnknown(w)
  <2> DEFINE r == [ResolveOnly(req[w]) EXCEPT !.stage = "media"]
  <2>1. r.stage = "media" /\ Silent(r.change)
    BY <1>0 DEF ResolveOnly, NoSessionChange, Silent, Request
  <2>2. req' = [req EXCEPT ![w] = r] /\ UNCHANGED sessions
    BY <1>2 DEF StopUnknown
  <2> HIDE DEF r
  <2> QED BY <1>0, <2>1, <2>2, IdleStep, NoRow
<1>3. CASE DenyStart(w) \/ DatabaseError(w) \/ Finish(w) \/ CommitUpdate(w)
  BY <1>0, <1>3, IdleStep, NoRow DEF DenyStart, DatabaseError, Finish, CommitUpdate
<1> QED
  BY <1>1, <1>2, <1>3, LoadForStartStep, CommitStartStep, CommitStopStep,
     CommitSessionStep, FinishIgnoredStopStep DEF DatabaseStep, Return

---------------------------------------------------------------------------
(* The invariant                                                           *)

LEMMA InitLocked == Init => LockedInv
<1> SUFFICES ASSUME Init PROVE LockedInv
  OBVIOUS
<1>1. NoOverlap
  BY DEF Init, NoOverlap, Pending, Idle
<1>2. RowsConsistent
  BY DEF Init, RowsConsistent, Stored
<1>3. \A w \in Workers : Holds(req[w])
  BY DEF Init, Holds, Idle
<1> QED BY <1>1, <1>2, <1>3, InitInv DEF LockedInv

LEMMA SameStoryTold ==
  ASSUME NEW a, NEW b, SameStory(a, b)
  PROVE  /\ Story(a) <=> Story(b)
         /\ \A c : Fits(a, c) <=> Fits(b, c)
BY DEF SameStory, Story, Fits, FlushSession, Written

\* What the next table holds: rows that tell one story.
LEMMA StepRows ==
  ASSUME LockedInv, NEW w \in Workers, RowStep(w), NEW s \in SessionIds, sessions'[s] # None
  PROVE  Story(sessions'[s])
<1>1. \A u \in Stored(sessions) : sessions[u] \in SessionRow /\ Story(sessions[u])
  BY StoredRow DEF LockedInv
<1>2. CASE Same(s)
  BY <1>1, <1>2, SameStoryTold DEF Same, Stored, LockedInv, Inv, TypeOK
<1>3. CASE Inserted(s)
  BY <1>3 DEF Inserted, Story
<1>4. CASE Committed(w, s)
  <2>1. s \in Stored(sessions)
    BY <1>4 DEF Committed, HeldSessions
  <2>2. CASE /\ s = req[w].session
             /\ SameStory(sessions'[s], FlushSession(sessions[s], req[w].change))
    <3>1. s # None
      BY <2>1, StoredType, SentinelAssumption DEF LockedInv, Inv
    <3>2. Fits(sessions[s], req[w].change)
      BY <1>4, <2>2, <3>1 DEF Committed, Pending, LockedInv, Holds
    <3> QED BY <2>2, <3>2, SameStoryTold DEF Fits
  <2>3. CASE SameStory(sessions'[s], FlushSession(sessions[s], StopChange(sessions[s])))
    BY <1>1, <2>1, <2>3, StopFits, SameStoryTold DEF Fits
  <2> QED BY <1>4, <2>2, <2>3 DEF Committed
<1> QED BY <1>2, <1>3, <1>4 DEF RowStep

\* What a request holds: its own row, which nobody else has written.
LEMMA StepHolds ==
  ASSUME LockedInv, NEW w \in Workers, RowStep(w), ReqStep(w), NEW v \in Workers
  PROVE  Holds(req[v])'
<1>1. CASE v # w
  <2>1. req'[v] = req[v] /\ Holds(req[v]) /\ Inv
    BY <1>1 DEF ReqStep, LockedInv
  <2> SUFFICES ASSUME req[v].stage = "commit", req[v].session # None
               PROVE  Fits(sessions'[req[v].session], req[v].change)
    BY <2>1 DEF Holds
  <2> DEFINE s == req[v].session
  <2>2. s \in Stored(sessions) /\ s \in SessionIds /\ sessions[s] # None
    BY <2>1, StoredType DEF Inv, ReferencesExist, RequestReferences, Stored
  <2>3. Fits(sessions[s], req[v].change)
    BY <2>1 DEF Holds
  <2>4. s \in HeldSessions(v) /\ Pending(v)
    BY <2>2 DEF HeldSessions, Pending
  <2>5. ~Inserted(s) /\ ~Committed(w, s)
    BY <1>1, <2>2, <2>4 DEF Inserted, Committed, LockedInv, NoOverlap
  <2>6. Same(s)
    BY <2>2, <2>5 DEF RowStep
  <2> QED BY <2>3, <2>6, SameStoryTold DEF Same
<1>2. CASE v = w
  BY <1>2 DEF ReqStep, Holds
<1> QED BY <1>1, <1>2

LEMMA NextLocked == LockedInv /\ [Next /\ NoOverlap']_vars => LockedInv'
<1> SUFFICES ASSUME LockedInv, [Next /\ NoOverlap']_vars PROVE LockedInv'
  OBVIOUS
<1>1. Inv' /\ TypeOK'
  <2>1. Inv /\ [Next]_vars
    BY DEF LockedInv
  <2> QED BY <2>1, NextInv DEF Inv
<1>2. CASE UNCHANGED vars
  BY <1>1, <1>2
     DEF vars, LockedInv, NoOverlap, RowsConsistent, Holds, Pending, HeldSessions, Stored
<1>3. CASE Crash /\ NoOverlap'
  BY <1>1, <1>3 DEF Crash, LockedInv, RowsConsistent, Holds, Stored, Idle
<1>4. ASSUME NEW w \in Workers, Receive(w) \/ DatabaseStep(w) \/ Return(w), NoOverlap'
      PROVE  LockedInv'
  <2>1. RowStep(w) /\ ReqStep(w)
    BY <1>4, ReceiveStep, WorkerRows
  <2>2. \A v \in Workers : Holds(req[v])'
    BY <2>1, StepHolds
  <2>3. RowsConsistent'
    <3>1. \A s \in SessionIds : sessions'[s] # None => Story(sessions'[s])
      BY <2>1, StepRows
    <3>2. DOMAIN sessions' = SessionIds
      BY <1>1 DEF TypeOK
    <3> QED BY <3>1, <3>2 DEF RowsConsistent, Stored, Story
  <2> QED BY <1>1, <1>4, <2>2, <2>3 DEF LockedInv
<1> QED BY <1>2, <1>3, <1>4 DEF Next

\* As long as requests do not overlap, the status of a session agrees with the
\* timestamps its handlers set and clear (ingest.py:154-195, 240-266, 271-292).
THEOREM RowsTellOneStory == LockedSpec => []RowsConsistent
<1>1. LockedInv => RowsConsistent
  BY DEF LockedInv
<1> QED BY <1>1, InitLocked, NextLocked, PTL DEF LockedSpec

---------------------------------------------------------------------------
(* The refinement                                                          *)

LEMMA SamePhase ==
  ASSUME NEW s \in SessionIds, Same(s) PROVE Phase'[s] = Phase[s]
BY DEF Same, SameStory, Phase, Stored

LEMMA CommittedPhase ==
  ASSUME LockedInv, NEW w \in Workers, NEW s \in SessionIds, Committed(w, s)
  PROVE  /\ Phase[s] \in {"created", "live", "ended", "revoked"}
         /\ Phase'[s] \in {"created", "live", "ended", "revoked"}
         /\ Phase[s] = "revoked" => Phase'[s] = "revoked"
<1>1. /\ s \in Stored(sessions) /\ sessions[s] # None /\ sessions'[s] # None
      /\ sessions[s] \in SessionRow /\ s # None
  BY StoredRow, SentinelAssumption DEF Committed, HeldSessions, Stored, LockedInv
<1> DEFINE a == sessions[s].status
<1>2. Phase[s] = a /\ Phase'[s] = sessions'[s].status /\ a \in Statuses
  BY <1>1 DEF Phase, SessionRow
<1>3. CASE /\ s = req[w].session
           /\ SameStory(sessions'[s], FlushSession(sessions[s], req[w].change))
  <2>1. req[w].change.status \in Statuses \cup {Keep}
    BY DEF LockedInv, Inv, TypeOK, Request, SessionChange
  <2>2. a = "revoked" => req[w].change.status \in {Keep, "revoked"}
    BY <1>1, <1>3 DEF LockedInv, Holds, Fits, Committed, Pending
  <2>3. sessions'[s].status = Written(req[w].change.status, a)
    BY <1>3 DEF SameStory, FlushSession
  <2> QED BY <1>2, <2>1, <2>2, <2>3 DEF Written, Statuses
<1>4. CASE SameStory(sessions'[s], FlushSession(sessions[s], StopChange(sessions[s])))
  <2>1. StopChange(sessions[s]).status =
          IF a = "revoked" THEN Keep ELSE Assign(a, "ended")
    BY DEF StopChange, NoSessionChange
  <2>2. sessions'[s].status = Written(StopChange(sessions[s]).status, a)
    BY <1>4 DEF SameStory, FlushSession
  <2> QED BY <1>2, <2>1, <2>2 DEF Written, Assign, Statuses
<1> QED BY <1>3, <1>4 DEF Committed

\* One session moves, along the lifecycle, or none does.
LEMMA LifecycleMove ==
  ASSUME LockedInv, NEW w \in Workers, RowStep(w)
  PROVE  [Lifecycle!Next]_Phase
<1>1. CASE \A s \in SessionIds : Same(s)
  <2>1. Phase' = Phase
    BY <1>1, SamePhase DEF Phase
  <2> QED BY <2>1
<1>2. ASSUME NEW s \in SessionIds, Inserted(s) \/ Committed(w, s),
             \A u \in SessionIds \ {s} : Same(u)
      PROVE  [Lifecycle!Next]_Phase
  <2> DEFINE to == Phase'[s]
  <2>1. Phase' = [Phase EXCEPT ![s] = to]
    BY <1>2, SamePhase DEF Phase
  <2>2. CASE Inserted(s)
    <3>1. Phase[s] = "none" /\ to = "created"
      BY <2>2 DEF Phase, Inserted
    <3> QED BY <2>1, <3>1 DEF Lifecycle!Next, Lifecycle!Register, Lifecycle!Moves
  <2>3. CASE Committed(w, s)
    <3>1. /\ Phase[s] \in {"created", "live", "ended", "revoked"}
          /\ to \in {"created", "live", "ended", "revoked"}
          /\ Phase[s] = "revoked" => to = "revoked"
      BY <2>3, CommittedPhase
    <3>2. CASE Phase[s] = "revoked"
      BY <2>1, <3>1, <3>2 DEF Phase
    <3>3. CASE Phase[s] \in Lifecycle!Open
      BY <2>1, <3>1, <3>3
         DEF Lifecycle!Next, Lifecycle!Publish, Lifecycle!Unpublish, Lifecycle!Rotate,
             Lifecycle!Revoke, Lifecycle!Moves
    <3> QED BY <3>1, <3>2, <3>3 DEF Lifecycle!Open
  <2> QED BY <1>2, <2>2, <2>3
<1> QED BY <1>1, <1>2 DEF RowStep

LEMMA LifecycleStep == LockedInv /\ [Next /\ NoOverlap']_vars => [Lifecycle!Next]_Phase
<1> SUFFICES ASSUME LockedInv, [Next /\ NoOverlap']_vars PROVE [Lifecycle!Next]_Phase
  OBVIOUS
<1>1. CASE UNCHANGED vars \/ Crash
  BY <1>1 DEF vars, Crash, Phase
<1>2. ASSUME NEW w \in Workers, Receive(w) \/ DatabaseStep(w) \/ Return(w)
      PROVE  [Lifecycle!Next]_Phase
  BY <1>2, ReceiveStep, WorkerRows, LifecycleMove
<1> QED BY <1>1, <1>2 DEF Next

\* Requests that do not overlap take a session through its lifecycle only
\* (README.md:17, models.py:97-111): the control plane implements SessionLifecycle.
THEOREM ControlPlaneImplementsLifecycle == LockedSpec => LifecycleSpec
<1>1. Init => Lifecycle!Init
  BY DEF Init, Lifecycle!Init, Phase
<1> QED BY <1>1, InitLocked, NextLocked, LifecycleStep, PTL
        DEF LockedSpec, LifecycleSpec, Lifecycle!Spec

---------------------------------------------------------------------------
(* Streams that are off                                                    *)

\* Only an administrator's request changes a visibility, and a stop writes nothing
\* of the stream.
HoldsStream(r) ==
  r.stream # None /\ r.op # "update_stream" =>
    /\ r.streamChange.visibility = Keep
    /\ r.op = "start" \/ r.streamChange.active = Keep

OffInv == Inv /\ \A w \in Workers : HoldsStream(req[w])

StreamStep(w) ==
  \A t \in StreamIds :
    \/ streams'[t] = streams[t]
    \/ streams[t] = None
    \/ /\ t = req[w].stream /\ req'[w] # req[w]
       /\ Pending(w) \/ req[w].op \notin {"start", "update_stream"}
       /\ streams'[t] = FlushStream(streams[t], req[w].streamChange)

\* What w holds after its step; it is about to switch on a stream that is off only
\* when an administrator asks for it.
HoldStep(w) ==
  /\ \A v \in Workers \ {w} : req'[v] = req[v]
  /\ HoldsStream(req'[w])
  /\ \/ req'[w] = req[w]
     \/ req'[w].stream = None
     \/ req'[w].streamChange.active = Keep
     \/ ~Pending(w)'
     \/ req'[w].op = "update_stream"
     \/ ~Off(req'[w].stream)

LEMMA NoStreamStep == ASSUME NEW w, UNCHANGED streams PROVE StreamStep(w)
BY DEF StreamStep

\* A request that holds nothing for its stream after its step.
LEMMA EmptyHold ==
  ASSUME Inv, NEW w \in Workers, NEW r, req' = [req EXCEPT ![w] = r],
         r.stream = None \/ r.streamChange = NoStreamChange
  PROVE  HoldStep(w)
<1>1. req'[w] = r /\ \A v \in Workers \ {w} : req'[v] = req[v]
  BY DEF Inv, TypeOK
<1> QED BY <1>1 DEF HoldStep, HoldsStream, NoStreamChange

LEMMA IdleIsEmpty ==
  Idle.stream = None /\ Idle.streamChange = NoStreamChange /\ Idle.stage = "idle"
BY DEF Idle

LEMMA WritesStreamStep ==
  ASSUME OffInv, NEW w \in Workers, NEW t \in StreamIds, WritesStream(req[w], t),
         Pending(w) \/ req[w].op = "stop", req'[w] # req[w]
  PROVE  StreamStep(w)
<1>1. streams \in [StreamIds -> StreamRow \cup {None}]
  BY DEF OffInv, Inv, TypeOK
<1>2. CASE req[w].stream = None
  <2>1. t \in NextId(streams) /\ \A u \in StreamIds \ {t} : streams'[u] = streams[u]
    BY <1>1, <1>2 DEF WritesStream
  <2> QED BY <2>1 DEF StreamStep, NextId
<1>3. CASE req[w].stream # None
  <2>1. t = req[w].stream
    BY <1>3 DEF WritesStream
  <2>2. streams' = [streams EXCEPT ![t] = FlushStream(streams[t], req[w].streamChange)]
    BY <1>3, <2>1 DEF WritesStream
  <2> QED BY <1>1, <2>1, <2>2 DEF StreamStep
<1> QED BY <1>2, <1>3

\* A publish that loads a stream that is off asks to leave it off.
LEMMA StartLeavesOff ==
  ASSUME NEW row \in StreamRow, NEW s
  PROVE  /\ StartStreamChange(row, s).visibility = Keep
         /\ row.visibility = "disabled" /\ row.active = "no" =>
              StartStreamChange(row, s).active = Keep
BY DEF StartStreamChange, NoStreamChange, Assign

LEMMA ReceiveOff ==
  ASSUME OffInv, NEW w \in Workers, Receive(w)
  PROVE  StreamStep(w) /\ HoldStep(w)
<1> USE IdleIsEmpty
<1>0. Inv /\ req \in [Workers -> Request] /\ HoldsStream(req[w])
  BY DEF OffInv, Inv, TypeOK
<1>1. ASSUME NEW k \in Keys, LookupForPublish(w, k) PROVE StreamStep(w) /\ HoldStep(w)
  <2> DEFINE r == [Idle EXCEPT !.op = "start", !.key = k,
                               !.stage = IF WithKey(k) = {} THEN "register" ELSE "mark"]
  <2>1. r.stream = None
    BY DEF Idle
  <2>2. req' = [req EXCEPT ![w] = r] /\ UNCHANGED streams
    BY <1>1 DEF LookupForPublish
  <2> HIDE DEF r
  <2> QED BY <1>0, <2>1, <2>2, EmptyHold, NoStreamStep
<1>2. ASSUME NEW k \in Keys, LoadForStop(w, k) PROVE StreamStep(w) /\ HoldStep(w)
  <2> DEFINE loaded == [Idle EXCEPT !.stage = "commit", !.op = "stop", !.key = k]
  <2>1. UNCHANGED streams
    BY <1>2 DEF LoadForStop
  <2>2. req'[w].streamChange = NoStreamChange /\ \A v \in Workers \ {w} : req'[v] = req[v]
    BY <1>0, <1>2 DEF LoadForStop, Idle
  <2>3. HoldsStream(req'[w]) /\ req'[w].streamChange.active = Keep
    BY <2>2 DEF HoldsStream, NoStreamChange
  <2> QED BY <2>1, <2>2, <2>3, NoStreamStep DEF HoldStep
<1>3. ASSUME NEW k \in Keys, NEW t \in StreamIds \cup {None}, CreateSession(w, k, t)
      PROVE  StreamStep(w) /\ HoldStep(w)
  BY <1>0, <1>3, NoStreamStep DEF CreateSession, HoldStep
<1>4. CASE LoadForRotate(w) \/ LoadForRevoke(w) \/ LoadForBind(w)
  <2>1. PICK op, s, c : LoadSession(w, op, s, c)
    BY <1>4 DEF LoadForRotate, LoadForRevoke, LoadForBind
  <2> DEFINE r == [Idle EXCEPT !.stage = "commit", !.op = op, !.session = s, !.change = c]
  <2>2. r.stream = None
    BY DEF Idle
  <2>3. req' = [req EXCEPT ![w] = r] /\ UNCHANGED streams
    BY <2>1 DEF LoadSession
  <2> HIDE DEF r
  <2> QED BY <1>0, <2>2, <2>3, EmptyHold, NoStreamStep
<1>5. ASSUME NEW p \in PathNames, NEW v \in Visibilities, NEW s \in SessionIds \cup {None},
             CreateStream(w, p, v, s)
      PROVE  StreamStep(w) /\ HoldStep(w)
  <2>1. PICK t \in NextId(streams) : streams' = [streams EXCEPT ![t] = NewStream(p, v, s)]
    BY <1>5 DEF CreateStream
  <2>2. StreamStep(w)
    BY <1>0, <2>1 DEF StreamStep, NextId, Inv, TypeOK
  <2> QED BY <1>0, <1>5, <2>2 DEF CreateStream, HoldStep
<1>6. ASSUME NEW t \in StreamIds, NEW patch \in Patches, LoadForUpdate(w, t, patch)
      PROVE  StreamStep(w) /\ HoldStep(w)
  <2> DEFINE sc == PatchChange(streams[t], patch)
             r == [Idle EXCEPT !.stage = "commit", !.op = "update_stream", !.stream = t,
                               !.streamChange = sc]
  <2>1. r.op = "update_stream"
    BY DEF Idle
  <2>2. req' = [req EXCEPT ![w] = r] /\ UNCHANGED streams
    BY <1>6 DEF LoadForUpdate, sc
  <2> HIDE DEF r
  <2> QED BY <1>0, <2>1, <2>2, NoStreamStep DEF HoldStep, HoldsStream
<1> QED BY <1>1, <1>2, <1>3, <1>4, <1>5, <1>6 DEF Receive

LEMMA WorkerOff ==
  ASSUME OffInv, NEW w \in Workers, DatabaseStep(w) \/ Return(w)
  PROVE  StreamStep(w) /\ HoldStep(w)
<1> USE IdleIsEmpty
<1>0. /\ Inv /\ req \in [Workers -> Request] /\ req[w] \in Request
      /\ HoldsStream(req[w]) /\ RequestShape(req[w])
  BY DEF OffInv, Inv, TypeOK
<1>1. CASE AutoRegister(w)
  <2>1. /\ req'[w].stream = req[w].stream /\ req'[w].streamChange = req[w].streamChange
        /\ req'[w].op = req[w].op /\ req'[w].stage = "mark"
        /\ \A v \in Workers \ {w} : req'[v] = req[v]
    BY <1>0, <1>1 DEF AutoRegister, Request
  <2> QED BY <1>0, <1>1, <2>1, NoStreamStep DEF AutoRegister, HoldStep, HoldsStream, Pending
<1>2. CASE StopUnknown(w)
  <2>1. /\ req'[w].stream = req[w].stream /\ req'[w].streamChange = req[w].streamChange
        /\ req'[w].op = req[w].op /\ req'[w].stage = "media"
        /\ \A v \in Workers \ {w} : req'[v] = req[v]
    BY <1>0, <1>2 DEF StopUnknown, ResolveOnly, Request
  <2> QED BY <1>0, <1>2, <2>1, NoStreamStep DEF StopUnknown, HoldStep, HoldsStream, Pending
<1>3. CASE DenyStart(w) \/ DatabaseError(w) \/ Finish(w) \/ CommitSession(w)
  BY <1>0, <1>3, EmptyHold, NoStreamStep DEF DenyStart, DatabaseError, Finish, CommitSession
<1>4. CASE CommitUpdate(w)
  <2>1. HoldStep(w)
    BY <1>0, <1>4, EmptyHold DEF CommitUpdate
  <2>2. req'[w] # req[w]
    BY <1>0, <1>4 DEF CommitUpdate
  <2>3. StreamStep(w)
    BY <1>0, <1>4, <2>2 DEF CommitUpdate, StreamStep, Pending, Inv, TypeOK
  <2> QED BY <2>1, <2>3
<1>5. CASE CommitStart(w)
  <2>1. PICK t \in StreamIds :
          /\ WritesStream(req[w], t)
          /\ req' = [req EXCEPT ![w] = [Idle EXCEPT
                       !.stage = "media", !.op = "start", !.key = req[w].key,
                       !.path = streams'[t].path]]
    BY <1>5 DEF CommitStart
  <2>2. /\ req'[w].stage = "media" /\ req'[w].stream = None
        /\ \A v \in Workers \ {w} : req'[v] = req[v]
    BY <1>0, <2>1 DEF Idle
  <2>3. StreamStep(w)
    BY <1>5, <2>1, <2>2, WritesStreamStep DEF CommitStart, Pending
  <2>4. HoldStep(w)
    BY <2>2 DEF HoldStep, HoldsStream
  <2> QED BY <2>3, <2>4
<1>6. CASE CommitStop(w)
  <2>1. /\ req'[w].stage = "media" /\ req'[w].stream = None
        /\ \A v \in Workers \ {w} : req'[v] = req[v]
    BY <1>0, <1>6 DEF CommitStop, Idle
  <2>2. (\E t \in StreamIds : WritesStream(req[w], t)) \/ UNCHANGED streams
    BY <1>6 DEF CommitStop
  <2>3. StreamStep(w)
    BY <1>6, <2>1, <2>2, WritesStreamStep, NoStreamStep DEF CommitStop
  <2>4. HoldStep(w)
    BY <2>1 DEF HoldStep, HoldsStream
  <2> QED BY <2>3, <2>4
<1>7. CASE FinishIgnoredStop(w)
  <2>1. req'[w] # req[w]
    BY <1>0, <1>7 DEF FinishIgnoredStop
  <2>2. StreamStep(w)
    BY <1>7, <2>1, WritesStreamStep DEF FinishIgnoredStop
  <2>3. HoldStep(w)
    BY <1>0, <1>7, EmptyHold DEF FinishIgnoredStop
  <2> QED BY <2>2, <2>3
<1>8. CASE LoadForStart(w)
  <2>1. PICK s \in WithKey(req[w].key) : \E t \in Resolved(s) :
          req' = [req EXCEPT ![w] = [req[w] EXCEPT
                    !.stage = "commit", !.session = s, !.stream = t,
                    !.change = StartChange(sessions[s], t),
                    !.streamChange = IF t = None THEN NoStreamChange
                                     ELSE StartStreamChange(streams[t], s)]]
    BY <1>8 DEF LoadForStart
  <2>2. PICK t \in Resolved(s) :
          req' = [req EXCEPT ![w] = [req[w] EXCEPT
                    !.stage = "commit", !.session = s, !.stream = t,
                    !.change = StartChange(sessions[s], t),
                    !.streamChange = IF t = None THEN NoStreamChange
                                     ELSE StartStreamChange(streams[t], s)]]
    BY <2>1
  <2>3. /\ req'[w].op = "start" /\ req'[w].stream = t
        /\ t # None => req'[w].streamChange = StartStreamChange(streams[t], s)
        /\ \A v \in Workers \ {w} : req'[v] = req[v]
    BY <1>0, <1>8, <2>2 DEF Request, LoadForStart, RequestShape
  <2>4. t # None => streams[t] \in StreamRow
    BY StoredType DEF Resolved, OffInv, Inv, ReferencesExist, WithKey
  <2>5. t # None =>
          /\ req'[w].streamChange.visibility = Keep
          /\ req'[w].streamChange.active = Keep \/ ~Off(t)
    BY <2>3, <2>4, StartLeavesOff DEF Off
  <2> QED BY <1>8, <2>3, <2>5, NoStreamStep DEF LoadForStart, HoldStep, HoldsStream
<1> QED
  BY <1>1, <1>2, <1>3, <1>4, <1>5, <1>6, <1>7, <1>8 DEF DatabaseStep, Return

\* A step of w leaves a stream off unless w works for an administrator who asks for it.
LEMMA StepOff ==
  ASSUME OffInv, NEW w \in Workers, StreamStep(w), HoldStep(w),
         NEW t \in StreamIds, Off(t), ~Off(t)'
  PROVE  req'[w] # req[w] /\ (Reopens(w, t) \/ Reopens(w, t)')
<1>1. /\ streams[t] \in StreamRow /\ streams[t] # None /\ t # None
      /\ streams[t].visibility = "disabled" /\ streams[t].active = "no"
      /\ req[w] \in Request /\ HoldsStream(req[w])
  BY SentinelAssumption DEF Off, OffInv, Inv, TypeOK
<1>2. CASE ~Reopens(w, t) /\ (streams'[t] = streams[t] \/ t = req[w].stream)
  <2>1. \/ streams'[t] = streams[t]
        \/ /\ t = req[w].stream
           /\ Pending(w) \/ req[w].op \notin {"start", "update_stream"}
           /\ streams'[t] = FlushStream(streams[t], req[w].streamChange)
    BY <1>1 DEF StreamStep
  <2>2. /\ streams'[t].visibility = "disabled" /\ streams'[t].active = "no"
        /\ streams'[t] # None
    <3>1. CASE streams'[t] = streams[t]
      BY <1>1, <3>1
    <3>2. CASE streams'[t] # streams[t]
      <4>1. /\ t = req[w].stream /\ streams'[t] = FlushStream(streams[t], req[w].streamChange)
            /\ Pending(w) \/ req[w].op \notin {"start", "update_stream"}
        BY <1>1, <3>2 DEF StreamStep
      <4>2. req[w].streamChange \in StreamChange
        BY <1>1 DEF Request
      <4>3. req[w].streamChange.active \in {Keep, "no"}
        <5>1. req[w].streamChange.active # "yes"
          BY <1>1, <4>1, SentinelAssumption DEF Off, HoldsStream, Flags
        <5> QED BY <4>2, <5>1 DEF StreamChange, Flags
      <4>4. req[w].streamChange.visibility \in {Keep, "disabled"}
        <5>1. CASE req[w].op = "update_stream"
          BY <1>2, <4>1, <4>2, <5>1 DEF Reopens, StreamChange, Visibilities
        <5>2. CASE req[w].op # "update_stream"
          BY <1>1, <4>1, <5>2 DEF HoldsStream
        <5> QED BY <5>1, <5>2
      <4>5. FlushStream(streams[t], req[w].streamChange) \in StreamRow
        BY <1>1, <4>2, FlushStreamType
      <4> QED BY <1>1, <4>1, <4>3, <4>4, <4>5, SentinelAssumption DEF FlushStream, Written
    <3> QED BY <3>1, <3>2
  <2>3. PICK v \in Workers :
          Pending(v)' /\ req'[v].stream = t /\ req'[v].streamChange.active = "yes"
    BY <2>2 DEF Off
  <2>4. ~(Pending(v) /\ req[v].stream = t /\ req[v].streamChange.active = "yes")
    BY DEF Off
  <2>5. v = w /\ req'[w] # req[w]
    BY <2>3, <2>4 DEF HoldStep, Pending
  <2>6. req'[w].op = "update_stream"
    BY <1>1, <2>3, <2>5, SentinelAssumption DEF HoldStep, Flags
  <2> QED BY <2>3, <2>5, <2>6 DEF Reopens
<1>3. CASE Reopens(w, t)
  <2>1. CASE req'[w] # req[w]
    BY <1>3, <2>1
  <2>2. CASE req'[w] = req[w]
    <3>1. streams'[t] = streams[t]
      BY <1>1, <2>2 DEF StreamStep
    <3>2. \A v \in Workers : req'[v] = req[v]
      BY <2>2 DEF HoldStep
    <3> QED BY <3>1, <3>2 DEF Off, Pending
  <2> QED BY <2>1, <2>2
<1>4. streams'[t] = streams[t] \/ t = req[w].stream
  BY <1>1 DEF StreamStep
<1> QED BY <1>2, <1>3, <1>4

LEMMA NextOff ==
  ASSUME OffInv, [Next]_vars
  PROVE  /\ OffInv'
         /\ \/ UNCHANGED vars
            \/ \A t \in StreamIds : Off(t) => Off(t)'
            \/ \E w \in Workers : StreamStep(w) /\ HoldStep(w)
<1>1. Inv'
  BY NextInv DEF OffInv
<1>2. CASE UNCHANGED vars
  BY <1>1, <1>2 DEF vars, OffInv
<1>3. CASE Crash
  <2>1. streams' = streams /\ \A w \in Workers : req'[w] = Idle
    BY <1>3 DEF Crash
  <2>2. \A w \in Workers : HoldsStream(req[w])'
    BY <2>1, IdleIsEmpty DEF HoldsStream
  <2>3. \A t \in StreamIds : Off(t) => Off(t)'
    BY <2>1, IdleIsEmpty DEF Off, Pending
  <2> QED BY <1>1, <2>2, <2>3 DEF OffInv
<1>4. ASSUME NEW w \in Workers, Receive(w) \/ DatabaseStep(w) \/ Return(w)
      PROVE  OffInv' /\ StreamStep(w) /\ HoldStep(w)
  <2>1. StreamStep(w) /\ HoldStep(w)
    BY <1>4, ReceiveOff, WorkerOff
  <2>2. \A v \in Workers : HoldsStream(req[v])'
    BY <2>1 DEF HoldStep, OffInv, HoldsStream
  <2> QED BY <1>1, <2>1, <2>2 DEF OffInv
<1> QED BY <1>2, <1>3, <1>4 DEF Next

\* Whatever requests overlap and whatever administrators ask for, a stream that is
\* off stays off until one of them asks for it (ingest.py:250, streams.py:153-160).
THEOREM OffStaysOff == Spec => OffUntilReopened
<1>1. Init => OffInv
  <2>1. Init => \A w \in Workers : HoldsStream(req[w])
    BY IdleIsEmpty DEF Init, HoldsStream
  <2> QED BY <2>1, InitInv DEF OffInv
<1>2. OffInv /\ [Next]_vars => OffInv'
  BY NextOff
<1>3. OffInv /\ [Next]_vars =>
        [\A t \in StreamIds : Off(t) /\ ~Off(t)' =>
           \E w \in Workers : req'[w] # req[w] /\ (Reopens(w, t) \/ Reopens(w, t)')]_vars
  <2> SUFFICES ASSUME OffInv, [Next]_vars, ~UNCHANGED vars,
                      NEW t \in StreamIds, Off(t), ~Off(t)'
               PROVE  \E w \in Workers :
                        req'[w] # req[w] /\ (Reopens(w, t) \/ Reopens(w, t)')
    OBVIOUS
  <2> QED BY NextOff, StepOff
<1> QED BY <1>1, <1>2, <1>3, PTL DEF Spec, OffUntilReopened
============================================================================
