---------------------------- MODULE IngestProofs ----------------------------
(***************************************************************************)
(* Theorems about IngestControl, for requests that interleave in any way   *)
(* and every value of the constants: types, references, and revocations.   *)
(***************************************************************************)
EXTENDS IngestControl, TLAPS

(* Types of the operators the actions are built from.                      *)

LEMMA FlushSessionType ==
  ASSUME NEW row \in SessionRow, NEW c \in SessionChange
  PROVE  FlushSession(row, c) \in SessionRow
BY DEF SessionRow, SessionChange, FlushSession, Written

LEMMA FlushStreamType ==
  ASSUME NEW row \in StreamRow, NEW c \in StreamChange
  PROVE  FlushStream(row, c) \in StreamRow
BY DEF StreamRow, StreamChange, FlushStream, Written

LEMMA NewRowType ==
  /\ \A k \in Keys, t \in StreamIds \cup {None} : NewSession(k, t) \in SessionRow
  /\ \A p \in Paths, v \in Visibilities, s \in SessionIds \cup {None} :
       NewStream(p, v, s) \in StreamRow
BY DEF NewSession, NewStream, SessionRow, StreamRow, Statuses, Stamps, Flags

LEMMA SessionChangeType ==
  ASSUME NEW row \in SessionRow, NEW t \in StreamIds \cup {None}, NEW k \in Keys
  PROVE  /\ StartChange(row, t) \in SessionChange
         /\ StopChange(row) \in SessionChange
         /\ RotateChange(row, k) \in SessionChange
         /\ RevokeChange(row) \in SessionChange
         /\ [NoSessionChange EXCEPT !.stream = Assign(row.stream, t)] \in SessionChange
         /\ NoSessionChange \in SessionChange
<1> USE DEF SessionRow, SessionChange, NoSessionChange, Assign, Statuses, Stamps
<1>1. StartChange(row, t) \in SessionChange BY DEF StartChange
<1>2. StopChange(row) \in SessionChange BY DEF StopChange
<1>3. RotateChange(row, k) \in SessionChange BY DEF RotateChange
<1>4. RevokeChange(row) \in SessionChange BY DEF RevokeChange
<1>5. [NoSessionChange EXCEPT !.stream = Assign(row.stream, t)] \in SessionChange
  OBVIOUS
<1>6. NoSessionChange \in SessionChange OBVIOUS
<1> QED BY <1>1, <1>2, <1>3, <1>4, <1>5, <1>6

LEMMA StreamChangeType ==
  ASSUME NEW row \in StreamRow, NEW s \in SessionIds, NEW patch \in StreamChange
  PROVE  /\ StartStreamChange(row, s) \in StreamChange
         /\ PatchChange(row, patch) \in StreamChange
         /\ NoStreamChange \in StreamChange
<1> USE DEF StreamRow, StreamChange, NoStreamChange, Assign, Visibilities, Flags
<1>1. StartStreamChange(row, s) \in StreamChange BY DEF StartStreamChange
<1>2. PatchChange(row, patch) \in StreamChange BY DEF PatchChange
<1>3. NoStreamChange \in StreamChange OBVIOUS
<1> QED BY <1>1, <1>2, <1>3

LEMMA StoredType ==
  ASSUME TypeOK
  PROVE  /\ \A s \in Stored(sessions) : s \in SessionIds /\ sessions[s] \in SessionRow
         /\ \A t \in Stored(streams) : t \in StreamIds /\ streams[t] \in StreamRow
         /\ NextId(sessions) \subseteq SessionIds
         /\ NextId(streams) \subseteq StreamIds
         /\ \A k : WithKey(k) \subseteq Stored(sessions)
         /\ \A p : WithPath(p) \subseteq Stored(streams)
         /\ \A s : WithSource(s) \subseteq Stored(streams)
BY DEF TypeOK, Stored, NextId, WithKey, WithPath, WithSource

LEMMA IdleType == Idle \in Request
<1>1. NoSessionChange \in SessionChange
  BY DEF NoSessionChange, SessionChange
<1>2. NoStreamChange \in StreamChange
  BY DEF NoStreamChange, StreamChange
<1> QED BY <1>1, <1>2 DEF Idle, Request, Stages

---------------------------------------------------------------------------
(* Type correctness                                                        *)

LEMMA WritesStreamType ==
  ASSUME TypeOK, NEW r \in Request, NEW t \in StreamIds, WritesStream(r, t),
         r.stream = None => r.session \in SessionIds,
         r.stream # None => streams[r.stream] \in StreamRow
  PROVE  /\ streams' \in [StreamIds -> StreamRow \cup {None}]
         /\ streams'[t] \in StreamRow
<1>1. CASE r.stream # None
  <2>1. FlushStream(streams[t], r.streamChange) \in StreamRow
    BY <1>1, FlushStreamType DEF WritesStream, Request
  <2> QED BY <1>1, <2>1 DEF WritesStream, TypeOK
<1>2. CASE r.stream = None
  <2>1. NewStream(AutoPath[r.session], "private", r.session) \in StreamRow
    BY <1>2, NewRowType DEF Paths, Visibilities
  <2> QED BY <1>2, <2>1 DEF WritesStream, TypeOK
<1> QED BY <1>1, <1>2

---------------------------------------------------------------------------
(* The inductive invariant: types, the shape of requests, and references.  *)

Inv == TypeOK /\ ReferencesExist

\* A step that only moves one request on.
LEMMA RequestStep ==
  ASSUME Inv, NEW w \in Workers, NEW r \in Request, RequestShape(r),
         RequestReferences(r),
         req' = [req EXCEPT ![w] = r], UNCHANGED <<sessions, streams>>
  PROVE  Inv'
<1>1. \A v \in Workers : req'[v] = req[v] \/ req'[v] = r
  BY DEF Inv, TypeOK
<1>2. TypeOK'
  BY <1>1 DEF Inv, TypeOK, RequestShape
<1>3. Stored(sessions)' = Stored(sessions) /\ Stored(streams)' = Stored(streams)
  BY DEF Stored
<1>4. ReferencesExist'
  BY <1>1, <1>3 DEF Inv, ReferencesExist, RequestReferences
<1> QED BY <1>2, <1>4 DEF Inv

\* A step that writes rows, keeps the stored ones stored, leaves no dangling
\* reference in either table, and moves at most one request on.
LEMMA TableStep ==
  ASSUME Inv,
         sessions' \in [SessionIds -> SessionRow \cup {None}],
         streams' \in [StreamIds -> StreamRow \cup {None}],
         Stored(sessions) \subseteq Stored(sessions)',
         Stored(streams) \subseteq Stored(streams)',
         \A s \in Stored(sessions)' : sessions'[s].stream \in Stored(streams)' \cup {None},
         \A t \in Stored(streams)' : streams'[t].source \in Stored(sessions)' \cup {None},
         req' \in [Workers -> Request],
         NEW r, RequestShape(r), RequestReferences(r),
         \A v \in Workers : req'[v] = req[v] \/ req'[v] = r
  PROVE  Inv'
<1>1. TypeOK'
  BY DEF Inv, TypeOK, RequestShape
<1>2. \A v \in Workers : RequestReferences(req[v])
  BY DEF Inv, ReferencesExist
<1>3. ReferencesExist'
  BY <1>2 DEF ReferencesExist, RequestReferences
<1> QED BY <1>1, <1>3 DEF Inv

LEMMA IdleIsFine == RequestShape(Idle) /\ RequestReferences(Idle)
BY SentinelAssumption
   DEF Idle, RequestShape, RequestReferences, NoSessionChange, NoStreamChange, Ops

LEMMA WritesStreamFacts ==
  ASSUME Inv, NEW r \in Request, NEW t \in StreamIds, WritesStream(r, t),
         RequestReferences(r), r.stream = None => r.session # None
  PROVE  /\ streams' \in [StreamIds -> StreamRow \cup {None}]
         /\ streams'[t] \in StreamRow
         /\ Stored(streams)' = Stored(streams) \cup {t}
         /\ \A u \in Stored(streams)' : streams'[u].source \in Stored(sessions) \cup {None}
         /\ t \in Stored(streams) => r.stream = t
<1> USE SentinelAssumption
<1>0. TypeOK /\ ReferencesExist
  BY DEF Inv
<1>1. CASE r.stream # None
  <2>1. r.stream \in Stored(streams) /\ t = r.stream
    BY <1>1 DEF WritesStream, RequestReferences
  <2>2. streams[t] \in StreamRow
    BY <1>0, <2>1, StoredType
  <2>3. /\ streams' = [streams EXCEPT ![t] = FlushStream(streams[t], r.streamChange)]
        /\ FlushStream(streams[t], r.streamChange) \in StreamRow
    BY <1>1, <2>1, <2>2, FlushStreamType DEF WritesStream, Request
  <2>4. FlushStream(streams[t], r.streamChange).source \in Stored(sessions) \cup {None}
    BY <1>0, <2>1 DEF FlushStream, Written, ReferencesExist, RequestReferences
  <2> QED BY <1>0, <2>1, <2>3, <2>4 DEF TypeOK, Stored, ReferencesExist
<1>2. CASE r.stream = None
  <2> DEFINE new == NewStream(AutoPath[r.session], "private", r.session)
  <2>1. r.session \in Stored(sessions) /\ r.session \in SessionIds
    BY <1>0, <1>2, StoredType DEF RequestReferences
  <2>2. new \in StreamRow /\ new.source = r.session
    BY <2>1, NewRowType DEF Paths, Visibilities, NewStream
  <2>3. t \in NextId(streams) /\ streams' = [streams EXCEPT ![t] = new]
    BY <1>2 DEF WritesStream
  <2>4. streams[t] = None
    BY <2>3 DEF NextId
  <2> HIDE DEF new
  <2> QED BY <1>0, <1>2, <2>1, <2>2, <2>3, <2>4 DEF TypeOK, Stored, ReferencesExist
<1> QED BY <1>1, <1>2

LEMMA FlushFacts ==
  ASSUME Inv, NEW s \in Stored(sessions), NEW c \in SessionChange,
         Stored(streams) \subseteq Stored(streams)',
         c.stream \in Stored(streams)' \cup {None, Keep},
         sessions' = [sessions EXCEPT ![s] = FlushSession(@, c)]
  PROVE  /\ sessions' \in [SessionIds -> SessionRow \cup {None}]
         /\ Stored(sessions)' = Stored(sessions)
         /\ \A u \in Stored(sessions)' : sessions'[u].stream \in Stored(streams)' \cup {None}
<1> USE SentinelAssumption
<1>0. TypeOK /\ ReferencesExist
  BY DEF Inv
<1>1. s \in SessionIds /\ sessions[s] \in SessionRow
  BY <1>0, StoredType
<1>2. FlushSession(sessions[s], c) \in SessionRow
  BY <1>1, FlushSessionType
<1>3. FlushSession(sessions[s], c).stream \in Stored(streams)' \cup {None}
  BY <1>0 DEF FlushSession, Written, ReferencesExist
<1> QED BY <1>0, <1>1, <1>2, <1>3 DEF TypeOK, Stored, ReferencesExist

LEMMA InsertSessionFacts ==
  ASSUME Inv, NEW s \in NextId(sessions), NEW row \in SessionRow,
         row.stream \in Stored(streams) \cup {None},
         sessions' = [sessions EXCEPT ![s] = row], UNCHANGED streams
  PROVE  /\ sessions' \in [SessionIds -> SessionRow \cup {None}]
         /\ Stored(sessions)' = Stored(sessions) \cup {s}
         /\ s \notin Stored(sessions)
         /\ \A u \in Stored(sessions)' :
              sessions'[u].stream \in Stored(streams)' \cup {None}
BY SentinelAssumption DEF Inv, TypeOK, Stored, NextId, ReferencesExist

LEMMA InsertStreamFacts ==
  ASSUME Inv, NEW t \in NextId(streams), NEW row \in StreamRow,
         row.source \in Stored(sessions) \cup {None},
         streams' = [streams EXCEPT ![t] = row], UNCHANGED sessions
  PROVE  /\ streams' \in [StreamIds -> StreamRow \cup {None}]
         /\ Stored(streams)' = Stored(streams) \cup {t}
         /\ t \notin Stored(streams)
         /\ \A u \in Stored(streams)' :
              streams'[u].source \in Stored(sessions)' \cup {None}
BY SentinelAssumption DEF Inv, TypeOK, Stored, NextId, ReferencesExist

---------------------------------------------------------------------------
(* Every action preserves the inductive invariant.                         *)

LEMMA LookupForPublishInv ==
  ASSUME Inv, NEW w \in Workers, NEW k \in Keys, LookupForPublish(w, k)
  PROVE  Inv'
<1> DEFINE r == [Idle EXCEPT !.op = "start", !.key = k,
                   !.stage = IF WithKey(k) = {} THEN "register" ELSE "mark"]
<1>1. r \in Request
  BY IdleType DEF Request, Stages, Ops
<1>2. RequestShape(r)
  BY DEF RequestShape, Idle
<1>3. RequestReferences(r)
  BY DEF RequestReferences, Idle, NoSessionChange, NoStreamChange
<1>4. req' = [req EXCEPT ![w] = r] /\ UNCHANGED <<sessions, streams>>
  BY DEF LookupForPublish
<1> HIDE DEF r
<1> QED BY <1>1, <1>2, <1>3, <1>4, RequestStep

LEMMA AutoRegisterInv ==
  ASSUME Inv, NEW w \in Workers, AutoRegister(w)
  PROVE  Inv'
<1>0. TypeOK /\ ReferencesExist
  BY DEF Inv
<1> DEFINE r == [req[w] EXCEPT !.stage = "mark"]
<1>1. req[w] \in Request /\ RequestShape(req[w]) /\ RequestReferences(req[w])
  BY <1>0 DEF TypeOK, ReferencesExist
<1>2. r \in Request
  BY <1>1 DEF Request, Stages
<1>3. RequestShape(r)
  BY <1>1 DEF RequestShape, AutoRegister, Request
<1>4. RequestReferences(r)
  BY <1>1 DEF RequestReferences, Request
<1>5. /\ req' \in [Workers -> Request]
      /\ \A v \in Workers : req'[v] = req[v] \/ req'[v] = r
  BY <1>0, <1>2 DEF AutoRegister, TypeOK
<1>6. req[w].key \in Keys
  BY <1>1 DEF AutoRegister, RequestShape
<1>7. PICK s \in NextId(sessions) :
        sessions' = [sessions EXCEPT ![s] = NewSession(req[w].key, None)]
  BY DEF AutoRegister
<1>8. NewSession(req[w].key, None) \in SessionRow /\ NewSession(req[w].key, None).stream = None
  BY <1>6, NewRowType DEF NewSession
<1>9. streams' = streams /\ Stored(streams)' = Stored(streams)
  BY DEF AutoRegister, Stored
<1> HIDE DEF r
<1>10. /\ sessions' \in [SessionIds -> SessionRow \cup {None}]
       /\ Stored(sessions) \subseteq Stored(sessions)'
       /\ \A u \in Stored(sessions)' : sessions'[u].stream \in Stored(streams)' \cup {None}
  BY <1>7, <1>8, <1>9, InsertSessionFacts
<1>11. /\ streams' \in [StreamIds -> StreamRow \cup {None}]
       /\ \A t \in Stored(streams)' : streams'[t].source \in Stored(sessions)' \cup {None}
  BY <1>0, <1>9, <1>10 DEF TypeOK, ReferencesExist
<1> QED BY <1>3, <1>4, <1>5, <1>9, <1>10, <1>11, TableStep

LEMMA LoadForStartInv ==
  ASSUME Inv, NEW w \in Workers, LoadForStart(w)
  PROVE  Inv'
<1>0. TypeOK /\ ReferencesExist
  BY DEF Inv
<1>1. req[w] \in Request /\ RequestShape(req[w]) /\ RequestReferences(req[w])
  BY <1>0 DEF TypeOK, ReferencesExist
<1>a. PICK s \in WithKey(req[w].key) : \E t \in Resolved(s) :
        req' = [req EXCEPT ![w] = [req[w] EXCEPT
                  !.stage = "commit", !.session = s, !.stream = t,
                  !.change = StartChange(sessions[s], t),
                  !.streamChange = IF t = None THEN NoStreamChange
                                   ELSE StartStreamChange(streams[t], s)]]
  BY DEF LoadForStart
<1>2. PICK t \in Resolved(s) :
        req' = [req EXCEPT ![w] = [req[w] EXCEPT
                  !.stage = "commit", !.session = s, !.stream = t,
                  !.change = StartChange(sessions[s], t),
                  !.streamChange = IF t = None THEN NoStreamChange
                                   ELSE StartStreamChange(streams[t], s)]]
  BY <1>a
<1>3. s \in SessionIds /\ s \in Stored(sessions) /\ sessions[s] \in SessionRow
  BY <1>0, StoredType
<1>4. t \in Stored(streams) \cup {None}
  BY <1>0, <1>3, StoredType DEF Resolved, ReferencesExist
<1> DEFINE sc == IF t = None THEN NoStreamChange ELSE StartStreamChange(streams[t], s)
           c  == StartChange(sessions[s], t)
           r  == [req[w] EXCEPT !.stage = "commit", !.session = s, !.stream = t,
                    !.change = c, !.streamChange = sc]
<1>5. t \in StreamIds \cup {None} /\ (t # None => streams[t] \in StreamRow)
  BY <1>0, <1>4, StoredType
<1>6. c \in SessionChange /\ c.stream \in {Keep, t}
  <2>1. c \in SessionChange
    BY <1>3, <1>5, <1>0, SessionChangeType, StoredType DEF LoadForStart, RequestShape, SessionRow
  <2>2. c.stream \in {Keep, t}
    BY DEF StartChange, Assign, NoSessionChange
  <2> QED BY <2>1, <2>2
<1>7. sc \in StreamChange /\ sc.source \in {Keep, s}
  <2>1. CASE t = None
    BY <2>1 DEF NoStreamChange, StreamChange
  <2>2. CASE t # None
    <3>1. StartStreamChange(streams[t], s) \in StreamChange
      BY <2>2, <1>3, <1>5, StreamChangeType DEF StreamChange, StreamRow
    <3>2. StartStreamChange(streams[t], s).source \in {Keep, s}
      BY DEF StartStreamChange, Assign, NoStreamChange
    <3> QED BY <2>2, <3>1, <3>2
  <2> QED BY <2>1, <2>2
<1> HIDE DEF c, sc
<1>8. r \in Request
  BY <1>1, <1>3, <1>5, <1>6, <1>7 DEF Request, Stages
<1>9. RequestShape(r)
  BY <1>1, <1>3, SentinelAssumption DEF RequestShape, LoadForStart, Request
<1>10. RequestReferences(r)
  BY <1>1, <1>3, <1>4, <1>6, <1>7 DEF RequestReferences, Request
<1>11. req' = [req EXCEPT ![w] = r] /\ UNCHANGED <<sessions, streams>>
  BY <1>2 DEF LoadForStart, c, sc
<1> HIDE DEF r
<1> QED BY <1>8, <1>9, <1>10, <1>11, RequestStep

\* Every way a request ends without writing.
LEMMA GiveUpInv ==
  ASSUME Inv, NEW w \in Workers, req' = [req EXCEPT ![w] = Idle],
         UNCHANGED <<sessions, streams>>
  PROVE  Inv'
BY IdleType, IdleIsFine, RequestStep

LEMMA CrashInv == ASSUME Inv, Crash PROVE Inv'
<1>1. TypeOK'
  BY IdleType, IdleIsFine DEF Inv, TypeOK, Crash, RequestShape
<1>2. ReferencesExist'
  BY IdleIsFine DEF Inv, ReferencesExist, RequestReferences, Crash, Stored
<1> QED BY <1>1, <1>2 DEF Inv

\* A commit: the stream is written, one session is flushed, the request moves on.
LEMMA CommitInv ==
  ASSUME Inv, NEW w \in Workers, NEW r \in Request, RequestShape(r), NEW t \in StreamIds,
         NEW q \in Request, RequestReferences(q), q.session \in Stored(sessions),
         WritesStream(q, t),
         sessions' = [sessions EXCEPT ![q.session] = FlushSession(@, Binding(q, t))],
         r.session = None, r.stream = None,
         r.change = NoSessionChange, r.streamChange = NoStreamChange,
         req' = [req EXCEPT ![w] = r]
  PROVE  Inv'
<1>0. TypeOK
  BY DEF Inv
<1>1. q.session # None
  BY <1>0, StoredType, SentinelAssumption
<1>2. /\ streams' \in [StreamIds -> StreamRow \cup {None}]
      /\ Stored(streams)' = Stored(streams) \cup {t}
      /\ \A u \in Stored(streams)' : streams'[u].source \in Stored(sessions) \cup {None}
  BY <1>1, WritesStreamFacts
<1>3. Binding(q, t) \in SessionChange
  BY DEF Binding, Request, SessionChange
<1>4. Binding(q, t).stream \in Stored(streams)' \cup {None, Keep}
  BY <1>2 DEF Binding, Request, SessionChange, RequestReferences
<1>5. /\ sessions' \in [SessionIds -> SessionRow \cup {None}]
      /\ Stored(sessions)' = Stored(sessions)
      /\ \A u \in Stored(sessions)' : sessions'[u].stream \in Stored(streams)' \cup {None}
  BY <1>2, <1>3, <1>4, FlushFacts
<1>6. RequestReferences(r)
  BY DEF RequestReferences, NoSessionChange, NoStreamChange
<1>7. /\ req' \in [Workers -> Request]
      /\ \A v \in Workers : req'[v] = req[v] \/ req'[v] = r
  BY <1>0 DEF TypeOK
<1> QED BY <1>2, <1>5, <1>6, <1>7, TableStep

LEMMA CommitStartInv ==
  ASSUME Inv, NEW w \in Workers, CommitStart(w)
  PROVE  Inv'
<1>1. req[w] \in Request /\ RequestShape(req[w]) /\ RequestReferences(req[w])
  BY DEF Inv, TypeOK, ReferencesExist
<1>2. req[w].session \in Stored(sessions)
  BY <1>1 DEF CommitStart, RequestShape, RequestReferences
<1>3. PICK t \in StreamIds :
        /\ WritesStream(req[w], t)
        /\ sessions' = [sessions EXCEPT
                          ![req[w].session] = FlushSession(@, Binding(req[w], t))]
        /\ req' = [req EXCEPT ![w] = [Idle EXCEPT
                     !.stage = "media", !.op = "start", !.key = req[w].key,
                     !.path = streams'[t].path]]
  BY DEF CommitStart
<1> DEFINE r == [Idle EXCEPT !.stage = "media", !.op = "start", !.key = req[w].key,
                             !.path = streams'[t].path]
<1>4. req[w].session # None
  BY <1>1 DEF CommitStart, RequestShape
<1>5. streams'[t].path \in Paths
  BY <1>1, <1>3, <1>4, WritesStreamFacts DEF StreamRow
<1>6. r \in Request
  BY <1>1, <1>5, IdleType DEF Request, Stages, Ops
<1>7. RequestShape(r)
  BY <1>1 DEF CommitStart, RequestShape, Idle
<1>8. /\ r.session = None /\ r.stream = None
      /\ r.change = NoSessionChange /\ r.streamChange = NoStreamChange
  BY DEF Idle
<1>9. req' = [req EXCEPT ![w] = r]
  BY <1>3
<1> HIDE DEF r
<1> QED BY <1>1, <1>2, <1>3, <1>6, <1>7, <1>8, <1>9, CommitInv

LEMMA FinishIgnoredStopInv ==
  ASSUME Inv, NEW w \in Workers, FinishIgnoredStop(w)
  PROVE  Inv'
<1>1. req[w] \in Request /\ RequestReferences(req[w])
  BY DEF Inv, TypeOK, ReferencesExist
<1>2. req[w].session \in Stored(sessions)
  BY <1>1 DEF FinishIgnoredStop, RequestReferences
<1>3. PICK t \in StreamIds :
        /\ WritesStream(req[w], t)
        /\ sessions' = [sessions EXCEPT
                          ![req[w].session] = FlushSession(@, Binding(req[w], t))]
  BY DEF FinishIgnoredStop
<1>4. req' = [req EXCEPT ![w] = Idle]
  BY DEF FinishIgnoredStop
<1>5. /\ Idle.session = None /\ Idle.stream = None
      /\ Idle.change = NoSessionChange /\ Idle.streamChange = NoStreamChange
  BY DEF Idle
<1> QED BY <1>1, <1>2, <1>3, <1>4, <1>5, IdleType, IdleIsFine, CommitInv

LEMMA LoadForStopInv ==
  ASSUME Inv, NEW w \in Workers, NEW k \in Keys, LoadForStop(w, k)
  PROVE  Inv'
<1>0. TypeOK /\ ReferencesExist
  BY DEF Inv
<1> DEFINE loaded == [Idle EXCEPT !.stage = "commit", !.op = "stop", !.key = k]
<1>1. UNCHANGED <<sessions, streams>>
  BY DEF LoadForStop
<1>2. CASE req' = [req EXCEPT ![w] = loaded]
  <2>1. loaded \in Request
    BY IdleType DEF Request, Stages, Ops
  <2>2. RequestShape(loaded)
    BY DEF RequestShape, Idle
  <2>3. RequestReferences(loaded)
    BY DEF RequestReferences, Idle, NoSessionChange, NoStreamChange
  <2> HIDE DEF loaded
  <2> QED BY <1>1, <1>2, <2>1, <2>2, <2>3, RequestStep
<1>3. ASSUME NEW s \in WithKey(k), NEW t \in Resolved(s),
             req' = [req EXCEPT ![w] = [loaded EXCEPT
                       !.session = s, !.stream = t,
                       !.path = IF t = None THEN AutoPath[s] ELSE streams[t].path,
                       !.change = [StopChange(sessions[s]) EXCEPT
                         !.stream = IF t = None THEN Keep
                                    ELSE Assign(sessions[s].stream, t)]]]
      PROVE  Inv'
  <2> DEFINE c == [StopChange(sessions[s]) EXCEPT
                     !.stream = IF t = None THEN Keep ELSE Assign(sessions[s].stream, t)]
             p == IF t = None THEN AutoPath[s] ELSE streams[t].path
             r == [loaded EXCEPT !.session = s, !.stream = t, !.path = p, !.change = c]
  <2>1. s \in SessionIds /\ s \in Stored(sessions) /\ sessions[s] \in SessionRow
    BY <1>0, StoredType
  <2>2. t \in Stored(streams) \cup {None}
    BY <1>0, <2>1, StoredType DEF Resolved, ReferencesExist
  <2>3. t \in StreamIds \cup {None} /\ (t # None => streams[t] \in StreamRow)
    BY <1>0, <2>2, StoredType
  <2>4. StopChange(sessions[s]) \in SessionChange
    BY <2>1, <2>3, SessionChangeType
  <2>5. c \in SessionChange /\ c.stream \in {Keep, t}
    BY <2>3, <2>4 DEF SessionChange, Assign
  <2>6. p \in Paths
    BY <2>1, <2>3 DEF Paths, StreamRow
  <2> HIDE DEF c, p
  <2>7. r \in Request
    BY <2>1, <2>3, <2>5, <2>6, IdleType DEF Request, Stages, Ops
  <2>8. RequestShape(r)
    BY DEF RequestShape, Idle
  <2>9. RequestReferences(r)
    BY <2>1, <2>2, <2>5 DEF RequestReferences, Idle, NoStreamChange
  <2>10. req' = [req EXCEPT ![w] = r]
    BY <1>3 DEF c, p
  <2> HIDE DEF r
  <2> QED BY <1>1, <2>7, <2>8, <2>9, <2>10, RequestStep
<1> QED BY <1>2, <1>3 DEF LoadForStop

LEMMA StopUnknownInv ==
  ASSUME Inv, NEW w \in Workers, StopUnknown(w)
  PROVE  Inv'
<1>1. req[w] \in Request /\ RequestShape(req[w]) /\ RequestReferences(req[w])
  BY DEF Inv, TypeOK, ReferencesExist
<1> DEFINE r == [ResolveOnly(req[w]) EXCEPT !.stage = "media"]
<1>2. r \in Request
  BY <1>1 DEF ResolveOnly, Request, SessionChange, NoSessionChange, Stages
<1>3. RequestShape(r)
  BY <1>1 DEF StopUnknown, ResolveOnly, RequestShape, Request
<1>4. RequestReferences(r)
  BY <1>1 DEF ResolveOnly, RequestReferences, Request, NoSessionChange
<1>5. req' = [req EXCEPT ![w] = r] /\ UNCHANGED <<sessions, streams>>
  BY DEF StopUnknown
<1> HIDE DEF r
<1> QED BY <1>2, <1>3, <1>4, <1>5, RequestStep

LEMMA CommitStopInv ==
  ASSUME Inv, NEW w \in Workers, CommitStop(w)
  PROVE  Inv'
<1>0. TypeOK /\ ReferencesExist
  BY DEF Inv
<1>1. req[w] \in Request /\ RequestShape(req[w]) /\ RequestReferences(req[w])
  BY <1>0 DEF TypeOK, ReferencesExist
<1> DEFINE r == [Idle EXCEPT !.stage = "media", !.op = "stop",
                             !.key = req[w].key, !.path = req[w].path]
<1>2. r \in Request
  BY <1>1, IdleType DEF Request, Stages, Ops
<1>3. RequestShape(r)
  BY <1>1 DEF CommitStop, RequestShape, Idle
<1>4. /\ r.session = None /\ r.stream = None
      /\ r.change = NoSessionChange /\ r.streamChange = NoStreamChange
  BY DEF Idle
<1>5. req' = [req EXCEPT ![w] = r]
  BY DEF CommitStop
<1>6. RequestReferences(r)
  BY <1>4 DEF RequestReferences, NoSessionChange, NoStreamChange
<1>7. /\ req' \in [Workers -> Request]
      /\ \A v \in Workers : req'[v] = req[v] \/ req'[v] = r
  BY <1>0, <1>2, <1>5 DEF TypeOK
<1> HIDE DEF r
<1>8. \A s \in Stored(sessions) : /\ s \in SessionIds /\ sessions[s] \in SessionRow
                                  /\ StopChange(sessions[s]) \in SessionChange
                                  /\ StopChange(sessions[s]).stream = Keep
  <2> TAKE s \in Stored(sessions)
  <2>1. s \in SessionIds /\ sessions[s] \in SessionRow
    BY <1>0, StoredType
  <2>2. StopChange(sessions[s]) \in SessionChange
    BY <2>1 DEF StopChange, SessionRow, SessionChange, NoSessionChange, Assign, Statuses, Stamps
  <2> QED BY <2>1, <2>2 DEF StopChange, NoSessionChange
<1>9. CASE req[w].session \in WithKey(req[w].key) /\ \E t \in StreamIds :
             /\ WritesStream(req[w], t)
             /\ sessions' = [sessions EXCEPT
                  ![req[w].session] = FlushSession(@, Binding(req[w], t))]
  <2>1. req[w].session \in Stored(sessions)
    BY <1>0, <1>9, StoredType
  <2> QED BY <1>1, <1>2, <1>3, <1>4, <1>5, <1>9, <2>1, CommitInv
<1>10. ASSUME req[w].session # None,
              NEW s \in WithKey(req[w].key) \ {req[w].session}, NEW t \in StreamIds,
              WritesStream(req[w], t),
              sessions' = [sessions EXCEPT
                  ![req[w].session] = FlushSession(@, Binding(ResolveOnly(req[w]), t)),
                  ![s] = FlushSession(@, StopChange(@))]
       PROVE  Inv'
  <2> DEFINE q == ResolveOnly(req[w])  b == Binding(q, t)
             one == FlushSession(sessions[req[w].session], b)
             two == FlushSession(sessions[s], StopChange(sessions[s]))
  <2>1. req[w].session \in Stored(sessions) /\ s \in Stored(sessions) /\ s # req[w].session
    BY <1>0, <1>1, <1>10, StoredType DEF RequestReferences
  <2>2. q \in Request /\ q.stream = req[w].stream /\ q.session = req[w].session
    BY <1>1 DEF ResolveOnly, Request, SessionChange, NoSessionChange
  <2>3. /\ streams' \in [StreamIds -> StreamRow \cup {None}]
        /\ Stored(streams)' = Stored(streams) \cup {t}
        /\ \A u \in Stored(streams)' : streams'[u].source \in Stored(sessions) \cup {None}
    BY <1>1, <1>10, WritesStreamFacts
  <2>4. b \in SessionChange /\ b.stream \in Stored(streams)' \cup {None, Keep}
    BY <1>1, <2>2, <2>3 DEF Binding, ResolveOnly, Request, SessionChange,
                            RequestReferences, NoSessionChange
  <2>5. one \in SessionRow /\ two \in SessionRow
    BY <1>8, <2>1, <2>4, FlushSessionType
  <2>6. /\ one.stream \in Stored(streams)' \cup {None}
        /\ two.stream \in Stored(streams)' \cup {None}
    BY <1>0, <1>8, <2>1, <2>3, <2>4 DEF FlushSession, Written, ReferencesExist
  <2>7. sessions' = [sessions EXCEPT ![req[w].session] = one, ![s] = two]
    BY <1>0, <1>10, <2>1 DEF TypeOK
  <2> HIDE DEF one, two
  <2>8. /\ sessions' \in [SessionIds -> SessionRow \cup {None}]
        /\ Stored(sessions)' = Stored(sessions)
        /\ \A u \in Stored(sessions)' : sessions'[u].stream \in Stored(streams)' \cup {None}
    BY <1>0, <1>8, <2>1, <2>3, <2>5, <2>6, <2>7, SentinelAssumption
       DEF TypeOK, Stored, ReferencesExist
  <2> QED BY <1>3, <1>6, <1>7, <2>3, <2>8, TableStep
<1>11. ASSUME NEW s \in WithKey(req[w].key), UNCHANGED streams,
              sessions' = [sessions EXCEPT ![s] = FlushSession(@, StopChange(@))]
       PROVE  Inv'
  <2>1. s \in Stored(sessions) /\ Stored(streams)' = Stored(streams)
    BY <1>0, <1>11, StoredType DEF Stored
  <2>2. sessions' = [sessions EXCEPT ![s] = FlushSession(@, StopChange(sessions[s]))]
    BY <1>11
  <2>3. /\ sessions' \in [SessionIds -> SessionRow \cup {None}]
        /\ Stored(sessions)' = Stored(sessions)
        /\ \A u \in Stored(sessions)' : sessions'[u].stream \in Stored(streams)' \cup {None}
    BY <1>8, <2>1, <2>2, FlushFacts
  <2>4. /\ streams' \in [StreamIds -> StreamRow \cup {None}]
        /\ \A u \in Stored(streams)' : streams'[u].source \in Stored(sessions)' \cup {None}
    BY <1>0, <1>11, <2>1, <2>3 DEF TypeOK, ReferencesExist
  <2> QED BY <1>3, <1>6, <1>7, <2>1, <2>3, <2>4, TableStep
<1> QED BY <1>9, <1>10, <1>11 DEF CommitStop

LEMMA CreateSessionInv ==
  ASSUME Inv, NEW w \in Workers, NEW k \in Keys, NEW t \in StreamIds \cup {None},
         CreateSession(w, k, t)
  PROVE  Inv'
<1>0. TypeOK /\ ReferencesExist
  BY DEF Inv
<1>1. PICK s \in NextId(sessions) :
        sessions' = [sessions EXCEPT ![s] = NewSession(k, t)]
  BY DEF CreateSession
<1>2. /\ NewSession(k, t) \in SessionRow
      /\ NewSession(k, t).stream \in Stored(streams) \cup {None}
  BY NewRowType DEF CreateSession, NewSession
<1>3. streams' = streams /\ req' = req /\ Stored(streams)' = Stored(streams)
  BY DEF CreateSession, Stored
<1>4. /\ sessions' \in [SessionIds -> SessionRow \cup {None}]
      /\ Stored(sessions)' = Stored(sessions) \cup {s}
      /\ \A u \in Stored(sessions)' : sessions'[u].stream \in Stored(streams)' \cup {None}
  BY <1>1, <1>2, <1>3, InsertSessionFacts
<1>5. /\ streams' \in [StreamIds -> StreamRow \cup {None}]
      /\ \A u \in Stored(streams)' : streams'[u].source \in Stored(sessions)' \cup {None}
  BY <1>0, <1>3, <1>4 DEF TypeOK, ReferencesExist
<1>6. req' \in [Workers -> Request]
  BY <1>0, <1>3 DEF TypeOK
<1> QED BY <1>3, <1>4, <1>5, <1>6, IdleIsFine, TableStep

LEMMA CreateStreamInv ==
  ASSUME Inv, NEW w \in Workers, NEW p \in PathNames, NEW v \in Visibilities,
         NEW s \in SessionIds \cup {None}, CreateStream(w, p, v, s)
  PROVE  Inv'
<1>0. TypeOK /\ ReferencesExist
  BY DEF Inv
<1>1. PICK t \in NextId(streams) : streams' = [streams EXCEPT ![t] = NewStream(p, v, s)]
  BY DEF CreateStream
<1>2. NewStream(p, v, s) \in StreamRow /\ NewStream(p, v, s).source \in Stored(sessions) \cup {None}
  BY NewRowType DEF CreateStream, NewStream, Paths
<1>3. sessions' = sessions /\ req' = req /\ Stored(sessions)' = Stored(sessions)
  BY DEF CreateStream, Stored
<1>4. /\ streams' \in [StreamIds -> StreamRow \cup {None}]
      /\ Stored(streams)' = Stored(streams) \cup {t}
      /\ \A u \in Stored(streams)' : streams'[u].source \in Stored(sessions)' \cup {None}
  BY <1>1, <1>2, <1>3, InsertStreamFacts
<1>5. /\ sessions' \in [SessionIds -> SessionRow \cup {None}]
      /\ \A u \in Stored(sessions)' : sessions'[u].stream \in Stored(streams)' \cup {None}
  BY <1>0, <1>3, <1>4 DEF TypeOK, ReferencesExist
<1>6. req' \in [Workers -> Request]
  BY <1>0, <1>3 DEF TypeOK
<1> QED BY <1>3, <1>4, <1>5, <1>6, IdleIsFine, TableStep

\* rotate, revoke and bind load a session and hold its change.
LEMMA LoadSessionInv ==
  ASSUME Inv, NEW w \in Workers, NEW s \in Stored(sessions),
         NEW op \in {"rotate", "revoke", "bind"}, NEW c \in SessionChange,
         c.stream \in Stored(streams) \cup {None, Keep}, LoadSession(w, op, s, c)
  PROVE  Inv'
<1> DEFINE r == [Idle EXCEPT !.stage = "commit", !.op = op, !.session = s, !.change = c]
<1>1. s \in SessionIds
  BY StoredType DEF Inv
<1>2. r \in Request
  BY <1>1, IdleType DEF Request, Stages, Ops
<1>3. RequestShape(r)
  BY <1>1, SentinelAssumption DEF RequestShape, Idle
<1>4. RequestReferences(r)
  BY DEF RequestReferences, Idle, NoStreamChange
<1>5. req' = [req EXCEPT ![w] = r] /\ UNCHANGED <<sessions, streams>>
  BY DEF LoadSession
<1> HIDE DEF r
<1> QED BY <1>2, <1>3, <1>4, <1>5, RequestStep

LEMMA LoadForAdminInv ==
  ASSUME Inv, NEW w \in Workers, LoadForRotate(w) \/ LoadForRevoke(w) \/ LoadForBind(w)
  PROVE  Inv'
<1>0. \A s \in Stored(sessions) : s \in SessionIds /\ sessions[s] \in SessionRow
  BY StoredType DEF Inv
<1>1. ASSUME NEW s \in Stored(sessions), NEW k \in Keys,
             LoadSession(w, "rotate", s, RotateChange(sessions[s], k))
      PROVE  Inv'
  <2>1. RotateChange(sessions[s], k) \in SessionChange
    BY <1>0, SessionChangeType
  <2>2. RotateChange(sessions[s], k).stream = Keep
    BY DEF RotateChange, NoSessionChange
  <2> QED BY <1>1, <2>1, <2>2, LoadSessionInv
<1>2. ASSUME NEW s \in Stored(sessions),
             LoadSession(w, "revoke", s, RevokeChange(sessions[s]))
      PROVE  Inv'
  <2>1. RevokeChange(sessions[s]) \in SessionChange
    BY <1>0 DEF RevokeChange, SessionRow, SessionChange, NoSessionChange, Assign, Statuses, Stamps
  <2>2. RevokeChange(sessions[s]).stream = Keep
    BY DEF RevokeChange, NoSessionChange
  <2> QED BY <1>2, <2>1, <2>2, LoadSessionInv
<1>3. ASSUME NEW s \in Stored(sessions), NEW t \in Stored(streams) \cup {None},
             LoadSession(w, "bind", s,
               [NoSessionChange EXCEPT !.stream = Assign(sessions[s].stream, t)])
      PROVE  Inv'
  <2> DEFINE c == [NoSessionChange EXCEPT !.stream = Assign(sessions[s].stream, t)]
  <2>1. t \in StreamIds \cup {None}
    BY StoredType DEF Inv
  <2>2. c \in SessionChange /\ c.stream \in {Keep, t}
    BY <2>1 DEF SessionChange, NoSessionChange, Assign
  <2> HIDE DEF c
  <2>3. LoadSession(w, "bind", s, c)
    BY <1>3 DEF c
  <2> QED BY <2>2, <2>3, LoadSessionInv
<1> QED BY <1>1, <1>2, <1>3 DEF LoadForRotate, LoadForRevoke, LoadForBind

LEMMA CommitSessionInv ==
  ASSUME Inv, NEW w \in Workers, CommitSession(w)
  PROVE  Inv'
<1>0. TypeOK /\ ReferencesExist
  BY DEF Inv
<1>1. req[w] \in Request /\ RequestShape(req[w]) /\ RequestReferences(req[w])
  BY <1>0 DEF TypeOK, ReferencesExist
<1>2. req[w].session \in Stored(sessions)
  BY <1>1 DEF CommitSession, RequestShape, RequestReferences
<1>3. streams' = streams /\ Stored(streams)' = Stored(streams)
  BY DEF CommitSession, Stored
<1>4. /\ req[w].change \in SessionChange
      /\ req[w].change.stream \in Stored(streams)' \cup {None, Keep}
  BY <1>1, <1>3 DEF Request, RequestReferences
<1>5. sessions' = [sessions EXCEPT ![req[w].session] = FlushSession(@, req[w].change)]
  BY DEF CommitSession
<1>6. /\ sessions' \in [SessionIds -> SessionRow \cup {None}]
      /\ Stored(sessions)' = Stored(sessions)
      /\ \A u \in Stored(sessions)' : sessions'[u].stream \in Stored(streams)' \cup {None}
  BY <1>2, <1>3, <1>4, <1>5, FlushFacts
<1>7. /\ streams' \in [StreamIds -> StreamRow \cup {None}]
      /\ \A u \in Stored(streams)' : streams'[u].source \in Stored(sessions)' \cup {None}
  BY <1>0, <1>3, <1>6 DEF TypeOK, ReferencesExist
<1>8. /\ req' \in [Workers -> Request]
      /\ \A v \in Workers : req'[v] = req[v] \/ req'[v] = Idle
  BY <1>0, IdleType DEF CommitSession, TypeOK
<1> QED BY <1>3, <1>6, <1>7, <1>8, IdleIsFine, TableStep

LEMMA LoadForUpdateInv ==
  ASSUME Inv, NEW w \in Workers, NEW t \in StreamIds, NEW patch \in Patches,
         LoadForUpdate(w, t, patch)
  PROVE  Inv'
<1> DEFINE c == PatchChange(streams[t], patch)
           r == [Idle EXCEPT !.stage = "commit", !.op = "update_stream", !.stream = t,
                             !.streamChange = c]
<1>1. streams[t] \in StreamRow
  BY StoredType DEF Inv, LoadForUpdate
<1>2. patch \in StreamChange /\ patch.source \in Stored(sessions) \cup {None, Keep}
  BY ConstantsAssumption DEF LoadForUpdate
<1>3. c \in StreamChange
  BY <1>1, <1>2 DEF PatchChange, StreamRow, StreamChange, Assign, Visibilities, Flags
<1>4. c.source \in {Keep, patch.source}
  BY DEF PatchChange, Assign
<1> HIDE DEF c
<1>5. r \in Request
  BY <1>3, IdleType DEF Request, Stages, Ops
<1>6. RequestShape(r)
  BY SentinelAssumption DEF RequestShape, Idle
<1>7. RequestReferences(r)
  BY <1>2, <1>4 DEF RequestReferences, Idle, NoSessionChange, LoadForUpdate
<1>8. req' = [req EXCEPT ![w] = r] /\ UNCHANGED <<sessions, streams>>
  BY DEF LoadForUpdate, c
<1> HIDE DEF r
<1> QED BY <1>5, <1>6, <1>7, <1>8, RequestStep

LEMMA CommitUpdateInv ==
  ASSUME Inv, NEW w \in Workers, CommitUpdate(w)
  PROVE  Inv'
<1>0. TypeOK /\ ReferencesExist
  BY DEF Inv
<1>1. req[w] \in Request /\ RequestShape(req[w]) /\ RequestReferences(req[w])
  BY <1>0 DEF TypeOK, ReferencesExist
<1> DEFINE t == req[w].stream
           row == FlushStream(streams[t], req[w].streamChange)
<1>2. t \in Stored(streams) /\ t \in StreamIds /\ streams[t] \in StreamRow
  BY <1>0, <1>1, StoredType DEF CommitUpdate, RequestShape, RequestReferences
<1>3. row \in StreamRow
  BY <1>1, <1>2, FlushStreamType DEF Request
<1>4. row.source \in Stored(sessions) \cup {None}
  BY <1>0, <1>1, <1>2 DEF FlushStream, Written, ReferencesExist, RequestReferences
<1>5. streams' = [streams EXCEPT ![t] = row]
  BY DEF CommitUpdate
<1>6. sessions' = sessions /\ Stored(sessions)' = Stored(sessions)
  BY DEF CommitUpdate, Stored
<1> HIDE DEF row
<1>7. /\ streams' \in [StreamIds -> StreamRow \cup {None}]
      /\ Stored(streams)' = Stored(streams)
      /\ \A u \in Stored(streams)' : streams'[u].source \in Stored(sessions)' \cup {None}
  BY <1>0, <1>2, <1>3, <1>4, <1>5, <1>6, SentinelAssumption DEF TypeOK, Stored, ReferencesExist
<1>8. /\ sessions' \in [SessionIds -> SessionRow \cup {None}]
      /\ \A u \in Stored(sessions)' : sessions'[u].stream \in Stored(streams)' \cup {None}
  BY <1>0, <1>6, <1>7 DEF TypeOK, ReferencesExist
<1>9. /\ req' \in [Workers -> Request]
      /\ \A v \in Workers : req'[v] = req[v] \/ req'[v] = Idle
  BY <1>0, IdleType DEF CommitUpdate, TypeOK
<1> QED BY <1>6, <1>7, <1>8, <1>9, IdleIsFine, TableStep

LEMMA InitInv == Init => Inv
<1> SUFFICES ASSUME Init PROVE Inv
  OBVIOUS
<1>1. TypeOK
  BY IdleType, IdleIsFine DEF Init, TypeOK
<1>2. ReferencesExist
  BY IdleIsFine DEF Init, ReferencesExist, Stored
<1> QED BY <1>1, <1>2 DEF Inv

LEMMA StutterInv == ASSUME Inv, UNCHANGED vars PROVE Inv'
BY DEF Inv, TypeOK, ReferencesExist, RequestReferences, RequestShape, Stored, vars

LEMMA NextInv == Inv /\ [Next]_vars => Inv'
<1> SUFFICES ASSUME Inv, [Next]_vars PROVE Inv'
  OBVIOUS
<1>1. CASE UNCHANGED vars
  BY <1>1, StutterInv
<1>2. CASE Crash
  BY <1>2, CrashInv
<1>3. ASSUME NEW w \in Workers, Receive(w) PROVE Inv'
  BY <1>3, LookupForPublishInv, LoadForStopInv, CreateSessionInv, LoadForAdminInv,
     CreateStreamInv, LoadForUpdateInv DEF Receive
<1>4. ASSUME NEW w \in Workers, DatabaseStep(w) PROVE Inv'
  <2>1. CASE DenyStart(w) \/ DatabaseError(w)
    BY <2>1, GiveUpInv DEF DenyStart, DatabaseError
  <2> QED BY <1>4, <2>1, AutoRegisterInv, LoadForStartInv, CommitStartInv, CommitStopInv,
             StopUnknownInv, CommitSessionInv, CommitUpdateInv DEF DatabaseStep
<1>5. ASSUME NEW w \in Workers, Return(w) PROVE Inv'
  BY <1>5, GiveUpInv, FinishIgnoredStopInv DEF Return, Finish
<1> QED BY <1>1, <1>2, <1>3, <1>4, <1>5 DEF Next

\* Every reachable state is well typed: rows, pending changes and requests.
THEOREM TypeCorrect == Spec => []TypeOK
<1>1. Inv => TypeOK
  BY DEF Inv
<1> QED BY <1>1, InitInv, NextInv, PTL DEF Spec

\* No reference, stored or pending, ever dangles.
THEOREM ReferencesAlwaysExist == Spec => []ReferencesExist
<1>1. Inv => ReferencesExist
  BY DEF Inv
<1> QED BY <1>1, InitInv, NextInv, PTL DEF Spec

---------------------------------------------------------------------------
(***************************************************************************)
(* Revocation: it is stamped for good, and final once it is settled.  Both *)
(* follow from two facts about every step: how it may write a row of       *)
(* ingest_sessions (Writes), and how it may move a request on (Moves).     *)
(***************************************************************************)

\* A change that a handler may hold after it loaded the row.
LoadedChange(row, c) ==
  /\ c.revoked \in {Keep, "set"}
  /\ c.status = "revoked" => c.revoked = "set"
  /\ row.status = "revoked" => c.status \in {Keep, "revoked"}

\* A row is inserted, stopped as it is, or written with what a request holds.
Writes(s) ==
  \/ sessions'[s] = sessions[s]
  \/ sessions[s] = None /\ sessions'[s].status = "created"
  \/ sessions[s] # None /\ sessions'[s] = FlushSession(sessions[s], StopChange(sessions[s]))
  \/ /\ sessions[s] # None
     /\ \E w \in Workers, c \in SessionChange :
          /\ req[w].session = s
          /\ sessions'[s] = FlushSession(sessions[s], c)
          /\ \/ c.status = Keep /\ c.revoked = Keep
             \/ /\ c.status = req[w].change.status /\ c.revoked = req[w].change.revoked
                /\ Pending(w) \/ req[w].stage = "media"

Moves(w) ==
  \/ req'[w] = req[w]
  \/ req'[w].change.status = Keep /\ req'[w].change.revoked = Keep
  \/ req'[w].change = req[w].change /\ req'[w].stage = "mark"
  \/ /\ req'[w].stage = "commit" /\ req'[w].session \in Stored(sessions)
     /\ LoadedChange(sessions[req'[w].session], req'[w].change)

\* A pending revocation is stamped, and only pending changes carry a status.
SoundChange(r) ==
  /\ r.change.revoked \in {Keep, "set"}
  /\ r.change.status = "revoked" => r.change.revoked = "set"
  /\ r.stage = "media" => r.change.status = Keep

Sound == \A w \in Workers : SoundChange(req[w])

---------------------------------------------------------------------------
(* Every step writes rows and moves requests on in these ways only.        *)

LEMMA KeepIsNoValue ==
  Keep \notin {"created", "live", "ended", "revoked", "null", "set"}
BY SentinelAssumption DEF Statuses, Stamps

LEMMA IdleMoves ==
  ASSUME Inv, NEW w \in Workers, NEW r, req' = [req EXCEPT ![w] = r],
         r.change.status = Keep, r.change.revoked = Keep
  PROVE  \A v \in Workers : Moves(v)
BY DEF Inv, TypeOK, Moves

LEMMA LoadMoves ==
  ASSUME Inv, NEW w \in Workers, NEW r, req' = [req EXCEPT ![w] = r],
         r.stage = "commit", r.session \in Stored(sessions),
         LoadedChange(sessions[r.session], r.change)
  PROVE  \A v \in Workers : Moves(v)
BY DEF Inv, TypeOK, Moves

LEMMA FlushWrites ==
  ASSUME Inv, NEW w \in Workers, req[w].session \in Stored(sessions),
         NEW c \in SessionChange,
         sessions' = [sessions EXCEPT ![req[w].session] = FlushSession(@, c)],
         \/ c.status = Keep /\ c.revoked = Keep
         \/ /\ c.status = req[w].change.status /\ c.revoked = req[w].change.revoked
            /\ Pending(w) \/ req[w].stage = "media"
  PROVE  \A s \in SessionIds : Writes(s)
BY DEF Inv, TypeOK, Writes, Stored

LEMMA InsertWrites ==
  ASSUME Inv, NEW s \in NextId(sessions), NEW k, NEW t,
         sessions' = [sessions EXCEPT ![s] = NewSession(k, t)]
  PROVE  \A u \in SessionIds : Writes(u)
BY DEF Inv, TypeOK, Writes, NextId, NewSession

LEMMA UnchangedWrites == UNCHANGED sessions => \A s \in SessionIds : Writes(s)
BY DEF Writes

LEMMA IdleHoldsNothing ==
  Idle.change.status = Keep /\ Idle.change.revoked = Keep
BY DEF Idle, NoSessionChange

\* A binding leaves the other columns of a change alone.
LEMMA BindingFacts ==
  ASSUME NEW r \in Request, NEW t \in StreamIds
  PROVE  /\ Binding(r, t) \in SessionChange
         /\ Binding(r, t).status = r.change.status
         /\ Binding(r, t).revoked = r.change.revoked
         /\ ResolveOnly(r) \in Request
         /\ Binding(ResolveOnly(r), t) \in SessionChange
         /\ Binding(ResolveOnly(r), t).status = Keep
         /\ Binding(ResolveOnly(r), t).revoked = Keep
<1>1. r.change \in SessionChange /\ NoSessionChange \in SessionChange
  BY DEF Request, NoSessionChange, SessionChange
<1>2. ASSUME NEW q, q.change \in SessionChange
      PROVE  /\ Binding(q, t) \in SessionChange
             /\ Binding(q, t).status = q.change.status
             /\ Binding(q, t).revoked = q.change.revoked
  BY <1>2 DEF Binding, SessionChange
<1>3. r.change.stream \in StreamIds \cup {None, Keep}
  BY <1>1 DEF SessionChange
<1> DEFINE c == [NoSessionChange EXCEPT !.stream = r.change.stream]
<1>4. c \in SessionChange /\ c.status = Keep /\ c.revoked = Keep
  BY <1>3 DEF NoSessionChange, SessionChange
<1> HIDE DEF c
<1>5. ResolveOnly(r) \in Request /\ ResolveOnly(r).change = c
  BY <1>4 DEF ResolveOnly, Request, c
<1> QED BY <1>1, <1>2, <1>4, <1>5

LEMMA ReceiveShape ==
  ASSUME Inv, NEW w \in Workers, Receive(w)
  PROVE  (\A s \in SessionIds : Writes(s)) /\ \A v \in Workers : Moves(v)
<1> USE IdleHoldsNothing
<1>0. \A s \in Stored(sessions) : s \in SessionIds /\ sessions[s] \in SessionRow
  BY StoredType DEF Inv
<1>1. ASSUME NEW k \in Keys, LookupForPublish(w, k)
      PROVE  UNCHANGED sessions /\ \A v \in Workers : Moves(v)
  BY <1>1, IdleMoves DEF LookupForPublish, Idle, NoSessionChange
<1>2. ASSUME NEW k \in Keys, LoadForStop(w, k)
      PROVE  UNCHANGED sessions /\ \A v \in Workers : Moves(v)
  <2> DEFINE loaded == [Idle EXCEPT !.stage = "commit", !.op = "stop", !.key = k]
  <2>1. CASE req' = [req EXCEPT ![w] = loaded]
    BY <1>2, <2>1, IdleMoves DEF LoadForStop, Idle, NoSessionChange
  <2>2. ASSUME NEW s \in WithKey(k), NEW t \in Resolved(s),
               req' = [req EXCEPT ![w] = [loaded EXCEPT
                         !.session = s, !.stream = t,
                         !.path = IF t = None THEN AutoPath[s] ELSE streams[t].path,
                         !.change = [StopChange(sessions[s]) EXCEPT
                           !.stream = IF t = None THEN Keep
                                      ELSE Assign(sessions[s].stream, t)]]]
        PROVE  \A v \in Workers : Moves(v)
    <3> DEFINE c == [StopChange(sessions[s]) EXCEPT
                       !.stream = IF t = None THEN Keep ELSE Assign(sessions[s].stream, t)]
               p == IF t = None THEN AutoPath[s] ELSE streams[t].path
               r == [loaded EXCEPT !.session = s, !.stream = t, !.path = p, !.change = c]
    <3>1. s \in Stored(sessions)
      BY DEF WithKey
    <3>2. LoadedChange(sessions[s], c)
      BY SentinelAssumption DEF LoadedChange, StopChange, NoSessionChange, Assign, Statuses
    <3> HIDE DEF c, p
    <3>3. r.stage = "commit" /\ r.session = s /\ r.change = c
      BY DEF Idle
    <3>4. req' = [req EXCEPT ![w] = r]
      BY <2>2 DEF c, p
    <3> HIDE DEF r
    <3> QED BY <3>1, <3>2, <3>3, <3>4, LoadMoves
  <2> QED BY <1>2, <2>1, <2>2 DEF LoadForStop
<1>3. ASSUME NEW k \in Keys, NEW t \in StreamIds \cup {None}, CreateSession(w, k, t)
      PROVE  (\A s \in SessionIds : Writes(s)) /\ \A v \in Workers : Moves(v)
  BY <1>3, InsertWrites DEF CreateSession, Moves
<1>4. ASSUME NEW s \in Stored(sessions), NEW op, NEW c, LoadSession(w, op, s, c),
             LoadedChange(sessions[s], c)
      PROVE  UNCHANGED sessions /\ \A v \in Workers : Moves(v)
  <2> DEFINE r == [Idle EXCEPT !.stage = "commit", !.op = op, !.session = s, !.change = c]
  <2>1. r.stage = "commit" /\ r.session = s /\ r.change = c
    BY DEF Idle
  <2>2. req' = [req EXCEPT ![w] = r] /\ UNCHANGED sessions
    BY <1>4 DEF LoadSession
  <2> HIDE DEF r
  <2> QED BY <1>4, <2>1, <2>2, LoadMoves
<1>5. CASE LoadForRotate(w)
  <2>1. ASSUME NEW s \in Stored(sessions), NEW k \in Keys, sessions[s].status # "revoked"
        PROVE  LoadedChange(sessions[s], RotateChange(sessions[s], k))
    BY <2>1, KeepIsNoValue DEF LoadedChange, RotateChange, NoSessionChange, Assign
  <2>2. PICK s \in Stored(sessions) : \E k \in Keys :
          /\ sessions[s].status # "revoked"
          /\ LoadSession(w, "rotate", s, RotateChange(sessions[s], k))
    BY <1>5 DEF LoadForRotate
  <2> QED BY <1>4, <2>1, <2>2, UnchangedWrites
<1>6. CASE LoadForRevoke(w)
  <2>1. ASSUME NEW s \in Stored(sessions)
        PROVE  LoadedChange(sessions[s], RevokeChange(sessions[s]))
    BY DEF LoadedChange, RevokeChange, NoSessionChange, Assign
  <2> QED BY <1>4, <1>6, <2>1, UnchangedWrites DEF LoadForRevoke
<1>7. CASE LoadForBind(w)
  <2>1. ASSUME NEW s \in Stored(sessions), NEW t
        PROVE  LoadedChange(sessions[s],
                 [NoSessionChange EXCEPT !.stream = Assign(sessions[s].stream, t)])
    BY SentinelAssumption DEF LoadedChange, NoSessionChange, Statuses
  <2> QED BY <1>4, <1>7, <2>1, UnchangedWrites DEF LoadForBind
<1>8. ASSUME NEW p \in PathNames, NEW v \in Visibilities, NEW s \in SessionIds \cup {None},
             CreateStream(w, p, v, s)
      PROVE  UNCHANGED sessions /\ \A u \in Workers : Moves(u)
  BY <1>8 DEF CreateStream, Moves
<1>9. ASSUME NEW t \in StreamIds, NEW patch \in Patches, LoadForUpdate(w, t, patch)
      PROVE  UNCHANGED sessions /\ \A v \in Workers : Moves(v)
  BY <1>9, IdleMoves DEF LoadForUpdate, Idle, NoSessionChange
<1> QED BY <1>1, <1>2, <1>3, <1>5, <1>6, <1>7, <1>8, <1>9, UnchangedWrites DEF Receive

LEMMA CommitShape ==
  ASSUME Inv, NEW w \in Workers,
         CommitStart(w) \/ CommitStop(w) \/ FinishIgnoredStop(w) \/ CommitSession(w)
  PROVE  (\A s \in SessionIds : Writes(s)) /\ \A v \in Workers : Moves(v)
<1>0. req[w] \in Request /\ RequestShape(req[w]) /\ RequestReferences(req[w])
  BY DEF Inv, TypeOK, ReferencesExist
<1>1. CASE CommitStart(w)
  <2>1. req[w].session \in Stored(sessions) /\ Pending(w)
    BY <1>0, <1>1 DEF CommitStart, RequestShape, RequestReferences, Pending
  <2>2. \A s \in SessionIds : Writes(s)
    BY <1>0, <1>1, <2>1, BindingFacts, FlushWrites DEF CommitStart
  <2>3. \A v \in Workers : Moves(v)
    BY <1>1, IdleMoves DEF CommitStart, Idle, NoSessionChange
  <2> QED BY <2>2, <2>3
<1>2. CASE FinishIgnoredStop(w)
  <2>1. req[w].session \in Stored(sessions)
    BY <1>0, <1>2 DEF FinishIgnoredStop, RequestReferences
  <2>2. \A s \in SessionIds : Writes(s)
    BY <1>0, <1>2, <2>1, BindingFacts, FlushWrites DEF FinishIgnoredStop
  <2>3. \A v \in Workers : Moves(v)
    BY <1>2, IdleMoves, IdleHoldsNothing DEF FinishIgnoredStop
  <2> QED BY <2>2, <2>3
<1>3. CASE CommitSession(w)
  <2>1. req[w].session \in Stored(sessions) /\ Pending(w)
    BY <1>0, <1>3 DEF CommitSession, RequestShape, RequestReferences, Pending
  <2>2. \A s \in SessionIds : Writes(s)
    BY <1>0, <1>3, <2>1, FlushWrites DEF CommitSession, Request
  <2>3. \A v \in Workers : Moves(v)
    BY <1>3, IdleMoves, IdleHoldsNothing DEF CommitSession
  <2> QED BY <2>2, <2>3
<1>4. CASE CommitStop(w)
  <2>0. Pending(w)
    BY <1>4 DEF CommitStop, Pending
  <2>1. \A v \in Workers : Moves(v)
    BY <1>4, IdleMoves DEF CommitStop, Idle, NoSessionChange
  <2>2. ASSUME req[w].session \in WithKey(req[w].key), NEW t \in StreamIds,
               sessions' = [sessions EXCEPT
                 ![req[w].session] = FlushSession(@, Binding(req[w], t))]
        PROVE  \A s \in SessionIds : Writes(s)
    BY <1>0, <2>0, <2>2, BindingFacts, FlushWrites, StoredType DEF Inv
  <2>3. ASSUME req[w].session # None,
               NEW s \in WithKey(req[w].key) \ {req[w].session}, NEW t \in StreamIds,
               sessions' = [sessions EXCEPT
                 ![req[w].session] = FlushSession(@, Binding(ResolveOnly(req[w]), t)),
                 ![s] = FlushSession(@, StopChange(@))]
        PROVE  \A u \in SessionIds : Writes(u)
    <3>1. req[w].session \in Stored(sessions) /\ s \in Stored(sessions)
      BY <1>0, <2>3, StoredType DEF Inv, RequestReferences
    <3>2. /\ sessions'[req[w].session] =
               FlushSession(sessions[req[w].session], Binding(ResolveOnly(req[w]), t))
          /\ sessions'[s] = FlushSession(sessions[s], StopChange(sessions[s]))
          /\ \A u \in SessionIds \ {s, req[w].session} : sessions'[u] = sessions[u]
      BY <2>3, <3>1 DEF Inv, TypeOK, Stored
    <3> QED BY <1>0, <3>1, <3>2, BindingFacts DEF Writes, Stored
  <2>4. ASSUME NEW s \in WithKey(req[w].key),
               sessions' = [sessions EXCEPT ![s] = FlushSession(@, StopChange(@))]
        PROVE  \A u \in SessionIds : Writes(u)
    BY <2>4, StoredType DEF Inv, TypeOK, Writes, Stored
  <2> QED BY <1>4, <2>1, <2>2, <2>3, <2>4 DEF CommitStop
<1> QED BY <1>1, <1>2, <1>3, <1>4

LEMMA StepShape ==
  ASSUME Inv, [Next]_vars
  PROVE  (\A s \in SessionIds : Writes(s)) /\ \A v \in Workers : Moves(v)
<1>1. CASE UNCHANGED vars
  BY <1>1 DEF vars, Writes, Moves
<1>2. CASE Crash
  BY <1>2, UnchangedWrites, IdleHoldsNothing DEF Crash, Moves
<1>3. ASSUME NEW w \in Workers, AutoRegister(w)
      PROVE  (\A s \in SessionIds : Writes(s)) /\ \A v \in Workers : Moves(v)
  <2>1. \A s \in SessionIds : Writes(s)
    BY <1>3, InsertWrites DEF AutoRegister
  <2>2. req[w] \in Request
    BY DEF Inv, TypeOK
  <2>3. req'[w].change = req[w].change /\ req'[w].stage = "mark"
    BY <1>3, <2>2 DEF AutoRegister, Inv, TypeOK, Request
  <2> QED BY <1>3, <2>1, <2>3 DEF AutoRegister, Inv, TypeOK, Moves
<1>4. ASSUME NEW w \in Workers, LoadForStart(w)
      PROVE  (\A s \in SessionIds : Writes(s)) /\ \A v \in Workers : Moves(v)
  <2>1. PICK s \in WithKey(req[w].key) :
          /\ sessions[s].status # "revoked"
          /\ \E t \in Resolved(s) :
               req' = [req EXCEPT ![w] = [req[w] EXCEPT
                         !.stage = "commit", !.session = s, !.stream = t,
                         !.change = StartChange(sessions[s], t),
                         !.streamChange = IF t = None THEN NoStreamChange
                                          ELSE StartStreamChange(streams[t], s)]]
    BY <1>4 DEF LoadForStart
  <2>2. PICK t, sc : req' = [req EXCEPT ![w] = [req[w] EXCEPT
                       !.stage = "commit", !.session = s, !.stream = t,
                       !.change = StartChange(sessions[s], t), !.streamChange = sc]]
    BY <2>1
  <2> DEFINE c == StartChange(sessions[s], t)
             r == [req[w] EXCEPT !.stage = "commit", !.session = s, !.stream = t,
                                 !.change = c, !.streamChange = sc]
  <2>3. LoadedChange(sessions[s], c)
    BY <2>1, KeepIsNoValue DEF LoadedChange, StartChange, NoSessionChange, Assign
  <2> HIDE DEF c
  <2>4. r.stage = "commit" /\ r.session = s /\ r.change = c
    <3>1. req[w] \in Request
      BY DEF Inv, TypeOK
    <3> QED BY <3>1 DEF Request
  <2>5. req' = [req EXCEPT ![w] = r]
    BY <2>2 DEF c
  <2>6. s \in Stored(sessions)
    BY DEF WithKey
  <2> HIDE DEF r
  <2>7. \A v \in Workers : Moves(v)
    BY <2>3, <2>4, <2>5, <2>6, LoadMoves
  <2> QED BY <1>4, <2>7, UnchangedWrites DEF LoadForStart
<1>5. ASSUME NEW w \in Workers, StopUnknown(w)
      PROVE  (\A s \in SessionIds : Writes(s)) /\ \A v \in Workers : Moves(v)
  <2> DEFINE r == [ResolveOnly(req[w]) EXCEPT !.stage = "media"]
  <2>1. r.change.status = Keep /\ r.change.revoked = Keep
    <3>1. req[w] \in Request
      BY DEF Inv, TypeOK
    <3> QED BY <3>1 DEF ResolveOnly, Request, NoSessionChange
  <2>2. req' = [req EXCEPT ![w] = r] /\ UNCHANGED sessions
    BY <1>5 DEF StopUnknown
  <2> HIDE DEF r
  <2> QED BY <2>1, <2>2, IdleMoves, UnchangedWrites
<1>6. ASSUME NEW w \in Workers, DenyStart(w) \/ DatabaseError(w) \/ Finish(w) \/ CommitUpdate(w)
      PROVE  (\A s \in SessionIds : Writes(s)) /\ \A v \in Workers : Moves(v)
  <2>1. req' = [req EXCEPT ![w] = Idle] /\ UNCHANGED sessions
    BY <1>6 DEF DenyStart, DatabaseError, Finish, CommitUpdate
  <2> QED BY <2>1, IdleMoves, IdleHoldsNothing, UnchangedWrites
<1> QED BY <1>1, <1>2, <1>3, <1>4, <1>5, <1>6, ReceiveShape, CommitShape
        DEF Next, DatabaseStep, Return

---------------------------------------------------------------------------
(* The two theorems.                                                       *)

RevocationInv == Inv /\ Sound /\ RevokedIsStamped

LEMMA RevocationInit == Init => RevocationInv
<1> SUFFICES ASSUME Init PROVE RevocationInv
  OBVIOUS
<1>1. Sound
  BY SentinelAssumption, IdleHoldsNothing DEF Init, Sound, SoundChange, Statuses
<1>2. RevokedIsStamped
  BY DEF Init, RevokedIsStamped, Stored
<1> QED BY <1>1, <1>2, InitInv DEF RevocationInv

LEMMA SoundNext == ASSUME Inv, Sound, [Next]_vars PROVE Sound'
<1> SUFFICES ASSUME NEW w \in Workers PROVE SoundChange(req'[w])
  BY DEF Sound, SoundChange
<1>1. Moves(w) /\ SoundChange(req[w])
  BY StepShape DEF Sound
<1> QED BY <1>1, SentinelAssumption DEF Moves, SoundChange, LoadedChange, Statuses

LEMMA StampNext ==
  ASSUME Inv, Sound, RevokedIsStamped, [Next]_vars
  PROVE  RevokedIsStamped'
<1> SUFFICES ASSUME NEW s \in SessionIds, sessions'[s] # None,
                    sessions'[s].status = "revoked"
             PROVE  sessions'[s].revoked = "set"
  <2>1. Inv'
    BY NextInv
  <2> QED BY <2>1, StoredType DEF RevokedIsStamped, Stored, Inv, TypeOK
<1>1. Writes(s)
  BY StepShape
<1>2. sessions[s] # None /\ sessions[s].status = "revoked" => sessions[s].revoked = "set"
  BY DEF RevokedIsStamped, Stored, Inv, TypeOK
<1>3. CASE sessions'[s] = FlushSession(sessions[s], StopChange(sessions[s])) /\ sessions[s] # None
  BY <1>2, <1>3, SentinelAssumption
     DEF FlushSession, StopChange, NoSessionChange, Assign, Written
<1>4. ASSUME sessions[s] # None, NEW w \in Workers, NEW c \in SessionChange,
             sessions'[s] = FlushSession(sessions[s], c),
             \/ c.status = Keep /\ c.revoked = Keep
             \/ c.status = req[w].change.status /\ c.revoked = req[w].change.revoked
      PROVE  sessions'[s].revoked = "set"
  <2>1. c.revoked \in {Keep, "set"} /\ (c.status = "revoked" => c.revoked = "set")
    BY <1>4, SentinelAssumption DEF Sound, SoundChange, Statuses
  <2> QED BY <1>2, <1>4, <2>1, KeepIsNoValue DEF FlushSession, Written
<1> QED BY <1>1, <1>2, <1>3, <1>4 DEF Writes

\* A row that says "revoked" carries its revoked_at, whatever requests overlapped.
THEOREM RevocationIsStamped == Spec => []RevokedIsStamped
<1>1. RevocationInv /\ [Next]_vars => RevocationInv'
  BY NextInv, SoundNext, StampNext DEF RevocationInv
<1>2. RevocationInv => RevokedIsStamped
  BY DEF RevocationInv
<1> QED BY <1>1, <1>2, RevocationInit, PTL DEF Spec

LEMMA SettledNext ==
  ASSUME Inv, Sound, [Next]_vars, NEW s \in SessionIds, Settled(s)
  PROVE  Settled(s)'
<1>0. sessions[s] # None /\ sessions[s].status = "revoked"
  BY DEF Settled
<1>1. Writes(s)
  BY StepShape
<1>2. sessions'[s] # None /\ sessions'[s].status = "revoked"
  <2>1. ASSUME sessions'[s] = FlushSession(sessions[s], StopChange(sessions[s]))
        PROVE  sessions'[s].status = "revoked"
    BY <1>0, <2>1 DEF FlushSession, StopChange, NoSessionChange, Written
  <2>2. ASSUME NEW w \in Workers, NEW c \in SessionChange, req[w].session = s,
               sessions'[s] = FlushSession(sessions[s], c),
               \/ c.status = Keep
               \/ /\ c.status = req[w].change.status
                  /\ Pending(w) \/ req[w].stage = "media"
        PROVE  sessions'[s].status = "revoked"
    <3>1. c.status \in {Keep, "revoked"}
      BY <2>2 DEF Settled, Sound, SoundChange
    <3> QED BY <1>0, <2>2, <3>1 DEF FlushSession, Written
  <2>3. sessions'[s].status = "revoked"
    BY <1>0, <1>1, <2>1, <2>2 DEF Writes
  <2>4. sessions'[s] # None
    <3>1. \A row, c : FlushSession(row, c) \in SessionRow => FlushSession(row, c) # None
      BY SentinelAssumption
    <3>2. sessions[s] \in SessionRow
      BY <1>0 DEF Inv, TypeOK
    <3>3. StopChange(sessions[s]) \in SessionChange
      BY <3>2 DEF StopChange, SessionRow, SessionChange, NoSessionChange, Assign, Statuses, Stamps
    <3> QED BY <1>0, <1>1, <3>1, <3>2, <3>3, FlushSessionType DEF Writes
  <2> QED BY <2>3, <2>4
<1>3. ASSUME NEW w \in Workers, req'[w].stage = "commit", req'[w].session = s
      PROVE  req'[w].change.status \in {Keep, "revoked"}
  <2>1. Moves(w)
    BY StepShape
  <2>2. CASE req'[w] = req[w]
    BY <1>3, <2>2 DEF Settled, Pending
  <2> QED BY <1>0, <1>3, <2>1, <2>2 DEF Moves, LoadedChange
<1> QED BY <1>2, <1>3 DEF Settled, Pending

\* Once the requests that were in flight are over, nothing undoes a revocation.
THEOREM SettledRevocationIsFinal == Spec => SettledForever
<1>1. RevocationInv /\ [Next]_vars =>
        RevocationInv' /\ \A s \in SessionIds : Settled(s) => Settled(s)'
  BY NextInv, SoundNext, StampNext, SettledNext DEF RevocationInv
<1>2. RevocationInv /\ [Next]_vars =>
        [\A s \in SessionIds : Settled(s) => Settled(s)']_vars
  BY <1>1
<1> QED BY <1>1, <1>2, RevocationInit, PTL DEF Spec, SettledForever
=============================================================================
