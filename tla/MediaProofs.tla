---------------------------- MODULE MediaProofs ----------------------------
(***************************************************************************)
(* Theorems about MediaControl, for every value of the constants.          *)
(*                                                                         *)
(* MediaInv - types, and that whoever calls the media plane knows what     *)
(* about.  RestoreInv - what a reconciliation has provided for so far, in  *)
(* any execution.  PlaneInv - where requests for one key do not overlap:   *)
(* which session a request is about (SerialInv), and so who provides for   *)
(* each live session (ServedInv), that its stream is active (ActiveInv),   *)
(* and who releases each path that no session owns any more (LeakInv).     *)
(***************************************************************************)
EXTENDS MediaControl, TableProofs

(* The media plane does not disturb the database: what was proved of the   *)
(* control plane alone holds of it here.                                   *)

\* An exception in a media call ends the request, or the reconciliation.
LEMMA RaiseIsStep ==
  ASSUME NEW a \in Agents, Raise(a)
  PROVE  [Next]_vars
BY DEF Raise, Agents, Next, Return

\* The thread of a transcoder does not start.
LEMMA ThreadIsStep ==
  ASSUME NEW a \in Agents, ThreadFails(a)
  PROVE  [Next]_vars
<1>1. CASE a = Startup BY <1>1 DEF ThreadFails
<1>2. CASE a # Startup BY <1>2 DEF ThreadFails, Agents, Next, Return
<1>3. QED BY <1>1, <1>2

LEMMA MediaStepIsStep ==
  ASSUME [MediaNext]_mediaVars
  PROVE  [Next]_vars
<1>1. ASSUME NEW a \in Agents, MediaCall(a) PROVE [Next]_vars
  BY <1>1, RaiseIsStep
     DEF MediaCall, StartTranscoder, StopTranscoder, DeleteAlias, AddAlias, AddRefused,
         JoinUnstarted, Proceed
<1>2. CASE StartupStep
  BY <1>1, <1>2 DEF StartupStep, RestoreNext, RestoreAborts, Restart, RestoreDone, Agents
<1>3. ASSUME NEW w \in Workers, WorkerStep(w) PROVE [Next]_vars
  BY <1>1, <1>3 DEF WorkerStep, Continue, Respond, Next, Agents
<1>4. CASE CrashProcess BY <1>4 DEF CrashProcess, Next
<1>5. CASE CrashMediaMTX BY <1>5 DEF CrashMediaMTX
<1>6. ASSUME NEW w \in Workers, Arrive(w) PROVE [Next]_vars BY <1>6 DEF Arrive, Next
<1>7. ASSUME NEW a \in Agents, StopTranscoderRaises(a) \/ ThreadFails(a) \/ CallFails(a)
      PROVE  [Next]_vars
  BY <1>7, RaiseIsStep, ThreadIsStep DEF StopTranscoderRaises, CallFails
<1>8. CASE UNCHANGED mediaVars BY <1>8 DEF mediaVars, vars
<1>9. QED BY <1>2, <1>3, <1>4, <1>5, <1>6, <1>7, <1>8 DEF MediaNext

\* Every execution of the control plane with its media plane is one of the
\* control plane.
THEOREM MediaRefinesControl == MediaSpec => Spec
<1>1. MediaInit => Init BY DEF MediaInit
<1>2. [MediaNext]_mediaVars => [Next]_vars BY MediaStepIsStep
<1>3. QED BY <1>1, <1>2, PTL DEF MediaSpec, Spec

---------------------------------------------------------------------------
(* How the control plane moves a request                                   *)

\* A step of one worker leaves the requests of the others alone.
LEMMA OneRequest ==
  ASSUME TypeOK, NEW w \in Workers, Receive(w) \/ DatabaseStep(w) \/ Return(w)
  PROVE  \E r : req' = [req EXCEPT ![w] = r]
<1>1. req = [req EXCEPT ![w] = req[w]] BY DEF TypeOK
<1>2. CASE Receive(w)
  BY <1>1, <1>2 DEF Receive, LookupForPublish, LoadForStop, CreateSession, LoadForRotate, LoadForRevoke,
                    LoadForBind, LoadSession, CreateStream, LoadForUpdate
<1>3. CASE DatabaseStep(w)
  BY <1>3 DEF DatabaseStep, AutoRegister, LoadForStart, DenyStart, CommitStart, CommitStop,
              StopUnknown, CommitSession, CommitUpdate, DatabaseError
<1>4. CASE Return(w) BY <1>4 DEF Return, Finish, FinishIgnoredStop
<1>5. QED BY <1>2, <1>3, <1>4

\* No request that has just arrived has media calls to make.
LEMMA ArrivedCalls ==
  ASSUME TypeOK, NEW w \in Workers, Receive(w)
  PROVE  CallsOf(req'[w]) = <<>>
<1> USE DEF CallsOf
<1>1. Idle.stage = "idle" BY DEF Idle
<1>2. ASSUME NEW k \in Keys, LookupForPublish(w, k) PROVE req'[w].stage # "media"
  BY <1>2 DEF LookupForPublish, TypeOK, Idle
<1>3. ASSUME NEW k \in Keys, LoadForStop(w, k) PROVE req'[w].stage # "media"
  BY <1>3 DEF LoadForStop, TypeOK, Idle
<1>4. ASSUME NEW k \in Keys, NEW t \in StreamIds \cup {None}, CreateSession(w, k, t)
      PROVE  req'[w].stage # "media"
  BY <1>1, <1>4 DEF CreateSession, Accepts
<1>5. ASSUME NEW op, NEW s, NEW c, LoadSession(w, op, s, c) PROVE req'[w].stage # "media"
  BY <1>5 DEF LoadSession, TypeOK, Idle
<1>6. ASSUME NEW p, NEW v, NEW s, CreateStream(w, p, v, s) PROVE req'[w].stage # "media"
  BY <1>1, <1>6 DEF CreateStream, Accepts
<1>7. ASSUME NEW t \in StreamIds, NEW patch \in Patches, LoadForUpdate(w, t, patch)
      PROVE  req'[w].stage # "media"
  BY <1>7 DEF LoadForUpdate, TypeOK, Idle
<1>8. req'[w].stage # "media"
  BY <1>2, <1>3, <1>4, <1>5, <1>6, <1>7 DEF Receive, LoadForRotate, LoadForRevoke, LoadForBind
<1>9. QED BY <1>8

\* A request has media calls once its commit is over, and they have a target.
LEMMA ContinuedCalls ==
  ASSUME Inv, NEW w \in Workers, DatabaseStep(w), CallsOf(req'[w]) # <<>>
  PROVE  /\ req'[w].stage = "media" /\ req'[w].op \in {"start", "stop"}
         /\ req'[w].path \in Paths /\ req'[w].key \in Keys
<1> DEFINE r == req[w]
<1>1. r \in Request /\ RequestShape(r) /\ RequestReferences(r) /\ req \in [Workers -> Request]
  BY DEF Inv, TypeOK, ReferencesExist
<1>2. req'[w].stage = "media" BY DEF CallsOf
<1>3. CASE AutoRegister(w)
  <2>1. req'[w].stage = "mark" BY <1>1, <1>3 DEF AutoRegister, Request
  <2>2. QED BY <1>2, <2>1
<1>4. CASE LoadForStart(w)
  <2>1. PICK s \in WithKey(r.key) : \E t \in Resolved(s) :
          req' = [req EXCEPT ![w] = [r EXCEPT
                    !.stage = "commit", !.session = s, !.stream = t,
                    !.change = StartChange(sessions[s], t),
                    !.streamChange = IF t = None THEN NoStreamChange
                                     ELSE StartStreamChange(streams[t], s)]]
    BY <1>4 DEF LoadForStart
  <2>2. req'[w].stage = "commit" BY <1>1, <2>1 DEF Request
  <2>3. QED BY <1>2, <2>2
<1>5. CASE DenyStart(w) \/ CommitSession(w) \/ CommitUpdate(w) \/ DatabaseError(w)
  BY <1>1, <1>2, <1>5 DEF DenyStart, CommitSession, CommitUpdate, DatabaseError, Idle
<1>6. CASE CommitStart(w)
  <2>1. r.op = "start" /\ r.key \in Keys /\ r.session \in SessionIds
    BY <1>1, <1>6, StoredType DEF CommitStart, RequestShape, RequestReferences, Inv
  <2>2. PICK t \in StreamIds :
          /\ WritesStream(r, t)
          /\ req' = [req EXCEPT ![w] = [Idle EXCEPT !.stage = "media", !.op = "start",
                                                   !.key = r.key, !.path = streams'[t].path]]
    BY <1>6 DEF CommitStart
  <2>3. r.stream # None => streams[r.stream] \in StreamRow
    BY <1>1, StoredType DEF RequestReferences, Inv
  <2>4. streams'[t] \in StreamRow BY <1>1, <2>1, <2>2, <2>3, WritesStreamType DEF Inv
  <2>5. streams'[t].path \in Paths BY <2>4 DEF StreamRow
  <2>6. /\ req'[w].op = "start" /\ req'[w].key = r.key /\ req'[w].path = streams'[t].path
    BY <1>1, <2>2 DEF Idle
  <2>7. QED BY <1>2, <2>1, <2>5, <2>6
<1>7. CASE CommitStop(w)
  <2>1. r.op = "stop" /\ r.key \in Keys BY <1>1, <1>7 DEF CommitStop, RequestShape
  <2>2. req'[w].op = "stop" /\ req'[w].key = r.key /\ req'[w].path = r.path
    BY <1>1, <1>7 DEF CommitStop, Idle
  <2>3. r.path # None BY <1>2, <2>2 DEF CallsOf, StopCalls
  <2>4. QED BY <1>1, <1>2, <2>1, <2>2, <2>3 DEF Request
<1>8. CASE StopUnknown(w)
  <2>1. r.op = "stop" /\ r.key \in Keys BY <1>1, <1>8 DEF StopUnknown, RequestShape
  <2>2. req'[w].op = "stop" /\ req'[w].key = r.key /\ req'[w].path = r.path
    BY <1>1, <1>8, <2>1 DEF StopUnknown, ResolveOnly, Request
  <2>3. r.path # None BY <1>2, <2>2 DEF CallsOf, StopCalls
  <2>4. QED BY <1>1, <1>2, <2>1, <2>2, <2>3 DEF Request
<1>9. QED BY <1>3, <1>4, <1>5, <1>6, <1>7, <1>8 DEF DatabaseStep

---------------------------------------------------------------------------
(* Types                                                                   *)

Typed == MediaTypeOK /\ Inv

LEMMA CallsType ==
  /\ StartCalls \in Seq(CallNames)
  /\ \A p : StopCalls(p) \in Seq(CallNames)
  /\ \A r : CallsOf(r) \in Seq(CallNames)
<1>1. <<>> \in Seq(CallNames) OBVIOUS
<1>2. <<"delete", "add">> \in Seq(CallNames) /\ <<"start_transcoder", "delete", "add">> \in Seq(CallNames)
  BY DEF CallNames
<1>3. <<"stop_transcoder", "delete">> \in Seq(CallNames) BY DEF CallNames
<1>4. QED BY <1>1, <1>2, <1>3 DEF CallsOf, StartCalls, StopCalls

\* Who has a call due has a path and a key for it.
LEMMA TargetType ==
  ASSUME MediaTypeOK, NEW a \in Agents, calls[a] # <<>>
  PROVE  /\ Target(a).path \in Paths /\ Target(a).key \in Keys
         /\ AliasSource(Target(a).key) \in Keys \cup {Transcoded}
         /\ Tail(calls[a]) \in Seq(CallNames)
<1>1. Target(a).path # None /\ Target(a).key # None BY DEF MediaTypeOK
<1>2. Target(a).path \in Paths \cup {None} /\ Target(a).key \in Keys \cup {None}
  BY DEF Target, Agents, MediaTypeOK, TypeOK, Request, Boot
<1>3. calls[a] \in Seq(CallNames) BY DEF MediaTypeOK
<1>4. QED BY <1>1, <1>2, <1>3 DEF AliasSource

LEMMA FaultType ==
  ASSUME MediaTypeOK, NEW k, Fault(k)
  PROVE  /\ faults' \in Seq(Faults) /\ faults' # <<>>
         /\ Unfailing' => Unfailing /\ k = "process"
<1>1. /\ k \in Faults /\ faults' = Append(faults, k)
      /\ faults \in Seq(Faults)
  BY DEF MediaTypeOK, Fault
<1>2. faults' \in Seq(Faults) /\ Len(faults') = Len(faults) + 1 BY <1>1
<1>3. faults'[Len(faults')] = k BY <1>1, <1>2
<1>4. \A i \in 1..Len(faults) : faults'[i] = faults[i] BY <1>1
<1>5. DOMAIN faults' = 1..Len(faults') /\ DOMAIN faults = 1..Len(faults) BY <1>1, <1>2
<1>6. Len(faults) \in Nat BY <1>1
<1>7. Len(faults') \in DOMAIN faults' /\ DOMAIN faults \subseteq DOMAIN faults'
  BY <1>2, <1>5, <1>6
<1>8. Unfailing' => k = "process" BY <1>3, <1>7 DEF Unfailing
<1>9. Unfailing' => Unfailing BY <1>4, <1>5, <1>7 DEF Unfailing
<1>10. QED BY <1>2, <1>6, <1>8, <1>9

\* The calls that are due are well formed, and know what they are about.
CallsOK ==
  /\ calls \in [Agents -> Seq(CallNames)]
  /\ \A a \in Agents : calls[a] # <<>> => Target(a).path # None /\ Target(a).key # None
  /\ \A w \in Workers : calls[w] # <<>> => req[w].stage = "media"

LEMMA MovedCalls ==
  ASSUME Typed, NEW w \in Workers, NEW r, req' = [req EXCEPT ![w] = r],
         NEW c \in Seq(CallNames), calls' = [calls EXCEPT ![w] = c], UNCHANGED boot,
         c # <<>> => r.path # None /\ r.key # None /\ r.stage = "media"
  PROVE  CallsOK'
<1>1. /\ calls \in [Agents -> Seq(CallNames)] /\ req \in [Workers -> Request]
      /\ \A a \in Agents : calls[a] # <<>> => Target(a).path # None /\ Target(a).key # None
      /\ \A v \in Workers : calls[v] # <<>> => req[v].stage = "media"
      /\ w \in Agents /\ w # Startup
  BY MediaAssumption DEF Typed, MediaTypeOK, TypeOK, Agents
<1>2. calls' \in [Agents -> Seq(CallNames)] BY <1>1
<1>3. calls'[w] = c /\ req'[w] = r BY <1>1
<1>4. \A a \in Agents \ {w} : calls'[a] = calls[a] BY <1>1
<1>5. \A v \in Workers \ {w} : req'[v] = req[v] BY <1>1
<1>6. ASSUME NEW a \in Agents, calls'[a] # <<>>
      PROVE  Target(a)'.path # None /\ Target(a)'.key # None
  BY <1>1, <1>3, <1>4, <1>5, <1>6 DEF Target, Agents
<1>7. \A v \in Workers : calls'[v] # <<>> => req'[v].stage = "media"
  BY <1>1, <1>3, <1>4, <1>5 DEF Agents
<1>8. QED BY <1>2, <1>6, <1>7 DEF CallsOK

LEMMA ProceedCalls ==
  ASSUME Typed, NEW a \in Agents, calls[a] # <<>>, Proceed(a)
  PROVE  CallsOK' /\ UNCHANGED <<boot, faults>>
<1>1. /\ calls \in [Agents -> Seq(CallNames)]
      /\ \A b \in Agents : calls[b] # <<>> => Target(b).path # None /\ Target(b).key # None
      /\ \A v \in Workers : calls[v] # <<>> => req[v].stage = "media"
  BY DEF Typed, MediaTypeOK
<1>2. Tail(calls[a]) \in Seq(CallNames) BY TargetType DEF Typed
<1>3. calls' = [calls EXCEPT ![a] = Tail(calls[a])] /\ UNCHANGED <<vars, boot, faults>>
  BY DEF Proceed
<1>4. calls' \in [Agents -> Seq(CallNames)] BY <1>1, <1>2, <1>3
<1>5. \A b \in Agents : calls'[b] # <<>> => calls[b] # <<>> BY <1>1, <1>3
<1>6. \A b \in Agents : Target(b)' = Target(b) BY <1>3 DEF Target, vars
<1>7. req' = req BY <1>3 DEF vars
<1>8. QED BY <1>1, <1>3, <1>4, <1>5, <1>6, <1>7 DEF CallsOK, Agents

LEMMA RaiseCalls ==
  ASSUME Typed, NEW a \in Agents, Raise(a)
  PROVE  CallsOK' /\ boot' \in Boot
<1>1. <<>> \in Seq(CallNames) OBVIOUS
<1>2. CASE a = Startup
  <2>1. /\ calls \in [Agents -> Seq(CallNames)]
        /\ \A b \in Agents : calls[b] # <<>> => Target(b).path # None /\ Target(b).key # None
        /\ \A v \in Workers : calls[v] # <<>> => req[v].stage = "media"
    BY DEF Typed, MediaTypeOK
  <2>2. calls' = [calls EXCEPT ![Startup] = <<>>] /\ req' = req /\ boot' = Up
    BY <1>2 DEF Raise, vars
  <2>3. calls' \in [Agents -> Seq(CallNames)] BY <1>1, <2>1, <2>2
  <2>4. \A b \in Agents : calls'[b] # <<>> => b # Startup /\ calls[b] # <<>>
    BY <2>1, <2>2 DEF Agents
  <2>5. \A b \in Agents : b # Startup => Target(b)' = Target(b) BY <2>2 DEF Target
  <2>6. Up \in Boot BY DEF Up, Boot
  <2>7. QED BY <2>1, <2>2, <2>3, <2>4, <2>5, <2>6 DEF CallsOK, Agents
<1>3. CASE a # Startup
  <2>1. a \in Workers BY <1>3 DEF Agents
  <2>2. req' = [req EXCEPT ![a] = Idle] /\ calls' = [calls EXCEPT ![a] = <<>>] /\ UNCHANGED boot
    BY <1>3 DEF Raise, Finish
  <2>3. QED BY <1>1, <2>1, <2>2, MovedCalls DEF Typed, MediaTypeOK
<1>4. QED BY <1>2, <1>3

LEMMA ThreadCalls ==
  ASSUME Typed, NEW a \in Agents, ThreadFails(a)
  PROVE  CallsOK' /\ boot' \in Boot
<1>1. <<>> \in Seq(CallNames) /\ calls' = [calls EXCEPT ![a] = <<>>] BY DEF ThreadFails
<1>2. CASE a = Startup
  <2>1. req' = req /\ boot' = Down BY <1>2 DEF ThreadFails, StartupFails, vars
  <2>2. /\ calls \in [Agents -> Seq(CallNames)]
        /\ \A b \in Agents : calls[b] # <<>> => Target(b).path # None /\ Target(b).key # None
        /\ \A v \in Workers : calls[v] # <<>> => req[v].stage = "media"
    BY DEF Typed, MediaTypeOK
  <2>3. calls' \in [Agents -> Seq(CallNames)] BY <1>1, <2>2
  <2>4. \A b \in Agents : calls'[b] # <<>> => b # Startup /\ calls[b] # <<>>
    BY <1>1, <1>2, <2>2
  <2>5. \A b \in Agents : b # Startup => Target(b)' = Target(b) BY <2>1 DEF Target
  <2>6. Down \in Boot BY DEF Up, Down, Boot
  <2>7. QED BY <2>1, <2>2, <2>3, <2>4, <2>5, <2>6 DEF CallsOK, Agents
<1>3. CASE a # Startup
  <2>1. a \in Workers BY <1>3 DEF Agents
  <2>2. req' = [req EXCEPT ![a] = Idle] /\ UNCHANGED boot BY <1>3 DEF ThreadFails, Finish
  <2>3. QED BY <1>1, <2>1, <2>2, MovedCalls DEF Typed, MediaTypeOK
<1>4. QED BY <1>2, <1>3

PlaneOK ==
  /\ transcode \in BOOLEAN
  /\ transcoders \in [Paths -> Keys \cup {Unstarted, None}]
  /\ alias \in [Paths -> Keys \cup {Transcoded, None}]
  /\ boot \in Boot /\ faults \in Seq(Faults)

LEMMA MediaTypeParts == MediaTypeOK <=> TypeOK /\ PlaneOK /\ CallsOK
BY DEF MediaTypeOK, PlaneOK, CallsOK

\* What a call does to the plane keeps it well typed.
LEMMA PlaneUpdates ==
  ASSUME Typed, NEW a \in Agents, calls[a] # <<>>
  PROVE  /\ [transcoders EXCEPT ![Target(a).path] = None] \in [Paths -> Keys \cup {Unstarted, None}]
         /\ [transcoders EXCEPT ![Target(a).path] = Unstarted]
              \in [Paths -> Keys \cup {Unstarted, None}]
         /\ [transcoders EXCEPT ![Target(a).path] = IF @ = None THEN Target(a).key ELSE @]
              \in [Paths -> Keys \cup {Unstarted, None}]
         /\ Deleted(a) \in [Paths -> Keys \cup {Transcoded, None}]
         /\ Added(a) \in [Paths -> Keys \cup {Transcoded, None}]
<1>1. /\ Target(a).path \in Paths /\ Target(a).key \in Keys
      /\ AliasSource(Target(a).key) \in Keys \cup {Transcoded}
      /\ transcoders \in [Paths -> Keys \cup {Unstarted, None}]
      /\ alias \in [Paths -> Keys \cup {Transcoded, None}]
  BY TargetType DEF Typed, MediaTypeOK
<1>2. /\ Deleted(a) \in [Paths -> Keys \cup {Transcoded, None}]
      /\ Added(a) \in [Paths -> Keys \cup {Transcoded, None}]
  BY <1>1 DEF Deleted, Added
<1>3. QED BY <1>1, <1>2

LEMMA CallTypes ==
  ASSUME Typed, NEW a \in Agents, UNCHANGED transcode,
         MediaCall(a) \/ StopTranscoderRaises(a) \/ ThreadFails(a) \/ CallFails(a)
  PROVE  PlaneOK' /\ CallsOK'
<1>1. PlaneOK /\ CallsOK BY DEF Typed, PlaneOK, MediaTypeOK, CallsOK
<1>2. calls[a] # <<>>
  BY DEF MediaCall, StartTranscoder, StopTranscoder, DeleteAlias, AddAlias, AddRefused,
         JoinUnstarted, StopTranscoderRaises, ThreadFails, CallFails, Due
<1>3. ASSUME Proceed(a) PROVE CallsOK' /\ UNCHANGED <<boot, faults>>
  BY <1>2, <1>3, ProceedCalls
<1>4. ASSUME Raise(a) PROVE CallsOK' /\ boot' \in Boot BY <1>4, RaiseCalls
<1>5. ASSUME NEW k, Fault(k) PROVE faults' \in Seq(Faults)
  BY <1>5, FaultType DEF Typed
<1>6. CASE StartTranscoder(a)
  BY <1>1, <1>2, <1>3, <1>6, PlaneUpdates DEF StartTranscoder, PlaneOK
<1>7. CASE StopTranscoder(a)
  BY <1>1, <1>2, <1>3, <1>7, PlaneUpdates DEF StopTranscoder, PlaneOK
<1>8. CASE DeleteAlias(a)
  BY <1>1, <1>2, <1>3, <1>8, PlaneUpdates DEF DeleteAlias, PlaneOK
<1>9. CASE AddAlias(a)
  BY <1>1, <1>2, <1>3, <1>9, PlaneUpdates DEF AddAlias, PlaneOK
<1>10. CASE AddRefused(a)
  BY <1>1, <1>4, <1>10 DEF AddRefused, PlaneOK, plane
<1>11. CASE StopTranscoderRaises(a)
  BY <1>1, <1>2, <1>4, <1>5, <1>11, PlaneUpdates DEF StopTranscoderRaises, PlaneOK
<1>12. CASE CallFails(a)
  BY <1>1, <1>2, <1>4, <1>5, <1>12, PlaneUpdates DEF CallFails, PlaneOK
<1>13. CASE JoinUnstarted(a)
  BY <1>1, <1>2, <1>4, <1>13, PlaneUpdates DEF JoinUnstarted, PlaneOK
<1>14. CASE ThreadFails(a)
  <2>1. CallsOK' /\ boot' \in Boot BY <1>14, ThreadCalls
  <2>2. transcoders' \in [Paths -> Keys \cup {Unstarted, None}]
    <3>1. CASE a = Startup BY <1>14, <3>1 DEF ThreadFails, StartupFails
    <3>2. CASE a # Startup BY <1>2, <1>14, <3>2, PlaneUpdates DEF ThreadFails
    <3>3. QED BY <3>1, <3>2
  <2>3. faults' \in Seq(Faults) /\ UNCHANGED alias BY <1>5, <1>14 DEF ThreadFails
  <2>4. QED BY <1>1, <2>1, <2>2, <2>3 DEF PlaneOK
<1>15. QED
  BY <1>6, <1>7, <1>8, <1>9, <1>10, <1>11, <1>12, <1>13, <1>14 DEF MediaCall

LEMMA WorkerTypes ==
  ASSUME Typed, NEW w \in Workers, UNCHANGED transcode, Arrive(w) \/ Continue(w) \/ Respond(w)
  PROVE  PlaneOK' /\ CallsOK'
<1>1. PlaneOK /\ CallsOK /\ TypeOK BY DEF Typed, PlaneOK, MediaTypeOK, CallsOK
<1>2. PlaneOK' BY <1>1 DEF PlaneOK, Arrive, Continue, Respond, plane
<1>3. PICK r : req' = [req EXCEPT ![w] = r]
  BY <1>1, OneRequest DEF Arrive, Continue, Respond
<1>4. req'[w] = r BY <1>1, <1>3 DEF TypeOK
<1>5. calls = [calls EXCEPT ![w] = calls[w]] BY <1>1 DEF CallsOK
<1>6. CallsOf(r) \in Seq(CallNames) /\ <<>> \in Seq(CallNames) BY CallsType
<1>7. CASE Arrive(w)
  BY <1>1, <1>2, <1>3, <1>4, <1>6, <1>7, ArrivedCalls, MovedCalls DEF Arrive
<1>8. CASE Continue(w)
  <2>1. CallsOf(r) # <<>> => r.stage = "media" /\ r.path \in Paths /\ r.key \in Keys
    BY <1>4, <1>8, ContinuedCalls DEF Continue, Typed
  <2>2. calls' = [calls EXCEPT ![w] = CallsOf(r)] /\ UNCHANGED boot
    BY <1>4, <1>8 DEF Continue
  <2>3. QED BY <1>2, <1>3, <1>6, <2>1, <2>2, MovedCalls, SentinelAssumption
<1>9. CASE Respond(w)
  <2>1. calls' = [calls EXCEPT ![w] = <<>>] /\ UNCHANGED boot BY <1>5, <1>9 DEF Respond
  <2>2. QED BY <1>2, <1>3, <1>6, <2>1, MovedCalls
<1>10. QED BY <1>7, <1>8, <1>9

\* What the reconciliation works on: a path of a stream, a key of a session.
LEMMA RestoreTarget ==
  ASSUME Typed, NEW s \in boot.left, s \in Stored(sessions), NEW t \in Resolved(s)
  PROVE  /\ sessions[s].key \in Keys
         /\ (IF t = None THEN AutoPath[s] ELSE streams[t].path) \in Paths
<1>1. s \in SessionIds /\ sessions[s] \in SessionRow
  BY StoredType DEF Typed, MediaTypeOK
<1>2. t \in Stored(streams) \cup {None}
  BY StoredType DEF Resolved, Typed, Inv, ReferencesExist
<1>3. t # None => streams[t] \in StreamRow BY <1>2, StoredType DEF Typed, MediaTypeOK
<1>4. QED BY <1>1, <1>3, ConstantsAssumption DEF SessionRow, StreamRow

LEMMA LiveType == TypeOK => LiveSessions \subseteq SessionIds /\ Up \in Boot /\ Restoring \in Boot
BY DEF TypeOK, LiveSessions, Stored, Up, Restoring, Boot

\* Types, the rows, and that the reconciliation works through rows that exist.
StartupOK ==
  /\ boot.left \subseteq Stored(sessions)
  /\ calls[Startup] # <<>> => boot.stage = "restore"

MediaInv == Typed /\ RowInv /\ StartupOK

LEMMA StoredStays ==
  ASSUME MediaInv, [MediaNext]_mediaVars
  PROVE  Stored(sessions) \subseteq Stored(sessions')
<1>1. [Next]_vars /\ TypeOK BY MediaStepIsStep DEF MediaInv, Typed, MediaTypeOK
<1>2. TypeOK' BY <1>1, NextInv DEF MediaInv, Typed, Inv
<1>3. ASSUME NEW s \in Stored(sessions) PROVE s \in Stored(sessions')
  <2>1. s \in SessionIds BY <1>1, StoredType
  <2>2. sessions'[s] # None BY <1>1, <2>1, StoredGrows DEF MediaInv
  <2>3. QED BY <1>2, <2>1, <2>2 DEF Stored, TypeOK
<1>4. QED BY <1>3

LEMMA InitMediaInv == MediaInit => MediaInv
<1> SUFFICES ASSUME MediaInit PROVE MediaInv OBVIOUS
<1>1. Init /\ RowInv /\ Inv BY InitRowInv DEF MediaInit, RowInv
<1>2. <<>> \in Seq(CallNames) /\ <<>> \in Seq(Faults) OBVIOUS
<1>3. PlaneOK BY <1>2, LiveType, <1>1 DEF MediaInit, PlaneOK, Inv
<1>4. CallsOK
  <2>1. calls = [a \in Agents |-> <<>>] BY DEF MediaInit
  <2>2. QED BY <1>2, <2>1 DEF CallsOK, Agents
<1>5. StartupOK BY DEF MediaInit, Up, StartupOK, Agents
<1>6. QED BY <1>1, <1>3, <1>4, <1>5, MediaTypeParts DEF MediaInv, Typed, Inv

LEMMA BootCalls ==
  ASSUME Typed, UNCHANGED req, NEW c \in Seq(CallNames), calls' = [calls EXCEPT ![Startup] = c],
         c # <<>> => boot'.path # None /\ boot'.key # None
  PROVE  CallsOK'
<1>1. /\ calls \in [Agents -> Seq(CallNames)] /\ Startup \in Agents
      /\ \A a \in Agents : calls[a] # <<>> => Target(a).path # None /\ Target(a).key # None
      /\ \A v \in Workers : calls[v] # <<>> => req[v].stage = "media"
  BY DEF Typed, MediaTypeOK, Agents
<1>2. calls' \in [Agents -> Seq(CallNames)] /\ calls'[Startup] = c BY <1>1
<1>3. \A a \in Agents \ {Startup} : calls'[a] = calls[a] /\ Target(a)' = Target(a)
  BY <1>1 DEF Target
<1>4. Target(Startup)' = boot' BY DEF Target
<1>5. \A v \in Workers : v # Startup /\ v \in Agents BY MediaAssumption DEF Agents
<1>6. QED BY <1>1, <1>2, <1>3, <1>4, <1>5 DEF CallsOK

LEMMA RestartTypes ==
  ASSUME MediaInv, calls' = [a \in Agents |-> <<>>], boot' \in Boot, transcode' \in BOOLEAN,
         faults' \in Seq(Faults), UNCHANGED alias,
         transcoders' = [p \in Paths |-> None]
  PROVE  PlaneOK' /\ CallsOK'
<1>1. <<>> \in Seq(CallNames) OBVIOUS
<1>2. CallsOK' BY <1>1 DEF CallsOK, Agents
<1>3. PlaneOK' BY DEF PlaneOK, MediaInv, Typed, MediaTypeOK
<1>4. QED BY <1>2, <1>3

LEMMA NextMediaInv == MediaInv /\ [MediaNext]_mediaVars => MediaInv'
<1> SUFFICES ASSUME MediaInv, [MediaNext]_mediaVars PROVE MediaInv' OBVIOUS
<1>1. /\ Typed /\ RowInv /\ StartupOK /\ boot.left \subseteq Stored(sessions)
      /\ PlaneOK /\ CallsOK /\ TypeOK /\ LiveSessions \subseteq Stored(sessions)
  BY MediaTypeParts DEF MediaInv, Typed, LiveSessions, StartupOK
<1>2. RowInv' /\ TypeOK' BY MediaStepIsStep, NextRowInv, <1>1 DEF RowInv, Inv
<1>3. Stored(sessions) \subseteq Stored(sessions)' BY StoredStays
<1>4. /\ Up \in Boot /\ Restoring \in Boot /\ Down \in Boot
      /\ Up.left = {} /\ Restoring.left = LiveSessions /\ Down.left = {}
  BY <1>1, LiveType DEF Up, Restoring, Down, Boot
<1> DEFINE Goal == PlaneOK' /\ CallsOK' /\ StartupOK'
<1>5. ASSUME NEW a \in Agents, UNCHANGED transcode,
             MediaCall(a) \/ StopTranscoderRaises(a) \/ ThreadFails(a) \/ CallFails(a)
      PROVE  Goal
  <2>1. PlaneOK' /\ CallsOK' BY <1>1, <1>5, CallTypes
  <2>2. Proceed(a) \/ Raise(a) \/ ThreadFails(a)
    BY <1>5 DEF MediaCall, StartTranscoder, StopTranscoder, DeleteAlias, AddAlias, AddRefused,
                JoinUnstarted, StopTranscoderRaises, CallFails
  <2>3. calls[a] # <<>>
    BY <1>5 DEF MediaCall, StartTranscoder, StopTranscoder, DeleteAlias, AddAlias, AddRefused,
                JoinUnstarted, StopTranscoderRaises, ThreadFails, CallFails, Due
  <2>4. boot' = boot \/ (a = Startup /\ boot' \in {Up, Down})
    BY <2>2 DEF Proceed, Raise, ThreadFails, StartupFails
  <2>5. a # Startup => calls'[Startup] = calls[Startup]
    BY <1>1, <2>2 DEF Proceed, Raise, ThreadFails, Agents, CallsOK
  <2>6. a = Startup /\ boot' # boot => calls'[Startup] = <<>>
    BY <1>1, <2>2 DEF Proceed, Raise, ThreadFails, Agents, CallsOK
  <2>7. boot'.left \subseteq Stored(sessions)' BY <1>1, <1>3, <1>4, <2>4
  <2>8. calls'[Startup] # <<>> => boot'.stage = "restore"
    BY <1>1, <2>3, <2>4, <2>5, <2>6 DEF StartupOK
  <2>9. QED BY <2>1, <2>7, <2>8 DEF StartupOK
<1>6. ASSUME NEW w \in Workers, Arrive(w) \/ Continue(w) \/ Respond(w), UNCHANGED transcode
      PROVE  Goal
  <2>1. PlaneOK' /\ CallsOK' BY <1>1, <1>6, WorkerTypes
  <2>2. boot' = boot BY <1>6 DEF Arrive, Continue, Respond
  <2>3. calls'[Startup] = calls[Startup]
    BY <1>1, <1>6, MediaAssumption DEF Arrive, Continue, Respond, CallsOK, Agents
  <2>4. QED BY <1>1, <1>3, <2>1, <2>2, <2>3 DEF StartupOK
<1>7. ASSUME RestoreNext /\ UNCHANGED transcode PROVE Goal
  <2>1. PICK s \in NewestLeft : \E t \in Resolved(s) :
          boot' = [boot EXCEPT !.left = @ \ {s}, !.key = sessions[s].key,
                     !.path = IF t = None THEN AutoPath[s] ELSE streams[t].path]
    BY <1>7 DEF RestoreNext
  <2>2. PICK t \in Resolved(s) :
          boot' = [boot EXCEPT !.left = @ \ {s}, !.key = sessions[s].key,
                     !.path = IF t = None THEN AutoPath[s] ELSE streams[t].path]
    BY <2>1
  <2>3. s \in boot.left /\ s \in Stored(sessions) BY <1>1 DEF NewestLeft
  <2>4. /\ sessions[s].key \in Keys
        /\ (IF t = None THEN AutoPath[s] ELSE streams[t].path) \in Paths
    BY <1>1, <2>3, RestoreTarget
  <2>5. /\ boot.stage = "restore" /\ calls' = [calls EXCEPT ![Startup] = StartCalls]
        /\ UNCHANGED <<sessions, streams, req, transcode, transcoders, alias, faults>>
    BY <1>7 DEF RestoreNext, Restores, vars, plane
  <2>6. boot \in Boot BY <1>1 DEF PlaneOK
  <2> DEFINE p == IF t = None THEN AutoPath[s] ELSE streams[t].path
  <2> HIDE DEF p
  <2>7. boot' = [boot EXCEPT !.left = @ \ {s}, !.key = sessions[s].key, !.path = p] /\ p \in Paths
    BY <2>2, <2>4 DEF p
  <2>8. /\ boot' \in Boot /\ boot'.stage = "restore" /\ boot'.left \subseteq boot.left
        /\ boot'.path = p /\ boot'.key = sessions[s].key
    BY <2>4, <2>5, <2>6, <2>7 DEF Boot
  <2>9. boot'.path # None /\ boot'.key # None BY <2>4, <2>7, <2>8, SentinelAssumption
  <2>10. CallsOK' BY <1>1, <2>5, <2>9, CallsType, BootCalls
  <2>11. PlaneOK' BY <1>1, <2>5, <2>8 DEF PlaneOK
  <2>12. StartupOK' BY <1>1, <2>5, <2>8 DEF StartupOK, Stored
  <2>13. QED BY <2>10, <2>11, <2>12
<1>8. ASSUME (RestoreAborts \/ Restart \/ RestoreDone) /\ UNCHANGED transcode PROVE Goal
  <2>1. /\ calls' = calls /\ UNCHANGED <<sessions, streams, req, transcode, alias, faults>>
        /\ transcoders' = transcoders \/ transcoders' = [p \in Paths |-> None]
    BY <1>8 DEF RestoreAborts, StartupFails, Restart, RestoreDone, vars, plane
  <2>2. calls[Startup] = <<>> BY <1>1, <1>8 DEF RestoreAborts, Restart, RestoreDone, Restores, StartupOK
  <2>4. boot' \in Boot /\ boot'.left \subseteq Stored(sessions)
    BY <1>1, <1>4, <1>8 DEF RestoreAborts, StartupFails, Restart, RestoreDone
  <2>5. <<>> \in Seq(CallNames) /\ calls' = [calls EXCEPT ![Startup] = <<>>]
    BY <1>1, <2>1, <2>2 DEF CallsOK
  <2>6. CallsOK' BY <1>1, <2>1, <2>5, BootCalls
  <2>7. PlaneOK' BY <1>1, <2>1, <2>4 DEF PlaneOK
  <2>8. StartupOK' BY <2>1, <2>2, <2>4 DEF StartupOK, Stored
  <2>9. QED BY <2>6, <2>7, <2>8
<1>9. ASSUME CrashProcess PROVE Goal
  <2>1. /\ calls' = [a \in Agents |-> <<>>] /\ boot' = Restoring /\ transcode' \in BOOLEAN
        /\ UNCHANGED alias /\ transcoders' = [p \in Paths |-> None] /\ Fault("process")
    BY <1>9 DEF CrashProcess
  <2>2. PlaneOK' /\ CallsOK' BY <1>1, <1>4, <2>1, FaultType, RestartTypes DEF Typed
  <2>3. calls'[Startup] = <<>> BY <2>1 DEF Agents
  <2>4. QED BY <1>1, <1>3, <1>4, <2>1, <2>2, <2>3 DEF StartupOK
<1>10. ASSUME CrashMediaMTX /\ UNCHANGED transcode PROVE Goal
  <2>1. /\ alias' = [p \in Paths |-> None] /\ Fault("mediamtx")
        /\ UNCHANGED <<sessions, streams, req, transcode, transcoders, calls, boot>>
    BY <1>10 DEF CrashMediaMTX, vars
  <2>2. faults' \in Seq(Faults) BY <1>1, <2>1, FaultType DEF Typed
  <2>3. PlaneOK' BY <1>1, <2>1, <2>2 DEF PlaneOK
  <2>4. CallsOK' /\ StartupOK' BY <1>1, <2>1 DEF CallsOK, Target, StartupOK, Stored
  <2>5. QED BY <2>3, <2>4
<1>11. ASSUME UNCHANGED mediaVars PROVE Goal
  BY <1>1, <1>11 DEF mediaVars, PlaneOK, CallsOK, StartupOK, Target, Stored
<1>12. Goal
  BY <1>5, <1>6, <1>7, <1>8, <1>9, <1>10, <1>11
     DEF MediaNext, StartupStep, WorkerStep, Agents
<1>13. MediaTypeOK' BY <1>2, <1>12 DEF MediaTypeOK, PlaneOK, CallsOK
<1>14. QED BY <1>2, <1>12, <1>13 DEF MediaInv, Typed, RowInv

\* No interleaving of requests, media calls, faults, crashes and restorations
\* leaves an ill-typed state: whoever has a media call to make knows the path and
\* the key it is about (mediamtx_hooks.py:57-118, transcoding.py:100-140).
THEOREM CallsHaveTargets == MediaSpec => []MediaTypeOK
<1>1. MediaInv => MediaTypeOK BY DEF MediaInv, Typed
<1>2. QED BY <1>1, InitMediaInv, NextMediaInv, PTL DEF MediaSpec

---------------------------------------------------------------------------
(* The restoration                                                         *)

LiveKeys == {sessions[s].key : s \in LiveSessions}

AllBound == \A s \in LiveSessions : sessions[s].stream # None

BoundPath(s) == streams[sessions[s].stream].path

\* A reader of p receives what a live session publishes.
Provided(p) ==
  \E k \in LiveKeys : alias[p] = AliasSource(k) /\ (transcode => transcoders[p] \in LiveKeys)

\* The session at hand: its calls are made in order, and no alias stands in the
\* way of the last one.
AtHand ==
  /\ calls[Startup] \in {<<>>, StartCalls, <<"delete", "add">>, <<"add">>}
  /\ calls[Startup] # <<>> => boot.key \in LiveKeys
  /\ transcode /\ calls[Startup] \in {<<"delete", "add">>, <<"add">>} =>
       transcoders[boot.path] \in LiveKeys
  /\ calls[Startup] = <<"add">> => alias[boot.path] = None

\* The sessions behind: each has its path, unless the path is being worked on or
\* the media plane has failed.
Behind ==
  boot.stage = "restore" /\ AllBound /\ Unfailing =>
    \A s \in LiveSessions \ boot.left :
      Provided(BoundPath(s)) \/ (calls[Startup] # <<>> /\ boot.path = BoundPath(s))

\* Nobody else works while the startup does, and what runs was started by it.
Alone ==
  boot.stage # "up" =>
    /\ \A w \in Workers : req[w] = Idle
    /\ boot.left \subseteq LiveSessions
    /\ \A p \in Paths : transcoders[p] \in LiveKeys \cup {None}

RestoreInv == AtHand /\ Behind /\ Alone

\* The calls of a start, and of a stop, and what is left of them after each.
LEMMA ListOrder ==
  ASSUME NEW c \in {StartCalls, <<"delete", "add">>, <<"add">>}
  PROVE  /\ c # <<>>
         /\ Head(c) = "start_transcoder" => transcode /\ Tail(c) = <<"delete", "add">>
         /\ Head(c) = "delete" => c = <<"delete", "add">> /\ Tail(c) = <<"add">>
         /\ Head(c) = "add" => c = <<"add">> /\ Tail(c) = <<>>
         /\ Head(c) # "stop_transcoder"
<1>1. \/ c = <<"start_transcoder", "delete", "add">> /\ transcode
      \/ c = <<"delete", "add">>
      \/ c = <<"add">>
  BY DEF StartCalls
<1>2. CASE c = <<"start_transcoder", "delete", "add">> /\ transcode BY <1>2
<1>3. CASE c = <<"delete", "add">> BY <1>3
<1>4. CASE c = <<"add">> BY <1>4
<1>5. QED BY <1>1, <1>2, <1>3, <1>4

LEMMA StopOrder ==
  ASSUME NEW c \in {<<"stop_transcoder", "delete">>, <<"delete">>}
  PROVE  /\ c # <<>>
         /\ Head(c) = "stop_transcoder" => Tail(c) = <<"delete">>
         /\ Head(c) = "delete" => c = <<"delete">> /\ Tail(c) = <<>>
         /\ Head(c) \notin {"start_transcoder", "add"}
<1>1. CASE c = <<"stop_transcoder", "delete">> BY <1>1
<1>2. CASE c = <<"delete">> BY <1>2
<1>3. QED BY <1>1, <1>2

LEMMA CallOrder ==
  ASSUME AtHand, calls[Startup] # <<>>
  PROVE  /\ Head(calls[Startup]) = "start_transcoder" =>
              transcode /\ Tail(calls[Startup]) = <<"delete", "add">>
         /\ Head(calls[Startup]) = "delete" =>
              calls[Startup] = <<"delete", "add">> /\ Tail(calls[Startup]) = <<"add">>
         /\ Head(calls[Startup]) = "add" =>
              calls[Startup] = <<"add">> /\ Tail(calls[Startup]) = <<>>
         /\ Head(calls[Startup]) # "stop_transcoder"
BY ListOrder DEF AtHand

LEMMA SameLive ==
  ASSUME UNCHANGED <<sessions, streams>>
  PROVE  /\ LiveSessions' = LiveSessions /\ LiveKeys' = LiveKeys /\ AllBound' = AllBound
         /\ \A s : BoundPath(s)' = BoundPath(s)
<1>1. LiveSessions' = LiveSessions BY DEF LiveSessions, Stored
<1>2. QED BY <1>1 DEF LiveKeys, AllBound, BoundPath

\* Once requests are served there is nothing to keep.
LEMMA UpIsFine == ASSUME MediaInv', boot'.stage = "up" PROVE RestoreInv'
BY DEF MediaInv, StartupOK, RestoreInv, AtHand, Behind, Alone

LEMMA RestartIsFine ==
  ASSUME UNCHANGED <<sessions, streams>>, boot' = Restoring, calls'[Startup] = <<>>,
         \A w \in Workers : req'[w] = Idle,
         \A p \in Paths : transcoders'[p] \in LiveKeys \cup {None}
  PROVE  RestoreInv'
<1>1. LiveSessions' = LiveSessions /\ LiveKeys' = LiveKeys BY SameLive
<1>2. boot'.left = LiveSessions BY DEF Restoring
<1>3. QED BY <1>1, <1>2 DEF RestoreInv, AtHand, Behind, Alone

\* Nor is there when the startup has failed.
LEMMA FailsIsFine ==
  ASSUME RestoreInv, boot.stage = "restore", StartupFails, calls'[Startup] = <<>>, req' = req
  PROVE  RestoreInv'
<1>1. boot'.stage = "down" /\ boot'.left = {} /\ \A p \in Paths : transcoders'[p] = None
  BY DEF StartupFails, Down, Up
<1>2. QED BY <1>1 DEF RestoreInv, AtHand, Behind, Alone

\* A worker that handles no request takes no step.
LEMMA IdleStands ==
  ASSUME NEW w \in Workers, req[w] = Idle
  PROVE  ~DatabaseStep(w) /\ ~Return(w)
<1>1. ~DatabaseStep(w)
  BY DEF DatabaseStep, AutoRegister, LoadForStart, DenyStart, CommitStart, CommitStop, StopUnknown,
         CommitSession, CommitUpdate, DatabaseError, Idle
<1>2. ~Return(w) BY DEF Return, Finish, FinishIgnoredStop, Idle
<1>3. QED BY <1>1, <1>2

LEMMA IdleRests ==
  ASSUME MediaInv, NEW w \in Workers, req[w] = Idle
  PROVE  ~(Continue(w) \/ MediaCall(w) \/ Respond(w))
<1>1. calls[w] = <<>>
  BY DEF MediaInv, Typed, MediaTypeOK, Idle
<1>2. ~MediaCall(w)
  BY <1>1 DEF MediaCall, StartTranscoder, StopTranscoder, DeleteAlias, AddAlias, AddRefused,
              JoinUnstarted, Due
<1>3. QED BY <1>2, IdleStands DEF Continue, Respond

\* The calls of one session.
LEMMA StartupCallKeeps ==
  ASSUME MediaInv, RestoreInv, boot.stage = "restore", MediaCall(Startup), UNCHANGED transcode,
         boot'.stage = "restore"
  PROVE  RestoreInv'
<1> DEFINE p == boot.path
<1>1. calls[Startup] # <<>> /\ Startup \in Agents
  BY DEF MediaCall, StartTranscoder, StopTranscoder, DeleteAlias, AddAlias, AddRefused,
         JoinUnstarted, Due, Agents
<1>2. /\ p \in Paths /\ boot.key \in LiveKeys
      /\ transcoders \in [Paths -> Keys \cup {Unstarted, None}]
      /\ alias \in [Paths -> Keys \cup {Transcoded, None}]
      /\ calls \in [Agents -> Seq(CallNames)]
  BY <1>1, TargetType DEF MediaInv, Typed, MediaTypeOK, Target, RestoreInv, AtHand
<1>3. AtHand /\ Behind /\ Alone /\ Target(Startup) = boot BY DEF RestoreInv, Target
<1>4. None \notin LiveKeys
  BY StoredType, SentinelAssumption DEF MediaInv, Typed, MediaTypeOK, LiveKeys, LiveSessions, SessionRow
<1>5. Proceed(Startup)
  BY <1>3 DEF MediaCall, StartTranscoder, StopTranscoder, DeleteAlias, AddAlias, AddRefused,
              JoinUnstarted, Raise, Up
<1>6. /\ calls' = [calls EXCEPT ![Startup] = Tail(@)]
      /\ UNCHANGED <<sessions, streams, req, boot, transcode>> /\ Unfailing' = Unfailing
  BY <1>5 DEF Proceed, vars, Unfailing
<1>7. calls'[Startup] = Tail(calls[Startup]) BY <1>1, <1>2, <1>6
<1>8. /\ LiveSessions' = LiveSessions /\ LiveKeys' = LiveKeys /\ AllBound' = AllBound
      /\ \A s : BoundPath(s)' = BoundPath(s)
  BY <1>6, SameLive
<1> HIDE DEF p
<1>9. CASE StartTranscoder(Startup)
  <2>1. transcode /\ calls'[Startup] = <<"delete", "add">>
    BY <1>1, <1>3, <1>7, <1>9, CallOrder DEF StartTranscoder, Due
  <2>2. /\ transcoders' = [transcoders EXCEPT ![p] = IF @ = None THEN boot.key ELSE @]
        /\ alias' = alias
    BY <1>3, <1>9 DEF StartTranscoder, p
  <2>3. transcoders[p] \in LiveKeys \cup {None} BY <1>2, <1>3 DEF Alone
  <2>4. transcoders'[p] \in LiveKeys BY <1>2, <2>2, <2>3
  <2>5. \A q \in Paths : q # p => transcoders'[q] = transcoders[q] BY <1>2, <2>2
  <2>6. AtHand'
    <3>1. boot'.path = p /\ boot'.key \in LiveKeys' /\ transcoders'[p] \in LiveKeys'
      BY <1>2, <1>6, <1>8, <2>4 DEF p
    <3>2. calls'[Startup] # <<"add">> BY <2>1
    <3>3. QED BY <2>1, <3>1, <3>2 DEF AtHand
  <2>7. Alone' BY <1>3, <1>6, <1>8, <2>4, <2>5 DEF Alone
  <2>8. Behind' BY <1>3, <1>6, <1>8, <2>1, <2>2, <2>4, <2>5 DEF Behind, Provided, AliasSource, p
  <2>9. QED BY <2>6, <2>7, <2>8 DEF RestoreInv
<1>10. CASE DeleteAlias(Startup)
  <2>1. calls[Startup] = <<"delete", "add">> /\ calls'[Startup] = <<"add">>
    BY <1>1, <1>3, <1>7, <1>10, CallOrder DEF DeleteAlias, Due
  <2>2. alias' = [alias EXCEPT ![p] = None] /\ transcoders' = transcoders
    BY <1>3, <1>10 DEF DeleteAlias, Deleted, p
  <2>3. alias'[p] = None /\ (\A q : q # p => alias'[q] = alias[q]) BY <1>2, <2>2
  <2>4. AtHand' BY <1>2, <1>3, <1>6, <1>8, <2>1, <2>2, <2>3 DEF AtHand, p
  <2>5. Alone' BY <1>3, <1>6, <1>8, <2>2 DEF Alone
  <2>6. Behind' BY <1>3, <1>6, <1>8, <2>1, <2>2, <2>3 DEF Behind, Provided, AliasSource, p
  <2>7. QED BY <2>4, <2>5, <2>6 DEF RestoreInv
<1>11. CASE AddAlias(Startup)
  <2>1. calls[Startup] = <<"add">> /\ calls'[Startup] = <<>>
    BY <1>1, <1>3, <1>7, <1>11, CallOrder DEF AddAlias, Due
  <2>2. alias' = [alias EXCEPT ![p] = AliasSource(boot.key)] /\ transcoders' = transcoders
    BY <1>3, <1>11 DEF AddAlias, Added, p
  <2>3. alias'[p] = AliasSource(boot.key) /\ (\A q : q # p => alias'[q] = alias[q])
    BY <1>2, <2>2
  <2>4. transcode => transcoders[p] \in LiveKeys BY <1>3, <2>1 DEF AtHand, p
  <2>5. Provided(p)'
    <3>1. PICK k \in LiveKeys' : alias'[p] = IF transcode' THEN Transcoded ELSE k
      BY <1>2, <1>6, <1>8, <2>3 DEF AliasSource
    <3>2. transcode' => transcoders'[p] \in LiveKeys' BY <1>6, <1>8, <2>2, <2>4
    <3>3. p' = p BY <1>6 DEF p
    <3>4. QED BY <3>1, <3>2, <3>3 DEF Provided, AliasSource
  <2>6. AtHand' BY <2>1 DEF AtHand
  <2>7. Alone' BY <1>3, <1>6, <1>8, <2>2 DEF Alone
  <2>8. \A q : q # p /\ Provided(q) => Provided(q)'
    BY <1>6, <1>8, <2>2, <2>3 DEF Provided, AliasSource
  <2>9. Behind' BY <1>3, <1>6, <1>8, <2>5, <2>8 DEF Behind, p
  <2>10. QED BY <2>6, <2>7, <2>9 DEF RestoreInv
<1>12. ~StopTranscoder(Startup)
  BY <1>1, <1>3, CallOrder DEF StopTranscoder, Due
<1>13. CASE AddRefused(Startup)
  BY <1>3, <1>13 DEF AddRefused, Raise, Up
<1>14. CASE JoinUnstarted(Startup)
  BY <1>3, <1>14 DEF JoinUnstarted, Raise, Up
<1>15. QED BY <1>9, <1>10, <1>11, <1>12, <1>13, <1>14 DEF MediaCall

LEMMA RestoreNextKeeps ==
  ASSUME MediaInv, RestoreInv, RestoreNext, UNCHANGED transcode
  PROVE  RestoreInv'
<1>1. /\ boot.stage = "restore" /\ calls[Startup] = <<>>
      /\ calls' = [calls EXCEPT ![Startup] = StartCalls]
      /\ UNCHANGED <<sessions, streams, req, transcode, transcoders, alias>>
      /\ Unfailing' = Unfailing
  BY DEF RestoreNext, Restores, vars, plane, Unfailing
<1>2. AtHand /\ Behind /\ Alone /\ RowInv BY DEF RestoreInv, MediaInv
<1>3. PICK s \in NewestLeft : \E t \in Resolved(s) :
        boot' = [boot EXCEPT !.left = @ \ {s}, !.key = sessions[s].key,
                   !.path = IF t = None THEN AutoPath[s] ELSE streams[t].path]
  BY DEF RestoreNext
<1>4. PICK t \in Resolved(s) :
        boot' = [boot EXCEPT !.left = @ \ {s}, !.key = sessions[s].key,
                   !.path = IF t = None THEN AutoPath[s] ELSE streams[t].path]
  BY <1>3
<1>5. s \in boot.left /\ s \in LiveSessions BY <1>1, <1>2 DEF NewestLeft, Alone
<1>6. boot \in Boot /\ calls \in [Agents -> Seq(CallNames)] /\ Startup \in Agents
  BY DEF MediaInv, Typed, MediaTypeOK, Agents
<1>7. /\ boot'.stage = "restore" /\ boot'.left = boot.left \ {s} /\ boot'.key = sessions[s].key
      /\ boot'.path = IF t = None THEN AutoPath[s] ELSE streams[t].path
  BY <1>1, <1>4, <1>6 DEF Boot
<1>8. calls'[Startup] = StartCalls /\ StartCalls' = StartCalls
  BY <1>1, <1>6 DEF StartCalls
<1>9. StartCalls # <<>> BY DEF StartCalls
<1>10. /\ LiveSessions' = LiveSessions /\ LiveKeys' = LiveKeys /\ AllBound' = AllBound
       /\ \A u : BoundPath(u)' = BoundPath(u)
  BY <1>1, SameLive
<1>11. sessions[s].key \in LiveKeys BY <1>5 DEF LiveKeys
<1>12. AtHand'
  <2>1. calls'[Startup] \in {<<>>, StartCalls, <<"delete", "add">>, <<"add">>}' BY <1>8
  <2>2. boot'.key \in LiveKeys' BY <1>7, <1>10, <1>11
  <2>3. /\ calls'[Startup] # <<"add">>
        /\ transcode' => calls'[Startup] # <<"delete", "add">>
    <3>1. calls'[Startup] = StartCalls /\ transcode' = transcode BY <1>1, <1>8
    <3>2. CASE transcode
      <4>1. calls'[Startup] = <<"start_transcoder", "delete", "add">> BY <3>1, <3>2 DEF StartCalls
      <4>2. QED BY <4>1
    <3>3. CASE ~transcode
      <4>1. calls'[Startup] = <<"delete", "add">> BY <3>1, <3>3 DEF StartCalls
      <4>2. QED BY <3>1, <3>3, <4>1
    <3>4. QED BY <3>2, <3>3
  <2>4. QED BY <2>1, <2>2, <2>3 DEF AtHand
<1>13. Alone' BY <1>1, <1>2, <1>7, <1>10 DEF Alone
<1>14. AllBound => boot'.path = BoundPath(s)
  BY <1>4, <1>5, <1>7 DEF AllBound, BoundPath, Resolved
<1>15. \A p : Provided(p)' = Provided(p) BY <1>1, <1>10 DEF Provided, AliasSource
<1>16. Behind' BY <1>1, <1>2, <1>7, <1>8, <1>9, <1>10, <1>14, <1>15 DEF Behind
<1>17. QED BY <1>12, <1>13, <1>16 DEF RestoreInv

LEMMA NextRestoreInv ==
  ASSUME MediaInv, RestoreInv, [MediaNext]_mediaVars
  PROVE  RestoreInv'
<1>1. MediaInv' BY NextMediaInv
<1>2. CASE boot'.stage = "up" BY <1>1, <1>2, UpIsFine
<1>3. CASE CrashProcess
  <2>1. calls'[Startup] = <<>> /\ (\A w \in Workers : req'[w] = Idle)
    BY <1>3 DEF CrashProcess, Crash, Agents
  <2>2. boot' = Restoring /\ UNCHANGED <<sessions, streams>> BY <1>3 DEF CrashProcess, Crash
  <2>3. \A p \in Paths : transcoders'[p] = None BY <1>3 DEF CrashProcess
  <2>4. QED BY <2>1, <2>2, <2>3, RestartIsFine
<1>4. CASE StartupStep /\ boot'.stage # "up"
  <2>1. CASE Restart
    BY <1>4, <2>1, RestartIsFine
       DEF StartupStep, Restart, plane, vars, RestoreInv, Alone, MediaInv, StartupOK
  <2>2. CASE RestoreNext BY <1>4, <2>2, RestoreNextKeeps DEF StartupStep
  <2>3. CASE RestoreAborts
    <3>1. calls'[Startup] = <<>> /\ req' = req BY <2>3 DEF RestoreAborts, Restores, vars
    <3>2. boot.stage = "restore" /\ StartupFails BY <2>3 DEF RestoreAborts, Restores
    <3>3. QED BY <3>1, <3>2, FailsIsFine
  <2>4. CASE RestoreDone BY <1>4, <2>4 DEF RestoreDone, Up
  <2>5. CASE MediaCall(Startup)
    <3>1. boot.stage = "restore"
      BY <2>5 DEF MediaInv, StartupOK, MediaCall, StartTranscoder, StopTranscoder, DeleteAlias,
                  AddAlias, AddRefused, JoinUnstarted, Due
    <3>2. boot'.stage = "restore"
      BY <1>4, <2>5, <3>1 DEF MediaCall, StartTranscoder, StopTranscoder, DeleteAlias,
                  AddAlias, AddRefused, JoinUnstarted, Proceed, Raise, Up
    <3>3. QED BY <1>4, <2>5, <3>1, <3>2, StartupCallKeeps DEF StartupStep
  <2>6. QED BY <1>4, <2>1, <2>2, <2>3, <2>4, <2>5 DEF StartupStep
<1>5. CASE boot.stage # "up" /\ \E w \in Workers : WorkerStep(w) \/ Arrive(w)
  <2>1. \A w \in Workers : ~WorkerStep(w) BY <1>5, IdleRests DEF RestoreInv, Alone, WorkerStep
  <2>2. QED BY <1>5, <2>1 DEF Arrive
<1>6. CASE boot.stage = "up" /\ \E w \in Workers : WorkerStep(w) \/ Arrive(w)
  <2>1. PICK w \in Workers : WorkerStep(w) \/ Arrive(w) BY <1>6
  <2>2. boot' = boot
    BY <2>1, MediaAssumption
       DEF WorkerStep, Continue, Respond, Arrive, MediaCall, StartTranscoder, StopTranscoder,
           DeleteAlias, AddAlias, AddRefused, JoinUnstarted, Proceed, Raise
  <2>3. QED BY <1>1, <1>6, <2>2, UpIsFine
<1>7. CASE UNCHANGED mediaVars
  <2>1. /\ UNCHANGED <<sessions, streams, req, transcode, transcoders, alias, calls, boot>>
        /\ Unfailing' = Unfailing
    BY <1>7 DEF mediaVars, Unfailing
  <2>2. /\ LiveSessions' = LiveSessions /\ LiveKeys' = LiveKeys /\ AllBound' = AllBound
        /\ \A u : BoundPath(u)' = BoundPath(u)
    BY <2>1, SameLive
  <2>3. \A p : Provided(p)' = Provided(p) BY <2>1, <2>2 DEF Provided, AliasSource
  <2>4. QED BY <2>1, <2>2, <2>3 DEF RestoreInv, AtHand, Behind, Alone, StartCalls
<1>8. CASE CrashMediaMTX /\ boot'.stage # "up" /\ UNCHANGED transcode
  <2>1. /\ UNCHANGED <<sessions, streams, req, transcode, transcoders, calls, boot>>
        /\ \A p \in Paths : alias'[p] = None
    BY <1>8 DEF CrashMediaMTX, vars
  <2>2. ~Unfailing' BY <1>8, FaultType DEF CrashMediaMTX, MediaInv, Typed
  <2>3. LiveSessions' = LiveSessions /\ LiveKeys' = LiveKeys BY <2>1, SameLive
  <2>4. calls[Startup] # <<>> => boot.path \in Paths
    BY TargetType DEF MediaInv, Typed, Target, Agents
  <2>5. calls'[Startup] = <<"add">> => alias'[boot'.path] = None BY <2>1, <2>4
  <2>6. StartCalls' = StartCalls BY <2>1 DEF StartCalls
  <2>7. AtHand' BY <2>1, <2>3, <2>5, <2>6 DEF RestoreInv, AtHand
  <2>8. QED BY <2>1, <2>2, <2>3, <2>7 DEF RestoreInv, Behind, Alone
<1>9. ASSUME NEW a \in Agents, StopTranscoderRaises(a) \/ ThreadFails(a) \/ CallFails(a)
      PROVE  RestoreInv'
  <2>0. calls[a] # <<>> BY <1>9 DEF StopTranscoderRaises, ThreadFails, CallFails, Due
  <2>1. CASE a = Startup /\ ~ThreadFails(a)
    <3>1. boot' = Up BY <1>9, <2>1 DEF StopTranscoderRaises, CallFails, Raise
    <3>2. QED BY <1>1, <3>1, UpIsFine DEF Up
  <2>2. CASE a \in Workers
    <3>2. req[a] # Idle BY <2>0, <2>2 DEF MediaInv, Typed, MediaTypeOK, Idle
    <3>3. boot.stage = "up" BY <2>2, <3>2 DEF RestoreInv, Alone
    <3>4. boot' = boot
      BY <1>9, <2>2, MediaAssumption DEF StopTranscoderRaises, ThreadFails, CallFails, Raise
    <3>5. QED BY <1>1, <3>3, <3>4, UpIsFine
  <2>3. CASE a = Startup /\ ThreadFails(a)
    <3>1. boot.stage = "restore" BY <2>0, <2>3 DEF MediaInv, StartupOK
    <3>2. StartupFails /\ req' = req BY <2>3 DEF ThreadFails, vars
    <3>3. calls'[Startup] = <<>>
      BY <2>3 DEF ThreadFails, MediaInv, Typed, MediaTypeOK, Agents
    <3>4. QED BY <3>1, <3>2, <3>3, FailsIsFine
  <2>4. QED BY <2>1, <2>2, <2>3 DEF Agents
<1>10. QED
  BY <1>2, <1>3, <1>4, <1>5, <1>6, <1>7, <1>8, <1>9 DEF MediaNext

\* The restoration ends only when it is through with every session.
LEMMA EndsComplete ==
  ASSUME Unfailing', MediaInv, RestoreInv, [MediaNext]_mediaVars,
         boot.stage = "restore", boot'.stage = "up"
  PROVE  boot.left = {} /\ calls[Startup] = <<>>
<1>1. AtHand /\ Alone /\ Target(Startup) = boot BY DEF RestoreInv, Target
<1>2. \A w \in Workers : ~WorkerStep(w) BY <1>1, IdleRests DEF Alone, WorkerStep
<1>3. ~CrashProcess BY DEF CrashProcess, Restoring
<1>4. ~AddRefused(Startup) /\ ~JoinUnstarted(Startup)
  BY <1>1, CallOrder DEF AddRefused, JoinUnstarted, Due, AtHand
<1>5. ASSUME MediaCall(Startup) PROVE FALSE
  BY <1>4, <1>5 DEF MediaCall, StartTranscoder, StopTranscoder, DeleteAlias, AddAlias, Proceed
<1>6. ~RestoreAborts /\ ~Restart
  BY DEF RestoreAborts, StartupFails, Down, Up, Restart, Restoring
<1>7. ASSUME RestoreNext PROVE FALSE
  <2>1. PICK s \in NewestLeft : \E t \in Resolved(s) :
          boot' = [boot EXCEPT !.left = @ \ {s}, !.key = sessions[s].key,
                     !.path = IF t = None THEN AutoPath[s] ELSE streams[t].path]
    BY <1>7 DEF RestoreNext
  <2>2. boot'.stage = boot.stage BY <2>1 DEF MediaInv, Typed, MediaTypeOK, Boot
  <2>3. QED BY <2>2
<1>8. boot' # boot OBVIOUS
<1>9. /\ ~CrashMediaMTX
      /\ \A a \in Agents : ~StopTranscoderRaises(a) /\ ~ThreadFails(a) /\ ~CallFails(a)
  BY FaultType DEF MediaInv, Typed, CrashMediaMTX, StopTranscoderRaises, ThreadFails, CallFails
<1>10. StartupStep BY <1>2, <1>3, <1>8, <1>9 DEF MediaNext, mediaVars, Arrive
<1>11. RestoreDone BY <1>5, <1>6, <1>7, <1>10 DEF StartupStep
<1>12. QED BY <1>11 DEF RestoreDone, Restores

\* A path that is provided for delivers a live session, when all are bound and
\* its stream is active, if the transcoder is pulled.
LEMMA ProvidedIsReceived ==
  ASSUME MediaInv, AllBound, NEW s \in LiveSessions, Provided(BoundPath(s)),
         transcode => streams[sessions[s].stream].active # "no"
  PROVE  \E p \in PathOf(s), r \in LiveSessions : sessions[r].key \in Received(p)
<1> DEFINE t == sessions[s].stream
           p == BoundPath(s)
<1>1. /\ s \in Stored(sessions) /\ t # None /\ TypeOK /\ ReferencesExist
      /\ p = streams[t].path
  BY DEF LiveSessions, AllBound, MediaInv, Typed, Inv, BoundPath
<1>2. t \in Stored(streams) BY <1>1 DEF ReferencesExist
<1>3. p \in PathOf(s) BY <1>1 DEF PathOf, Resolved
<1>4. transcode => TranscodePullAllowed(p)
  <2>1. streams[t] \in StreamRow BY <1>1, <1>2, StoredType
  <2>2. transcode => streams[t].active = "yes" BY <2>1 DEF StreamRow, Flags
  <2>3. t \in WithPath(p) BY <1>1, <1>2 DEF WithPath
  <2>4. QED BY <2>2, <2>3 DEF TranscodePullAllowed
<1>5. ASSUME NEW k \in LiveKeys
      PROVE  k \in Keys /\ KeyPullAllowed(k) /\ \E r \in LiveSessions : sessions[r].key = k
  <2>1. PICK r \in LiveSessions : sessions[r].key = k BY DEF LiveKeys
  <2>2. r \in Stored(sessions) /\ sessions[r] \in SessionRow
    BY <1>1, StoredType DEF LiveSessions
  <2>3. QED BY <2>1, <2>2 DEF KeyPullAllowed, WithKey, AllBound, SessionRow
<1>6. PICK k \in LiveKeys : alias[p] = AliasSource(k) /\ (transcode => transcoders[p] \in LiveKeys)
  BY DEF Provided
<1> HIDE DEF t, p
<1>7. \E k2 \in LiveKeys : k2 \in Received(p)
  <2>1. CASE transcode
    BY <1>4, <1>5, <1>6, <2>1 DEF AliasSource, Received
  <2>2. CASE ~transcode
    BY <1>5, <1>6, <2>2 DEF AliasSource, Received
  <2>3. QED BY <2>1, <2>2
<1>8. QED BY <1>3, <1>5, <1>7

\* The guarantee of one step: what RestoredIsServed says of it.
RestoredServes ==
  boot.stage = "restore" /\ boot'.stage = "up" /\ AllBound =>
    \A s \in LiveSessions :
      \/ transcode /\ streams[sessions[s].stream].active = "no"
      \/ \E p \in PathOf(s), r \in LiveSessions : sessions[r].key \in Received(p)

\* The control API answers, MediaMTX runs, threads start, and no stop of a
\* transcoder raises.
OnlyTheProcessFails == Faults \subseteq {"process"}

LEMMA StepRestores ==
  ASSUME OnlyTheProcessFails, MediaInv, RestoreInv, [MediaNext]_mediaVars
  PROVE  RestoredServes
<1> SUFFICES ASSUME boot.stage = "restore", boot'.stage = "up", AllBound, NEW s \in LiveSessions,
                    ~(transcode /\ streams[sessions[s].stream].active = "no")
             PROVE  \E p \in PathOf(s), r \in LiveSessions : sessions[r].key \in Received(p)
  BY DEF RestoredServes
<1>1. Unfailing /\ Unfailing'
  <2>1. faults \in Seq(Faults) /\ faults' \in Seq(Faults)
    BY NextMediaInv DEF MediaInv, Typed, MediaTypeOK
  <2>2. ASSUME NEW q \in Seq(Faults), NEW i \in DOMAIN q PROVE q[i] = "process"
    <3>1. DOMAIN q = 1..Len(q) OBVIOUS
    <3>2. q[i] \in Faults BY <3>1
    <3>3. QED BY <3>2 DEF OnlyTheProcessFails
  <2>3. QED BY <2>1, <2>2 DEF Unfailing
<1>2. boot.left = {} /\ calls[Startup] = <<>> BY <1>1, EndsComplete
<1>3. Provided(BoundPath(s)) BY <1>1, <1>2 DEF RestoreInv, Behind
<1>4. QED BY <1>3, ProvidedIsReceived

\* When only the process fails, a restoration that completes with every live
\* session bound leaves the path of each served by a session that is live: however
\* often the process died during the one before, whatever the order of the
\* sessions, and whatever administrators patched and bound before.  Of a stream
\* they deactivated, that is said without transcoding only, since nobody may pull
\* its transcoder's output (ingest.py:320-326, mediamtx_hooks.py:57-94,
\* streams.py:190-191).
THEOREM RestorationServesAll ==
  ASSUME OnlyTheProcessFails
  PROVE  MediaSpec => RestoredIsServed
<1> DEFINE I == MediaInv /\ RestoreInv
<1>1. MediaInit => I
  <2>1. MediaInit => MediaInv BY InitMediaInv
  <2>2. MediaInit => calls[Startup] = <<>> /\ boot.stage = "up" BY DEF MediaInit, Agents, Up
  <2>3. QED BY <2>1, <2>2 DEF RestoreInv, AtHand, Behind, Alone
<1>2. I /\ [MediaNext]_mediaVars => I' BY NextMediaInv, NextRestoreInv
<1>3. I /\ [MediaNext]_mediaVars =>
        [boot.stage = "restore" /\ boot'.stage = "up"
           /\ (\A s \in LiveSessions : sessions[s].stream # None)
         => \A s \in LiveSessions :
              \/ transcode /\ streams[sessions[s].stream].active = "no"
              \/ \E p \in PathOf(s), r \in LiveSessions :
                   sessions[r].key \in Received(p)]_mediaVars
  BY StepRestores DEF RestoredServes, AllBound
<1>4. QED BY <1>1, <1>2, <1>3, PTL DEF MediaSpec, RestoredIsServed

---------------------------------------------------------------------------
(* Requests for one key, handled one after the other                       *)

\* Administrators rotate and revoke, but create and bind nothing by hand: a session
\* gets its stream from its first publish.
OnlyPublishesBind == Operations \subseteq {"start", "stop", "rotate", "revoke"}

\* A stream belongs to the one session that is bound to it.
OwnStream ==
  /\ \A t \in Stored(streams) :
       streams[t].source # None /\ sessions[streams[t].source].stream = t
  /\ \A s \in Stored(sessions) :
       sessions[s].stream # None => streams[sessions[s].stream].source = s

LiveIsBound == \A s \in LiveSessions : sessions[s].stream # None

\* What a pending start or stop holds is what the rows say: nobody else writes
\* the session with its key.
HoldsRow(r) ==
  LET row == sessions[r.session] IN
  /\ row.key = r.key /\ r.stream = row.stream
  /\ r.change.stream = Keep /\ r.streamChange.source \in {Keep, r.session}
  /\ r.op = "start" => FlushSession(row, r.change).status = "live"
  /\ r.op = "stop" =>
       /\ FlushSession(row, r.change).status \in {"ended", "revoked"}
       /\ r.path = IF row.stream = None THEN AutoPath[r.session] ELSE BoundPath(r.session)

\* The session a request in the media stage is about, and its path.
IsAbout(r, s) ==
  /\ s \in WithKey(r.key) /\ sessions[s].stream # None /\ BoundPath(s) = r.path
  /\ sessions[s].status = "live" <=> r.op = "start"

HoldsSerial(r) ==
  /\ r.stage = "idle" \/ r.op \in {"start", "stop", "rotate", "revoke"}
  /\ r.stage = "commit" /\ r.op \in {"start", "stop"} /\ r.session # None => HoldsRow(r)
  /\ r.stage = "commit" /\ r.op = "stop" /\ r.session = None =>
       WithKey(r.key) = {} /\ r.path = None
  /\ r.op \in {"rotate", "revoke"} =>
       /\ r.stage = "commit" /\ r.key = None /\ r.change.stream = Keep
       /\ FlushSession(sessions[r.session], r.change).status \in {"created", "revoked"}
  /\ r.stage = "media" =>
       r.session = None /\ (r.path # None => \E s \in SessionIds : IsAbout(r, s))

SerialInv ==
  /\ OwnStream /\ LiveIsBound /\ Separate
  /\ \A w \in Workers : HoldsSerial(req[w])

\* What a step of w does to a session: nothing, or it inserts it, or it writes the
\* one with its key and does not unbind it, and goes on to the media plane for it
\* unless the session has no publisher any more.
Enters(w, s) == req[w].stage = "media" /\ IsAbout(req[w], s)

SerialRow(w, s) ==
  \/ sessions'[s] = sessions[s]
  \/ /\ sessions[s] = None
     /\ sessions'[s].status = "created" /\ sessions'[s].stream = None
     /\ sessions'[s].key = req[w].key
  \/ /\ sessions[s] # None /\ req[w].key \in {None, sessions[s].key}
     /\ req[w].key # None => sessions'[s].key = sessions[s].key
     /\ sessions[s].stream \in {None, sessions'[s].stream}
     /\ sessions'[s].status \in {"created", "revoked"} \/ Enters(w, s)'

PathsKept ==
  \A t \in Stored(streams) : t \in Stored(streams') /\ streams'[t].path = streams[t].path

SerialStep(w) ==
  /\ \A s \in SessionIds : SerialRow(w, s)
  /\ PathsKept /\ OwnStream' /\ HoldsSerial(req[w])'

LEMMA SerialRequest ==
  ASSUME MediaInv, SerialInv, NEW w \in Workers
  PROVE  /\ req[w] \in Request /\ RequestShape(req[w]) /\ RequestReferences(req[w])
         /\ Named(req[w]) /\ HoldsSerial(req[w])
         /\ req[w].change \in SessionChange /\ req[w].streamChange \in StreamChange
         /\ TypeOK /\ ReferencesExist /\ OwnStream /\ req \in [Workers -> Request]
BY DEF MediaInv, Typed, Inv, TypeOK, ReferencesExist, RowInv, Names, SerialInv, Request

\* Two sessions are bound to two streams, on two paths.
LEMMA TwoPaths ==
  ASSUME MediaInv, OwnStream, NEW s \in Stored(sessions), NEW u \in Stored(sessions),
         sessions[s].stream # None, sessions[u].stream # None, BoundPath(s) = BoundPath(u)
  PROVE  s = u
<1>1. sessions[s].stream \in Stored(streams) /\ sessions[u].stream \in Stored(streams)
  BY DEF MediaInv, Typed, Inv, ReferencesExist
<1>2. sessions[s].stream = sessions[u].stream
  BY <1>1 DEF MediaInv, RowInv, Distinct, BoundPath
<1>3. streams[sessions[s].stream].source = s /\ streams[sessions[u].stream].source = u
  BY DEF OwnStream
<1>4. QED BY <1>2, <1>3

\* Resolving a session finds its binding.
LEMMA ResolvedIsBinding ==
  ASSUME MediaInv, OwnStream, NEW s \in Stored(sessions)
  PROVE  Resolved(s) = {sessions[s].stream}
<1>1. CASE sessions[s].stream = None
  <2>1. WithSource(s) = {}
    <3>1. SUFFICES ASSUME NEW t \in Stored(streams), streams[t].source = s PROVE FALSE
      BY DEF WithSource
    <3>2. sessions[s].stream = t BY <3>1 DEF OwnStream
    <3>3. t \in StreamIds BY StoredType DEF MediaInv, Typed, Inv
    <3>4. QED BY <1>1, <3>2, <3>3, SentinelAssumption
  <2>2. QED BY <1>1, <2>1 DEF Resolved
<1>2. CASE sessions[s].stream # None BY <1>2 DEF Resolved
<1>3. QED BY <1>1, <1>2

\* A step that leaves both tables alone.
LEMMA SerialQuiet ==
  ASSUME MediaInv, SerialInv, NEW w \in Workers, UNCHANGED <<sessions, streams>>,
         HoldsSerial(req[w])'
  PROVE  SerialStep(w)
<1>1. PathsKept BY DEF PathsKept
<1>2. OwnStream' BY DEF SerialInv, OwnStream, Stored
<1>3. QED BY <1>1, <1>2 DEF SerialStep, SerialRow

LEMMA IdleHoldsSerial ==
  ASSUME MediaInv, SerialInv, NEW w \in Workers, req' = [req EXCEPT ![w] = Idle],
         UNCHANGED <<sessions, streams>>
  PROVE  SerialStep(w)
<1>1. req'[w] = Idle BY SerialRequest
<1>2. None \notin {"start", "stop", "rotate", "revoke"} BY SentinelAssumption DEF Ops
<1>3. HoldsSerial(req[w])' BY <1>1, <1>2 DEF HoldsSerial, Idle
<1>4. QED BY <1>3, SerialQuiet

LEMMA SerialChanges ==
  ASSUME NEW row \in SessionRow, NEW k
  PROVE  /\ StartChange(row, row.stream).stream = Keep
         /\ FlushSession(row, StartChange(row, row.stream)).status = "live"
         /\ \A c : c.status = StopChange(row).status =>
              FlushSession(row, c).status \in {"ended", "revoked"}
         /\ RotateChange(row, k).stream = Keep
         /\ FlushSession(row, RotateChange(row, k)).status = "created"
         /\ RevokeChange(row).stream = Keep
         /\ FlushSession(row, RevokeChange(row)).status = "revoked"
<1> USE SentinelAssumption DEF FlushSession, Written, Assign, NoSessionChange, SessionRow, Statuses
<1>1. /\ StartChange(row, row.stream).stream = Keep
      /\ FlushSession(row, StartChange(row, row.stream)).status = "live"
  BY DEF StartChange
<1>2. StopChange(row).status =
        IF row.status = "revoked" THEN Keep ELSE IF "ended" = row.status THEN Keep ELSE "ended"
  BY DEF StopChange
<1>3. \A c : c.status = StopChange(row).status =>
        FlushSession(row, c).status \in {"ended", "revoked"}
  BY <1>2
<1>4. /\ RotateChange(row, k).stream = Keep
      /\ FlushSession(row, RotateChange(row, k)).status = "created"
  BY DEF RotateChange
<1>5. /\ RevokeChange(row).stream = Keep
      /\ FlushSession(row, RevokeChange(row)).status = "revoked"
  BY DEF RevokeChange
<1>6. QED BY <1>1, <1>3, <1>4, <1>5

LEMMA LookupSerial ==
  ASSUME MediaInv, SerialInv, NEW w \in Workers, NEW k \in Keys, LookupForPublish(w, k)
  PROVE  SerialStep(w)
<1>1. req'[w].op = "start" /\ req'[w].stage \in {"register", "mark"}
  BY SerialRequest DEF LookupForPublish, Idle
<1>2. HoldsSerial(req[w])' BY <1>1 DEF HoldsSerial
<1>3. QED BY <1>2, SerialQuiet DEF LookupForPublish

LEMMA LoadForStopSerial ==
  ASSUME MediaInv, SerialInv, NEW w \in Workers, NEW k \in Keys, LoadForStop(w, k)
  PROVE  SerialStep(w)
<1> DEFINE loaded == [Idle EXCEPT !.stage = "commit", !.op = "stop", !.key = k]
<1>0. UNCHANGED <<sessions, streams>> BY DEF LoadForStop
<1>1. CASE WithKey(k) = {} /\ req' = [req EXCEPT ![w] = loaded]
  <2>1. req'[w] = loaded BY <1>1, SerialRequest
  <2>2. /\ req'[w].op = "stop" /\ req'[w].stage = "commit" /\ req'[w].key = k
        /\ req'[w].session = None /\ req'[w].path = None
    BY <2>1 DEF Idle
  <2>3. WithKey(k)' = {} BY <1>0, <1>1 DEF WithKey, Stored
  <2>4. HoldsSerial(req[w])' BY <2>2, <2>3 DEF HoldsSerial
  <2>5. QED BY <1>0, <2>4, SerialQuiet
<1>2. ASSUME NEW s \in WithKey(k), NEW t \in Resolved(s),
             req' = [req EXCEPT ![w] = [loaded EXCEPT
                    !.session = s, !.stream = t,
                    !.path = IF t = None THEN AutoPath[s] ELSE streams[t].path,
                    !.change = [StopChange(sessions[s]) EXCEPT
                      !.stream = IF t = None THEN Keep
                                 ELSE Assign(sessions[s].stream, t)]]]
      PROVE  SerialStep(w)
  <2> DEFINE row == sessions[s]
             p == IF t = None THEN AutoPath[s] ELSE streams[t].path
             c == [StopChange(row) EXCEPT
                      !.stream = IF t = None THEN Keep ELSE Assign(row.stream, t)]
             r == [loaded EXCEPT !.session = s, !.stream = t, !.path = p, !.change = c]
  <2>1. s \in Stored(sessions) /\ row.key = k BY <1>2 DEF WithKey
  <2>2. s \in SessionIds /\ row \in SessionRow BY <2>1, SerialRequest, StoredType
  <2>3. t = row.stream BY <1>2, <2>1, ResolvedIsBinding DEF SerialInv
  <2>4. StopChange(row) \in SessionChange
    BY <2>2, SessionChangeType DEF SessionRow
  <2>5. c.stream = Keep /\ c.status = StopChange(row).status
    BY <2>3, <2>4 DEF Assign, SessionChange
  <2>6. p = IF row.stream = None THEN AutoPath[s] ELSE BoundPath(s)
    BY <2>3 DEF BoundPath
  <2> HIDE DEF c, p
  <2>7. /\ r.stage = "commit" /\ r.op = "stop" /\ r.key = k /\ r.session = s /\ r.stream = t
        /\ r.path = p /\ r.change = c /\ r.streamChange.source = Keep
    BY DEF Idle, NoStreamChange
  <2>8. req'[w] = r BY <1>2, SerialRequest DEF c, p
  <2> HIDE DEF r, loaded
  <2>9. FlushSession(row, c).status \in {"ended", "revoked"}
    BY <2>2, <2>5, SerialChanges
  <2>10. s # None BY <2>2, SentinelAssumption
  <2>11. HoldsRow(r) BY <2>1, <2>3, <2>5, <2>6, <2>7, <2>9 DEF HoldsRow
  <2>12. HoldsSerial(r) BY <2>7, <2>10, <2>11 DEF HoldsSerial
  <2> HIDE DEF row
  <2>13. HoldsSerial(req[w])'
    BY <1>0, <2>8, <2>12 DEF HoldsSerial, HoldsRow, BoundPath, WithKey, Stored, IsAbout
  <2>14. QED BY <1>0, <2>13, SerialQuiet
<1>3. QED BY <1>1, <1>2, Zenon DEF LoadForStop

LEMMA LoadForStartSerial ==
  ASSUME MediaInv, SerialInv, NEW w \in Workers, LoadForStart(w)
  PROVE  SerialStep(w)
<1>0. UNCHANGED <<sessions, streams>> BY DEF LoadForStart
<1>1. req[w].stage = "mark" /\ req[w].op = "start" /\ req[w] \in Request
  BY SerialRequest DEF LoadForStart, RequestShape
<1>2. PICK s \in WithKey(req[w].key) : \E t \in Resolved(s) :
        req' = [req EXCEPT ![w] = [@ EXCEPT
                  !.stage = "commit", !.session = s, !.stream = t,
                  !.change = StartChange(sessions[s], t),
                  !.streamChange = IF t = None THEN NoStreamChange
                                   ELSE StartStreamChange(streams[t], s)]]
  BY DEF LoadForStart
<1>3. PICK t \in Resolved(s) :
        req' = [req EXCEPT ![w] = [@ EXCEPT
                  !.stage = "commit", !.session = s, !.stream = t,
                  !.change = StartChange(sessions[s], t),
                  !.streamChange = IF t = None THEN NoStreamChange
                                   ELSE StartStreamChange(streams[t], s)]]
  BY <1>2
<1> DEFINE row == sessions[s]
           c == StartChange(row, t)
           sc == IF t = None THEN NoStreamChange ELSE StartStreamChange(streams[t], s)
           r == [req[w] EXCEPT !.stage = "commit", !.session = s, !.stream = t,
                               !.change = c, !.streamChange = sc]
<1>4. s \in Stored(sessions) /\ row.key = req[w].key BY DEF WithKey
<1>5. s \in SessionIds /\ row \in SessionRow /\ s # None
  BY <1>4, SerialRequest, StoredType, SentinelAssumption
<1>6. t = row.stream BY <1>3, <1>4, ResolvedIsBinding DEF SerialInv
<1>7. c.stream = Keep /\ FlushSession(row, c).status = "live" BY <1>5, <1>6, SerialChanges
<1>8. sc.source \in {Keep, s} BY DEF NoStreamChange, StartStreamChange, Assign
<1> HIDE DEF c, sc
<1>9. /\ r.stage = "commit" /\ r.op = "start" /\ r.key = req[w].key /\ r.session = s
      /\ r.stream = t /\ r.change = c /\ r.streamChange = sc
  BY <1>1 DEF Request
<1>10. req'[w] = r BY <1>3, SerialRequest DEF c, sc
<1> HIDE DEF r
<1>11. HoldsRow(r) BY <1>4, <1>6, <1>7, <1>8, <1>9 DEF HoldsRow
<1>12. HoldsSerial(r) BY <1>5, <1>9, <1>11 DEF HoldsSerial
<1> HIDE DEF row
<1>13. HoldsSerial(req[w])'
  BY <1>0, <1>10, <1>12 DEF HoldsSerial, HoldsRow, BoundPath, WithKey, Stored, IsAbout
<1>14. QED BY <1>0, <1>13, SerialQuiet

LEMMA LoadForAdminSerial ==
  ASSUME MediaInv, SerialInv, NEW w \in Workers, LoadForRotate(w) \/ LoadForRevoke(w)
  PROVE  SerialStep(w)
<1>1. ASSUME NEW op \in {"rotate", "revoke"}, NEW s \in Stored(sessions), NEW c,
             LoadSession(w, op, s, c), c.stream = Keep,
             FlushSession(sessions[s], c).status \in {"created", "revoked"}
      PROVE  SerialStep(w)
  <2>1. /\ req'[w].stage = "commit" /\ req'[w].op = op /\ req'[w].key = None
        /\ req'[w].session = s /\ req'[w].change = c
    BY <1>1, SerialRequest DEF LoadSession, Idle
  <2>2. UNCHANGED <<sessions, streams>> BY <1>1 DEF LoadSession
  <2>3. FlushSession(sessions[s], c)' = FlushSession(sessions[s], c) BY <2>2 DEF FlushSession
  <2>4. HoldsSerial(req[w])' BY <1>1, <2>1, <2>2 DEF HoldsSerial
  <2>5. QED BY <2>2, <2>4, SerialQuiet
<1>2. \A s \in Stored(sessions) : sessions[s] \in SessionRow BY SerialRequest, StoredType
<1>3. CASE LoadForRotate(w)
  <2>1. PICK s \in Stored(sessions), k \in Keys :
          LoadSession(w, "rotate", s, RotateChange(sessions[s], k))
    BY <1>3 DEF LoadForRotate
  <2>2. QED BY <1>1, <1>2, <2>1, SerialChanges
<1>4. CASE LoadForRevoke(w)
  <2>1. PICK s \in Stored(sessions) : LoadSession(w, "revoke", s, RevokeChange(sessions[s]))
    BY <1>4 DEF LoadForRevoke
  <2>2. QED BY <1>1, <1>2, <2>1, SerialChanges
<1>5. QED BY <1>3, <1>4

LEMMA AutoRegisterSerial ==
  ASSUME MediaInv, SerialInv, NEW w \in Workers, AutoRegister(w)
  PROVE  SerialStep(w)
<1>1. /\ req[w].op = "start" /\ req[w] \in Request /\ TypeOK /\ ReferencesExist /\ OwnStream
      /\ UNCHANGED streams
  BY SerialRequest DEF AutoRegister, RequestShape
<1>2. PICK s \in NextId(sessions) : sessions' = [sessions EXCEPT ![s] = NewSession(req[w].key, None)]
  BY DEF AutoRegister
<1>3. s \in SessionIds /\ sessions[s] = None BY <1>1, <1>2 DEF NextId, TypeOK
<1>4. /\ sessions'[s].status = "created" /\ sessions'[s].stream = None
      /\ sessions'[s].key = req[w].key
  BY <1>1, <1>2, <1>3 DEF TypeOK, NewSession
<1>5. \A u \in SessionIds : u # s => sessions'[u] = sessions[u] BY <1>1, <1>2 DEF TypeOK
<1>6. \A u \in SessionIds : SerialRow(w, u) BY <1>3, <1>4, <1>5 DEF SerialRow
<1>7. PathsKept BY <1>1 DEF PathsKept
<1>8. OwnStream'
  <2>1. \A t \in Stored(streams) : streams[t].source \in Stored(sessions)
    BY <1>1 DEF ReferencesExist, OwnStream
  <2>2. Stored(sessions) \subseteq SessionIds \ {s} BY <1>1, <1>3 DEF Stored, TypeOK
  <2>3. \A t \in Stored(streams) : sessions'[streams[t].source] = sessions[streams[t].source]
    BY <1>5, <2>1, <2>2
  <2>4. Stored(streams') = Stored(streams) BY <1>1 DEF Stored
  <2>5. \A u \in Stored(sessions') : u # s => u \in Stored(sessions) /\ sessions'[u] = sessions[u]
    BY <1>1, <1>2, <1>5 DEF Stored, TypeOK
  <2>6. QED BY <1>1, <1>4, <2>3, <2>4, <2>5 DEF OwnStream
<1>9. req'[w].stage = "mark" /\ req'[w].op = "start"
  BY <1>1, SerialRequest DEF AutoRegister, Request
<1>10. HoldsSerial(req[w])' BY <1>9 DEF HoldsSerial
<1>11. QED BY <1>6, <1>7, <1>8, <1>10 DEF SerialStep

\* The commit of a start or a stop writes the session with its key, and leaves it
\* bound to a stream of its own.
LEMMA CommitBinds ==
  ASSUME MediaInv, SerialInv, NEW w \in Workers, req[w].stage = "commit",
         req[w].op \in {"start", "stop"}, req[w].session # None,
         NEW t \in StreamIds, WritesStream(req[w], t),
         sessions' = [sessions EXCEPT ![req[w].session] = FlushSession(@, Binding(req[w], t))]
  PROVE  LET s == req[w].session IN
         /\ s \in SessionIds /\ sessions[s] # None
         /\ sessions[s].key = req[w].key /\ sessions'[s].key = req[w].key
         /\ sessions[s].stream \in {None, sessions'[s].stream} /\ sessions'[s].stream = t
         /\ sessions'[s].status = FlushSession(sessions[s], req[w].change).status
         /\ \A u \in SessionIds : u # s => sessions'[u] = sessions[u]
         /\ streams'[t].path = (IF sessions[s].stream = None THEN AutoPath[s] ELSE BoundPath(s))
         /\ PathsKept /\ OwnStream'
<1> DEFINE r == req[w]
           s == r.session
           row == sessions[s]
<1>1. /\ r \in Request /\ RequestReferences(r) /\ Named(r) /\ HoldsRow(r)
      /\ r.change \in SessionChange /\ r.streamChange \in StreamChange
      /\ TypeOK /\ ReferencesExist /\ OwnStream
  BY SerialRequest DEF HoldsSerial
<1>2. s \in Stored(sessions) /\ s \in SessionIds /\ row \in SessionRow /\ row # None
  BY <1>1, StoredType DEF RequestReferences, Stored
<1>3. /\ row.key = r.key /\ r.stream = row.stream /\ r.change.stream = Keep
      /\ r.change.key = Keep /\ r.streamChange.path = Keep
      /\ r.streamChange.source \in {Keep, s}
  BY <1>1 DEF HoldsRow, Named
<1>4. t # None /\ t # Keep BY SentinelAssumption
<1> DEFINE c == Binding(r, t)
<1>5. c.key = Keep /\ c.status = r.change.status
      /\ c.stream = IF r.stream = None THEN t ELSE Keep
  BY <1>1, <1>3 DEF Binding, SessionChange
<1> HIDE DEF c
<1>6. /\ sessions'[s].key = Written(c.key, row.key)
      /\ sessions'[s].status = Written(c.status, row.status)
      /\ sessions'[s].stream = Written(c.stream, row.stream)
  BY <1>1, <1>2 DEF c, FlushSession, TypeOK
<1>7. \A u \in SessionIds : u # s => sessions'[u] = sessions[u] BY <1>1 DEF TypeOK
<1>8. r.stream # None => t = r.stream /\ t \in Stored(streams) /\ streams[t].source = s
  BY <1>1, <1>2, <1>3 DEF WritesStream, OwnStream, RequestReferences
<1>9. /\ sessions'[s].key = r.key /\ sessions'[s].stream = t /\ row.stream \in {None, t}
      /\ sessions'[s].status = FlushSession(row, r.change).status
  BY <1>3, <1>4, <1>5, <1>6, <1>8 DEF Written, FlushSession
<1>10. /\ t \in Stored(streams') /\ streams'[t].source = s
       /\ streams'[t].path = IF row.stream = None THEN AutoPath[s] ELSE BoundPath(s)
       /\ \A u \in StreamIds : u # t => streams'[u] = streams[u]
       /\ row.stream = None => streams[t] = None
  <2>1. CASE r.stream # None
    <3>1. streams' = [streams EXCEPT ![t] = FlushStream(@, r.streamChange)]
      BY <1>8, <2>1 DEF WritesStream
    <3>2. streams'[t] = FlushStream(streams[t], r.streamChange) BY <1>1, <3>1 DEF TypeOK
    <3>3. streams'[t].source = s /\ streams'[t].path = streams[t].path
      BY <1>3, <1>8, <2>1, <3>2 DEF FlushStream, Written
    <3>4. streams[t] \in StreamRow BY <1>1, <1>8, <2>1, StoredType
    <3>5. streams'[t] # None
      BY <1>1, <3>2, <3>4, FlushStreamType, SentinelAssumption
    <3>6. BoundPath(s) = streams[t].path BY <1>3, <1>8, <2>1 DEF BoundPath
    <3>7. \A u \in StreamIds : u # t => streams'[u] = streams[u] BY <1>1, <3>1 DEF TypeOK
    <3>8. t \in Stored(streams') BY <1>1, <3>1, <3>5 DEF Stored, TypeOK
    <3>9. QED BY <1>3, <2>1, <3>3, <3>6, <3>7, <3>8
  <2>2. CASE r.stream = None
    <3>1. /\ t \in NextId(streams)
          /\ streams' = [streams EXCEPT ![t] = NewStream(AutoPath[s], "private", s)]
      BY <2>2 DEF WritesStream
    <3>2. streams'[t] = NewStream(AutoPath[s], "private", s) /\ streams[t] = None
      BY <1>1, <3>1 DEF TypeOK, NextId
    <3>3. NewStream(AutoPath[s], "private", s) \in StreamRow
      BY <1>2, ConstantsAssumption, NewRowType DEF Visibilities
    <3>4. t \in Stored(streams') BY <1>1, <3>1, <3>2, <3>3, SentinelAssumption DEF Stored, TypeOK
    <3>5. \A u \in StreamIds : u # t => streams'[u] = streams[u] BY <1>1, <3>1 DEF TypeOK
    <3>6. QED BY <1>3, <2>2, <3>2, <3>4, <3>5 DEF NewStream
  <2>3. QED BY <2>1, <2>2
<1>11. DOMAIN streams' = StreamIds /\ DOMAIN sessions' = SessionIds
  BY <1>1, <1>2 DEF TypeOK, WritesStream
<1>12. /\ Stored(sessions) \subseteq SessionIds /\ Stored(streams) \subseteq StreamIds
       /\ Stored(sessions') \subseteq SessionIds /\ Stored(streams') \subseteq StreamIds
  BY <1>1, <1>11, StoredType DEF Stored
<1>13. PathsKept
  <2>1. ASSUME NEW u \in Stored(streams) PROVE u \in Stored(streams') /\ streams'[u].path = streams[u].path
    <3>1. CASE u = t
      <4>1. row.stream = t /\ r.stream # None BY <1>3, <1>9, <1>10, <3>1 DEF Stored
      <4>2. QED BY <1>10, <3>1, <4>1, <1>4 DEF BoundPath
    <3>2. CASE u # t BY <1>10, <1>11, <1>12, <3>2 DEF Stored
    <3>3. QED BY <3>1, <3>2
  <2>2. QED BY <2>1 DEF PathsKept
<1>14. OwnStream'
  <2>1. ASSUME NEW u \in Stored(streams')
        PROVE  streams'[u].source # None /\ sessions'[streams'[u].source].stream = u
    <3>1. CASE u = t BY <1>2, <1>9, <1>10, <3>1, SentinelAssumption
    <3>2. CASE u # t
      <4>1. u \in Stored(streams) /\ streams'[u] = streams[u]
        BY <1>1, <1>10, <1>12, <3>2 DEF Stored, TypeOK
      <4>2. streams[u].source # None /\ sessions[streams[u].source].stream = u
        BY <1>1, <4>1 DEF OwnStream
      <4>3. streams[u].source \in Stored(sessions) BY <1>1, <4>1, <4>2 DEF ReferencesExist
      <4>4. u # None BY <1>12, <4>1, SentinelAssumption
      <4>5. streams[u].source # s BY <1>9, <3>2, <4>2, <4>4
      <4>6. QED BY <1>7, <1>12, <4>1, <4>2, <4>3, <4>5
    <3>3. QED BY <3>1, <3>2
  <2>2. ASSUME NEW u \in Stored(sessions'), sessions'[u].stream # None
        PROVE  streams'[sessions'[u].stream].source = u
    <3>1. CASE u = s BY <1>9, <1>10, <3>1
    <3>2. CASE u # s
      <4>1. u \in Stored(sessions) /\ sessions'[u] = sessions[u]
        BY <1>1, <1>7, <1>12, <3>2 DEF Stored, TypeOK
      <4>2. sessions[u].stream \in Stored(streams)
        BY <1>1, <2>2, <4>1 DEF ReferencesExist
      <4>3. streams[sessions[u].stream].source = u BY <1>1, <2>2, <4>1 DEF OwnStream
      <4>4. sessions[u].stream # t
        <5>1. SUFFICES ASSUME sessions[u].stream = t PROVE FALSE OBVIOUS
        <5>2. row.stream = t BY <1>9, <1>10, <4>2, <5>1 DEF Stored
        <5>3. streams[t].source = s BY <1>3, <1>4, <1>8, <5>2
        <5>4. QED BY <3>2, <4>3, <5>1, <5>3
      <4>5. QED BY <1>10, <1>12, <4>1, <4>2, <4>3, <4>4
    <3>3. QED BY <3>1, <3>2
  <2>3. QED BY <2>1, <2>2 DEF OwnStream
<1>15. QED BY <1>2, <1>3, <1>7, <1>9, <1>10, <1>13, <1>14

\* Such a commit, and the request that goes on to the media plane with its path.
LEMMA CommitEnters ==
  ASSUME MediaInv, SerialInv, NEW w \in Workers, req[w].stage = "commit",
         req[w].op \in {"start", "stop"}, req[w].session # None,
         NEW t \in StreamIds, WritesStream(req[w], t),
         sessions' = [sessions EXCEPT ![req[w].session] = FlushSession(@, Binding(req[w], t))],
         NEW p, p = streams'[t].path,
         req' = [req EXCEPT ![w] = [Idle EXCEPT !.stage = "media", !.op = req[w].op,
                                               !.key = req[w].key, !.path = p]]
  PROVE  SerialStep(w)
<1>1. PICK s \in SessionIds : s = req[w].session
  BY CommitBinds
<1>2. /\ sessions[s] # None /\ sessions[s].key = req[w].key /\ sessions'[s].key = req[w].key
      /\ sessions[s].stream \in {None, sessions'[s].stream} /\ sessions'[s].stream = t
      /\ sessions'[s].status = FlushSession(sessions[s], req[w].change).status
      /\ \A u \in SessionIds : u # s => sessions'[u] = sessions[u]
      /\ PathsKept /\ OwnStream'
  BY <1>1, CommitBinds
<1>3. HoldsRow(req[w]) BY SerialRequest DEF HoldsSerial
<1>4. sessions'[s].status = "live" <=> req[w].op = "start" BY <1>1, <1>2, <1>3 DEF HoldsRow
<1>5. /\ req'[w].stage = "media" /\ req'[w].op = req[w].op /\ req'[w].key = req[w].key
      /\ req'[w].path = p /\ req'[w].session = None
  BY SerialRequest DEF Idle
<1>6. s \in DOMAIN sessions' /\ sessions'[s] # None
  <2>1. sessions[s] \in SessionRow /\ req[w].change \in SessionChange
    BY <1>2, SerialRequest, StoredType DEF Stored, TypeOK
  <2>2. Binding(req[w], t) \in SessionChange BY <2>1 DEF Binding, SessionChange
  <2>3. FlushSession(sessions[s], Binding(req[w], t)) \in SessionRow
    BY <2>1, <2>2, FlushSessionType
  <2>4. QED BY <1>1, <2>3, SerialRequest, SentinelAssumption DEF TypeOK
<1>7. t # None BY SentinelAssumption
<1>8. IsAbout(req[w], s)'
  BY <1>2, <1>4, <1>5, <1>6, <1>7 DEF IsAbout, WithKey, Stored, BoundPath
<1>9. HoldsSerial(req[w])' BY <1>5, <1>8 DEF HoldsSerial
<1>10. \A u \in SessionIds : SerialRow(w, u)
  BY <1>2, <1>5, <1>8 DEF SerialRow, Enters
<1>11. QED BY <1>2, <1>9, <1>10 DEF SerialStep

LEMMA CommitStartSerial ==
  ASSUME MediaInv, SerialInv, NEW w \in Workers, CommitStart(w)
  PROVE  SerialStep(w)
<1>1. req[w].op = "start" /\ req[w].stage = "commit" /\ req[w].session # None
  BY SerialRequest DEF CommitStart, RequestShape
<1>2. PICK t \in StreamIds :
        /\ WritesStream(req[w], t)
        /\ sessions' = [sessions EXCEPT ![req[w].session] = FlushSession(@, Binding(req[w], t))]
        /\ req' = [req EXCEPT ![w] = [Idle EXCEPT
                     !.stage = "media", !.op = "start", !.key = req[w].key,
                     !.path = streams'[t].path]]
  BY DEF CommitStart
<1>3. PICK p : p = streams'[t].path OBVIOUS
<1>4. req' = [req EXCEPT ![w] = [Idle EXCEPT !.stage = "media", !.op = req[w].op,
                                            !.key = req[w].key, !.path = p]]
  BY <1>1, <1>2, <1>3
<1>5. QED BY <1>1, <1>2, <1>3, <1>4, CommitEnters

LEMMA CommitStopSerial ==
  ASSUME MediaInv, SerialInv, NEW w \in Workers, CommitStop(w)
  PROVE  SerialStep(w)
<1>1. req[w].op = "stop" /\ req[w].stage = "commit" BY DEF CommitStop
<1>2. HoldsSerial(req[w]) /\ TypeOK BY SerialRequest
<1>3. req[w].session # None
  <2>1. SUFFICES ASSUME req[w].session = None PROVE FALSE OBVIOUS
  <2>2. WithKey(req[w].key) = {} BY <1>1, <1>2, <2>1 DEF HoldsSerial
  <2>3. QED BY <2>1, <2>2 DEF CommitStop
<1>4. HoldsRow(req[w]) BY <1>1, <1>2, <1>3 DEF HoldsSerial
<1>5. \A s \in WithKey(req[w].key) : s = req[w].session
  <2>1. req[w].session \in Stored(sessions) BY <1>3, SerialRequest DEF RequestReferences
  <2>2. QED BY <1>4, <2>1 DEF HoldsRow, WithKey, MediaInv, RowInv, Distinct
<1>6. PICK t \in StreamIds :
        /\ WritesStream(req[w], t)
        /\ sessions' = [sessions EXCEPT ![req[w].session] = FlushSession(@, Binding(req[w], t))]
  BY <1>3, <1>5, Zenon DEF CommitStop
<1>7. streams'[t].path = req[w].path
  BY <1>1, <1>3, <1>4, <1>6, CommitBinds DEF HoldsRow
<1>8. req' = [req EXCEPT ![w] = [Idle EXCEPT !.stage = "media", !.op = req[w].op,
                                            !.key = req[w].key, !.path = req[w].path]]
  BY <1>1 DEF CommitStop
<1>9. QED BY <1>1, <1>3, <1>6, <1>7, <1>8, CommitEnters

LEMMA CommitSessionSerial ==
  ASSUME MediaInv, SerialInv, NEW w \in Workers, CommitSession(w)
  PROVE  SerialStep(w)
<1>1. req[w].stage = "commit" /\ req[w].op \in {"rotate", "revoke"}
  BY SerialRequest DEF CommitSession, HoldsSerial
<1>2. /\ req[w].key = None /\ req[w].change.stream = Keep /\ TypeOK /\ ReferencesExist
      /\ FlushSession(sessions[req[w].session], req[w].change).status \in {"created", "revoked"}
      /\ OwnStream
  BY <1>1, SerialRequest DEF HoldsSerial
<1>3. req[w].session \in Stored(sessions) /\ req[w].change \in SessionChange
  BY <1>1, SerialRequest DEF RequestShape, RequestReferences
<1>4. PICK s \in SessionIds : s = req[w].session BY <1>2, <1>3, StoredType
<1>5. /\ sessions' = [sessions EXCEPT ![s] = FlushSession(@, req[w].change)]
      /\ req' = [req EXCEPT ![w] = Idle] /\ UNCHANGED streams
  BY <1>4 DEF CommitSession
<1>6. sessions[s] \in SessionRow /\ sessions[s] # None BY <1>2, <1>3, <1>4, StoredType DEF Stored
<1>7. sessions'[s] = FlushSession(sessions[s], req[w].change) BY <1>2, <1>5 DEF TypeOK
<1>8. /\ sessions'[s].stream = sessions[s].stream
      /\ sessions'[s].status \in {"created", "revoked"} /\ sessions'[s] # None
  BY <1>2, <1>3, <1>4, <1>6, <1>7, FlushSessionType, SentinelAssumption DEF FlushSession, Written
<1>9. \A u \in SessionIds : u # s => sessions'[u] = sessions[u] BY <1>2, <1>5 DEF TypeOK
<1>10. \A u \in SessionIds : SerialRow(w, u) BY <1>2, <1>6, <1>8, <1>9 DEF SerialRow
<1>11. Stored(sessions') = Stored(sessions) /\ Stored(sessions) \subseteq SessionIds
  BY <1>2, <1>5, <1>6, <1>8, <1>9 DEF Stored, TypeOK
<1>12. \A u \in SessionIds : sessions[u] # None => sessions'[u].stream = sessions[u].stream
  BY <1>8, <1>9
<1>13. OwnStream'
  <2>1. \A t \in Stored(streams) : streams[t].source # None => streams[t].source \in Stored(sessions)
    BY <1>2 DEF ReferencesExist
  <2>2. \A u \in Stored(sessions) : sessions'[u].stream = sessions[u].stream
    BY <1>11, <1>12 DEF Stored
  <2>3. streams' = streams /\ Stored(streams') = Stored(streams) BY <1>5 DEF Stored
  <2>4. QED BY <1>2, <1>11, <2>1, <2>2, <2>3 DEF OwnStream
<1>14. PathsKept BY <1>5 DEF PathsKept
<1>15. HoldsSerial(req[w])'
  <2>1. None \notin {"start", "stop", "rotate", "revoke"} BY SentinelAssumption DEF Ops
  <2>2. req'[w] = Idle BY <1>5, SerialRequest
  <2>3. QED BY <2>1, <2>2 DEF HoldsSerial, Idle
<1>16. QED BY <1>10, <1>13, <1>14, <1>15 DEF SerialStep

\* The media stage leaves the tables alone.
LEMMA FinishSerial ==
  ASSUME MediaInv, SerialInv, NEW w \in Workers, Return(w)
  PROVE  SerialStep(w) /\ Finish(w)
<1>1. ~FinishIgnoredStop(w) BY SerialRequest DEF FinishIgnoredStop, HoldsSerial
<1>2. QED BY <1>1, IdleHoldsSerial DEF Return, Finish

LEMMA StopUnknownSerial ==
  ASSUME MediaInv, SerialInv, NEW w \in Workers, StopUnknown(w)
  PROVE  SerialStep(w)
<1>1. /\ req[w].op = "stop" /\ req[w].stage = "commit" /\ WithKey(req[w].key) = {}
      /\ UNCHANGED <<sessions, streams>>
      /\ req' = [req EXCEPT ![w] = [ResolveOnly(@) EXCEPT !.stage = "media"]]
  BY DEF StopUnknown
<1>2. HoldsSerial(req[w]) /\ req[w] \in Request /\ RequestReferences(req[w]) BY SerialRequest
<1>3. req[w].session = None
  <2>1. SUFFICES ASSUME req[w].session # None PROVE FALSE OBVIOUS
  <2>2. HoldsRow(req[w]) BY <1>1, <1>2, <2>1 DEF HoldsSerial
  <2>3. req[w].session \in WithKey(req[w].key)
    BY <1>2, <2>1, <2>2 DEF HoldsRow, WithKey, RequestReferences
  <2>4. QED BY <1>1, <2>3
<1>4. req[w].path = None BY <1>1, <1>2, <1>3 DEF HoldsSerial
<1>5. req'[w] = [ResolveOnly(req[w]) EXCEPT !.stage = "media"] BY <1>1, SerialRequest
<1>6. /\ req'[w].stage = "media" /\ req'[w].op = "stop" /\ req'[w].session = None
      /\ req'[w].path = None
  BY <1>1, <1>2, <1>3, <1>4, <1>5 DEF ResolveOnly, Request
<1>7. HoldsSerial(req[w])' BY <1>6 DEF HoldsSerial
<1>8. QED BY <1>1, <1>7, SerialQuiet

\* Every step of a worker on the database.
LEMMA WorkerSerial ==
  ASSUME OnlyPublishesBind, MediaInv, SerialInv, NEW w \in Workers,
         Receive(w) \/ DatabaseStep(w) \/ Return(w)
  PROVE  SerialStep(w)
<1>1. CASE Receive(w)
  <2>1. \A op : Accepts(w, op) => op \in {"start", "stop", "rotate", "revoke"}
    BY DEF Accepts, OnlyPublishesBind
  <2>2. ~LoadForBind(w)
    <3>1. ~Accepts(w, "bind") BY <2>1
    <3>2. \A s, c : ~LoadSession(w, "bind", s, c) BY <3>1, Zenon DEF LoadSession
    <3>3. QED BY <3>2, Zenon DEF LoadForBind
  <2>3. \A k, t : ~CreateSession(w, k, t) BY <2>1 DEF CreateSession
  <2>4. \A p, v, s : ~CreateStream(w, p, v, s) BY <2>1 DEF CreateStream
  <2>5. \A t, patch : ~LoadForUpdate(w, t, patch) BY <2>1 DEF LoadForUpdate
  <2>6. QED
    BY <1>1, <2>2, <2>3, <2>4, <2>5, LookupSerial, LoadForStopSerial, LoadForAdminSerial
       DEF Receive
<1>2. CASE DatabaseStep(w)
  <2>1. ~CommitUpdate(w) BY SerialRequest DEF CommitUpdate, HoldsSerial
  <2>2. CASE DenyStart(w) \/ DatabaseError(w)
    BY <2>2, IdleHoldsSerial DEF DenyStart, DatabaseError
  <2>3. QED
    BY <1>2, <2>1, <2>2, AutoRegisterSerial, LoadForStartSerial, CommitStartSerial,
       CommitStopSerial, StopUnknownSerial, CommitSessionSerial
       DEF DatabaseStep
<1>3. CASE Return(w) BY <1>3, FinishSerial
<1>4. QED BY <1>1, <1>2, <1>3

LEMMA ReceiveReads ==
  ASSUME OnlyPublishesBind, NEW w \in Workers, Receive(w)
  PROVE  UNCHANGED <<sessions, streams>> /\ req[w] = Idle
<1>1. \A op : Accepts(w, op) => op \in {"start", "stop", "rotate", "revoke"} /\ req[w] = Idle
  BY DEF Accepts, OnlyPublishesBind
<1>2. \A k, t : ~CreateSession(w, k, t) BY <1>1 DEF CreateSession
<1>3. \A p, v, s : ~CreateStream(w, p, v, s) BY <1>1 DEF CreateStream
<1>4. QED
  BY <1>1, <1>2, <1>3
     DEF Receive, LookupForPublish, LoadForStop, LoadForRotate, LoadForRevoke, LoadForBind,
         LoadForUpdate, LoadSession

\* The path of a bound session stays as long as its row does.
LEMMA SamePath ==
  ASSUME MediaInv, PathsKept, NEW s \in Stored(sessions), sessions[s].stream # None,
         sessions'[s].stream = sessions[s].stream
  PROVE  BoundPath(s)' = BoundPath(s)
<1>1. sessions[s].stream \in Stored(streams) BY DEF MediaInv, Typed, Inv, ReferencesExist
<1>2. QED BY <1>1 DEF PathsKept, BoundPath

\* What a request with another key can see is left alone.
LEMMA OtherKey ==
  ASSUME MediaInv, TypeOK', NEW w \in Workers, SerialStep(w), req[w].key # None,
         NEW k, k # req[w].key
  PROVE  /\ WithKey(k)' = WithKey(k)
         /\ \A s \in WithKey(k) :
              /\ sessions'[s] = sessions[s]
              /\ sessions[s].stream # None => BoundPath(s)' = BoundPath(s)
<1>1. TypeOK /\ PathsKept /\ \A s \in SessionIds : SerialRow(w, s)
  BY DEF MediaInv, Typed, MediaTypeOK, SerialStep
<1>2. WithKey(k) \subseteq SessionIds /\ WithKey(k)' \subseteq SessionIds
  BY <1>1 DEF WithKey, Stored, TypeOK
<1>3. ASSUME NEW s \in WithKey(k) PROVE sessions'[s] = sessions[s]
  BY <1>1, <1>2, <1>3 DEF SerialRow, WithKey, Stored
<1>4. ASSUME NEW s \in WithKey(k), sessions[s].stream # None PROVE BoundPath(s)' = BoundPath(s)
  BY <1>1, <1>3, <1>4, SamePath DEF WithKey
<1>5. ASSUME NEW s \in SessionIds PROVE s \in WithKey(k)' <=> s \in WithKey(k)
  <2>1. sessions[s] = None \/ sessions[s] # None OBVIOUS
  <2>2. CASE sessions'[s] = sessions[s] BY <1>1, <2>2 DEF WithKey, Stored, TypeOK
  <2>3. CASE sessions'[s] # sessions[s]
    BY <1>1, <2>3 DEF SerialRow, WithKey, Stored, TypeOK
  <2>4. QED BY <2>2, <2>3
<1>6. QED BY <1>2, <1>3, <1>4, <1>5

LEMMA OthersSerial ==
  ASSUME OnlyPublishesBind, MediaInv, SerialInv, TypeOK', NEW w \in Workers,
         Receive(w) \/ DatabaseStep(w) \/ Return(w),
         NEW v \in Workers, v # w
  PROVE  req'[v] = req[v] /\ HoldsSerial(req[v])'
<1>1. SerialStep(w) BY WorkerSerial
<1>2. TypeOK /\ HoldsSerial(req[v]) /\ RequestShape(req[v]) /\ req[v] \in Request
  BY SerialRequest
<1>3. PICK r : req' = [req EXCEPT ![w] = r] BY <1>2, OneRequest
<1>4. req'[v] = req[v] BY <1>2, <1>3 DEF TypeOK
<1>5. CASE UNCHANGED <<sessions, streams>>
  <2>1. Stored(sessions') = Stored(sessions) BY <1>5 DEF Stored
  <2>2. QED BY <1>2, <1>4, <1>5, <2>1
    DEF HoldsSerial, HoldsRow, IsAbout, BoundPath, WithKey
<1>6. CASE req[v] = Idle
  <2>1. None \notin {"start", "stop", "rotate", "revoke"} BY SentinelAssumption DEF Ops
  <2>2. HoldsSerial(req[v])' BY <1>4, <1>6, <2>1 DEF HoldsSerial, Idle
  <2>3. QED BY <1>4, <2>2
<1>7. CASE req[v] # Idle /\ ~UNCHANGED <<sessions, streams>>
  <2>1. req[w] # Idle
    <3>1. CASE Receive(w) BY <1>7, <3>1, ReceiveReads
    <3>2. CASE DatabaseStep(w) \/ Return(w) BY <3>2, IdleStands
    <3>3. QED BY <3>1, <3>2
  <2>2. req[v].key # None /\ req[w].key # None /\ req[v].key # req[w].key
    BY <1>7, <2>1 DEF SerialInv, Separate
  <2> DEFINE k == req[v].key
  <2>3. PICK q : q = req[v] OBVIOUS
  <2>4. /\ WithKey(q.key)' = WithKey(q.key)
        /\ \A s \in WithKey(q.key) :
             /\ sessions'[s] = sessions[s]
             /\ sessions[s].stream # None => BoundPath(s)' = BoundPath(s)
    BY <1>1, <2>2, <2>3, OtherKey
  <2>5. q.op \notin {"rotate", "revoke"} BY <1>2, <2>2, <2>3 DEF HoldsSerial
  <2>6. q.session # None => q.session \in Stored(sessions)
    BY <2>3, SerialRequest DEF RequestReferences
  <2>7. q.session # None /\ HoldsRow(q) => HoldsRow(q)'
    <3>1. SUFFICES ASSUME q.session # None, HoldsRow(q) PROVE HoldsRow(q)' OBVIOUS
    <3>2. q.session \in WithKey(q.key) BY <2>6, <3>1 DEF HoldsRow, WithKey
    <3>3. sessions'[q.session] = sessions[q.session] BY <2>4, <3>2
    <3>4. sessions[q.session].stream # None => BoundPath(q.session)' = BoundPath(q.session)
      BY <2>4, <3>2
    <3>5. QED BY <3>1, <3>3, <3>4 DEF HoldsRow, FlushSession
  <2>8. \A s \in SessionIds : IsAbout(q, s) => IsAbout(q, s)' BY <2>4 DEF IsAbout
  <2>9. HoldsSerial(q)' BY <1>2, <2>3, <2>4, <2>5, <2>7, <2>8 DEF HoldsSerial
  <2>10. QED BY <1>4, <2>3, <2>9
<1>8. QED BY <1>4, <1>5, <1>6, <1>7

LEMMA NextSerialInv ==
  ASSUME OnlyPublishesBind, MediaInv, SerialInv, [MediaNext /\ Separate']_mediaVars
  PROVE  SerialInv'
<1>1. [Next]_vars /\ TypeOK BY MediaStepIsStep DEF MediaInv, Typed, MediaTypeOK
<1>2. TypeOK' BY <1>1, NextInv DEF MediaInv, Typed, Inv
<1>3. Separate' BY DEF mediaVars, SerialInv, Separate
<1>4. CASE UNCHANGED vars
  <2>1. UNCHANGED <<sessions, streams, req>> /\ Stored(sessions') = Stored(sessions)
        /\ Stored(streams') = Stored(streams)
    BY <1>4 DEF vars, Stored
  <2>2. \A w \in Workers : HoldsSerial(req[w])'
    BY <2>1 DEF SerialInv, HoldsSerial, HoldsRow, IsAbout, BoundPath, WithKey
  <2>3. OwnStream' /\ LiveIsBound' BY <2>1 DEF SerialInv, OwnStream, LiveIsBound, LiveSessions
  <2>4. QED BY <1>3, <2>2, <2>3 DEF SerialInv
<1>5. CASE Crash
  <2>1. /\ UNCHANGED <<sessions, streams>> /\ Stored(sessions') = Stored(sessions)
        /\ Stored(streams') = Stored(streams)
        /\ \A w \in Workers : req'[w] = Idle
    BY <1>5 DEF Crash, Stored
  <2>2. None \notin {"start", "stop", "rotate", "revoke"} BY SentinelAssumption DEF Ops
  <2>3. \A w \in Workers : HoldsSerial(req[w])' BY <2>1, <2>2 DEF HoldsSerial, Idle
  <2>4. OwnStream' /\ LiveIsBound' BY <2>1 DEF SerialInv, OwnStream, LiveIsBound, LiveSessions
  <2>5. QED BY <1>3, <2>3, <2>4 DEF SerialInv
<1>6. ASSUME NEW w \in Workers, Receive(w) \/ DatabaseStep(w) \/ Return(w) PROVE SerialInv'
  <2>1. SerialStep(w) BY <1>6, WorkerSerial
  <2>2. \A v \in Workers : HoldsSerial(req[v])'
    BY <1>2, <1>6, <2>1, OthersSerial DEF SerialStep
  <2>3. LiveIsBound'
    <3>1. SUFFICES ASSUME NEW s \in LiveSessions' PROVE sessions'[s].stream # None
      BY DEF LiveIsBound
    <3>2. s \in SessionIds /\ sessions'[s] # None /\ sessions'[s].status = "live"
      BY <1>2, <3>1 DEF LiveSessions, Stored, TypeOK
    <3>3. SerialRow(w, s) BY <2>1, <3>2 DEF SerialStep
    <3>4. CASE sessions'[s] = sessions[s]
      BY <1>1, <3>2, <3>4 DEF SerialInv, LiveIsBound, LiveSessions, Stored, TypeOK
    <3>5. CASE Enters(w, s)' BY <3>5 DEF Enters, IsAbout
    <3>6. QED BY <3>2, <3>3, <3>4, <3>5 DEF SerialRow
  <2>4. QED BY <1>3, <2>1, <2>2, <2>3 DEF SerialInv, SerialStep
<1>7. QED BY <1>1, <1>4, <1>5, <1>6 DEF Next

LEMMA InitSerialInv == MediaInit => SerialInv
<1> SUFFICES ASSUME MediaInit PROVE SerialInv OBVIOUS
<1>1. /\ Stored(sessions) = {} /\ Stored(streams) = {} /\ \A w \in Workers : req[w] = Idle
  BY DEF MediaInit, Init, Stored
<1>2. None \notin {"start", "stop", "rotate", "revoke"} BY SentinelAssumption DEF Ops
<1>3. HoldsSerial(Idle) BY <1>2 DEF HoldsSerial, Idle
<1>4. QED BY <1>1, <1>3 DEF SerialInv, OwnStream, LiveIsBound, LiveSessions, Separate

\* Nobody but an administrator deactivates a stream, or changes its visibility.
KeepsActive(r) ==
  r.streamChange.active \in {Keep, "yes"} /\ r.streamChange.visibility = Keep

ActiveInv ==
  /\ \A t \in Stored(streams) : streams[t].visibility = "private" /\ streams[t].active = "yes"
  /\ \A w \in Workers : KeepsActive(req[w])

LEMMA StepRequest ==
  ASSUME OnlyPublishesBind, MediaInv, SerialInv, ActiveInv, NEW w \in Workers,
         Receive(w) \/ DatabaseStep(w) \/ Return(w)
  PROVE  KeepsActive(req[w])'
<1>1. req[w] \in Request /\ req \in [Workers -> Request] /\ TypeOK BY SerialRequest
<1>2. KeepsActive(req[w]) BY DEF ActiveInv
<1>3. NoStreamChange.active = Keep /\ NoStreamChange.visibility = Keep BY DEF NoStreamChange
<1>4. Idle.streamChange = NoStreamChange BY DEF Idle
<1>5. CASE req'[w].streamChange \in {req[w].streamChange, NoStreamChange}
  BY <1>2, <1>3, <1>5 DEF KeepsActive
<1>6. CASE LoadForStart(w)
  <2>1. PICK s \in WithKey(req[w].key) : \E t \in Resolved(s) :
          req' = [req EXCEPT ![w] = [@ EXCEPT
                    !.stage = "commit", !.session = s, !.stream = t,
                    !.change = StartChange(sessions[s], t),
                    !.streamChange = IF t = None THEN NoStreamChange
                                     ELSE StartStreamChange(streams[t], s)]]
    BY <1>6 DEF LoadForStart
  <2>2. PICK t \in Resolved(s) :
          req' = [req EXCEPT ![w] = [@ EXCEPT
                    !.stage = "commit", !.session = s, !.stream = t,
                    !.change = StartChange(sessions[s], t),
                    !.streamChange = IF t = None THEN NoStreamChange
                                     ELSE StartStreamChange(streams[t], s)]]
    BY <2>1
  <2>3. req'[w].streamChange = IF t = None THEN NoStreamChange ELSE StartStreamChange(streams[t], s)
    BY <1>1, <2>2 DEF Request
  <2>4. CASE t = None BY <1>5, <2>3, <2>4
  <2>5. CASE t # None
    <3>1. t \in Stored(streams)
      BY <2>5, SerialRequest DEF Resolved, WithKey, WithSource, ReferencesExist
    <3>2. streams[t].visibility = "private" BY <3>1 DEF ActiveInv
    <3>3. /\ StartStreamChange(streams[t], s).active \in {Keep, "yes"}
          /\ StartStreamChange(streams[t], s).visibility = Keep
      BY <3>2 DEF StartStreamChange, NoStreamChange, Assign
    <3>4. QED BY <2>3, <2>5, <3>3 DEF KeepsActive
  <2>6. QED BY <2>4, <2>5
<1>7. CASE Return(w)
  BY <1>1, <1>4, <1>5, <1>7 DEF Return, Finish, FinishIgnoredStop
<1>8. CASE DatabaseStep(w) /\ ~LoadForStart(w)
  <2>1. ASSUME req' = [req EXCEPT ![w] = Idle] PROVE KeepsActive(req[w])'
    BY <1>1, <1>4, <1>5, <2>1
  <2>2. CASE AutoRegister(w)
    BY <1>1, <1>5, <2>2 DEF AutoRegister, Request
  <2>3. CASE CommitStart(w)
    BY <1>1, <1>4, <1>5, <2>3 DEF CommitStart, Idle
  <2>4. CASE CommitStop(w)
    BY <1>1, <1>4, <1>5, <2>4 DEF CommitStop, Idle
  <2>5. CASE StopUnknown(w)
    BY <1>1, <1>5, <2>5 DEF StopUnknown, ResolveOnly, Request
  <2>6. QED
    BY <1>8, <2>1, <2>2, <2>3, <2>4, <2>5
       DEF DatabaseStep, DenyStart, CommitSession, CommitUpdate, DatabaseError
<1>9. CASE Receive(w)
  <2>1. \A op : Accepts(w, op) => op \in {"start", "stop", "rotate", "revoke"}
    BY DEF Accepts, OnlyPublishesBind
  <2>2. ASSUME NEW k \in Keys, LookupForPublish(w, k) PROVE KeepsActive(req[w])'
    BY <1>1, <1>5, <2>2 DEF LookupForPublish, Idle
  <2>3. ASSUME NEW k \in Keys, LoadForStop(w, k) PROVE KeepsActive(req[w])'
    BY <1>1, <1>5, <2>3 DEF LoadForStop, Idle
  <2>4. ASSUME NEW op, NEW s, NEW c, LoadSession(w, op, s, c) PROVE KeepsActive(req[w])'
    BY <1>1, <1>5, <2>4 DEF LoadSession, Idle
  <2>5. \A k, t : ~CreateSession(w, k, t) BY <2>1 DEF CreateSession
  <2>6. \A p, v, s : ~CreateStream(w, p, v, s) BY <2>1 DEF CreateStream
  <2>7. \A t, patch : ~LoadForUpdate(w, t, patch) BY <2>1 DEF LoadForUpdate
  <2>8. QED
    BY <1>9, <2>2, <2>3, <2>4, <2>5, <2>6, <2>7
       DEF Receive, LoadForRotate, LoadForRevoke, LoadForBind
<1>10. QED BY <1>6, <1>7, <1>8, <1>9

\* The two commits that write a stream, and what they leave of the others.
LEMMA StepStreams ==
  ASSUME OnlyPublishesBind, MediaInv, SerialInv, ActiveInv, TypeOK', NEW w \in Workers,
         Receive(w) \/ DatabaseStep(w) \/ Return(w), NEW u \in Stored(streams')
  PROVE  streams'[u].visibility = "private" /\ streams'[u].active = "yes"
<1>1. req[w] \in Request /\ TypeOK /\ RequestReferences(req[w]) /\ KeepsActive(req[w])
  BY SerialRequest DEF ActiveInv
<1>2. u \in StreamIds /\ streams'[u] # None BY DEF Stored, TypeOK
<1>3. CASE UNCHANGED streams BY <1>3 DEF ActiveInv, Stored
<1>4. ASSUME NEW t \in StreamIds, WritesStream(req[w], t)
      PROVE  streams'[u].visibility = "private" /\ streams'[u].active = "yes"
  <2>1. CASE u # t
    <3>1. streams'[u] = streams[u] BY <1>1, <1>2, <1>4, <2>1 DEF WritesStream, TypeOK
    <3>2. u \in Stored(streams) BY <1>1, <1>2, <3>1 DEF Stored, TypeOK
    <3>3. QED BY <3>1, <3>2 DEF ActiveInv
  <2>2. CASE u = t /\ req[w].stream # None
    <3>1. t = req[w].stream /\ t \in Stored(streams) BY <1>1, <1>4, <2>2 DEF WritesStream, RequestReferences
    <3>2. streams'[t] = FlushStream(streams[t], req[w].streamChange)
      BY <1>1, <1>4, <2>2, <3>1 DEF WritesStream, TypeOK
    <3>3. streams[t].visibility = "private" /\ streams[t].active = "yes" BY <3>1 DEF ActiveInv
    <3>4. QED BY <1>1, <2>2, <3>2, <3>3 DEF FlushStream, Written, KeepsActive
  <2>3. CASE u = t /\ req[w].stream = None
    <3>1. streams'[t] = NewStream(AutoPath[req[w].session], "private", req[w].session)
      BY <1>1, <1>4, <2>3 DEF WritesStream, TypeOK
    <3>2. QED BY <2>3, <3>1 DEF NewStream
  <2>4. QED BY <2>1, <2>2, <2>3
<1>5. CASE CommitStart(w)
  <2>1. PICK t \in StreamIds : WritesStream(req[w], t) BY <1>5 DEF CommitStart
  <2>2. QED BY <1>4, <2>1
<1>6. CASE CommitStop(w)
  <2>1. UNCHANGED streams \/ \E t \in StreamIds : WritesStream(req[w], t)
    BY <1>6, Zenon DEF CommitStop
  <2>2. QED BY <1>3, <1>4, <2>1
<1>7. CASE Receive(w) BY <1>3, <1>7, ReceiveReads
<1>8. CASE DatabaseStep(w) /\ ~CommitStart(w) /\ ~CommitStop(w)
  <2>1. ~CommitUpdate(w) BY SerialRequest DEF CommitUpdate, HoldsSerial
  <2>2. UNCHANGED streams
    BY <1>8, <2>1
       DEF DatabaseStep, AutoRegister, LoadForStart, DenyStart, StopUnknown, CommitSession,
           DatabaseError
  <2>3. QED BY <1>3, <2>2
<1>9. CASE Return(w) BY <1>3, <1>9, FinishSerial DEF Finish
<1>10. QED BY <1>5, <1>6, <1>7, <1>8, <1>9

LEMMA NextActive ==
  ASSUME OnlyPublishesBind, MediaInv, SerialInv, ActiveInv, [MediaNext]_mediaVars
  PROVE  ActiveInv'
<1>1. [Next]_vars /\ TypeOK BY MediaStepIsStep DEF MediaInv, Typed, MediaTypeOK
<1>2. TypeOK' BY <1>1, NextInv DEF MediaInv, Typed, Inv
<1>3. CASE UNCHANGED vars BY <1>3 DEF vars, ActiveInv, Stored, KeepsActive
<1>4. CASE Crash
  <2>1. \A w \in Workers : KeepsActive(req[w])'
    BY <1>4 DEF Crash, Idle, KeepsActive, NoStreamChange
  <2>2. QED BY <1>4, <2>1 DEF Crash, ActiveInv, Stored
<1>5. ASSUME NEW w \in Workers, Receive(w) \/ DatabaseStep(w) \/ Return(w) PROVE ActiveInv'
  <2>1. PICK r : req' = [req EXCEPT ![w] = r] BY <1>1, <1>5, OneRequest
  <2>2. \A v \in Workers : v # w => req'[v] = req[v] BY <1>1, <2>1 DEF TypeOK
  <2>3. KeepsActive(req[w])' BY <1>5, StepRequest
  <2>4. \A v \in Workers : KeepsActive(req[v])' BY <2>2, <2>3 DEF ActiveInv, KeepsActive
  <2>5. \A u \in Stored(streams') : streams'[u].visibility = "private" /\ streams'[u].active = "yes"
    BY <1>2, <1>5, StepStreams
  <2>6. QED BY <2>4, <2>5 DEF ActiveInv
<1>6. QED BY <1>1, <1>3, <1>4, <1>5 DEF Next

LEMMA InitActive == MediaInit => ActiveInv
<1> SUFFICES ASSUME MediaInit PROVE ActiveInv OBVIOUS
<1>1. Stored(streams) = {} /\ \A w \in Workers : req[w] = Idle BY DEF MediaInit, Init, Stored
<1>2. KeepsActive(Idle) BY DEF KeepsActive, Idle, NoStreamChange
<1>3. QED BY <1>1, <1>2 DEF ActiveInv

---------------------------------------------------------------------------
(* The media calls of such requests                                        *)

\* A start makes its calls in order, and so does a stop.
InOrder ==
  \A w \in Workers :
    /\ req[w].op = "start" => calls[w] \in {<<>>, StartCalls, <<"delete", "add">>, <<"add">>}
    /\ req[w].op = "stop" => calls[w] \in {<<>>, <<"stop_transcoder", "delete">>, <<"delete">>}

LEMMA OrderedTail ==
  /\ \A c \in {StartCalls, <<"delete", "add">>, <<"add">>} :
       Tail(c) \in {<<>>, StartCalls, <<"delete", "add">>, <<"add">>}
  /\ \A c \in {<<"stop_transcoder", "delete">>, <<"delete">>} :
       Tail(c) \in {<<>>, <<"stop_transcoder", "delete">>, <<"delete">>}
<1>1. CASE transcode BY <1>1 DEF StartCalls
<1>2. CASE ~transcode BY <1>2 DEF StartCalls
<1>3. QED BY <1>1, <1>2

\* The acting worker changes no request and no calls but its own, and made all of
\* its own calls before.
LEMMA DatabaseCalls ==
  ASSUME MediaInv, NEW w \in Workers, Arrive(w) \/ Continue(w) \/ Respond(w)
  PROVE  /\ \A v \in Workers \ {w} : req'[v] = req[v] /\ calls'[v] = calls[v]
         /\ calls'[Startup] = calls[Startup] /\ UNCHANGED <<plane, boot, faults>>
         /\ calls[w] = <<>> /\ calls'[w] = CallsOf(req'[w])
<1>1. TypeOK /\ calls \in [Agents -> Seq(CallNames)] /\ w # Startup
  BY MediaAssumption DEF MediaInv, Typed, MediaTypeOK
<1>2. PICK r : req' = [req EXCEPT ![w] = r]
  BY <1>1, OneRequest DEF Arrive, Continue, Respond
<1>3. \A v \in Workers \ {w} : req'[v] = req[v] BY <1>1, <1>2 DEF TypeOK
<1>4. \A v \in Workers : calls[v] # <<>> => req[v].stage = "media"
  BY DEF MediaInv, Typed, MediaTypeOK
<1>5. calls[w] = <<>>
  <2>1. CASE Arrive(w)
    <3>1. Receive(w) => req[w] = Idle
      BY DEF Receive, LookupForPublish, LoadForStop, LoadForRotate, LoadForRevoke, LoadForBind,
             LoadForUpdate, LoadSession, CreateSession, CreateStream, Accepts
    <3>2. QED BY <1>4, <2>1, <3>1 DEF Arrive, Idle
  <2>2. CASE Continue(w)
    <3>1. DatabaseStep(w) => req[w].stage \in {"register", "mark", "commit"}
      BY DEF DatabaseStep, AutoRegister, LoadForStart, DenyStart, CommitStart, CommitStop,
             StopUnknown, CommitSession, CommitUpdate, DatabaseError
    <3>2. QED BY <1>4, <2>2, <3>1 DEF Continue
  <2>3. CASE Respond(w) BY <2>3 DEF Respond
  <2>4. QED BY <2>1, <2>2, <2>3
<1>6. calls'[w] = CallsOf(req'[w])
      /\ (\A b \in Agents : b # w => calls'[b] = calls[b]) /\ UNCHANGED <<plane, boot, faults>>
  <2>1. CASE Arrive(w) \/ Continue(w) BY <1>1, <2>1 DEF Arrive, Continue, Agents
  <2>2. CASE Respond(w)
    <3>1. req'[w].stage # "media"
      BY <1>1, <2>2 DEF Respond, Return, Finish, FinishIgnoredStop, TypeOK, Idle
    <3>2. QED BY <1>5, <2>2, <3>1 DEF Respond, CallsOf
  <2>3. QED BY <2>1, <2>2
<1>7. QED BY <1>1, <1>3, <1>5, <1>6 DEF Agents

\* A call that raises without a fault: the one refused, and the one on a handle
\* whose thread never started.
Raises(a) == AddRefused(a) \/ JoinUnstarted(a)

\* A media call of one agent leaves the others to theirs.
LEMMA AgentCalls ==
  ASSUME MediaInv, NEW a \in Agents, MediaCall(a)
  PROVE  /\ UNCHANGED <<sessions, streams, faults>>
         /\ \A b \in Agents : b # a => Target(b)' = Target(b) /\ calls'[b] = calls[b]
         /\ \A v \in Workers : v # a => req'[v] = req[v]
         /\ a # Startup => boot' = boot
         /\ ~Raises(a) => /\ UNCHANGED <<req, boot>> /\ Target(a)' = Target(a)
                          /\ calls'[a] = Tail(calls[a])
         /\ Raises(a) => calls'[a] = <<>> /\ (a # Startup => req'[a] = Idle)
<1>1. TypeOK /\ calls \in [Agents -> Seq(CallNames)]
  BY DEF MediaInv, Typed, MediaTypeOK
<1>2. CASE Raises(a)
  <2>1. CASE a = Startup
    <3>1. UNCHANGED <<sessions, streams, req, faults>> /\ calls' = [calls EXCEPT ![a] = <<>>]
      BY <1>2, <2>1 DEF Raises, AddRefused, JoinUnstarted, Raise, vars
    <3>2. QED BY <1>1, <1>2, <2>1, <3>1, MediaAssumption DEF Target, Agents
  <2>2. CASE a # Startup
    <3>1. a \in Workers BY <2>2 DEF Agents
    <3>2. /\ UNCHANGED <<sessions, streams, faults, boot>> /\ req' = [req EXCEPT ![a] = Idle]
          /\ calls' = [calls EXCEPT ![a] = <<>>]
      BY <1>2, <2>2 DEF Raises, AddRefused, JoinUnstarted, Raise, Finish
    <3>3. (\A v \in Workers : v # a => req'[v] = req[v]) /\ req'[a] = Idle
      BY <1>1, <3>1, <3>2 DEF TypeOK
    <3>4. calls'[a] = <<>> /\ \A b \in Agents : b # a => calls'[b] = calls[b] BY <1>1, <3>2
    <3>5. \A b \in Agents : b # a => Target(b)' = Target(b)
      BY <3>2, <3>3 DEF Target, Agents
    <3>6. QED BY <1>2, <2>2, <3>2, <3>3, <3>4, <3>5
  <2>3. QED BY <2>1, <2>2
<1>3. CASE ~Raises(a)
  <2>1. Proceed(a)
    BY <1>3 DEF Raises, MediaCall, StartTranscoder, StopTranscoder, DeleteAlias, AddAlias
  <2>2. UNCHANGED <<sessions, streams, req, boot, faults>> /\ calls' = [calls EXCEPT ![a] = Tail(@)]
    BY <2>1 DEF Proceed, vars
  <2>3. \A b \in Agents : Target(b)' = Target(b) BY <2>2 DEF Target
  <2>4. calls'[a] = Tail(calls[a]) /\ \A b \in Agents : b # a => calls'[b] = calls[b]
    BY <1>1, <2>2
  <2>5. QED BY <1>3, <2>2, <2>3, <2>4
<1>4. QED BY <1>2, <1>3

LEMMA CallsInOrder ==
  /\ \A r : r.op = "start" => CallsOf(r) \in {<<>>, StartCalls}
  /\ \A r : r.op = "stop" => CallsOf(r) \in {<<>>, <<"stop_transcoder", "delete">>}
BY DEF CallsOf, StopCalls

\* An exception takes the calls of one agent only.
LEMMA RaisedCalls ==
  ASSUME MediaInv, NEW a \in Agents, Raise(a) \/ ThreadFails(a)
  PROVE  calls'[a] = <<>> /\ \A v \in Workers : v # a => req'[v] = req[v] /\ calls'[v] = calls[v]
<1>1. req \in [Workers -> Request] /\ calls \in [Agents -> Seq(CallNames)]
  BY DEF MediaInv, Typed, MediaTypeOK, TypeOK
<1>2. calls' = [calls EXCEPT ![a] = <<>>] BY DEF Raise, ThreadFails
<1>3. calls'[a] = <<>> /\ \A v \in Workers : v # a => calls'[v] = calls[v]
  BY <1>1, <1>2 DEF Agents
<1>4. CASE a = Startup
  <2>1. req' = req BY <1>4 DEF Raise, ThreadFails, vars
  <2>2. QED BY <1>3, <2>1
<1>5. CASE a # Startup
  <2>1. req' = [req EXCEPT ![a] = Idle] BY <1>5 DEF Raise, ThreadFails, Finish
  <2>2. \A v \in Workers : v # a => req'[v] = req[v] BY <1>1, <2>1
  <2>3. QED BY <1>3, <2>2
<1>6. QED BY <1>4, <1>5

LEMMA NextInOrder ==
  ASSUME MediaInv, InOrder, [MediaNext]_mediaVars
  PROVE  InOrder'
<1> DEFINE Ordered(v) ==
      /\ req[v].op = "start" => calls[v] \in {<<>>, StartCalls, <<"delete", "add">>, <<"add">>}
      /\ req[v].op = "stop" => calls[v] \in {<<>>, <<"stop_transcoder", "delete">>, <<"delete">>}
<1>1. \A v \in Workers : Ordered(v) BY DEF InOrder
<1>2. SUFFICES ASSUME NEW v \in Workers PROVE Ordered(v)' BY DEF InOrder
<1>3. v \in Agents /\ v # Startup /\ calls \in [Agents -> Seq(CallNames)]
  BY MediaAssumption DEF Agents, MediaInv, Typed, MediaTypeOK
<1>4. CASE calls'[v] = <<>> BY <1>4
<1>5. CASE req'[v] = req[v] /\ calls'[v] = calls[v] /\ transcode' = transcode
  BY <1>1, <1>5 DEF StartCalls
<1>6. ASSUME NEW w \in Workers, Arrive(w) \/ Continue(w) \/ Respond(w), UNCHANGED transcode
      PROVE  Ordered(v)'
  <2>1. CASE v # w BY <1>5, <1>6, <2>1, DatabaseCalls
  <2>2. CASE v = w
    <3>1. calls'[v] = CallsOf(req'[v]) BY <1>6, <2>2, DatabaseCalls
    <3>2. StartCalls' = StartCalls BY <1>6 DEF StartCalls
    <3>3. QED BY <3>1, <3>2, CallsInOrder
  <2>3. QED BY <2>1, <2>2
<1>7. ASSUME NEW a \in Agents, MediaCall(a), UNCHANGED transcode PROVE Ordered(v)'
  <2>1. CASE v # a BY <1>3, <1>5, <1>7, <2>1, AgentCalls
  <2>2. CASE v = a /\ Raises(a) BY <1>4, <1>7, <2>2, AgentCalls
  <2>3. CASE v = a /\ ~Raises(a)
    <3>1. req'[v] = req[v] /\ calls'[v] = Tail(calls[v]) BY <1>7, <2>3, AgentCalls
    <3>2. calls[v] # <<>>
      BY <1>7, <2>3 DEF Raises, MediaCall, StartTranscoder, StopTranscoder, DeleteAlias, AddAlias,
                        Due
    <3>3. StartCalls' = StartCalls BY <1>7 DEF StartCalls
    <3>4. QED BY <1>1, <3>1, <3>2, <3>3, OrderedTail
  <2>4. QED BY <2>1, <2>2, <2>3
<1>8. ASSUME NEW a \in Agents, UNCHANGED transcode,
             StopTranscoderRaises(a) \/ ThreadFails(a) \/ CallFails(a)
      PROVE  Ordered(v)'
  <2>1. Raise(a) \/ ThreadFails(a) BY <1>8 DEF StopTranscoderRaises, CallFails
  <2>2. QED BY <1>4, <1>5, <1>8, <2>1, RaisedCalls
<1>9. CASE CrashProcess
  <2>1. calls'[v] = <<>> BY <1>3, <1>9 DEF CrashProcess
  <2>2. QED BY <1>4, <2>1
<1>10. CASE (RestoreNext \/ RestoreAborts \/ Restart \/ RestoreDone \/ CrashMediaMTX)
            /\ UNCHANGED transcode
  <2>1. req' = req /\ (calls' = calls \/ calls' = [calls EXCEPT ![Startup] = StartCalls])
    BY <1>10 DEF RestoreNext, RestoreAborts, Restart, RestoreDone, CrashMediaMTX, vars
  <2>2. calls'[v] = calls[v] BY <1>3, <2>1
  <2>3. QED BY <1>5, <1>10, <2>1, <2>2
<1>11. CASE UNCHANGED mediaVars BY <1>5, <1>11 DEF mediaVars
<1>12. QED
  BY <1>6, <1>7, <1>8, <1>9, <1>10, <1>11 DEF MediaNext, StartupStep, WorkerStep, Agents

---------------------------------------------------------------------------
(* Every live session has its path, or somebody is about to provide it     *)

\* The session's path has its alias, and a transcoder if it needs one.
Ready(s) ==
  /\ alias[BoundPath(s)] = AliasSource(sessions[s].key)
  /\ transcode => transcoders[BoundPath(s)] # None

\* An agent is making it so.
Underway(a, s) ==
  LET p == BoundPath(s) IN
  /\ Target(a).path = p /\ Target(a).key = sessions[s].key
  /\ calls[a] \in {StartCalls, <<"delete", "add">>, <<"add">>}
  /\ transcode /\ calls[a] # StartCalls => transcoders[p] # None
  /\ calls[a] = <<"add">> => alias[p] = None

InHand(s) ==
  \/ Ready(s)
  \/ \E a \in Agents : Underway(a, s)
  \/ boot.stage = "restore" /\ s \in boot.left

ServedInv == Unfailing /\ boot.stage # "down" => \A s \in LiveSessions : InHand(s)

\* What the reconciliation works on is the path of a live session.
AboutLive ==
  boot.stage = "restore" /\ calls[Startup] # <<>> =>
    \E s \in LiveSessions : sessions[s].key = boot.key /\ BoundPath(s) = boot.path

\* The calls an agent makes are about a session: those of a start when it is live,
\* those of a stop when it is not.
Concerns(a, u) ==
  /\ u \in Stored(sessions) /\ sessions[u].stream # None
  /\ Target(a).path = BoundPath(u) /\ Target(a).key = sessions[u].key
  /\ u \in LiveSessions => calls[a] \in {StartCalls, <<"delete", "add">>, <<"add">>}
  /\ u \notin LiveSessions =>
       a # Startup /\ calls[a] \in {<<"stop_transcoder", "delete">>, <<"delete">>}

LEMMA CallConcerns ==
  ASSUME MediaInv, SerialInv, RestoreInv, AboutLive, InOrder, NEW a \in Agents, calls[a] # <<>>
  PROVE  \E u : Concerns(a, u)
<1>1. CASE a = Startup
  <2>1. boot.stage = "restore" BY <1>1 DEF MediaInv, StartupOK
  <2>2. PICK s \in LiveSessions : sessions[s].key = boot.key /\ BoundPath(s) = boot.path
    BY <1>1, <2>1 DEF AboutLive
  <2>3. s \in Stored(sessions) /\ sessions[s].stream # None
    BY DEF LiveSessions, SerialInv, LiveIsBound
  <2>4. Concerns(a, s)
    BY <1>1, <2>2, <2>3 DEF Concerns, Target, RestoreInv, AtHand
  <2>5. QED BY <2>4
<1>2. CASE a # Startup
  <2>1. a \in Workers BY <1>2 DEF Agents
  <2>2. req[a].stage = "media" /\ Target(a) = req[a] /\ req[a].path # None
    BY <1>2, <2>1 DEF MediaInv, Typed, MediaTypeOK, Target
  <2>3. HoldsSerial(req[a]) BY <2>1 DEF SerialInv
  <2>4. req[a].op \in {"start", "stop"} BY <2>2, <2>3 DEF HoldsSerial
  <2>5. PICK u \in SessionIds : IsAbout(req[a], u) BY <2>2, <2>3 DEF HoldsSerial
  <2>6. /\ u \in Stored(sessions) /\ sessions[u].stream # None
        /\ BoundPath(u) = req[a].path /\ sessions[u].key = req[a].key
        /\ u \in LiveSessions <=> req[a].op = "start"
    BY <2>5 DEF IsAbout, WithKey, LiveSessions
  <2>7. Concerns(a, u) BY <1>2, <2>1, <2>2, <2>4, <2>6 DEF Concerns, InOrder
  <2>8. QED BY <2>7
<1>3. QED BY <1>1, <1>2

\* Two agents never work for one session.
LEMMA OneAgent ==
  ASSUME MediaInv, SerialInv, RestoreInv, NEW a \in Agents, NEW b \in Agents,
         calls[a] # <<>>, calls[b] # <<>>, Target(a).key = Target(b).key
  PROVE  a = b
<1>1. \A w \in Workers : calls[w] # <<>> => req[w].stage = "media"
  BY DEF MediaInv, Typed, MediaTypeOK
<1>2. \A w \in Workers : calls[w] # <<>> => req[w] # Idle BY <1>1 DEF Idle
<1>3. calls[Startup] # <<>> => \A w \in Workers : req[w] = Idle
  BY DEF MediaInv, StartupOK, RestoreInv, Alone
<1>4. CASE a = Startup \/ b = Startup BY <1>2, <1>3, <1>4 DEF Agents
<1>5. CASE a # Startup /\ b # Startup
  <2>1. a \in Workers /\ b \in Workers BY <1>5 DEF Agents
  <2>2. req[a] # Idle /\ req[b] # Idle /\ req[a].key = req[b].key
    BY <1>2, <1>5, <2>1 DEF Target
  <2>3. QED BY <2>1, <2>2 DEF SerialInv, Separate
<1>6. QED BY <1>4, <1>5

\* The reconciliation is never refused a path.
LEMMA BootStays ==
  ASSUME MediaInv, RestoreInv, NEW a \in Agents, MediaCall(a)
  PROVE  boot' = boot
<1>1. ~(a = Startup /\ Raises(a))
  BY CallOrder DEF Raises, AddRefused, JoinUnstarted, Due, RestoreInv, AtHand, Target
<1>2. QED BY <1>1, AgentCalls

\* A database step: a session that is live now was, or the step made it so and
\* goes on to its calls.
LEMMA DatabaseInHand ==
  ASSUME OnlyPublishesBind, MediaInv, SerialInv, TypeOK', UNCHANGED transcode,
         NEW w \in Workers, Arrive(w) \/ Continue(w) \/ Respond(w),
         \A s \in LiveSessions : InHand(s)
  PROVE  \A s \in LiveSessions' : InHand(s)'
<1> SUFFICES ASSUME NEW s \in LiveSessions' PROVE InHand(s)' OBVIOUS
<1>1. s \in SessionIds /\ sessions'[s] # None /\ sessions'[s].status = "live"
  BY DEF LiveSessions, Stored, TypeOK
<1>2. SerialStep(w) BY WorkerSerial DEF Arrive, Continue, Respond
<1>3. SerialRow(w, s) /\ PathsKept BY <1>1, <1>2 DEF SerialStep
<1>4. /\ \A v \in Workers \ {w} : req'[v] = req[v] /\ calls'[v] = calls[v]
      /\ calls'[Startup] = calls[Startup] /\ UNCHANGED <<transcoders, alias, boot>>
      /\ calls[w] = <<>> /\ calls'[w] = CallsOf(req'[w])
  BY DatabaseCalls DEF plane
<1>5. \A k : AliasSource(k)' = AliasSource(k) /\ StartCalls' = StartCalls
  BY DEF AliasSource, StartCalls
<1>6. StartCalls # <<>> /\ StartCalls # <<"add">> BY DEF StartCalls
<1>7. CASE sessions'[s] = sessions[s]
  <2>1. s \in Stored(sessions) /\ s \in LiveSessions
    BY <1>1, <1>7 DEF LiveSessions, Stored, MediaInv, Typed, MediaTypeOK, TypeOK
  <2>2. sessions[s].stream # None BY <2>1 DEF SerialInv, LiveIsBound
  <2>3. BoundPath(s)' = BoundPath(s) BY <1>3, <1>7, <2>1, <2>2, SamePath
  <2>4. CASE Ready(s)
    <3>1. Ready(s)' BY <1>4, <1>5, <1>7, <2>3, <2>4 DEF Ready
    <3>2. QED BY <3>1 DEF InHand
  <2>5. ASSUME NEW a \in Agents, Underway(a, s) PROVE InHand(s)'
    <3>1. calls[a] # <<>> BY <1>6, <2>5, ListOrder DEF Underway
    <3>2. a # w BY <1>4, <3>1
    <3>3. Target(a)' = Target(a) /\ calls'[a] = calls[a]
      BY <1>4, <3>2 DEF Agents, Target
    <3>4. Underway(a, s)' BY <1>4, <1>5, <1>7, <2>3, <2>5, <3>3 DEF Underway
    <3>5. QED BY <3>4 DEF InHand
  <2>6. CASE boot.stage = "restore" /\ s \in boot.left BY <1>4, <2>6 DEF InHand
  <2>7. QED BY <2>1, <2>4, <2>5, <2>6 DEF InHand
<1>8. CASE Enters(w, s)'
  <2>1. /\ req'[w].stage = "media" /\ req'[w].op = "start" /\ req'[w].path = BoundPath(s)'
        /\ req'[w].key = sessions'[s].key
    BY <1>1, <1>8 DEF Enters, IsAbout, WithKey
  <2>2. calls'[w] = StartCalls BY <1>4, <2>1 DEF CallsOf
  <2>3. Target(w)' = req'[w] BY MediaAssumption DEF Target
  <2>4. Underway(w, s)' BY <1>5, <1>6, <2>1, <2>2, <2>3 DEF Underway
  <2>5. QED BY <2>4 DEF InHand, Agents
<1>9. QED BY <1>1, <1>3, <1>7, <1>8 DEF SerialRow

\* A media call for a live session brings it a step nearer.
LEMMA OwnCallInHand ==
  ASSUME MediaInv, SerialInv, RestoreInv, UNCHANGED transcode,
         NEW a \in Agents, MediaCall(a), NEW s \in LiveSessions, Concerns(a, s), InHand(s)
  PROVE  InHand(s)'
<1> DEFINE p == BoundPath(s)
           k == sessions[s].key
<1>1. calls[a] # <<>>
  BY DEF MediaCall, StartTranscoder, StopTranscoder, DeleteAlias, AddAlias, AddRefused,
         JoinUnstarted, Due
<1>2. /\ Target(a).path = p /\ Target(a).key = k
      /\ calls[a] \in {StartCalls, <<"delete", "add">>, <<"add">>}
  BY DEF Concerns
<1>3. /\ p \in Paths /\ k # None
      /\ transcoders \in [Paths -> Keys \cup {Unstarted, None}]
      /\ alias \in [Paths -> Keys \cup {Transcoded, None}]
  BY <1>1, <1>2, TargetType, SentinelAssumption DEF MediaInv, Typed, MediaTypeOK
<1>4. /\ sessions' = sessions /\ streams' = streams /\ BoundPath(s)' = p /\ boot' = boot
      /\ ~Raises(a) => Target(a)' = Target(a) /\ calls'[a] = Tail(calls[a])
  BY AgentCalls, SameLive, BootStays
<1>5. StartCalls' = StartCalls /\ AliasSource(k)' = AliasSource(k)
  BY <1>4 DEF StartCalls, AliasSource
<1>6. CASE boot.stage = "restore" /\ s \in boot.left BY <1>4, <1>6 DEF InHand
<1>7. ASSUME Underway(a, s)' PROVE InHand(s)' BY <1>7 DEF InHand
<1>8. ASSUME Ready(s)' PROVE InHand(s)' BY <1>8 DEF InHand
<1>9. /\ transcode => StartCalls # <<"delete", "add">>
      /\ StartCalls # <<"add">>
  BY DEF StartCalls
<1>10. CASE Ready(s) \/ Underway(a, s)
  <2>1. /\ transcode /\ calls[a] # StartCalls => transcoders[p] # None
        /\ calls[a] = <<"add">> => alias[p] = None \/ Ready(s)
    BY <1>10 DEF Ready, Underway
  <2>2. CASE StartTranscoder(a)
    <3>1. transcode /\ calls'[a] = <<"delete", "add">>
      BY <1>2, <1>4, <2>2, ListOrder
         DEF StartTranscoder, Due, Raises, AddRefused, JoinUnstarted
    <3>2. transcoders'[p] # None BY <1>2, <1>3, <2>2 DEF StartTranscoder
    <3>3. Underway(a, s)'
      BY <1>2, <1>4, <2>2, <3>1, <3>2, ListOrder
         DEF Underway, StartTranscoder, Due, Raises, AddRefused, JoinUnstarted
    <3>4. QED BY <1>7, <3>3
  <2>3. CASE DeleteAlias(a)
    <3>1. calls[a] = <<"delete", "add">> /\ calls'[a] = <<"add">>
      BY <1>2, <1>4, <2>3, ListOrder DEF DeleteAlias, Due, Raises, AddRefused, JoinUnstarted
    <3>2. alias'[p] = None /\ transcoders' = transcoders
      BY <1>2, <1>3, <2>3 DEF DeleteAlias, Deleted
    <3>3. transcode => transcoders[p] # None BY <1>9, <2>1, <3>1
    <3>4. Target(a)' = Target(a)
      BY <1>4, <2>3 DEF DeleteAlias, Raises, AddRefused, JoinUnstarted, Due
    <3>5. Underway(a, s)' BY <1>2, <1>4, <3>1, <3>2, <3>3, <3>4 DEF Underway
    <3>6. QED BY <1>7, <3>5
  <2>4. CASE AddAlias(a)
    <3>1. calls[a] = <<"add">>
      BY <1>2, <2>4, ListOrder DEF AddAlias, Due
    <3>2. alias'[p] = AliasSource(k) /\ transcoders' = transcoders
      BY <1>2, <1>3, <2>4 DEF AddAlias, Added
    <3>3. transcode => transcoders[p] # None BY <1>9, <2>1, <3>1
    <3>4. Ready(s)' BY <1>4, <1>5, <3>2, <3>3 DEF Ready
    <3>5. QED BY <1>8, <3>4
  <2>5. CASE AddRefused(a)
    <3>1. calls[a] = <<"add">> /\ alias[p] # None
      BY <1>2, <2>5, ListOrder DEF AddRefused, Due
    <3>2. UNCHANGED <<transcoders, alias>> BY <2>5 DEF AddRefused, plane
    <3>3. Ready(s) BY <2>1, <3>1
    <3>4. Ready(s)' BY <1>4, <1>5, <3>2, <3>3 DEF Ready
    <3>5. QED BY <1>8, <3>4
  <2>6. ~StopTranscoder(a) /\ ~JoinUnstarted(a)
    BY <1>2, ListOrder DEF StopTranscoder, JoinUnstarted, Due
  <2>7. QED BY <2>2, <2>3, <2>4, <2>5, <2>6 DEF MediaCall
<1>11. ASSUME NEW b \in Agents, Underway(b, s) PROVE b = a
  <2>1. calls[b] # <<>> /\ Target(b).key = k BY <1>11, ListOrder DEF Underway
  <2>2. QED BY <1>1, <1>2, <2>1, OneAgent
<1>12. QED BY <1>6, <1>10, <1>11 DEF InHand

\* It changes the plane only at the path it is about.
LEMMA ElsewhereSame ==
  ASSUME MediaInv, NEW a \in Agents, MediaCall(a), NEW q \in Paths, q # Target(a).path
  PROVE  alias'[q] = alias[q] /\ transcoders'[q] = transcoders[q]
<1>1. /\ transcoders \in [Paths -> Keys \cup {Unstarted, None}]
      /\ alias \in [Paths -> Keys \cup {Transcoded, None}]
  BY DEF MediaInv, Typed, MediaTypeOK
<1>2. CASE StartTranscoder(a) BY <1>1, <1>2 DEF StartTranscoder
<1>3. CASE StopTranscoder(a) BY <1>1, <1>3 DEF StopTranscoder
<1>4. CASE DeleteAlias(a) BY <1>1, <1>4 DEF DeleteAlias, Deleted
<1>5. CASE AddAlias(a) BY <1>1, <1>5 DEF AddAlias, Added
<1>6. CASE AddRefused(a) BY <1>6 DEF AddRefused, plane
<1>7. CASE JoinUnstarted(a) BY <1>1, <1>7 DEF JoinUnstarted
<1>8. QED BY <1>2, <1>3, <1>4, <1>5, <1>6, <1>7 DEF MediaCall

LEMMA BoundPathType ==
  ASSUME MediaInv, NEW s \in Stored(sessions), sessions[s].stream # None
  PROVE  BoundPath(s) \in Paths
<1>1. sessions[s].stream \in Stored(streams) BY DEF MediaInv, Typed, Inv, ReferencesExist
<1>2. streams[sessions[s].stream] \in StreamRow
  BY <1>1, StoredType DEF MediaInv, Typed, MediaTypeOK
<1>3. QED BY <1>2 DEF BoundPath, StreamRow

LEMMA CallInHand ==
  ASSUME MediaInv, SerialInv, RestoreInv, AboutLive, InOrder, UNCHANGED transcode,
         NEW a \in Agents, MediaCall(a), NEW s \in LiveSessions, InHand(s)
  PROVE  InHand(s)'
<1>1. calls[a] # <<>>
  BY DEF MediaCall, StartTranscoder, StopTranscoder, DeleteAlias, AddAlias, AddRefused,
         JoinUnstarted, Due
<1>2. PICK u : Concerns(a, u) BY <1>1, CallConcerns
<1>3. CASE s = u BY <1>2, <1>3, OwnCallInHand
<1>4. CASE s # u
  <2>1. s \in Stored(sessions) /\ sessions[s].stream # None
    BY DEF LiveSessions, SerialInv, LiveIsBound
  <2>2. BoundPath(s) # Target(a).path
    BY <1>2, <1>4, <2>1, TwoPaths DEF Concerns, SerialInv
  <2>3. BoundPath(s) \in Paths BY <2>1, BoundPathType
  <2>4. alias'[BoundPath(s)] = alias[BoundPath(s)]
        /\ transcoders'[BoundPath(s)] = transcoders[BoundPath(s)]
    BY <2>2, <2>3, ElsewhereSame
  <2>5. /\ sessions' = sessions /\ streams' = streams /\ BoundPath(s)' = BoundPath(s)
        /\ boot' = boot /\ StartCalls' = StartCalls
        /\ \A k : AliasSource(k)' = AliasSource(k)
    BY AgentCalls, SameLive, BootStays DEF StartCalls, AliasSource
  <2>6. CASE Ready(s)
    <3>1. Ready(s)' BY <2>4, <2>5, <2>6 DEF Ready
    <3>2. QED BY <3>1 DEF InHand
  <2>7. ASSUME NEW b \in Agents, Underway(b, s) PROVE InHand(s)'
    <3>1. b # a BY <2>2, <2>7 DEF Underway
    <3>2. Target(b)' = Target(b) /\ calls'[b] = calls[b] BY <3>1, AgentCalls
    <3>3. Underway(b, s)' BY <2>4, <2>5, <2>7, <3>2 DEF Underway
    <3>4. QED BY <3>3 DEF InHand
  <2>8. CASE boot.stage = "restore" /\ s \in boot.left BY <2>5, <2>8 DEF InHand
  <2>9. QED BY <2>6, <2>7, <2>8 DEF InHand
<1>5. QED BY <1>3, <1>4

\* The reconciliation takes up one session after the other.
LEMMA NextInHand ==
  ASSUME MediaInv, SerialInv, RestoreNext \/ RestoreDone, UNCHANGED transcode,
         NEW s \in LiveSessions, InHand(s)
  PROVE  InHand(s)'
<1>1. /\ UNCHANGED <<sessions, streams, req, transcoders, alias>>
      /\ boot.stage = "restore" /\ calls[Startup] = <<>>
      /\ RestoreDone => boot.left = {} /\ calls' = calls
      /\ RestoreNext => calls' = [calls EXCEPT ![Startup] = StartCalls]
  BY DEF RestoreNext, RestoreDone, Restores, vars, plane
<1>2. calls \in [Agents -> Seq(CallNames)] /\ boot \in Boot /\ Startup \in Agents
  BY DEF MediaInv, Typed, MediaTypeOK, Agents
<1>3. /\ BoundPath(s)' = BoundPath(s) /\ StartCalls' = StartCalls
      /\ \A k : AliasSource(k)' = AliasSource(k)
  BY <1>1, SameLive DEF StartCalls, AliasSource
<1>4. CASE Ready(s)
  <2>1. Ready(s)' BY <1>1, <1>3, <1>4 DEF Ready
  <2>2. QED BY <2>1 DEF InHand
<1>5. ASSUME NEW b \in Agents, Underway(b, s) PROVE InHand(s)'
  <2>1. calls[b] # <<>> BY <1>5, ListOrder DEF Underway
  <2>2. b # Startup BY <1>1, <2>1
  <2>3. Target(b)' = Target(b) /\ calls'[b] = calls[b] BY <1>1, <1>2, <2>2 DEF Target
  <2>4. Underway(b, s)' BY <1>1, <1>3, <1>5, <2>3 DEF Underway
  <2>5. QED BY <2>4 DEF InHand
<1>6. CASE s \in boot.left /\ RestoreNext
  <2>1. PICK u \in NewestLeft : \E t \in Resolved(u) :
          boot' = [boot EXCEPT !.left = @ \ {u}, !.key = sessions[u].key,
                     !.path = IF t = None THEN AutoPath[u] ELSE streams[t].path]
    BY <1>6 DEF RestoreNext
  <2>2. PICK t \in Resolved(u) :
          boot' = [boot EXCEPT !.left = @ \ {u}, !.key = sessions[u].key,
                     !.path = IF t = None THEN AutoPath[u] ELSE streams[t].path]
    BY <2>1
  <2>3. /\ boot'.stage = "restore" /\ boot'.left = boot.left \ {u}
        /\ boot'.key = sessions[u].key
        /\ boot'.path = IF t = None THEN AutoPath[u] ELSE streams[t].path
    BY <1>1, <1>2, <2>2 DEF Boot
  <2>4. CASE s # u BY <1>6, <2>3, <2>4 DEF InHand
  <2>5. CASE s = u
    <3>1. sessions[s].stream # None BY DEF SerialInv, LiveIsBound
    <3>2. boot'.path = BoundPath(s) BY <2>2, <2>3, <2>5, <3>1 DEF Resolved, BoundPath
    <3>3. calls'[Startup] = StartCalls BY <1>1, <1>2, <1>6
    <3>4. StartCalls # <<"add">> BY DEF StartCalls
    <3>5. Target(Startup)' = boot' BY DEF Target
    <3>6. Underway(Startup, s)'
      BY <1>1, <1>3, <2>3, <2>5, <3>2, <3>3, <3>4, <3>5 DEF Underway
    <3>7. QED BY <1>2, <3>6 DEF InHand
  <2>6. QED BY <2>4, <2>5
<1>7. QED BY <1>1, <1>4, <1>5, <1>6 DEF InHand

LEMMA NextAboutLive ==
  ASSUME MediaInv, SerialInv, RestoreInv, AboutLive, [MediaNext]_mediaVars
  PROVE  AboutLive'
<1> SUFFICES ASSUME boot'.stage = "restore", calls'[Startup] # <<>>
             PROVE  (\E s \in LiveSessions : sessions[s].key = boot.key
                                             /\ BoundPath(s) = boot.path)'
  BY DEF AboutLive
<1>1. calls \in [Agents -> Seq(CallNames)] /\ boot \in Boot /\ Startup \in Agents
  BY DEF MediaInv, Typed, MediaTypeOK, Agents
<1>2. ASSUME UNCHANGED <<sessions, streams, boot>>, calls[Startup] # <<>>
      PROVE  (\E s \in LiveSessions : sessions[s].key = boot.key
                                      /\ BoundPath(s) = boot.path)'
  BY <1>2, SameLive DEF AboutLive
<1>3. CASE RestoreNext
  <2>1. /\ UNCHANGED <<sessions, streams>> /\ boot.stage = "restore"
    BY <1>3 DEF RestoreNext, Restores, vars
  <2>2. PICK u \in NewestLeft : \E t \in Resolved(u) :
          boot' = [boot EXCEPT !.left = @ \ {u}, !.key = sessions[u].key,
                     !.path = IF t = None THEN AutoPath[u] ELSE streams[t].path]
    BY <1>3 DEF RestoreNext
  <2>3. PICK t \in Resolved(u) :
          boot' = [boot EXCEPT !.left = @ \ {u}, !.key = sessions[u].key,
                     !.path = IF t = None THEN AutoPath[u] ELSE streams[t].path]
    BY <2>2
  <2>4. u \in LiveSessions BY <2>1 DEF NewestLeft, RestoreInv, Alone
  <2>5. sessions[u].stream # None BY <2>4 DEF SerialInv, LiveIsBound
  <2>6. boot'.key = sessions[u].key /\ boot'.path = BoundPath(u)
    BY <1>1, <2>3, <2>5 DEF Boot, Resolved, BoundPath
  <2>7. QED BY <2>1, <2>4, <2>6, SameLive
<1>4. ASSUME NEW a \in Agents, MediaCall(a) PROVE calls[Startup] # <<>>
  BY <1>1, <1>4, AgentCalls
     DEF MediaCall, StartTranscoder, StopTranscoder, DeleteAlias, AddAlias, AddRefused,
         JoinUnstarted, Due
<1>5. CASE \E a \in Agents : MediaCall(a)
  <2>1. PICK a \in Agents : MediaCall(a) BY <1>5
  <2>2. QED BY <1>2, <1>4, <2>1, AgentCalls, BootStays
<1>6. CASE \E w \in Workers : Arrive(w) \/ Continue(w) \/ Respond(w)
  <2>1. PICK w \in Workers : Arrive(w) \/ Continue(w) \/ Respond(w) BY <1>6
  <2>2. boot' = boot /\ calls'[Startup] = calls[Startup] BY <2>1, DatabaseCalls
  <2>3. req[w] = Idle BY <2>2 DEF RestoreInv, Alone
  <2>4. QED BY <2>1, <2>2, <2>3, IdleRests DEF Arrive
<1>7. CASE \E a \in Agents : StopTranscoderRaises(a) \/ ThreadFails(a) \/ CallFails(a)
  <2>1. PICK a \in Agents : StopTranscoderRaises(a) \/ ThreadFails(a) \/ CallFails(a) BY <1>7
  <2>2. Raise(a) \/ ThreadFails(a) BY <2>1 DEF StopTranscoderRaises, CallFails
  <2>3. a # Startup BY <2>2 DEF Raise, ThreadFails, StartupFails, Up, Down
  <2>4. calls'[Startup] = calls[Startup] BY <1>1, <2>2, <2>3 DEF Raise, ThreadFails
  <2>5. QED BY <1>2, <2>2, <2>3, <2>4 DEF Raise, ThreadFails, Finish
<1>8. ~RestoreAborts /\ ~RestoreDone
  BY DEF RestoreAborts, StartupFails, RestoreDone, Up, Down
<1>9. ~Restart /\ ~CrashProcess
  <2>1. CASE Restart BY <2>1 DEF Restart, MediaInv, StartupOK
  <2>2. CASE CrashProcess BY <1>1, <2>2 DEF CrashProcess
  <2>3. QED BY <2>1, <2>2
<1>10. CASE CrashMediaMTX \/ UNCHANGED mediaVars
  BY <1>2, <1>10 DEF CrashMediaMTX, mediaVars, vars
<1>11. QED
  BY <1>3, <1>5, <1>6, <1>7, <1>8, <1>9, <1>10 DEF MediaNext, StartupStep, WorkerStep, Agents

LEMMA NextServed ==
  ASSUME OnlyPublishesBind, MediaInv, SerialInv, RestoreInv, AboutLive, InOrder, ServedInv,
         [MediaNext]_mediaVars
  PROVE  ServedInv'
<1> SUFFICES ASSUME Unfailing', boot'.stage # "down"
             PROVE  \A s \in LiveSessions' : InHand(s)'
  BY DEF ServedInv
<1>1. TypeOK' BY NextMediaInv DEF MediaInv, Typed, MediaTypeOK
<1>2. ASSUME UNCHANGED faults, boot.stage # "down" PROVE \A s \in LiveSessions : InHand(s)
  BY <1>2 DEF ServedInv, Unfailing
<1>3. CASE CrashProcess \/ Restart
  <2>1. boot' = Restoring /\ UNCHANGED <<sessions, streams>>
    BY <1>3 DEF CrashProcess, Crash, Restart, vars
  <2>2. LiveSessions' = LiveSessions BY <2>1, SameLive
  <2>3. boot'.stage = "restore" /\ boot'.left = LiveSessions BY <2>1 DEF Restoring
  <2>4. QED BY <2>2, <2>3 DEF InHand
<1>4. CASE (RestoreNext \/ RestoreDone) /\ UNCHANGED transcode
  <2>1. /\ UNCHANGED <<sessions, streams, faults>> /\ boot.stage = "restore"
    BY <1>4 DEF RestoreNext, RestoreDone, Restores, vars
  <2>2. LiveSessions' = LiveSessions BY <2>1, SameLive
  <2>3. \A s \in LiveSessions : InHand(s) BY <1>2, <2>1
  <2>4. QED BY <1>4, <2>2, <2>3, NextInHand
<1>5. ASSUME NEW a \in Agents, MediaCall(a), UNCHANGED transcode
      PROVE  \A s \in LiveSessions' : InHand(s)'
  <2>1. UNCHANGED <<sessions, streams, faults, boot>> BY <1>5, AgentCalls, BootStays
  <2>2. LiveSessions' = LiveSessions BY <2>1, SameLive
  <2>3. \A s \in LiveSessions : InHand(s) BY <1>2, <2>1
  <2>4. QED BY <1>5, <2>2, <2>3, CallInHand
<1>6. ASSUME NEW w \in Workers, Arrive(w) \/ Continue(w) \/ Respond(w), UNCHANGED transcode
      PROVE  \A s \in LiveSessions' : InHand(s)'
  <2>1. UNCHANGED <<faults, boot>> BY <1>6 DEF Arrive, Continue, Respond
  <2>2. \A s \in LiveSessions : InHand(s) BY <1>2, <2>1
  <2>3. QED BY <1>1, <1>6, <2>2, DatabaseInHand
<1>7. ~RestoreAborts BY DEF RestoreAborts, StartupFails, Up, Down
<1>8. /\ ~CrashMediaMTX
      /\ \A a \in Agents : ~StopTranscoderRaises(a) /\ ~ThreadFails(a) /\ ~CallFails(a)
  BY FaultType DEF MediaInv, Typed, CrashMediaMTX, StopTranscoderRaises, ThreadFails, CallFails
<1>9. CASE UNCHANGED mediaVars
  <2>1. UNCHANGED <<sessions, streams, req, transcode, transcoders, alias, calls, boot, faults>>
    BY <1>9 DEF mediaVars
  <2>2. LiveSessions' = LiveSessions /\ \A s : BoundPath(s)' = BoundPath(s) BY <2>1, SameLive
  <2>3. \A s \in LiveSessions : InHand(s) BY <1>2, <2>1
  <2>4. /\ StartCalls' = StartCalls /\ \A k : AliasSource(k)' = AliasSource(k)
        /\ \A a : Target(a)' = Target(a)
    BY <2>1 DEF StartCalls, AliasSource, Target
  <2>5. \A s : Ready(s)' = Ready(s) BY <2>1, <2>2, <2>4 DEF Ready
  <2>6. \A a, s : Underway(a, s)' = Underway(a, s) BY <2>1, <2>2, <2>4 DEF Underway
  <2>7. QED BY <2>1, <2>2, <2>3, <2>5, <2>6 DEF InHand
<1>10. QED
  BY <1>3, <1>4, <1>5, <1>6, <1>7, <1>8, <1>9 DEF MediaNext, StartupStep, WorkerStep, Agents

LEMMA QuietCalls == MediaInv /\ Quiet => \A a \in Agents : calls[a] = <<>>
<1> SUFFICES ASSUME MediaInv, Quiet PROVE \A a \in Agents : calls[a] = <<>> OBVIOUS
<1>1. calls[Startup] = <<>> BY DEF MediaInv, StartupOK, Quiet
<1>2. \A w \in Workers : calls[w] # <<>> => req[w].stage = "media"
  BY DEF MediaInv, Typed, MediaTypeOK
<1>3. Idle.stage = "idle" BY DEF Idle
<1>4. QED BY <1>1, <1>2, <1>3 DEF Agents, Quiet

\* When nobody works, what is in hand is ready, and what is ready is what readers
\* of the path receive, or is hidden by the transcoder of another key.
LEMMA QuietServes ==
  ASSUME MediaInv, SerialInv, ActiveInv, ServedInv, Quiet, Unfailing, NEW s \in LiveSessions
  PROVE  Served(s) \/ Stale(s)
<1> DEFINE t == sessions[s].stream
           p == BoundPath(s)
           k == sessions[s].key
<1>1. /\ s \in Stored(sessions) /\ t # None /\ TypeOK /\ ReferencesExist /\ p = streams[t].path
  BY DEF LiveSessions, SerialInv, LiveIsBound, MediaInv, Typed, Inv, BoundPath
<1>2. t \in Stored(streams) /\ k \in Keys /\ k # None
  BY <1>1, StoredType, SentinelAssumption DEF ReferencesExist, SessionRow
<1>3. PathOf(s) = {p} BY <1>1 DEF PathOf, Resolved
<1>4. KeyPullAllowed(k) BY <1>1 DEF KeyPullAllowed, WithKey
<1>5. TranscodePullAllowed(p)
  BY <1>1, <1>2 DEF TranscodePullAllowed, WithPath, ActiveInv
<1>6. \A a \in Agents : ~Underway(a, s)
  <2>1. \A b \in Agents : calls[b] = <<>> BY QuietCalls
  <2>2. QED BY <2>1, ListOrder DEF Underway
<1>7. Ready(s) BY <1>6 DEF ServedInv, Quiet, InHand
<1>8. alias[p] = AliasSource(k) /\ (transcode => transcoders[p] # None) BY <1>7 DEF Ready
<1> HIDE DEF t, p, k
<1>9. CASE ~transcode
  <2>1. k \in Received(p) BY <1>2, <1>4, <1>8, <1>9 DEF Received, AliasSource
  <2>2. QED BY <1>3, <2>1 DEF Served, k
<1>10. CASE transcode /\ transcoders[p] = k
  <2>1. k \in Received(p) BY <1>2, <1>4, <1>5, <1>8, <1>10 DEF Received, AliasSource
  <2>2. QED BY <1>3, <2>1 DEF Served, k
<1>11. CASE transcode /\ transcoders[p] # k
  BY <1>3, <1>8, <1>11 DEF Stale, k
<1>12. QED BY <1>9, <1>10, <1>11

---------------------------------------------------------------------------
(* What a start takes and a stop releases                                  *)

Clean(p) == alias[p] = None /\ transcoders[p] = None

\* The path belongs to a session whose publication has not ended.
Held(p) ==
  \E s \in Stored(sessions) :
    sessions[s].stream # None /\ BoundPath(s) = p /\ sessions[s].status # "ended"

\* The request is releasing the path.
Released(w, p) ==
  /\ req[w].path = p
  /\ \/ calls[w] = <<"stop_transcoder", "delete">>
     \/ calls[w] = <<"delete">> /\ transcoders[p] = None

Accounted(p) == Clean(p) \/ Held(p) \/ \E w \in Workers : Released(w, p)

\* Whatever has failed, somebody accounts for each handle of a transcoder.
LeakInv == \A p \in Paths : transcoders[p] = None \/ Accounted(p)

LEMMA HeldIsOwned ==
  ASSUME MediaInv, OwnStream, NEW p
  PROVE  Held(p) <=> Owned(p)
<1>1. \A s \in Stored(sessions) : Resolved(s) = {sessions[s].stream} BY ResolvedIsBinding
<1>2. ASSUME NEW s \in Stored(sessions)
      PROVE  p \in PathOf(s) <=> sessions[s].stream # None /\ BoundPath(s) = p
  BY <1>1 DEF PathOf, BoundPath
<1>3. QED BY <1>2 DEF Held, Owned

LEMMA FaultCounts == ASSUME MediaInv, NEW k, Fault(k) PROVE faults' # faults
<1>1. faults \in Seq(Faults) /\ k \in Faults /\ faults' = Append(faults, k)
  BY DEF MediaInv, Typed, MediaTypeOK, Fault
<1>2. Len(faults') = Len(faults) + 1 /\ Len(faults) \in Nat BY <1>1
<1>3. QED BY <1>2

\* What takes nothing, and stops no one who releases the path.
LEMMA SameAccounted ==
  ASSUME UNCHANGED <<sessions, streams>>, NEW p, Accounted(p),
         alias'[p] \in {alias[p], None}, transcoders'[p] \in {transcoders[p], None},
         \A v \in Workers : Released(v, p) => req'[v] = req[v] /\ calls'[v] = calls[v]
  PROVE  Accounted(p)'
<1>1. \A s : BoundPath(s)' = BoundPath(s) BY SameLive
<1>2. CASE Clean(p) BY <1>2 DEF Clean, Accounted
<1>3. CASE Held(p)
  <2>1. Held(p)' BY <1>1, <1>3 DEF Held, Stored
  <2>2. QED BY <2>1 DEF Accounted
<1>4. ASSUME NEW v \in Workers, Released(v, p) PROVE Accounted(p)'
  <2>1. Released(v, p)' BY <1>4 DEF Released
  <2>2. QED BY <2>1 DEF Accounted
<1>5. QED BY <1>2, <1>3, <1>4 DEF Accounted

\* A session gives up its path by ending, and the stop that ends it goes on to
\* release the path.
LEMMA DatabaseAccounted ==
  ASSUME OnlyPublishesBind, MediaInv, SerialInv, TypeOK',
         NEW w \in Workers, Arrive(w) \/ Continue(w) \/ Respond(w),
         NEW p \in Paths, Accounted(p)
  PROVE  Accounted(p)'
<1>1. SerialStep(w) BY WorkerSerial DEF Arrive, Continue, Respond
<1>2. PathsKept /\ HoldsSerial(req[w])' BY <1>1 DEF SerialStep
<1>3. /\ \A v \in Workers \ {w} : req'[v] = req[v] /\ calls'[v] = calls[v]
      /\ UNCHANGED <<transcoders, alias>>
      /\ calls[w] = <<>> /\ calls'[w] = CallsOf(req'[w])
  BY DatabaseCalls DEF plane
<1>4. CASE Clean(p) BY <1>3, <1>4 DEF Accounted, Clean
<1>5. ASSUME NEW v \in Workers, Released(v, p) PROVE Accounted(p)'
  <2>1. calls[v] # <<>> BY <1>5, StopOrder DEF Released
  <2>2. v # w BY <1>3, <2>1
  <2>3. Released(v, p)' BY <1>3, <1>5, <2>2 DEF Released
  <2>4. QED BY <2>3 DEF Accounted
<1>6. ASSUME NEW s \in Stored(sessions), sessions[s].stream # None, BoundPath(s) = p,
             sessions[s].status # "ended"
      PROVE  Accounted(p)'
  <2>1. s \in SessionIds /\ sessions[s] # None
    BY StoredType DEF MediaInv, Typed, MediaTypeOK, Stored
  <2>2. SerialRow(w, s) BY <1>1, <2>1 DEF SerialStep
  <2>3. sessions'[s] = sessions[s] \/ sessions'[s].stream = sessions[s].stream
    BY <1>6, <2>1, <2>2 DEF SerialRow
  <2>4. sessions'[s].stream = sessions[s].stream BY <2>3
  <2>5. BoundPath(s)' = p BY <1>2, <1>6, <2>4, SamePath
  <2>6. s \in Stored(sessions')
    <3>1. [Next]_vars BY DEF Arrive, Continue, Respond, Next
    <3>2. sessions'[s] # None BY <2>1, <3>1, StoredGrows DEF MediaInv
    <3>3. QED BY <2>1, <3>2 DEF Stored, TypeOK
  <2>7. CASE sessions'[s].status # "ended"
    <3>1. Held(p)' BY <1>6, <2>4, <2>5, <2>6, <2>7 DEF Held
    <3>2. QED BY <3>1 DEF Accounted
  <2>8. CASE sessions'[s].status = "ended"
    <3>1. Enters(w, s)' BY <1>6, <2>1, <2>2, <2>8 DEF SerialRow
    <3>2. /\ req'[w].stage = "media" /\ req'[w].op # "start" /\ req'[w].path = p
      BY <2>5, <2>8, <3>1 DEF Enters, IsAbout
    <3>3. CallsOf(req'[w]) = <<"stop_transcoder", "delete">>
      BY <3>2, SentinelAssumption DEF CallsOf, StopCalls
    <3>4. Released(w, p)' BY <1>3, <3>2, <3>3 DEF Released
    <3>5. QED BY <3>4 DEF Accounted
  <2>9. QED BY <2>7, <2>8
<1>7. QED BY <1>4, <1>5, <1>6 DEF Accounted, Held

\* The calls of a stop release its path, those of a start take a path that is owned.
LEMMA CallAccounted ==
  ASSUME MediaInv, SerialInv, RestoreInv, AboutLive, InOrder,
         NEW a \in Agents, MediaCall(a), NEW p \in Paths, Accounted(p),
         ~(JoinUnstarted(a) /\ p = Target(a).path)
  PROVE  Accounted(p)'
<1>1. calls[a] # <<>>
  BY DEF MediaCall, StartTranscoder, StopTranscoder, DeleteAlias, AddAlias, AddRefused,
         JoinUnstarted, Due
<1>2. PICK u : Concerns(a, u) BY <1>1, CallConcerns
<1>3. /\ u \in Stored(sessions) /\ sessions[u].stream # None /\ Target(a).path = BoundPath(u)
      /\ u \notin LiveSessions => a # Startup
      /\ a # Startup => a \in Workers /\ Target(a) = req[a]
      /\ \A v \in Workers : v # Startup /\ v \in Agents /\ Target(v) = req[v]
  BY <1>2, MediaAssumption DEF Concerns, Target, Agents
<1>4. /\ sessions' = sessions /\ streams' = streams
      /\ \A b \in Agents : b # a => calls'[b] = calls[b]
      /\ \A v \in Workers : v # a => req'[v] = req[v]
      /\ ~Raises(a) => req' = req /\ calls'[a] = Tail(calls[a])
  BY <1>1, AgentCalls
<1>5. Held(p) => Accounted(p)'
  <2>1. \A s : BoundPath(s)' = BoundPath(s) BY <1>4, SameLive
  <2>2. QED BY <1>4, <2>1 DEF Held, Accounted
<1>6. CASE p # BoundPath(u)
  <2>1. alias'[p] = alias[p] /\ transcoders'[p] = transcoders[p]
    BY <1>1, <1>3, <1>6, ElsewhereSame
  <2>2. CASE Clean(p) BY <2>1, <2>2 DEF Clean, Accounted
  <2>3. ASSUME NEW v \in Workers, Released(v, p) PROVE Accounted(p)'
    <3>1. v # a /\ v \in Agents BY <1>3, <1>6, <2>3 DEF Released
    <3>2. Released(v, p)' BY <1>4, <2>1, <2>3, <3>1 DEF Released
    <3>3. QED BY <3>2 DEF Accounted
  <2>4. QED BY <1>5, <2>2, <2>3 DEF Accounted
<1>7. CASE p = BoundPath(u) /\ u \in LiveSessions
  <2>1. Held(p) BY <1>3, <1>7 DEF Held, LiveSessions
  <2>2. QED BY <1>5, <2>1
<1>8. CASE p = BoundPath(u) /\ u \notin LiveSessions
  <2>1. calls[a] \in {<<"stop_transcoder", "delete">>, <<"delete">>} BY <1>2, <1>8 DEF Concerns
  <2>2. /\ transcoders \in [Paths -> Keys \cup {Unstarted, None}]
        /\ alias \in [Paths -> Keys \cup {Transcoded, None}]
    BY DEF MediaInv, Typed, MediaTypeOK
  <2>3. ~StartTranscoder(a) /\ ~AddAlias(a) /\ ~AddRefused(a) /\ ~JoinUnstarted(a)
    BY <1>3, <1>8, <2>1, StopOrder DEF StartTranscoder, AddAlias, AddRefused, Due
  <2>4. /\ req' = req /\ calls'[a] = Tail(calls[a]) /\ a \in Workers /\ Target(a) = req[a]
    BY <1>3, <1>4, <1>8, <2>3 DEF Raises
  <2>5. CASE StopTranscoder(a)
    <3>1. calls'[a] = <<"delete">> BY <2>1, <2>4, <2>5, StopOrder DEF StopTranscoder, Due
    <3>2. transcoders'[p] = None BY <1>3, <1>8, <2>2, <2>5 DEF StopTranscoder
    <3>3. Released(a, p)' BY <1>3, <1>8, <2>4, <3>1, <3>2 DEF Released
    <3>4. QED BY <2>4, <3>3 DEF Accounted
  <2>6. CASE DeleteAlias(a)
    <3>1. calls[a] = <<"delete">> BY <2>1, <2>6, StopOrder DEF DeleteAlias, Due
    <3>2. alias'[p] = None /\ transcoders' = transcoders
      BY <1>3, <1>8, <2>2, <2>6 DEF DeleteAlias, Deleted
    <3>3. transcoders[p] = None => Accounted(p)' BY <3>2 DEF Accounted, Clean
    <3>4. ASSUME NEW v \in Workers, Released(v, p) PROVE transcoders[p] = None
      <4>1. calls[v] # <<>> /\ v \in Agents BY <3>4, StopOrder DEF Released, Agents
      <4>2. PICK x : Concerns(v, x) BY <4>1, CallConcerns
      <4>3. Target(v) = req[v] BY MediaAssumption DEF Target
      <4>4. x = u BY <1>3, <1>8, <3>4, <4>2, <4>3, TwoPaths DEF Concerns, Released, SerialInv
      <4>5. Target(v).key = Target(a).key BY <1>2, <4>2, <4>4 DEF Concerns
      <4>6. v = a BY <1>1, <4>1, <4>5, OneAgent
      <4>7. QED BY <3>1, <3>4, <4>6 DEF Released
    <3>5. QED BY <1>5, <3>3, <3>4 DEF Accounted, Clean
  <2>7. QED BY <2>3, <2>5, <2>6 DEF MediaCall
<1>9. QED BY <1>6, <1>7, <1>8

\* Who starts a transcoder does so for a live session, which has not ended.
LEMMA StartHeld ==
  ASSUME MediaInv, SerialInv, RestoreInv, AboutLive, InOrder, NEW a \in Agents,
         calls[a] # <<>>, Head(calls[a]) = "start_transcoder"
  PROVE  Held(Target(a).path)
<1>1. PICK u : Concerns(a, u) BY CallConcerns
<1>2. u \in LiveSessions BY <1>1, StopOrder DEF Concerns
<1>3. QED BY <1>1, <1>2 DEF Concerns, Held, LiveSessions

\* A media call without a fault.
LEMMA CallLeak ==
  ASSUME MediaInv, SerialInv, RestoreInv, AboutLive, InOrder, NEW a \in Agents, MediaCall(a),
         NEW p \in Paths, transcoders[p] = None \/ Accounted(p)
  PROVE  /\ transcoders'[p] = None \/ Accounted(p)'
         /\ transcoders[p] # Unstarted /\ Accounted(p) => Accounted(p)'
<1>1. /\ transcoders \in [Paths -> Keys \cup {Unstarted, None}]
      /\ Unstarted # None
  BY MediaAssumption DEF MediaInv, Typed, MediaTypeOK
<1>2. CASE JoinUnstarted(a) /\ p = Target(a).path
  BY <1>1, <1>2 DEF JoinUnstarted
<1>3. CASE Accounted(p) /\ ~(JoinUnstarted(a) /\ p = Target(a).path)
  BY <1>3, CallAccounted
<1>4. CASE transcoders[p] = None /\ ~Accounted(p)
  <2>1. CASE p # Target(a).path BY <1>4, <2>1, ElsewhereSame
  <2>2. CASE ~StartTranscoder(a)
    BY <1>1, <1>4, <2>2
       DEF MediaCall, StopTranscoder, DeleteAlias, AddAlias, AddRefused, JoinUnstarted, plane
  <2>3. CASE p = Target(a).path /\ StartTranscoder(a)
    <3>1. calls[a] # <<>> /\ Head(calls[a]) = "start_transcoder"
      BY <2>3 DEF StartTranscoder, Due
    <3>2. Held(p) BY <2>3, <3>1, StartHeld
    <3>3. QED BY <1>4, <3>2 DEF Accounted
  <2>4. QED BY <2>1, <2>2, <2>3
<1>5. QED BY <1>2, <1>3, <1>4

\* A media call that fails leaves at most an alias.
LEMMA FaultLeak ==
  ASSUME MediaInv, SerialInv, RestoreInv, AboutLive, InOrder, NEW a \in Agents,
         StopTranscoderRaises(a) \/ ThreadFails(a) \/ CallFails(a),
         NEW p \in Paths, transcoders[p] = None \/ Accounted(p)
  PROVE  /\ transcoders'[p] = None \/ Accounted(p)'
         /\ faults' # faults
<1>1. /\ transcoders \in [Paths -> Keys \cup {Unstarted, None}]
      /\ alias \in [Paths -> Keys \cup {Transcoded, None}]
  BY DEF MediaInv, Typed, MediaTypeOK
<1>2. calls[a] # <<>> /\ faults' # faults /\ UNCHANGED <<sessions, streams>>
  BY FaultCounts
     DEF StopTranscoderRaises, ThreadFails, CallFails, Due, Raise, Finish, vars
<1>3. \A v \in Workers : v # a => req'[v] = req[v] /\ calls'[v] = calls[v]
  BY RaisedCalls DEF StopTranscoderRaises, CallFails
<1>4. \A v \in Workers : v # Startup /\ Target(v) = req[v] BY MediaAssumption DEF Target
<1> DEFINE q == Target(a).path
<1>5. q \in Paths BY <1>2, TargetType DEF MediaInv, Typed
<1> HIDE DEF q
<1>6. CASE StopTranscoderRaises(a)
  <2>1. alias' = alias /\ transcoders' = [transcoders EXCEPT ![q] = None]
    BY <1>6 DEF StopTranscoderRaises, q
  <2>2. CASE p = q BY <1>1, <1>2, <2>1, <2>2
  <2>3. CASE p # q
    <3>1. transcoders'[p] = transcoders[p] BY <1>1, <2>1, <2>3
    <3>2. \A v \in Workers : Released(v, p) => v # a BY <1>4, <2>3 DEF Released, q
    <3>3. QED BY <1>2, <1>3, <2>1, <3>1, <3>2, SameAccounted
  <2>4. QED BY <2>2, <2>3
<1>7. CASE CallFails(a)
  <2>1. /\ transcoders' = transcoders /\ Head(calls[a]) \in {"delete", "add"}
    BY <1>7 DEF CallFails, Due
  <2>2. CASE transcoders[p] = None BY <1>2, <2>1, <2>2
  <2>3. CASE transcoders[p] # None /\ Held(p)
    <3>1. Held(p)' BY <1>2, <2>3, SameLive DEF Held, Stored
    <3>2. QED BY <1>2, <3>1 DEF Accounted
  <2>4. ASSUME transcoders[p] # None, NEW v \in Workers, Released(v, p) PROVE Accounted(p)'
    <3>1. calls[v] = <<"stop_transcoder", "delete">> BY <2>4 DEF Released
    <3>2. v # a BY <2>1, <3>1
    <3>3. Released(v, p)' BY <1>3, <2>1, <2>4, <3>2 DEF Released
    <3>4. QED BY <3>3 DEF Accounted
  <2>5. QED BY <1>2, <2>2, <2>3, <2>4 DEF Accounted, Clean
<1>8. CASE ThreadFails(a) /\ a = Startup
  BY <1>2, <1>8 DEF ThreadFails, StartupFails
<1>9. CASE ThreadFails(a) /\ a # Startup
  <2>1. alias' = alias /\ transcoders' = [transcoders EXCEPT ![q] = Unstarted]
    BY <1>9 DEF ThreadFails, q
  <2>2. CASE p = q
    <3>1. Head(calls[a]) = "start_transcoder" BY <1>9 DEF ThreadFails, Due
    <3>2. Held(p) BY <1>2, <2>2, <3>1, StartHeld DEF q
    <3>3. Held(p)' BY <1>2, <3>2, SameLive DEF Held, Stored
    <3>4. QED BY <1>2, <3>3 DEF Accounted
  <2>3. CASE p # q
    <3>1. transcoders'[p] = transcoders[p] BY <1>1, <2>1, <2>3
    <3>2. \A v \in Workers : Released(v, p) => v # a BY <1>4, <2>3 DEF Released, q
    <3>3. QED BY <1>2, <1>3, <2>1, <3>1, <3>2, SameAccounted
  <2>4. QED BY <2>2, <2>3
<1>10. QED BY <1>6, <1>7, <1>8, <1>9

LEMMA NextLeak ==
  ASSUME OnlyPublishesBind, MediaInv, SerialInv, RestoreInv, AboutLive, InOrder, LeakInv,
         [MediaNext]_mediaVars, NEW p \in Paths
  PROVE  /\ transcoders'[p] = None \/ Accounted(p)'
         /\ faults' = faults /\ transcoders[p] # Unstarted /\ Accounted(p) => Accounted(p)'
<1>1. TypeOK' BY NextMediaInv DEF MediaInv, Typed, MediaTypeOK
<1>2. transcoders[p] = None \/ Accounted(p) BY DEF LeakInv
<1>3. CASE \E a \in Agents : MediaCall(a) BY <1>2, <1>3, CallLeak
<1>4. CASE \E a \in Agents : StopTranscoderRaises(a) \/ ThreadFails(a) \/ CallFails(a)
  BY <1>2, <1>4, FaultLeak
<1>5. CASE \E w \in Workers : Arrive(w) \/ Continue(w) \/ Respond(w)
  <2>1. PICK w \in Workers : Arrive(w) \/ Continue(w) \/ Respond(w) BY <1>5
  <2>2. Accounted(p) => Accounted(p)' BY <1>1, <2>1, DatabaseAccounted
  <2>3. transcoders' = transcoders BY <2>1, DatabaseCalls DEF plane
  <2>4. QED BY <1>2, <2>2, <2>3
<1>6. CASE CrashProcess
  <2>1. transcoders'[p] = None /\ Fault("process") BY <1>6 DEF CrashProcess
  <2>2. QED BY <2>1, FaultCounts
<1>7. CASE CrashMediaMTX
  <2>1. /\ alias'[p] = None /\ Fault("mediamtx")
        /\ UNCHANGED <<sessions, streams, req, transcoders, calls>>
    BY <1>7 DEF CrashMediaMTX, vars
  <2>2. QED BY <1>2, <2>1, SameAccounted
<1>8. CASE RestoreNext \/ RestoreAborts \/ Restart \/ RestoreDone \/ UNCHANGED mediaVars
  <2>1. /\ UNCHANGED <<sessions, streams, req, alias>>
        /\ transcoders'[p] \in {transcoders[p], None}
        /\ calls' = calls \/ calls' = [calls EXCEPT ![Startup] = StartCalls]
    BY <1>8
       DEF RestoreNext, RestoreAborts, StartupFails, Restart, RestoreDone, mediaVars, vars, plane
  <2>2. \A v \in Workers : calls'[v] = calls[v]
    BY <2>1, MediaAssumption DEF MediaInv, Typed, MediaTypeOK, Agents
  <2>3. QED BY <1>2, <2>1, <2>2, SameAccounted
<1>9. QED
  BY <1>3, <1>4, <1>5, <1>6, <1>7, <1>8 DEF MediaNext, StartupStep, WorkerStep, Agents

\* Who is left behind was accounted for, unless it was left behind before.
LEMMA StepLeaks ==
  ASSUME OnlyPublishesBind, MediaInv, SerialInv, RestoreInv, AboutLive, InOrder, LeakInv,
         [MediaNext /\ Separate']_mediaVars, NEW p \in Paths, LeftBehind(p)'
  PROVE  /\ transcoders'[p] = None
         /\ LeftBehind(p) \/ faults' # faults \/ transcoders[p] = Unstarted
<1>1. OwnStream BY DEF SerialInv
<1>2. ~Accounted(p)'
  <2>1. ~Held(p)'
    <3>1. SUFFICES ASSUME NEW s \in Stored(sessions'), sessions'[s].stream # None,
                          BoundPath(s)' = p, sessions'[s].status # "ended"
                   PROVE  Owned(p)'
      BY DEF Held, LeftBehind
    <3>2. p \in PathOf(s)' BY <3>1 DEF PathOf, Resolved, BoundPath
    <3>3. QED BY <3>1, <3>2 DEF Owned
  <2>2. \A w \in Workers : ~Released(w, p)'
    BY DEF LeftBehind, Releasing, Released
  <2>3. QED BY <2>1, <2>2 DEF Accounted, Clean, LeftBehind
<1>3. transcoders'[p] = None BY <1>2, NextLeak
<1>4. ~LeftBehind(p) => Accounted(p)
  <2>1. SUFFICES ASSUME ~LeftBehind(p), transcoders[p] = None PROVE Accounted(p)
    BY DEF LeakInv
  <2>2. Owned(p) => Held(p) BY <1>1, HeldIsOwned
  <2>3. QED BY <2>1, <2>2 DEF LeftBehind, Releasing, Released, Accounted, Clean
<1>5. QED BY <1>2, <1>3, <1>4, NextLeak

---------------------------------------------------------------------------
(* The invariant of serial requests, and what follows from it              *)

PlaneInv ==
  /\ MediaInv /\ SerialInv /\ ActiveInv /\ RestoreInv
  /\ AboutLive /\ InOrder /\ ServedInv /\ LeakInv

LEMMA InitPlaneInv == MediaInit => PlaneInv
<1> SUFFICES ASSUME MediaInit PROVE PlaneInv OBVIOUS
<1>1. MediaInv /\ SerialInv /\ ActiveInv BY InitMediaInv, InitSerialInv, InitActive
<1>2. /\ boot = Up /\ boot.stage = "up" /\ calls = [a \in Agents |-> <<>>]
      /\ transcoders = [p \in Paths |-> None] /\ alias = [p \in Paths |-> None]
      /\ sessions = [s \in SessionIds |-> None] /\ req = [w \in Workers |-> Idle]
  BY DEF MediaInit, Init, Up
<1>3. \A a \in Agents : calls[a] = <<>> BY <1>2
<1>4. LiveSessions = {} BY <1>2 DEF LiveSessions, Stored
<1>5. RestoreInv BY <1>2, <1>3 DEF RestoreInv, AtHand, Behind, Alone, Agents
<1>6. AboutLive BY <1>2 DEF AboutLive
<1>7. InOrder BY <1>3 DEF InOrder, Agents
<1>8. ServedInv BY <1>4 DEF ServedInv
<1>9. LeakInv BY <1>2 DEF LeakInv, Accounted, Clean
<1>10. QED BY <1>1, <1>5, <1>6, <1>7, <1>8, <1>9 DEF PlaneInv

LEMMA NextPlaneInv ==
  ASSUME OnlyPublishesBind, PlaneInv, [MediaNext /\ Separate']_mediaVars
  PROVE  PlaneInv'
<1>1. [MediaNext]_mediaVars OBVIOUS
<1>2. MediaInv' BY <1>1, NextMediaInv DEF PlaneInv
<1>3. SerialInv' BY NextSerialInv DEF PlaneInv
<1>4. RestoreInv' BY <1>1, NextRestoreInv DEF PlaneInv
<1>5. AboutLive' BY <1>1, NextAboutLive DEF PlaneInv
<1>6. InOrder' BY <1>1, NextInOrder DEF PlaneInv
<1>7. ServedInv' BY <1>1, NextServed DEF PlaneInv
<1>8. \A p \in Paths : transcoders'[p] = None \/ Accounted(p)' BY <1>1, NextLeak DEF PlaneInv
<1>9. LeakInv' BY <1>8 DEF LeakInv
<1>10. ActiveInv' BY <1>1, NextActive DEF PlaneInv
<1>11. QED BY <1>2, <1>3, <1>4, <1>5, <1>6, <1>7, <1>9, <1>10 DEF PlaneInv

\* When requests for one key, and those of administrators, are handled one after
\* the other and none binds or unbinds by hand, every session that is live in the
\* database is what its path serves whenever nobody works, also after the process
\* crashed between the commit of a publish and its media calls and was restored
\* with transcoding on or off (ingest.py:297-304, 320-326, mediamtx_hooks.py:57-94).
\* Save that a transcoder keeps the key it was created with (transcoding.py:113).
THEOREM LiveSessionsAreServed ==
  ASSUME OnlyPublishesBind
  PROVE  SerialSpec => []LiveIsServed
<1>1. PlaneInv => LiveIsServed BY QuietServes DEF PlaneInv, LiveIsServed
<1>2. PlaneInv /\ [MediaNext /\ Separate']_mediaVars => PlaneInv' BY NextPlaneInv
<1>3. QED BY <1>1, <1>2, InitPlaneInv, PTL DEF SerialSpec

\* In the same executions a stop releases all that a start took, whatever faults
\* there were before.  Of a publication that ended, only a step that fails leaves
\* something behind, and that is an alias, never a transcoder: a DELETE that
\* fails, a stop() that raises, on a thread that never started too, or a crash
\* between the commit of a stop and its calls (ingest.py:307-317,
\* mediamtx_hooks.py:97-118, mediamtx.py:93-101).
THEOREM EndedPublicationsRelease ==
  ASSUME OnlyPublishesBind
  PROVE  SerialSpec => OnlyFailuresLeak
<1>1. PlaneInv /\ [MediaNext /\ Separate']_mediaVars =>
        [\A p \in Paths : LeftBehind(p)' =>
           /\ transcoders'[p] = None
           /\ LeftBehind(p) \/ faults' # faults \/ transcoders[p] = Unstarted]_mediaVars
  BY StepLeaks DEF PlaneInv
<1>2. PlaneInv /\ [MediaNext /\ Separate']_mediaVars => PlaneInv' BY NextPlaneInv
<1>3. QED BY <1>1, <1>2, InitPlaneInv, PTL DEF SerialSpec, OnlyFailuresLeak
=============================================================================
