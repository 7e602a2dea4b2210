-------------------------- MODULE TranscoderProofs --------------------------
(***************************************************************************)
(* The safety of the transcoder registry and its supervisors, for any      *)
(* number of paths, handles and callers.                                   *)
(*                                                                         *)
(* Supervised and RegisteredRuns need to know that nobody is about to stop *)
(* a registered handle (Unclaimed); StopLeavesNone needs to know where the *)
(* supervisor can be once a caller saw its process (Found).                *)
(***************************************************************************)
EXTENDS TranscoderThread, TLAPS

\* The steps at which stop() has seen a process.
FoundSteps == {"poll", "terminate", "wait", "waiting", "kill", "waitkill", "killing", "join"}

ThreadShape ==
  \A h \in Handles :
    /\ process[h] = TRUE <=> thread[h] \in {"wait", "clear"}
    /\ ffmpeg[h] = "running" => thread[h] \in {"assign", "wait"}
    /\ thread[h] = "ended" => event[h]
    /\ thread[h] = "new" => ~event[h]

CallerShape ==
  \A c \in Callers :
    /\ caller[c].at \notin {"idle", "set"} => event[caller[c].handle]
    /\ caller[c].at # "idle" => thread[caller[c].handle] # "new"
    /\ \A h \in caller[c].rest : thread[h] # "new"
    /\ ~exiting => caller[c].rest = {}

\* A supervisor whose process was seen after the event was set is on its way out.
Found ==
  \A c \in Callers : caller[c].at \in FoundSteps =>
    thread[caller[c].handle] \in {"wait", "clear", "check", "ended"}

\* A registered handle knows its path, and no caller is about to stop it.
Unclaimed ==
  \A p \in Paths : registry[p] # None =>
    /\ path[registry[p]] = p
    /\ \A c \in Callers : ~StopsNext(c, registry[p])

Inv ==
  /\ TypeOK /\ ThreadShape /\ CallerShape /\ Found /\ Unclaimed
  /\ StopLeavesNone /\ Supervised /\ RegisteredRuns

LEMMA InitInv == Init => Inv
<1> SUFFICES ASSUME Init PROVE Inv
  OBVIOUS
<1> USE TranscoderAssumption
<1>1. TypeOK
  BY DEF Init, TypeOK, Idle, CallerType, Places, Steps, At
<1>2. ThreadShape /\ CallerShape /\ Found
  BY DEF Init, ThreadShape, CallerShape, Found, FoundSteps, Idle
<1>3. Unclaimed /\ StopLeavesNone /\ Supervised /\ RegisteredRuns
  BY DEF Init, Unclaimed, StopLeavesNone, Supervised, RegisteredRuns, Alive, At, Idle
<1> QED BY <1>1, <1>2, <1>3 DEF Inv

LEMMA StartInv ==
  ASSUME Inv, NEW c \in Callers, NEW p \in Paths, Start(c, p)
  PROVE  Inv'
<1> USE TranscoderAssumption
<1>1. PICK h \in Handles : 
        /\ thread[h] = "new" /\ registry[p] = None
        /\ registry' = [registry EXCEPT ![p] = h]
        /\ path' = [path EXCEPT ![h] = p]
        /\ \/ thread' = [thread EXCEPT ![h] = "loop"]
           \/ thread' = [thread EXCEPT ![h] = "unstarted"]
        /\ UNCHANGED <<event, process, ffmpeg, caller, exiting>>
  BY DEF Start
<1>2. TypeOK'
  BY <1>1 DEF Inv, TypeOK, Places, At
<1>3. ThreadShape'
  BY <1>1 DEF Inv, TypeOK, ThreadShape
<1>4. CallerShape' /\ Found'
  BY <1>1 DEF Inv, TypeOK, CallerType, CallerShape, Found, FoundSteps, At
<1>5. Unclaimed'
  BY <1>1 DEF Inv, TypeOK, CallerType, CallerShape, RegisteredRuns, Unclaimed, StopsNext, At
<1>6. StopLeavesNone'
  BY <1>1 DEF Inv, StopLeavesNone, At
<1>7. Supervised'
  BY <1>1 DEF Inv, TypeOK, Supervised, Alive, Ends, StopsNext, At
<1>8. RegisteredRuns'
  BY <1>1 DEF Inv, TypeOK, ThreadShape, RegisteredRuns
<1> QED BY <1>2, <1>3, <1>4, <1>5, <1>6, <1>7, <1>8 DEF Inv

LEMMA StopInv ==
  ASSUME Inv, NEW c \in Callers, NEW p \in Paths, Stop(c, p)
  PROVE  Inv'
<1> USE TranscoderAssumption DEF Stop
<1>0. caller'[c] = [Idle EXCEPT !.at = "set", !.handle = registry[p]]
  BY DEF Inv, TypeOK
<1>a. caller'[c].at = "set" /\ caller'[c].handle = registry[p] /\ caller'[c].rest = {}
  BY <1>0 DEF Idle
<1>b. \A d \in Callers : d # c => caller'[d] = caller[d]
  BY DEF Inv, TypeOK
<1>c. registry[p] \in Handles /\ thread[registry[p]] # "new"
  BY DEF Inv, TypeOK, RegisteredRuns
<1>2. TypeOK'
  BY <1>c DEF Inv, TypeOK, Idle, CallerType, Steps, At
<1>3. ThreadShape'
  BY DEF Inv, ThreadShape
<1>4. CallerShape' /\ Found'
  BY <1>a, <1>b, <1>c DEF Inv, CallerShape, Found, FoundSteps
<1>5. Unclaimed'
  BY <1>a, <1>b DEF Inv, TypeOK, Unclaimed, StopsNext, At
<1>6. StopLeavesNone'
  BY <1>a, <1>b DEF Inv, StopLeavesNone, At
<1>7. Supervised'
  <2> SUFFICES ASSUME ~exiting, NEW h \in Handles, Alive(h), ~event[h],
                      registry'[path[h]] # h
               PROVE  \E d \in Callers : StopsNext(d, h)'
    BY DEF Supervised, Alive
  <2>1. CASE registry[path[h]] = h
    BY <1>a, <2>1 DEF Inv, TypeOK, StopsNext, At
  <2>2. CASE \E d \in Callers : StopsNext(d, h)
    BY <1>b, <2>2 DEF StopsNext, At, Idle
  <2> QED BY <2>1, <2>2 DEF Inv, Supervised
<1>8. RegisteredRuns'
  BY DEF Inv, TypeOK, RegisteredRuns
<1> QED BY <1>2, <1>3, <1>4, <1>5, <1>6, <1>7, <1>8 DEF Inv

LEMMA ShutdownInv ==
  ASSUME Inv, NEW c \in Callers, Shutdown(c)
  PROVE  Inv'
<1> USE TranscoderAssumption DEF Shutdown
<1>1. \A p \in Paths : registry'[p] = None
  OBVIOUS
<1>2. \A h \in Registered : h \in Handles /\ thread[h] # "new"
  BY DEF Inv, TypeOK, Registered, RegisteredRuns
<1>3. \/ UNCHANGED caller
      \/ /\ caller'[c].at = "set" /\ caller'[c].handle \in Registered
         /\ caller'[c].rest \subseteq Registered
         /\ \A d \in Callers : d # c => caller'[d] = caller[d]
  BY DEF Inv, TypeOK
<1>4. TypeOK'
  <2>1. ASSUME NEW h \in Registered
        PROVE  [at |-> "set", handle |-> h, rest |-> Registered \ {h}] \in CallerType
    BY <1>2 DEF CallerType, Steps
  <2>2. caller' \in [Callers -> CallerType]
    BY <2>1 DEF Inv, TypeOK
  <2>3. \A d \in Callers : caller'[d].at = "idle" \/ caller'[d].handle # None
    BY <1>2, <1>3 DEF Inv, TypeOK, At
  <2> QED BY <2>2, <2>3 DEF Inv, TypeOK, At
<1>5. ThreadShape'
  BY DEF Inv, ThreadShape
<1>6. CallerShape' /\ Found'
  BY <1>2, <1>3 DEF Inv, CallerShape, Found, FoundSteps
<1>7. StopLeavesNone'
  BY <1>3 DEF Inv, StopLeavesNone, At
<1>8. Unclaimed' /\ Supervised' /\ RegisteredRuns'
  BY <1>1 DEF Unclaimed, Supervised, RegisteredRuns
<1> QED BY <1>4, <1>5, <1>6, <1>7, <1>8 DEF Inv

---------------------------------------------------------------------------
(* The steps of stop()                                                     *)

LEMMA SetEventInv ==
  ASSUME Inv, NEW c \in Callers, SetEvent(c)
  PROVE  Inv'
<1> USE TranscoderAssumption DEF SetEvent, GoTo
<1> DEFINE h == caller[c].handle
<1>0. /\ caller[c].at = "set" /\ h \in Handles /\ thread[h] # "new"
      /\ \A p \in Paths : registry[p] # None => registry[p] # h
  BY DEF Inv, TypeOK, CallerType, CallerShape, Unclaimed, StopsNext, At
<1>1. /\ caller'[c].at = "read" /\ caller'[c].handle = h /\ caller'[c].rest = caller[c].rest
      /\ \A d \in Callers : d # c => caller'[d] = caller[d]
  BY DEF Inv, TypeOK, CallerType
<1>2. event'[h] = TRUE /\ \A g \in Handles : g # h => event'[g] = event[g]
  BY <1>0 DEF Inv, TypeOK
<1>3. TypeOK'
  BY <1>0 DEF Inv, TypeOK, CallerType, Steps, At
<1>4. ThreadShape'
  BY <1>0, <1>2 DEF Inv, ThreadShape
<1>5. CallerShape' /\ Found'
  <2>1. \A d \in Callers : event[caller[d].handle] => event'[caller[d].handle]
    BY <1>0, <1>2 DEF Inv, TypeOK, CallerType
  <2>2. CallerShape'
    BY <1>0, <1>1, <1>2, <2>1 DEF Inv, CallerShape
  <2>3. Found'
    BY <1>1 DEF Inv, Found, FoundSteps
  <2> QED BY <2>2, <2>3
<1>6. Unclaimed' /\ StopLeavesNone'
  BY <1>1 DEF Inv, TypeOK, Unclaimed, StopsNext, StopLeavesNone, At
<1>7. Supervised'
  BY <1>0, <1>1, <1>2 DEF Inv, Supervised, Alive, StopsNext, At
<1>8. RegisteredRuns'
  BY <1>0, <1>2 DEF Inv, TypeOK, RegisteredRuns
<1> QED BY <1>3, <1>4, <1>5, <1>6, <1>7, <1>8 DEF Inv

\* A caller that set the event goes on, and what it has seen justifies where to.
LEMMA AdvanceInv ==
  ASSUME Inv, NEW c \in Callers, NEW step \in Steps \ {"idle", "set"},
         caller[c].at \notin {"idle", "set"},
         GoTo(c, step), UNCHANGED event,
         step \in FoundSteps =>
           thread[caller[c].handle] \in {"wait", "clear", "check", "ended"},
         step = "join" => ffmpeg[caller[c].handle] # "running"
  PROVE  Inv'
<1> USE DEF GoTo
<1>1. /\ caller'[c].at = step /\ caller'[c].handle = caller[c].handle
      /\ caller'[c].rest = caller[c].rest
      /\ \A d \in Callers : d # c => caller'[d] = caller[d]
  BY DEF Inv, TypeOK, CallerType
<1>2. \A d \in Callers, h \in Handles : StopsNext(d, h)' <=> StopsNext(d, h)
  BY <1>1 DEF StopsNext, At
<1>3. TypeOK'
  BY <1>1 DEF Inv, TypeOK, CallerType, At
<1>4. ThreadShape' /\ RegisteredRuns'
  BY DEF Inv, ThreadShape, RegisteredRuns
<1>5. CallerShape' /\ Found'
  BY <1>1 DEF Inv, CallerShape, Found
<1>6. Unclaimed' /\ Supervised'
  BY <1>2 DEF Inv, TypeOK, Unclaimed, Supervised, Alive
<1>7. StopLeavesNone'
  BY <1>1 DEF Inv, StopLeavesNone, At
<1> QED BY <1>3, <1>4, <1>5, <1>6, <1>7 DEF Inv

\* stop() raises.  What a shutdown had left to stop is given up.
LEMMA RaiseInv ==
  ASSUME Inv, NEW c \in Callers, caller[c].at \notin {"idle", "set"}, Raise(c)
  PROVE  Inv'
<1> USE DEF Raise, Idle
<1>1. /\ caller'[c].at = "idle" /\ caller'[c].rest = {}
      /\ \A d \in Callers : d # c => caller'[d] = caller[d]
  BY DEF Inv, TypeOK
<1>2. TypeOK'
  BY DEF Inv, TypeOK, CallerType, Steps, At
<1>3. ThreadShape' /\ RegisteredRuns'
  BY DEF Inv, ThreadShape, RegisteredRuns
<1>4. CallerShape' /\ Found' /\ StopLeavesNone'
  BY <1>1 DEF Inv, CallerShape, Found, FoundSteps, StopLeavesNone, At
<1>5. \A d \in Callers, h \in Handles : StopsNext(d, h)' => StopsNext(d, h)
  BY <1>1 DEF StopsNext, At
<1>6. Unclaimed'
  BY <1>5 DEF Inv, TypeOK, Unclaimed
<1>7. Supervised'
  BY <1>1 DEF Inv, CallerShape, Supervised, Alive, StopsNext, At
<1> QED BY <1>2, <1>3, <1>4, <1>6, <1>7 DEF Inv

LEMMA JoinInv ==
  ASSUME Inv, NEW c \in Callers, Join(c)
  PROVE  Inv'
<1>1. CASE caller' = [caller EXCEPT ![c] = Idle]
  BY <1>1, RaiseInv DEF Join, Raise
<1>2. ASSUME NEW h \in caller[c].rest,
             caller' = [caller EXCEPT ![c] = [at |-> "set", handle |-> h, rest |-> @.rest \ {h}]]
      PROVE  Inv'
  <2> USE DEF Join
  <2>1. /\ caller'[c].at = "set" /\ caller'[c].handle = h
        /\ caller'[c].rest = caller[c].rest \ {h}
        /\ \A d \in Callers : d # c => caller'[d] = caller[d]
    BY <1>2 DEF Inv, TypeOK
  <2>2. h \in Handles /\ thread[h] # "new"
    BY DEF Inv, TypeOK, CallerType, CallerShape
  <2>3. \A d \in Callers, g \in Handles : StopsNext(d, g)' <=> StopsNext(d, g)
    BY <2>1 DEF StopsNext, At
  <2>4. TypeOK'
    BY <1>2, <2>1, <2>2, TranscoderAssumption DEF Inv, TypeOK, CallerType, Steps, At
  <2>5. ThreadShape' /\ RegisteredRuns'
    BY DEF Inv, ThreadShape, RegisteredRuns
  <2>6. CallerShape' /\ Found' /\ StopLeavesNone'
    BY <2>1, <2>2 DEF Inv, CallerShape, Found, FoundSteps, StopLeavesNone, At
  <2>7. Unclaimed' /\ Supervised'
    BY <2>3 DEF Inv, TypeOK, Unclaimed, Supervised, Alive
  <2> QED BY <2>4, <2>5, <2>6, <2>7 DEF Inv
<1> QED BY <1>1, <1>2 DEF Join

LEMMA StopStepInv ==
  ASSUME Inv, NEW c \in Callers, StopStep(c)
  PROVE  Inv'
<1> USE DEF At, Present
<1> DEFINE h == caller[c].handle
           seen == thread[h] \in {"wait", "clear", "check", "ended"}
<1>0. caller[c].at # "idle" => h \in Handles
  BY TranscoderAssumption DEF Inv, TypeOK, CallerType
<1>1. caller[c].at \in FoundSteps => seen
  BY DEF Inv, Found
<1>2. caller[c].at # "idle" /\ process[h] => seen
  BY <1>0 DEF Inv, TypeOK, ThreadShape
<1>3. CASE ReadProcess(c)
  BY <1>2, <1>3, AdvanceInv DEF ReadProcess, Steps, FoundSteps
<1>4. CASE Poll(c) \/ Waited(c)
  BY <1>1, <1>4, AdvanceInv DEF Poll, Waited, Steps, FoundSteps
<1>5. CASE Terminate(c) \/ Wait(c) \/ Kill(c) \/ WaitAgain(c)
  BY <1>1, <1>5, AdvanceInv DEF Terminate, Wait, Kill, WaitAgain, Steps, FoundSteps
<1>6. CASE TimedOut(c)
  BY <1>1, <1>6, AdvanceInv, RaiseInv DEF TimedOut, Steps, FoundSteps
<1>7. CASE ProcessGone(c) \/ JoinUnstarted(c)
  BY <1>7, RaiseInv DEF ProcessGone, JoinUnstarted
<1> QED BY <1>3, <1>4, <1>5, <1>6, <1>7, SetEventInv, JoinInv DEF StopStep

---------------------------------------------------------------------------
(* The steps of the supervisor and of its ffmpeg                           *)

LEMMA RunStepInv ==
  ASSUME Inv, NEW h \in Handles, RunStep(h) \/ FfmpegExits(h)
  PROVE  Inv'
<1>1. /\ UNCHANGED <<registry, path, event, caller, exiting>>
      /\ \A g \in Handles : g # h =>
           thread'[g] = thread[g] /\ process'[g] = process[g] /\ ffmpeg'[g] = ffmpeg[g]
  BY DEF Inv, TypeOK, RunStep, FfmpegExits, Loop, Spawn, SpawnFails, Assign, Reap, Clear,
         Check, Wake, Move
<1>2. TypeOK'
  BY DEF Inv, TypeOK, Places, At, RunStep, FfmpegExits, Loop, Spawn, SpawnFails, Assign, Reap,
         Clear, Check, Wake, Move
<1>3. ThreadShape' /\ thread[h] # "new" /\ thread'[h] # "new"
  BY DEF Inv, TypeOK, ThreadShape, RunStep, FfmpegExits, Loop, Spawn, SpawnFails, Assign, Reap,
         Clear, Check, Wake, Move
<1>4. /\ thread'[h] = "ended" => event[h] 
      /\ Alive(h)' => Alive(h)
  BY <1>1, <1>3 DEF Inv, TypeOK, ThreadShape, Alive, Ends, RunStep, FfmpegExits, Loop, Spawn,
         SpawnFails, Assign, Reap, Clear, Check, Wake, Move
<1>5. /\ event[h] /\ thread[h] \in {"wait", "clear", "check", "ended"} =>
           thread'[h] \in {"wait", "clear", "check", "ended"}
      /\ thread[h] \in {"wait", "clear", "check", "ended"} /\ ffmpeg[h] # "running" =>
           ffmpeg'[h] # "running"
  BY DEF Inv, TypeOK, RunStep, FfmpegExits, Loop, Spawn, SpawnFails, Assign, Reap, Clear,
         Check, Wake, Move
<1>6. CallerShape'
  <2>1. \A g \in Handles : thread[g] # "new" => thread'[g] # "new"
    BY <1>1, <1>3 DEF Inv, TypeOK
  <2>2. \A c \in Callers :
          /\ caller[c].at # "idle" => caller[c].handle \in Handles
          /\ caller[c].rest \subseteq Handles
    BY TranscoderAssumption DEF Inv, TypeOK, CallerType, At
  <2> QED BY <1>1, <2>1, <2>2 DEF Inv, CallerShape
<1>7. Found' /\ StopLeavesNone'
  BY <1>1, <1>5 DEF Inv, TypeOK, CallerType, CallerShape, Found, FoundSteps, StopLeavesNone, At
<1>8. Unclaimed'
  BY <1>1 DEF Inv, Unclaimed, StopsNext, At
<1>9. Supervised'
  BY <1>1, <1>4 DEF Inv, Supervised, Alive, StopsNext, At
<1>10. RegisteredRuns'
  BY <1>1, <1>3, <1>4 DEF Inv, TypeOK, RegisteredRuns
<1> QED BY <1>2, <1>3, <1>6, <1>7, <1>8, <1>9, <1>10 DEF Inv

LEMMA StutterInv == ASSUME Inv, UNCHANGED vars PROVE Inv'
BY DEF vars, Inv, TypeOK, ThreadShape, CallerShape, Found, Unclaimed, StopsNext,
       StopLeavesNone, Supervised, Alive, RegisteredRuns, At

LEMMA NextInv == Inv /\ [Next]_vars => Inv'
BY StartInv, StopInv, ShutdownInv, StopStepInv, RunStepInv, StutterInv DEF Next

LEMMA Safety == Spec => []Inv
BY InitInv, NextInv, PTL DEF Spec

---------------------------------------------------------------------------
(* The theorems.                                                           *)

\* Every reachable state is well typed, and a start() or stop() that is under way
\* works on a handle it found or made (transcoder.py:46-128).
THEOREM TypeCorrect == Spec => []TypeOK
<1>1. Inv => TypeOK
  BY DEF Inv
<1> QED BY <1>1, Safety, PTL

\* A stop() that found a process leaves none running, whatever the supervisor does.
THEOREM StopIsEffective == Spec => []StopLeavesNone
<1>1. Inv => StopLeavesNone
  BY DEF Inv
<1> QED BY <1>1, Safety, PTL

\* Until the interpreter exits, no running supervisor is lost by the registry
\* before somebody is about to stop it.
THEOREM NoSupervisorIsLost == Spec => []Supervised
<1>1. Inv => Supervised
  BY DEF Inv
<1> QED BY <1>1, Safety, PTL

\* The registry never holds a handle that was told to stop.
THEOREM RegisteredAreNotStopped == Spec => []RegisteredRuns
<1>1. Inv => RegisteredRuns
  BY DEF Inv
<1> QED BY <1>1, Safety, PTL
=============================================================================
