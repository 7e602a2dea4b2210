-------------------------- MODULE TranscoderThread --------------------------
(***************************************************************************)
(* The ffmpeg supervisor of services/transcoding.py: a handle per playback *)
(* path with a daemon thread that runs ffmpeg over and over, and the       *)
(* request threads that start and stop it.                                 *)
(*                                                                         *)
(* _LOCK covers the whole of start_transcoder and the pop of               *)
(* stop_transcoder, never _TranscoderHandle.stop: stop() reads             *)
(* self.process up to six times, and the supervisor sets it to None in     *)
(* between.  One step is one access to the shared attributes of a handle.  *)
(* A handle has one process at a time; a signal ends it sooner or later,   *)
(* or the five seconds of a wait run out first.                            *)
(***************************************************************************)
EXTENDS Integers

CONSTANTS
  Paths,     \* playback paths
  Handles,   \* bound on _TranscoderHandle objects
  Callers,   \* threads that start and stop transcoders
  OSErrors,  \* whether Popen and Thread.start may fail
  None

VARIABLES
  registry,  \* _TRANSCODERS
  path,      \* path[h]: self.playback_path, None before h is created
  event,     \* event[h]: self.stop_event is set
  thread,    \* thread[h]: where self.thread is in _run
  process,   \* process[h]: self.process is not None
  ffmpeg,    \* ffmpeg[h]: the process Popen returned last
  caller,    \* what each caller is doing
  exiting    \* the interpreter runs _shutdown_transcoders

vars == <<registry, path, event, thread, process, ffmpeg, caller, exiting>>

ASSUME TranscoderAssumption ==
  None \notin Paths \cup Handles /\ OSErrors \in BOOLEAN

(* new - not created; unstarted - Thread.start raised; loop - at the while; *)
(* spawn, assign - Popen, and its result to be stored; wait - in wait();   *)
(* clear - at the finally; check - at the if; sleep; ended - _run returned;*)
(* failed - it returned because of an OSError                              *)
Places == {"new", "unstarted", "loop", "spawn", "assign", "wait", "clear", "check",
           "sleep", "ended", "failed"}

(* The place of a caller in stop(): missed and join are both at the final  *)
(* join, without and with a process found before.                          *)
Steps == {"idle", "set", "read", "poll", "terminate", "wait", "waiting", "kill",
          "waitkill", "killing", "missed", "join"}

Idle == [at |-> "idle", handle |-> None, rest |-> {}]

Registered == {registry[p] : p \in Paths} \ {None}

Init ==
  /\ registry = [p \in Paths |-> None]
  /\ path = [h \in Handles |-> None]
  /\ event = [h \in Handles |-> FALSE]
  /\ thread = [h \in Handles |-> "new"]
  /\ process = [h \in Handles |-> FALSE]
  /\ ffmpeg = [h \in Handles |-> "none"]
  /\ caller = [c \in Callers |-> Idle]
  /\ exiting = FALSE

---------------------------------------------------------------------------
(* start_transcoder, stop_transcoder and _shutdown_transcoders             *)

\* Mistake: the lock does not cover the look-up, so a handle may be replaced.
Start_Replaces(c, p) ==
  /\ caller[c] = Idle
  /\ \E h \in Handles :
       /\ thread[h] = "new"
       /\ registry' = [registry EXCEPT ![p] = h]
       /\ path' = [path EXCEPT ![h] = p]
       /\ thread' = [thread EXCEPT ![h] = "loop"]
  /\ UNCHANGED <<event, process, ffmpeg, caller, exiting>>

\* A path that has a handle is left alone.  Otherwise the handle is registered
\* before its thread starts, and stays registered when that raises.
Start(c, p) ==
  /\ caller[c] = Idle
  /\ registry[p] = None
  /\ \E h \in Handles :
       /\ thread[h] = "new"
       /\ registry' = [registry EXCEPT ![p] = h]
       /\ path' = [path EXCEPT ![h] = p]
       /\ \/ thread' = [thread EXCEPT ![h] = "loop"]
          \/ OSErrors /\ thread' = [thread EXCEPT ![h] = "unstarted"]
  /\ UNCHANGED <<event, process, ffmpeg, caller, exiting>>

\* Mistake: the handle is looked up instead of popped.
Stop_Keeps(c, p) ==
  /\ caller[c] = Idle
  /\ registry[p] # None
  /\ caller' = [caller EXCEPT ![c] = [Idle EXCEPT !.at = "set", !.handle = registry[p]]]
  /\ UNCHANGED <<registry, path, event, thread, process, ffmpeg, exiting>>

\* Mistake: the popped handle is not compared with None.
Stop_Unchecked(c, p) ==
  /\ caller[c] = Idle
  /\ caller' = [caller EXCEPT ![c] = [Idle EXCEPT !.at = "set", !.handle = registry[p]]]
  /\ registry' = [registry EXCEPT ![p] = None]
  /\ UNCHANGED <<path, event, thread, process, ffmpeg, exiting>>

Stop(c, p) ==
  /\ caller[c] = Idle
  /\ registry[p] # None
  /\ caller' = [caller EXCEPT ![c] = [Idle EXCEPT !.at = "set", !.handle = registry[p]]]
  /\ registry' = [registry EXCEPT ![p] = None]
  /\ UNCHANGED <<path, event, thread, process, ffmpeg, exiting>>

\* atexit: all handles leave the registry at once and are stopped one by one.
Shutdown(c) ==
  /\ caller[c] = Idle /\ ~exiting
  /\ exiting' = TRUE
  /\ registry' = [p \in Paths |-> None]
  /\ \/ Registered = {} /\ UNCHANGED caller
     \/ \E h \in Registered :
          caller' = [caller EXCEPT ![c] =
                       [at |-> "set", handle |-> h, rest |-> Registered \ {h}]]
  /\ UNCHANGED <<path, event, thread, process, ffmpeg>>

---------------------------------------------------------------------------
(* _TranscoderHandle.stop                                                  *)

At(c, step) == caller[c].at = step

GoTo(c, step) ==
  /\ caller' = [caller EXCEPT ![c].at = step]
  /\ UNCHANGED <<registry, path, thread, process, ffmpeg, exiting>>

\* AttributeError, TimeoutExpired or RuntimeError: stop() and its caller end.
Raise(c) ==
  /\ caller' = [caller EXCEPT ![c] = Idle]
  /\ UNCHANGED <<registry, path, event, thread, process, ffmpeg, exiting>>

\* Mistake: the event is set after the process was terminated, not before.
SetEvent_Late(c) ==
  /\ At(c, "set") /\ GoTo(c, "read") /\ UNCHANGED event

SetEvent(c) ==
  /\ At(c, "set")
  /\ event' = [event EXCEPT ![caller[c].handle] = TRUE]
  /\ GoTo(c, "read")

Present(c) == process[caller[c].handle]

\* if self.process is not None
ReadProcess(c) ==
  /\ At(c, "read")
  /\ GoTo(c, IF Present(c) THEN "poll" ELSE "missed")
  /\ UNCHANGED event

\* and self.process.poll() is None
Poll(c) ==
  /\ At(c, "poll") /\ Present(c)
  /\ GoTo(c, IF ffmpeg[caller[c].handle] = "running" THEN "terminate" ELSE "join")
  /\ UNCHANGED event

Terminate(c) == At(c, "terminate") /\ Present(c) /\ GoTo(c, "wait") /\ UNCHANGED event
Wait(c) == At(c, "wait") /\ Present(c) /\ GoTo(c, "waiting") /\ UNCHANGED event
Kill(c) == At(c, "kill") /\ Present(c) /\ GoTo(c, "waitkill") /\ UNCHANGED event
WaitAgain(c) == At(c, "waitkill") /\ Present(c) /\ GoTo(c, "killing") /\ UNCHANGED event

\* The supervisor has set self.process to None: AttributeError.
ProcessGone(c) ==
  /\ caller[c].at \in {"poll", "terminate", "wait", "kill", "waitkill"}
  /\ ~Present(c)
  /\ Raise(c)

Waited(c) ==
  /\ caller[c].at \in {"waiting", "killing"}
  /\ ffmpeg[caller[c].handle] = "exited"
  /\ GoTo(c, "join") /\ UNCHANGED event

\* Five seconds have passed: kill, or give up.
TimedOut(c) ==
  /\ caller[c].at \in {"waiting", "killing"}
  /\ ffmpeg[caller[c].handle] = "running"
  /\ \/ At(c, "waiting") /\ GoTo(c, "kill") /\ UNCHANGED event
     \/ At(c, "killing") /\ Raise(c)

\* join(timeout=1) returns whether the thread has ended or not.
Join(c) ==
  /\ caller[c].at \in {"missed", "join"}
  /\ thread[caller[c].handle] # "unstarted"
  /\ \/ caller[c].rest = {} /\ caller' = [caller EXCEPT ![c] = Idle]
     \/ \E h \in caller[c].rest :
          caller' = [caller EXCEPT ![c] = [at |-> "set", handle |-> h, rest |-> @.rest \ {h}]]
  /\ UNCHANGED <<registry, path, event, thread, process, ffmpeg, exiting>>

\* cannot join thread before it is started
JoinUnstarted(c) ==
  /\ caller[c].at \in {"missed", "join"}
  /\ thread[caller[c].handle] = "unstarted"
  /\ Raise(c)

---------------------------------------------------------------------------
(* _TranscoderHandle._run                                                  *)

Move(h, from, to) ==
  /\ thread[h] = from
  /\ thread' = [thread EXCEPT ![h] = to]
  /\ UNCHANGED <<registry, path, event, caller, exiting>>

\* while not self.stop_event.is_set()
Loop(h) ==
  /\ Move(h, "loop", IF event[h] THEN "ended" ELSE "spawn")
  /\ UNCHANGED <<process, ffmpeg>>

Spawn(h) ==
  /\ Move(h, "spawn", "assign")
  /\ ffmpeg' = [ffmpeg EXCEPT ![h] = "running"]
  /\ UNCHANGED process

\* OSError: logged, and the supervisor is gone; the registry is not told.
SpawnFails(h) == OSErrors /\ Move(h, "spawn", "failed") /\ UNCHANGED <<process, ffmpeg>>

Assign(h) ==
  /\ Move(h, "assign", "wait")
  /\ process' = [process EXCEPT ![h] = TRUE]
  /\ UNCHANGED ffmpeg

Reap(h) ==
  /\ ffmpeg[h] = "exited"
  /\ Move(h, "wait", "clear")
  /\ UNCHANGED <<process, ffmpeg>>

Clear(h) ==
  /\ Move(h, "clear", "check")
  /\ process' = [process EXCEPT ![h] = FALSE]
  /\ UNCHANGED ffmpeg

\* Mistake: ffmpeg is restarted at once, whatever the event says.
Check_Restarts(h) == Move(h, "check", "spawn") /\ UNCHANGED <<process, ffmpeg>>

\* Mistake: an exit of ffmpeg ends the supervisor.
Check_GivesUp(h) == Move(h, "check", "ended") /\ UNCHANGED <<process, ffmpeg>>

\* if self.stop_event.is_set(): return, else restart ffmpeg after a second
Check(h) ==
  /\ Move(h, "check", IF event[h] THEN "ended" ELSE "sleep")
  /\ UNCHANGED <<process, ffmpeg>>

Wake(h) == Move(h, "sleep", "loop") /\ UNCHANGED <<process, ffmpeg>>

\* ffmpeg ends: its source is gone, it crashed, or a signal reached it.
FfmpegExits(h) ==
  /\ ffmpeg[h] = "running"
  /\ ffmpeg' = [ffmpeg EXCEPT ![h] = "exited"]
  /\ UNCHANGED <<registry, path, event, thread, process, caller, exiting>>

---------------------------------------------------------------------------
StopStep(c) ==
  \/ SetEvent(c) \/ ReadProcess(c) \/ Poll(c) \/ Terminate(c) \/ Wait(c)
  \/ Kill(c) \/ WaitAgain(c) \/ ProcessGone(c) \/ Waited(c) \/ TimedOut(c)
  \/ Join(c) \/ JoinUnstarted(c)

RunStep(h) ==
  \/ Loop(h) \/ Spawn(h) \/ SpawnFails(h) \/ Assign(h) \/ Reap(h) \/ Clear(h)
  \/ Check(h) \/ Wake(h)

Next ==
  \/ \E c \in Callers :
       (\E p \in Paths : Start(c, p) \/ Stop(c, p)) \/ Shutdown(c) \/ StopStep(c)
  \/ \E h \in Handles : RunStep(h) \/ FfmpegExits(h)

Spec == Init /\ [][Next]_vars

\* Threads are scheduled and their waits time out; no ffmpeg outlives its source,
\* and no publication lasts forever.
FairSpec ==
  /\ Spec
  /\ \A c \in Callers : WF_vars(StopStep(c))
  /\ \A h \in Handles : WF_vars(RunStep(h)) /\ WF_vars(FfmpegExits(h))
---------------------------------------------------------------------------
(* Properties                                                              *)

CallerType == [at: Steps, handle: Handles \cup {None}, rest: SUBSET Handles]

TypeOK ==
  /\ registry \in [Paths -> Handles \cup {None}]
  /\ path \in [Handles -> Paths \cup {None}]
  /\ event \in [Handles -> BOOLEAN]
  /\ thread \in [Handles -> Places]
  /\ process \in [Handles -> BOOLEAN]
  /\ ffmpeg \in [Handles -> {"none", "running", "exited"}]
  /\ caller \in [Callers -> CallerType]
  /\ exiting \in BOOLEAN
  /\ \A c \in Callers : At(c, "idle") \/ caller[c].handle # None

\* Once stop() has found a process, it returns only when that ffmpeg has exited,
\* and the supervisor starts no other one, however the two interleave
\* (transcoding.py:30-39, 43-60).
StopLeavesNone ==
  \A c \in Callers : At(c, "join") => ffmpeg[caller[c].handle] # "running"

Ends == {"ended", "failed", "unstarted"}
Alive(h) == thread[h] \notin {"new"} \cup Ends

StopsNext(c, h) == (At(c, "set") /\ caller[c].handle = h) \/ h \in caller[c].rest

\* As long as the process is not exiting, a supervisor that was not told to stop
\* is the one the registry knows, or a caller is about to tell it: none is lost,
\* and no path ever has two that go on (transcoding.py:112-131).
Supervised ==
  ~exiting =>
    \A h \in Handles : Alive(h) /\ ~event[h] =>
      registry[path[h]] = h \/ \E c \in Callers : StopsNext(c, h)

\* A registered handle was not told to stop, so the path of a start that leaves it
\* alone is not about to lose its transcoder.  Only an OSError leaves a registered
\* handle without a supervisor.
RegisteredRuns ==
  \A p \in Paths : registry[p] # None =>
    ~event[registry[p]] /\ thread[registry[p]] \notin {"new", "ended"}

\* Whatever interrupts it, a supervisor that was told to stop ends, also when stop()
\* missed its process or raised (transcoding.py:43, 53).
StoppedThreadsEnd == \A h \in Handles : event[h] ~> thread[h] \in Ends

\* A registered supervisor has ffmpeg running again and again, unless the operating
\* system refused (transcoding.py:43-60).
KeepsTranscoding ==
  \A h \in Handles :
    h \in Registered ~>
      (h \notin Registered \/ ffmpeg[h] = "running" \/ thread[h] \in {"failed", "unstarted"})
=============================================================================
