---------------------------- MODULE MediaControl ----------------------------
(***************************************************************************)
(* The ingest control plane together with the media plane it drives: the   *)
(* registry of ffmpeg transcoders (services/transcoding.py), the playback  *)
(* aliases configured in MediaMTX through its control API                  *)
(* (services/mediamtx.py), and the reconciliation at startup (main.py).    *)
(*                                                                         *)
(* The media calls of a handler come after its commit, one at a time and   *)
(* outside any transaction.  An exception in one skips those that follow.  *)
(* The registry dies with the process; MediaMTX is a process of its own,   *)
(* keeps the aliases in memory and loses them when it restarts.            *)
(*                                                                         *)
(* An agent is a worker thread, or the startup handler: the server accepts *)
(* no request before that handler returns.                                 *)
(***************************************************************************)
EXTENDS IngestControl, Sequences

CONSTANTS
  Startup,     \* the agent that runs restore_live_ingests
  Transcoded,  \* the source of an alias that pulls live/_transcode_<path>
  Unstarted,   \* a registered handle whose thread could not be started
  Faults,      \* the kinds of fault the environment may inflict
  MaxFaults    \* bound on their number

VARIABLES
  transcode,   \* ENABLE_FFMPEG_TRANSCODE, which the process reads as it starts
  transcoders, \* _TRANSCODERS: the key a path's handle was created with, or Unstarted
  alias,       \* what MediaMTX pulls for a reader of a path
  calls,       \* the media calls each agent still has to make, in order
  boot,        \* the reconciliation: its stage, and the alias it works on
  faults       \* the kinds of those so far, in order

plane == <<transcoders, alias>>
mediaVars == <<sessions, streams, req, transcode, transcoders, alias, calls, boot, faults>>

Agents == Workers \cup {Startup}
CallNames == {"start_transcoder", "stop_transcoder", "delete", "add"}

\* "up" - requests are served, "restore" - restore_live_ingests runs, "down" -
\* it raised, and the supervisor will start the process again
Boot == [stage: {"up", "restore", "down"}, left: SUBSET SessionIds,
         path: Paths \cup {None}, key: Keys \cup {None}]
Up == [stage |-> "up", left |-> {}, path |-> None, key |-> None]
Down == [Up EXCEPT !.stage = "down"]

ASSUME MediaAssumption ==
  /\ Startup \notin Workers
  /\ Transcoded \notin Keys \cup {None} /\ Unstarted \notin Keys \cup {None}
  /\ MaxFaults \in Nat
  /\ Faults \subseteq {"process", "mediamtx", "api", "stop", "thread"}

LiveSessions == {s \in Stored(sessions) : sessions[s].status = "live"}

\* What the startup handler works through: one SELECT of the live sessions, and
\* nobody else writes while it runs.
Restoring == [stage |-> "restore", left |-> LiveSessions, path |-> None, key |-> None]

\* Mistake: the alias is added without deleting the one that is there.
StartCalls_NoDelete ==
  IF transcode THEN <<"start_transcoder", "add">> ELSE <<"add">>

StartCalls ==
  IF transcode THEN <<"start_transcoder", "delete", "add">> ELSE <<"delete", "add">>

\* Mistake: only the transcoder is stopped.
StopCalls_KeepsAlias(p) == IF p = None THEN <<>> ELSE <<"stop_transcoder">>

\* Mistake: an unknown session's missing path is not looked at.
StopCalls_AnyPath(p) == <<"stop_transcoder", "delete">>

StopCalls(p) == IF p = None THEN <<>> ELSE <<"stop_transcoder", "delete">>

CallsOf(r) ==
  IF r.stage # "media" THEN <<>>
  ELSE IF r.op = "start" THEN StartCalls ELSE StopCalls(r.path)

---------------------------------------------------------------------------
MediaInit ==
  /\ Init
  /\ transcode \in BOOLEAN
  /\ transcoders = [p \in Paths |-> None]
  /\ alias = [p \in Paths |-> None]
  /\ calls = [a \in Agents |-> <<>>]
  /\ boot = Up
  /\ faults = <<>>

Fault(kind) ==
  /\ kind \in Faults /\ Len(faults) < MaxFaults
  /\ faults' = Append(faults, kind)

(* Requests                                                                *)

Arrive(w) ==
  /\ boot.stage = "up"
  /\ Receive(w)
  /\ calls' = [calls EXCEPT ![w] = CallsOf(req'[w])]
  /\ UNCHANGED <<plane, boot, faults>>

Continue(w) ==
  /\ DatabaseStep(w)
  /\ calls' = [calls EXCEPT ![w] = CallsOf(req'[w])]
  /\ UNCHANGED <<plane, boot, faults>>

Respond(w) ==
  /\ calls[w] = <<>>
  /\ Return(w)
  /\ UNCHANGED <<plane, calls, boot, faults>>

(* Media calls                                                             *)

Due(a, call) == calls[a] # <<>> /\ Head(calls[a]) = call

\* The path and key an agent's media calls are about.
Target(a) == IF a = Startup THEN boot ELSE req[a]

Proceed(a) ==
  /\ calls' = [calls EXCEPT ![a] = Tail(@)]
  /\ UNCHANGED <<vars, boot, faults>>

\* The handler ends with an exception.  restore_live_ingests catches the errors
\* of the control API, and leaves the sessions it had not reached alone.
Raise(a) ==
  /\ calls' = [calls EXCEPT ![a] = <<>>]
  /\ IF a = Startup THEN boot' = Up /\ UNCHANGED vars
                    ELSE Finish(a) /\ UNCHANGED boot

\* The startup raises: uvicorn exits, and the registry dies with the process.
StartupFails ==
  /\ boot' = Down
  /\ transcoders' = [p \in Paths |-> None]

\* start_transcoder: a path that has a handle keeps it, whatever its key.
StartTranscoder(a) ==
  /\ Due(a, "start_transcoder")
  /\ transcoders' = [transcoders EXCEPT
       ![Target(a).path] = IF @ = None THEN Target(a).key ELSE @]
  /\ UNCHANGED alias
  /\ Proceed(a)

\* Thread.start raises RuntimeError, which is no httpx.HTTPError: the handle is
\* registered already, and the handler, or the startup, fails.
ThreadFails(a) ==
  /\ Due(a, "start_transcoder") /\ transcoders[Target(a).path] = None
  /\ Fault("thread")
  /\ UNCHANGED alias
  /\ calls' = [calls EXCEPT ![a] = <<>>]
  /\ IF a = Startup
     THEN StartupFails /\ UNCHANGED vars
     ELSE /\ transcoders' = [transcoders EXCEPT ![Target(a).path] = Unstarted]
          /\ Finish(a) /\ UNCHANGED boot

StopTranscoder(a) ==
  /\ Due(a, "stop_transcoder") /\ transcoders[Target(a).path] # Unstarted
  /\ transcoders' = [transcoders EXCEPT ![Target(a).path] = None]
  /\ UNCHANGED alias
  /\ Proceed(a)

\* The handle left the registry, but handle.stop() raised (its thread had just
\* cleared self.process, or ffmpeg survived the kill for 5 seconds).
StopTranscoderRaises(a) ==
  /\ Due(a, "stop_transcoder") /\ transcoders[Target(a).path] \in Keys
  /\ transcoders' = [transcoders EXCEPT ![Target(a).path] = None]
  /\ Fault("stop")
  /\ UNCHANGED alias
  /\ Raise(a)

\* A thread that never started cannot be joined: stop() raises every time.
JoinUnstarted(a) ==
  /\ Due(a, "stop_transcoder") /\ transcoders[Target(a).path] = Unstarted
  /\ transcoders' = [transcoders EXCEPT ![Target(a).path] = None]
  /\ UNCHANGED <<alias, faults>>
  /\ Raise(a)

AliasSource(key) == IF transcode THEN Transcoded ELSE key

Deleted(a) == [alias EXCEPT ![Target(a).path] = None]
Added(a) == [alias EXCEPT ![Target(a).path] = AliasSource(Target(a).key)]

\* Mistake: a 404 is tried again instead of taken for a success.
DeleteAlias_Retries(a) ==
  /\ Due(a, "delete")
  /\ alias' = Deleted(a)
  /\ IF alias' = alias THEN UNCHANGED mediaVars
                       ELSE Proceed(a) /\ UNCHANGED transcoders

\* DELETE /config/paths/delete: 404 is as good as 200.
DeleteAlias(a) ==
  /\ Due(a, "delete")
  /\ alias' = Deleted(a)
  /\ UNCHANGED transcoders
  /\ Proceed(a)

\* POST /config/paths/add
AddAlias(a) ==
  /\ Due(a, "add") /\ alias[Target(a).path] = None
  /\ alias' = Added(a)
  /\ UNCHANGED transcoders
  /\ Proceed(a)

\* Mistake: a refused POST is cleaned up after, though the alias is another one's.
AddRefused_CleansUp(a) ==
  /\ Due(a, "add") /\ alias[Target(a).path] # None
  /\ alias' = Deleted(a)
  /\ Raise(a)
  /\ UNCHANGED <<transcoders, faults>>

\* MediaMTX answers 400 to a path that exists: another handler added it since.
AddRefused(a) ==
  /\ Due(a, "add") /\ alias[Target(a).path] # None
  /\ Raise(a)
  /\ UNCHANGED <<plane, faults>>

\* A call fails or times out, before or after MediaMTX has carried it out.
CallFails(a) ==
  /\ \/ Due(a, "delete") /\ alias' \in {alias, Deleted(a)}
     \/ Due(a, "add") /\ alias[Target(a).path] = None /\ alias' \in {alias, Added(a)}
  /\ Fault("api")
  /\ UNCHANGED transcoders
  /\ Raise(a)

(* Crashes and the startup                                                 *)

\* Mistake: the sessions are not looked up again after a restart.
CrashProcess_ForgetsLive ==
  /\ Fault("process")
  /\ Crash
  /\ transcode' \in BOOLEAN
  /\ transcoders' = [p \in Paths |-> None]
  /\ calls' = [a \in Agents |-> <<>>]
  /\ boot' = [Restoring EXCEPT !.left = {}]
  /\ UNCHANGED alias

\* The process dies, or is stopped, and is started again, perhaps with another
\* setting.
CrashProcess ==
  /\ Fault("process")
  /\ Crash
  /\ transcode' \in BOOLEAN
  /\ transcoders' = [p \in Paths |-> None]
  /\ calls' = [a \in Agents |-> <<>>]
  /\ boot' = Restoring
  /\ UNCHANGED alias

CrashMediaMTX ==
  /\ Fault("mediamtx")
  /\ alias' = [p \in Paths |-> None]
  /\ UNCHANGED <<vars, transcoders, calls, boot>>

Restores == boot.stage = "restore" /\ calls[Startup] = <<>>

\* ORDER BY created_at DESC
NewestLeft == {s \in boot.left : \A r \in boot.left : r <= s}

\* Mistake: only the session that went live last is restored.
RestoreNext_NewestOnly ==
  /\ Restores
  /\ \E s \in NewestLeft : \E t \in Resolved(s) :
       /\ t = None => WithPath(AutoPath[s]) = {}
       /\ boot' = [boot EXCEPT !.left = {}, !.key = sessions[s].key,
                     !.path = IF t = None THEN AutoPath[s] ELSE streams[t].path]
  /\ calls' = [calls EXCEPT ![Startup] = StartCalls]
  /\ UNCHANGED <<vars, plane, faults>>

\* The next session is resolved, in a transaction that is never committed: a
\* stream created here is gone afterwards, the alias of its path is not.
RestoreNext ==
  /\ Restores
  /\ \E s \in NewestLeft : \E t \in Resolved(s) :
       /\ t = None => WithPath(AutoPath[s]) = {}
       /\ boot' = [boot EXCEPT !.left = @ \ {s}, !.key = sessions[s].key,
                     !.path = IF t = None THEN AutoPath[s] ELSE streams[t].path]
  /\ calls' = [calls EXCEPT ![Startup] = StartCalls]
  /\ UNCHANGED <<vars, plane, faults>>

\* The INSERT of an automatic stream whose path is taken raises IntegrityError,
\* which is no httpx.HTTPError.
RestoreAborts ==
  /\ Restores
  /\ \E s \in NewestLeft : Resolved(s) = {None} /\ WithPath(AutoPath[s]) # {}
  /\ StartupFails
  /\ UNCHANGED <<vars, alias, calls, faults>>

\* restart: unless-stopped
Restart ==
  /\ boot.stage = "down"
  /\ boot' = Restoring
  /\ UNCHANGED <<vars, plane, calls, faults>>

RestoreDone ==
  /\ Restores /\ boot.left = {}
  /\ boot' = Up
  /\ UNCHANGED <<vars, plane, calls, faults>>

---------------------------------------------------------------------------
MediaCall(a) ==
  \/ StartTranscoder(a) \/ StopTranscoder(a) \/ DeleteAlias(a)
  \/ JoinUnstarted(a) \/ AddAlias(a) \/ AddRefused(a)

StartupStep ==
  /\ RestoreNext \/ RestoreAborts \/ Restart \/ RestoreDone \/ MediaCall(Startup)
  /\ UNCHANGED transcode

WorkerStep(w) == (Continue(w) \/ MediaCall(w) \/ Respond(w)) /\ UNCHANGED transcode

MediaNext ==
  \/ StartupStep \/ CrashProcess \/ \E w \in Workers : WorkerStep(w)
  \/ /\ \/ CrashMediaMTX
        \/ \E w \in Workers : Arrive(w)
        \/ \E a \in Agents : StopTranscoderRaises(a) \/ ThreadFails(a) \/ CallFails(a)
     /\ UNCHANGED transcode

\* Threads are scheduled, statements and API calls have timeouts.
Fairness == WF_mediaVars(StartupStep) /\ \A w \in Workers : WF_mediaVars(WorkerStep(w))

MediaSpec == MediaInit /\ [][MediaNext]_mediaVars
FairSpec == MediaSpec /\ Fairness

\* Requests for different keys interleave freely; those for one key, and those
\* of administrators, are handled one after the other.
Separate ==
  \A v, w \in Workers :
    v = w \/ req[v] = Idle \/ req[w] = Idle
    \/ (req[v].key # None /\ req[w].key # None /\ req[v].key # req[w].key)

SerialSpec == MediaInit /\ [][MediaNext /\ Separate']_mediaVars /\ Fairness

---------------------------------------------------------------------------
(* Properties                                                              *)

MediaTypeOK ==
  /\ TypeOK
  /\ transcode \in BOOLEAN
  /\ transcoders \in [Paths -> Keys \cup {Unstarted, None}]
  /\ alias \in [Paths -> Keys \cup {Transcoded, None}]
  /\ boot \in Boot /\ faults \in Seq(Faults)
  /\ calls \in [Agents -> Seq(CallNames)]
  /\ \A a \in Agents : calls[a] # <<>> => Target(a).path # None /\ Target(a).key # None
  /\ \A w \in Workers : calls[w] # <<>> => req[w].stage = "media"

\* The paths on which viewers look for a session: one at most.
PathOf(s) == {streams[t].path : t \in Resolved(s) \ {None}}

\* is_internal_rtmp_alias_pull: who may read live/<key>, and live/_transcode_<p>.
KeyPullAllowed(k) == \E s \in WithKey(k) : sessions[s].stream # None
TranscodePullAllowed(p) == \E t \in WithPath(p) : streams[t].active = "yes"

\* The key whose stream a reader of path p receives, as a set: directly, or from
\* the transcoder.
Received(p) ==
  {k \in Keys : /\ KeyPullAllowed(k)
                /\ \/ alias[p] = k
                   \/ /\ alias[p] = Transcoded /\ transcoders[p] = k
                      /\ TranscodePullAllowed(p)}

Served(s) == \E p \in PathOf(s) : sessions[s].key \in Received(p)

\* The media plane has not failed, though the process may have crashed.
Unfailing == \A i \in DOMAIN faults : faults[i] = "process"

\* Nobody handles a request or restores.
Quiet == boot.stage = "up" /\ \A w \in Workers : req[w] = Idle

\* The transcoder of the path was created for another key than the session has.
Stale(s) == \E p \in PathOf(s) : transcoders[p] \notin {None, sessions[s].key}

\* Between requests, every session that is live in the database is what its path
\* serves, also after the process crashed between the commit and the media calls
\* and was restored with transcoding on or off (ingest.py:297-304, 320-326), as long
\* as no call to the media plane failed: its publisher is refused then.  Save that
\* a transcoder keeps the key it was created with (transcoding.py:113-114).
LiveIsServed == Quiet /\ Unfailing => \A s \in LiveSessions : Served(s) \/ Stale(s)

\* A publication that did not end, live or not, resolves to the path.
Owned(p) == \E s \in Stored(sessions) : p \in PathOf(s) /\ sessions[s].status # "ended"

\* The stop that ended one still has the alias to delete.
Releasing(p) ==
  \E w \in Workers : /\ req[w].path = p
                    /\ calls[w] \in {<<"stop_transcoder", "delete">>, <<"delete">>}

LeftBehind(p) ==
  (alias[p] # None \/ transcoders[p] # None) /\ ~Owned(p) /\ ~Releasing(p)

\* Of a publication that ended, only a step that fails leaves something behind,
\* and that is its alias, never a transcoder: a DELETE that fails, a stop() that
\* raises and skips it (always, on a thread that never started), or a crash
\* between the commit of the stop and its calls (ingest.py:307-317,
\* mediamtx.py:93-101).  No stop is needed for that while the publication is
\* only rotated away or revoked: its path counts as owned.
OnlyFailuresLeak ==
  [][\A p \in Paths : LeftBehind(p)' =>
       /\ transcoders'[p] = None
       /\ LeftBehind(p) \/ faults' # faults \/ transcoders[p] = Unstarted]_mediaVars

\* Handlers on one path that interleave their DELETE and POST, so that the second
\* POST is refused with 400, leave an alias and, if it needs one, a transcoder all
\* the same (mediamtx.py:72-90, transcoding.py:110-121): before the first fault,
\* and between requests, the stream that a live session published to has them.
OverlapsKeepAlias ==
  Quiet /\ faults = <<>> =>
    \A s \in LiveSessions, t \in Stored(streams) :
      sessions[s].stream = t /\ streams[t].source = s =>
        LET p == streams[t].path IN
        alias[p] # None /\ (alias[p] = Transcoded => transcoders[p] # None)

\* When the restoration completes and every live session is bound, whatever else
\* administrators did to the bindings, the path of each is served, with the stream
\* of a session that is live (ingest.py:320-326, mediamtx_hooks.py:57-94).  Two
\* exceptions: a live session that was unbound may take the path of another one to
\* a stream that nobody is allowed to pull, and of a stream that is not active the
\* transcoder's output may not be pulled either (streams.py:190-191), while the
\* publisher's own may.
RestoredIsServed ==
  [][/\ boot.stage = "restore" /\ boot'.stage = "up"
     /\ \A s \in LiveSessions : sessions[s].stream # None
     => \A s \in LiveSessions :
          \/ transcode /\ streams[sessions[s].stream].active = "no"
          \/ \E p \in PathOf(s), r \in LiveSessions :
               sessions[r].key \in Received(p)]_mediaVars

\* A session that went live is eventually served, with the same exception, or is
\* not live any more.
EventuallyServed ==
  \A s \in SessionIds :
    (s \in LiveSessions) ~> (s \notin LiveSessions \/ Served(s) \/ Stale(s) \/ ~Unfailing)

\* Every request ends: an exception, a refusal or a timeout ends it too
\* (mediamtx.py:58-69).
RequestsReturn == \A w \in Workers : (req[w] # Idle) ~> (req[w] = Idle)

\* main.py:40: the reconciliation never stands in the way of the startup.
StartupCompletes == (boot.stage = "restore") ~> (boot.stage = "up")
============================================================================
