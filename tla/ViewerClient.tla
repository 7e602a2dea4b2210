---------------------------- MODULE ViewerClient ----------------------------
(***************************************************************************)
(* The viewer's page, src/nginx/site/app.js: one thread of JavaScript with *)
(* any number of calls under way, each suspended at an await.  A step runs *)
(* from one await to the next; the answers come in any order, or not at    *)
(* all.  What a page shows of a stream or a profile is left out, and so is *)
(* the configuration, which only names the STUN servers.                   *)
(***************************************************************************)
EXTENDS Naturals

CONSTANTS
  Codes,        \* client codes; one also stands for its viewer and their token
  Tasks,        \* bound on the calls under way at once
  Connections,  \* RTCPeerConnections, one more than tasks: a closed one is used again
  AutoPlay,     \* whether the page was opened with autoplay=1
  None          \* null

VARIABLES
  token,        \* state.viewerToken, which sessionStorage keeps
  profile,      \* state.profile
  panel,        \* the panel is visible
  buttons,      \* the list of streams was rendered with some
  polling,      \* state.pollHandle is set
  consumed,     \* state.autoPlayConsumed
  player,       \* the player's badge
  shown,        \* the connection whose stream the video element has
  current,      \* state.currentPlayback
  open,         \* the connections that are not closed
  task          \* the calls under way

session == <<token, profile, panel, buttons, polling, consumed>>
playback == <<player, shown, current, open>>
vars == <<session, playback, task>>

ASSUME ViewerAssumption ==
  /\ None \notin Codes \cup Tasks \cup Connections
  /\ AutoPlay \in BOOLEAN

Free == [call |-> "none", awaits |-> "none", as |-> None, me |-> None, pc |-> None]

\* as is whose token the pending request carries, where it matters.
Task == [call: {"none", "openSession", "refresh", "poll", "button", "autoplay"},
         awaits: {"none", "session", "me", "config", "streams", "playback", "answer"},
         as: Codes \cup {None}, me: Codes \cup {None}, pc: Connections \cup {None}]

Opens == {t \in Tasks : task[t].call \in {"button", "autoplay"}}

---------------------------------------------------------------------------
\* What a page begins with: openSession for the client code of its address, the
\* profile of a stored token, or nothing.
Initially(tok, code) ==
  CASE code # None -> [Free EXCEPT !.call = "openSession", !.awaits = "session", !.me = code]
    [] code = None /\ tok # None ->
         [Free EXCEPT !.call = "openSession", !.awaits = "me", !.as = tok]
    [] OTHER -> Free

Init ==
  /\ profile = None /\ panel = FALSE /\ buttons = FALSE
  /\ polling = FALSE /\ consumed = FALSE
  /\ player = "none" /\ shown = None /\ current = None /\ open = {}
  /\ \E stored, code \in Codes \cup {None}, t \in Tasks :
       /\ token = IF code = None THEN stored ELSE None
       /\ task = [u \in Tasks |-> IF u = t THEN Initially(stored, code) ELSE Free]

\* The page is loaded again: beforeunload closes the connection.
Load ==
  /\ profile' = None /\ panel' = FALSE /\ buttons' = FALSE
  /\ polling' = FALSE /\ consumed' = FALSE
  /\ player' = "none" /\ shown' = None /\ current' = None /\ open' = {}
  /\ \E code \in Codes \cup {None}, t \in Tasks :
       /\ token' = IF code = None THEN token ELSE None
       /\ task' = [u \in Tasks |-> IF u = t THEN Initially(token, code) ELSE Free]

Starts(t, call, awaits, as) ==
  /\ task[t] = Free
  /\ task' = [task EXCEPT ![t] =
       [Free EXCEPT !.call = call, !.awaits = awaits, !.as = as]]

Awaits(t, call, what) == task[t].call = call /\ task[t].awaits = what

Ends(t) == task' = [task EXCEPT ![t] = Free]

\* Mistake: the panel stays.
ResetSession_KeepsPanel ==
  /\ token' = None /\ profile' = None /\ consumed' = FALSE
  /\ UNCHANGED <<panel, buttons, polling>>

\* Mistake: a property of state is deleted, and then undefined.
ResetSession_Unsets ==
  /\ token' = None /\ profile' = None /\ panel' = FALSE /\ consumed' = None
  /\ UNCHANGED <<buttons, polling>>

\* Polling and playback go on.
ResetSession ==
  /\ token' = None /\ profile' = None /\ panel' = FALSE /\ consumed' = FALSE
  /\ UNCHANGED <<buttons, polling>>

\* The form is submitted: the request says the code and no token.
Submit(t, c) ==
  /\ task[t] = Free
  /\ task' = [task EXCEPT ![t] = [Free EXCEPT !.call = "openSession",
                                    !.awaits = "session", !.me = c]]
  /\ UNCHANGED <<session, playback>>

\* A viewer who is not approved gets no token, and the page stays as it is.
SessionAnswer(t) ==
  /\ Awaits(t, "openSession", "session")
  /\ \/ /\ token' = task[t].me /\ profile' = task[t].me
        /\ task' = [task EXCEPT ![t].awaits = "me", ![t].as = task[t].me, ![t].me = None]
     \/ Ends(t) /\ UNCHANGED <<token, profile>>
  /\ UNCHANGED <<panel, buttons, polling, consumed, playback>>

MeAnswer(t) ==
  /\ Awaits(t, "openSession", "me") /\ task[t].as # None
  /\ task' = [task EXCEPT ![t].awaits = "config", ![t].me = task[t].as, ![t].as = None]
  /\ UNCHANGED <<session, playback>>

\* The configuration is everybody's; the list of streams needs a token.
ConfigAnswer(t) ==
  /\ Awaits(t, "openSession", "config")
  /\ profile' = task[t].me /\ panel' = TRUE
  /\ task' = [task EXCEPT ![t].awaits = "streams", ![t].as = token, ![t].me = None]
  /\ UNCHANGED <<token, buttons, polling, consumed, playback>>

SessionFails(t) ==
  /\ task[t].call = "openSession"
  /\ Ends(t) /\ ResetSession
  /\ UNCHANGED playback

Refresh(t) ==
  /\ panel
  /\ Starts(t, "refresh", "streams", token)
  /\ UNCHANGED <<session, playback>>

Poll(t) ==
  /\ polling
  /\ Starts(t, "poll", "streams", token)
  /\ UNCHANGED <<session, playback>>

\* renderStreams opens the first stream of a list by itself, and the call that
\* rendered it ends: the new one has its place among the calls under way.
AutoOpen(t) ==
  /\ task' = [task EXCEPT ![t] =
       [Free EXCEPT !.call = "autoplay", !.awaits = "playback", !.as = token]]
  /\ player' = "Loading"
  /\ consumed' = TRUE

\* The list is rendered, whoever's it is; then openSession starts to poll.
StreamsAnswer(t) ==
  /\ task[t].awaits = "streams" /\ task[t].as # None
  /\ polling' = (polling \/ task[t].call = "openSession")
  /\ \/ /\ buttons' = FALSE
        /\ Ends(t) /\ UNCHANGED <<consumed, player>>
     \/ /\ buttons' = TRUE
        /\ IF AutoPlay /\ ~consumed THEN AutoOpen(t)
                                    ELSE Ends(t) /\ UNCHANGED <<consumed, player>>
  /\ UNCHANGED <<token, profile, panel, shown, current, open>>

\* Nobody handles the failure of a refresh.
ListFails(t) ==
  /\ task[t].call \in {"refresh", "poll"}
  /\ player' = IF task[t].call = "poll" THEN "Error" ELSE player
  /\ Ends(t)
  /\ UNCHANGED <<session, shown, current, open>>

OpenStream(t) ==
  /\ panel /\ buttons
  /\ Starts(t, "button", "playback", token)
  /\ player' = "Loading"
  /\ UNCHANGED <<session, shown, current, open>>

\* One that nothing refers to any more is as good as new.
FreshConnection(p) ==
  p \notin open \cup {shown, current} \cup {task[u].pc : u \in Tasks}

\* Mistake: the connection is remembered when the answer has come.
StartWhepPlayback_Late(t) ==
  /\ task[t].awaits = "playback" /\ task[t].as # None
  /\ \E p \in Connections :
       /\ FreshConnection(p)
       /\ open' = (open \ {current}) \cup {p}
       /\ task' = [task EXCEPT ![t].awaits = "answer", ![t].pc = p]
  /\ current' = None /\ shown' = None
  /\ UNCHANGED <<session, player>>

\* Mistake: the video element keeps the stream it has.
StartWhepPlayback_KeepsVideo(t) ==
  /\ task[t].awaits = "playback" /\ task[t].as # None
  /\ \E p \in Connections :
       /\ FreshConnection(p)
       /\ open' = (open \ {current}) \cup {p}
       /\ current' = p
       /\ task' = [task EXCEPT ![t].awaits = "answer", ![t].pc = p]
  /\ UNCHANGED <<session, player, shown>>

\* The playback session is there: teardownPlayback, and a new connection, at once.
StartWhepPlayback(t) ==
  /\ task[t].awaits = "playback" /\ task[t].as # None
  /\ \E p \in Connections :
       /\ FreshConnection(p)
       /\ open' = (open \ {current}) \cup {p}
       /\ current' = p
       /\ task' = [task EXCEPT ![t].awaits = "answer", ![t].pc = p]
  /\ shown' = None
  /\ UNCHANGED <<session, player>>

\* Offer, ICE and answer: a connection that was closed in between takes no answer.
OnTrack(t) ==
  /\ task[t].awaits = "answer" /\ task[t].pc \in open
  /\ shown' = task[t].pc
  /\ player' = "Live"
  /\ Ends(t)
  /\ UNCHANGED <<session, current, open>>

\* Mistake: a failed negotiation is not told.
OpenFails_Silent(t) ==
  /\ t \in Opens /\ Ends(t)
  /\ player' = IF task[t].call = "button" /\ task[t].pc = None THEN "Error" ELSE player
  /\ consumed' = IF task[t].call = "autoplay" THEN FALSE ELSE consumed
  /\ UNCHANGED <<token, profile, panel, buttons, polling, shown, current, open>>

\* Whatever became of the stream since: the button says Error, and an attempt
\* the page made by itself will be made again.
Fails(t) ==
  /\ Ends(t)
  /\ player' = IF task[t].call = "button" THEN "Error" ELSE player
  /\ consumed' = IF task[t].call = "autoplay" THEN FALSE ELSE consumed
  /\ UNCHANGED <<token, profile, panel, buttons, polling>>

OpenFails(t) ==
  /\ t \in Opens /\ Fails(t)
  /\ UNCHANGED <<shown, current, open>>

\* The constructor refuses the STUN servers it is given: the connection of before
\* is closed, and the video element keeps the stream it had from it.
ConnectionThrows(t) ==
  /\ task[t].awaits = "playback" /\ task[t].as # None
  /\ open' = open \ {current} /\ current' = None
  /\ Fails(t)
  /\ UNCHANGED shown

Next ==
  \/ Load
  \/ \E t \in Tasks :
       \/ \E c \in Codes : Submit(t, c)
       \/ SessionAnswer(t) \/ MeAnswer(t) \/ ConfigAnswer(t) \/ SessionFails(t)
       \/ Refresh(t) \/ Poll(t) \/ StreamsAnswer(t) \/ ListFails(t)
       \/ OpenStream(t) \/ StartWhepPlayback(t) \/ ConnectionThrows(t)
       \/ OnTrack(t) \/ OpenFails(t)

Spec == Init /\ [][Next]_vars

---------------------------------------------------------------------------
(* Properties                                                              *)

TypeOK ==
  /\ token \in Codes \cup {None} /\ profile \in Codes \cup {None}
  /\ panel \in BOOLEAN /\ buttons \in BOOLEAN
  /\ polling \in BOOLEAN /\ consumed \in BOOLEAN
  /\ player \in {"none", "Loading", "Live", "Error"}
  /\ shown \in Connections \cup {None} /\ current \in Connections \cup {None}
  /\ open \subseteq Connections
  /\ task \in [Tasks -> Task]

\* However many streams were opened while others were being negotiated, one
\* connection is open at most, and it is the one the page can close again:
\* startWhepPlayback does not wait between the two (app.js:209-213).
OneConnection == open \subseteq {current}

\* The video element shows the connection that was opened last or nothing, also
\* when the answer of an earlier one comes later.  Only while the page has no
\* connection at all, because one could not be made, it still shows the last
\* picture of the one that was closed for it (app.js:209-224, 240).
ShownIsCurrent == shown # None /\ current # None => shown = current /\ shown \in open

\* Submits overlap, and a failed one resets the session under the other.  A panel
\* without a token then goes away again: the list that is still to come for it
\* was asked for without a token (app.js:117-127, 278-285).
PanelNeedsToken ==
  panel /\ token = None =>
    \E t \in Tasks : Awaits(t, "openSession", "streams") /\ task[t].as = None

\* When no stream is being opened and the page is not going to open one by
\* itself, the badge tells the truth: it does not say Loading, and it says Live
\* only over the picture of a connection that is open (app.js:176-196, 199-224).
BadgeSettles ==
  Opens = {} /\ (AutoPlay => consumed) =>
    /\ player # "Loading"
    /\ player = "Live" => shown \in open
============================================================================
