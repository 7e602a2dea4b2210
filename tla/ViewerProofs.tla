---------------------------- MODULE ViewerProofs ----------------------------
(***************************************************************************)
(* The theorems about the viewer's page, for any number of calls under     *)
(* way.  The properties are inductive together with TypeOK and with what   *)
(* each kind of call can be waiting for (Awaited).                         *)
(***************************************************************************)
EXTENDS ViewerClient, TLAPS

\* What a call waits for says which calls it can be.
Awaited ==
  \A t \in Tasks :
    /\ task[t].awaits \in {"session", "me", "config"} => task[t].call = "openSession"
    /\ task[t].awaits = "streams" => task[t].call \in {"openSession", "refresh", "poll"}
    /\ task[t].awaits \in {"playback", "answer"} => t \in Opens
    /\ task[t].awaits = "session" => task[t].me # None
    /\ task[t].call = "autoplay" => AutoPlay

IInv == /\ TypeOK /\ Awaited /\ OneConnection /\ ShownIsCurrent
        /\ PanelNeedsToken /\ BadgeSettles

Answers(t) == SessionAnswer(t) \/ MeAnswer(t) \/ ConfigAnswer(t) \/ SessionFails(t)
Lists(t) == Refresh(t) \/ Poll(t) \/ StreamsAnswer(t) \/ ListFails(t)
Plays(t) == \/ OpenStream(t) \/ StartWhepPlayback(t) \/ ConnectionThrows(t)
            \/ OnTrack(t) \/ OpenFails(t)

\* A page begins with a call of a session, or none.
LEMMA InitiallyTask ==
  ASSUME NEW tok \in Codes \cup {None}, NEW code \in Codes \cup {None}
  PROVE  /\ Initially(tok, code) \in Task
         /\ Initially(tok, code).call \in {"none", "openSession"}
         /\ Initially(tok, code).awaits \in {"none", "session", "me"}
         /\ Initially(tok, code).awaits # "none" => Initially(tok, code).call = "openSession"
         /\ Initially(tok, code).awaits = "session" => Initially(tok, code).me # None
  <1>1. CASE code # None
    BY <1>1, ViewerAssumption DEF Initially, Free, Task
  <1>2. CASE code = None /\ tok # None
    BY <1>2, ViewerAssumption DEF Initially, Free, Task
  <1>3. CASE code = None /\ tok = None
    <2>1. Initially(tok, code) = Free
      BY <1>3 DEF Initially
    <2> QED
      BY <2>1 DEF Free, Task
  <1> QED
    BY <1>1, <1>2, <1>3

\* A page that was just loaded satisfies the invariant.
LEMMA Loaded == (Init => IInv) /\ (TypeOK /\ Load => IInv')
  <1>1. Init => IInv
    <2> SUFFICES ASSUME Init PROVE IInv
      OBVIOUS
    <2>1. PICK stored \in Codes \cup {None}, code \in Codes \cup {None}, b \in Tasks :
            /\ token = IF code = None THEN stored ELSE None
            /\ task = [u \in Tasks |-> IF u = b THEN Initially(stored, code) ELSE Free]
      BY DEF Init
    <2>2. TypeOK /\ Awaited /\ Opens = {}
      BY <2>1, InitiallyTask DEF Init, TypeOK, Awaited, Opens, Task, Free
    <2> QED
      BY <2>2 DEF Init, IInv, OneConnection, ShownIsCurrent, PanelNeedsToken, BadgeSettles
  <1>2. TypeOK /\ Load => IInv'
    <2> SUFFICES ASSUME TypeOK, Load PROVE IInv'
      OBVIOUS
    <2>1. PICK code \in Codes \cup {None}, b \in Tasks :
            /\ token' = IF code = None THEN token ELSE None
            /\ task' = [u \in Tasks |-> IF u = b THEN Initially(token, code) ELSE Free]
      BY DEF Load
    <2>2. TypeOK' /\ Awaited' /\ Opens' = {}
      <3>1. TypeOK'
        BY <2>1, InitiallyTask DEF Load, TypeOK, Awaited, Opens, Task, Free
      <3>2. Awaited'
        BY <2>1, InitiallyTask DEF Load, TypeOK, Awaited, Opens, Task, Free
      <3>3. Opens' = {}
        BY <2>1, InitiallyTask DEF Load, TypeOK, Awaited, Opens, Task, Free
      <3> QED
        BY <3>1, <3>2, <3>3
    <2> QED
      BY <2>2 DEF Load, IInv, OneConnection, ShownIsCurrent, PanelNeedsToken, BadgeSettles
  <1> QED
    BY <1>1, <1>2

\* A new call takes the place of nothing, and leaves the others alone.
LEMMA StartedTask ==
  ASSUME TypeOK, Awaited, NEW t \in Tasks, NEW r \in Task, task[t] = Free,
         task' = [task EXCEPT ![t] = r],
         \/ r.call = "openSession" /\ r.awaits = "session" /\ r.me # None
         \/ r.call \in {"refresh", "poll"} /\ r.awaits = "streams"
  PROVE  /\ task' \in [Tasks -> Task] /\ Awaited' /\ Opens' = Opens
         /\ \A u \in Tasks : task[u].call = "openSession" => task'[u] = task[u]
  <1>1. /\ task' \in [Tasks -> Task] /\ task'[t] = r
        /\ \A u \in Tasks \ {t} : task'[u] = task[u]
    BY DEF TypeOK
  <1>2. task[t].call = "none"
    BY DEF Free
  <1>3. Opens' = Opens
    BY <1>1, <1>2 DEF Opens
  <1>4. Awaited'
    BY <1>1, <1>3 DEF Awaited
  <1> QED
    BY <1>1, <1>2, <1>3, <1>4

\* Steps of a session.
LEMMA AnswersPreserve ==
  ASSUME IInv, NEW t \in Tasks, Answers(t) \/ \E c \in Codes : Submit(t, c)
  PROVE  IInv'
  <1> USE ViewerAssumption
  <1>1. CASE \E c \in Codes : Submit(t, c)
    <2>1. PICK c \in Codes : Submit(t, c)
      BY <1>1
    <2> DEFINE r == [Free EXCEPT !.call = "openSession", !.awaits = "session", !.me = c]
    <2>2. r \in Task /\ r.call = "openSession" /\ r.awaits = "session" /\ r.me # None
      BY DEF Free, Task
    <2>3. task[t] = Free /\ task' = [task EXCEPT ![t] = r]
      BY <2>1 DEF Submit
    <2> HIDE DEF r
    <2>4. /\ task' \in [Tasks -> Task] /\ Awaited' /\ Opens' = Opens
          /\ \A u \in Tasks : task[u].call = "openSession" => task'[u] = task[u]
      BY <2>2, <2>3, StartedTask DEF IInv
    <2>5. UNCHANGED <<token, profile, panel, buttons, polling, consumed,
                      player, shown, current, open>>
      BY <2>1 DEF Submit, session, playback
    <2> QED
      BY <2>4, <2>5 DEF IInv, TypeOK, OneConnection, ShownIsCurrent, PanelNeedsToken,
         BadgeSettles, Awaits
  <1>2. CASE SessionAnswer(t)
    <2>1. TypeOK' /\ Awaited' /\ Opens' = Opens
      BY <1>2 DEF SessionAnswer, Ends, Awaits, IInv, TypeOK, Awaited, Opens, Task, Free, playback
    <2> QED
      BY <1>2, <2>1 DEF SessionAnswer, Ends, IInv, OneConnection, ShownIsCurrent, Awaited,
         PanelNeedsToken, BadgeSettles, Awaits, Free, playback, TypeOK
  <1>3. CASE MeAnswer(t)
    <2>1. TypeOK' /\ Awaited' /\ Opens' = Opens
      BY <1>3 DEF MeAnswer, Awaits, IInv, TypeOK, Awaited, Opens, Task, session, playback
    <2> QED
      BY <1>3, <2>1 DEF MeAnswer, IInv, OneConnection, ShownIsCurrent, PanelNeedsToken,
         BadgeSettles, Awaits, session, playback, TypeOK
  <1>4. CASE ConfigAnswer(t)
    <2>1. TypeOK' /\ Awaited' /\ Opens' = Opens
      <3>1. TypeOK'
        <4>1. task[t] \in Task /\ task[t].me \in Codes \cup {None}
          BY DEF IInv, TypeOK, Task
        <4>2. task' \in [Tasks -> Task]
          BY <1>4, <4>1 DEF ConfigAnswer, IInv, TypeOK, Task
        <4> QED
          BY <1>4, <4>1, <4>2 DEF ConfigAnswer, IInv, TypeOK, playback
      <3>2. Awaited'
        BY <1>4 DEF ConfigAnswer, Awaits, IInv, TypeOK, Awaited, Opens, Task, playback
      <3>3. Opens' = Opens
        BY <1>4 DEF ConfigAnswer, Awaits, IInv, TypeOK, Awaited, Opens, Task, playback
      <3> QED
        BY <3>1, <3>2, <3>3
    <2> QED
      BY <1>4, <2>1 DEF ConfigAnswer, IInv, OneConnection, ShownIsCurrent, PanelNeedsToken,
         BadgeSettles, Awaits, playback, TypeOK
  <1>5. CASE SessionFails(t)
    <2>1. TypeOK' /\ Awaited' /\ Opens' = Opens
      BY <1>5 DEF SessionFails, ResetSession, Ends, IInv, TypeOK, Awaited, Opens, Task, Free, playback
    <2> QED
      BY <1>5, <2>1 DEF SessionFails, ResetSession, IInv, OneConnection, ShownIsCurrent,
         PanelNeedsToken, BadgeSettles, playback
  <1> QED
    BY <1>1, <1>2, <1>3, <1>4, <1>5 DEF Answers

\* Steps of a list of streams.
LEMMA ListsPreserve ==
  ASSUME IInv, NEW t \in Tasks, Lists(t)
  PROVE  IInv'
  <1> USE ViewerAssumption
  <1>1. CASE Refresh(t) \/ Poll(t)
    <2>1. PICK call \in {"refresh", "poll"} : Starts(t, call, "streams", token)
      BY <1>1 DEF Refresh, Poll
    <2> DEFINE r == [Free EXCEPT !.call = call, !.awaits = "streams", !.as = token]
    <2>2. r \in Task /\ r.call = call /\ r.awaits = "streams"
      BY DEF Free, Task, IInv, TypeOK
    <2>3. task[t] = Free /\ task' = [task EXCEPT ![t] = r]
      BY <2>1 DEF Starts
    <2> HIDE DEF r
    <2>4. /\ task' \in [Tasks -> Task] /\ Awaited' /\ Opens' = Opens
          /\ \A u \in Tasks : task[u].call = "openSession" => task'[u] = task[u]
      BY <2>2, <2>3, StartedTask DEF IInv
    <2>5. UNCHANGED <<token, profile, panel, buttons, polling, consumed,
                      player, shown, current, open>>
      BY <1>1 DEF Refresh, Poll, session, playback
    <2> QED
      BY <2>4, <2>5 DEF IInv, TypeOK, OneConnection, ShownIsCurrent, PanelNeedsToken,
         BadgeSettles, Awaits
  <1>2. CASE StreamsAnswer(t)
    <2> USE <1>2 DEF StreamsAnswer
    <2>1. CASE Ends(t) /\ UNCHANGED <<consumed, player>>
      <3>1. TypeOK' /\ Awaited' /\ Opens' = Opens
        BY <2>1 DEF Ends, IInv, TypeOK, Awaited, Opens, Task, Free
      <3> QED
        BY <2>1, <3>1 DEF Ends, IInv, OneConnection, ShownIsCurrent, PanelNeedsToken,
           BadgeSettles, Awaits, Free, TypeOK
    <2>2. CASE AutoOpen(t) /\ AutoPlay
      <3>1. TypeOK' /\ Awaited' /\ t \in Opens'
        BY <2>2 DEF AutoOpen, IInv, TypeOK, Awaited, Opens, Task, Free
      <3> QED
        BY <2>2, <3>1 DEF AutoOpen, IInv, OneConnection, ShownIsCurrent, PanelNeedsToken,
           BadgeSettles, Awaits, Free, TypeOK
    <2> QED
      BY <2>1, <2>2
  <1>3. CASE ListFails(t)
    <2>1. TypeOK' /\ Awaited' /\ Opens' = Opens
      BY <1>3 DEF ListFails, Ends, IInv, TypeOK, Awaited, Opens, Task, Free, session
    <2> QED
      BY <1>3, <2>1 DEF ListFails, Ends, IInv, OneConnection, ShownIsCurrent,
         PanelNeedsToken, BadgeSettles, Awaits, Free, session, TypeOK
  <1> QED
    BY <1>1, <1>2, <1>3 DEF Lists

\* Steps of a stream that is opened.
LEMMA PlaysPreserve ==
  ASSUME IInv, NEW t \in Tasks, Plays(t)
  PROVE  IInv'
  <1> USE ViewerAssumption
  <1>1. CASE OpenStream(t)
    <2>1. TypeOK' /\ Awaited' /\ t \in Opens'
      BY <1>1 DEF OpenStream, Starts, IInv, TypeOK, Awaited, Opens, Task, Free, session
    <2> QED
      BY <1>1, <2>1 DEF OpenStream, Starts, IInv, OneConnection, ShownIsCurrent,
         PanelNeedsToken, BadgeSettles, Awaits, Free, session, TypeOK
  <1>2. CASE StartWhepPlayback(t)
    <2>1. TypeOK' /\ Awaited' /\ t \in Opens'
      <3>1. TypeOK'
        <4>1. PICK p \in Connections :
                /\ open' = (open \ {current}) \cup {p}
                /\ current' = p
                /\ task' = [task EXCEPT ![t].awaits = "answer", ![t].pc = p]
          BY <1>2 DEF StartWhepPlayback
        <4>2. task' \in [Tasks -> Task]
          <5>1. task[t] \in Task /\ [task[t] EXCEPT !.awaits = "answer", !.pc = p] \in Task
            BY DEF IInv, TypeOK, Task
          <5>2. task' = [task EXCEPT ![t] = [task[t] EXCEPT !.awaits = "answer", !.pc = p]]
            BY <4>1
          <5> QED
            BY <5>1, <5>2 DEF IInv, TypeOK
        <4> QED
          BY <1>2, <4>1, <4>2 DEF StartWhepPlayback, IInv, TypeOK, session
      <3>2. Awaited'
        BY <1>2 DEF StartWhepPlayback, IInv, TypeOK, Awaited, Opens, Task, session
      <3>3. t \in Opens'
        BY <1>2 DEF StartWhepPlayback, IInv, TypeOK, Awaited, Opens, Task, session
      <3> QED
        BY <3>1, <3>2, <3>3
    <2> QED
      BY <1>2, <2>1 DEF StartWhepPlayback, IInv, OneConnection, ShownIsCurrent, Awaited, Opens,
         PanelNeedsToken, BadgeSettles, Awaits, session, TypeOK
  <1>3. CASE OnTrack(t)
    <2>1. TypeOK' /\ Awaited' /\ shown' # None
      BY <1>3 DEF OnTrack, Ends, IInv, TypeOK, Awaited, Opens, Task, Free, session
    <2> QED
      BY <1>3, <2>1 DEF OnTrack, Ends, IInv, OneConnection, ShownIsCurrent, Awaited, Opens,
         PanelNeedsToken, BadgeSettles, Awaits, Free, session, TypeOK
  <1>4. CASE OpenFails(t)
    <2>1. TypeOK' /\ Awaited' /\ Opens' = Opens \ {t}
      BY <1>4 DEF OpenFails, Fails, Ends, IInv, TypeOK, Awaited, Opens, Task, Free
    <2> QED
      BY <1>4, <2>1 DEF OpenFails, Fails, Ends, IInv, OneConnection, ShownIsCurrent, Awaited,
         Opens, PanelNeedsToken, BadgeSettles, Awaits, Free, TypeOK
  <1>5. CASE ConnectionThrows(t)
    <2>1. TypeOK' /\ Awaited' /\ Opens' = Opens \ {t}
      BY <1>5 DEF ConnectionThrows, Fails, Ends, IInv, TypeOK, Awaited, Opens, Task, Free
    <2>2. task[t].call \in {"button", "autoplay"}
      BY <1>5 DEF ConnectionThrows, IInv, Awaited, Opens
    <2> QED
      BY <1>5, <2>1, <2>2 DEF ConnectionThrows, Fails, Ends, IInv, OneConnection,
         ShownIsCurrent, Awaited, Opens, PanelNeedsToken, BadgeSettles, Awaits, Free, TypeOK
  <1> QED
    BY <1>1, <1>2, <1>3, <1>4, <1>5 DEF Plays

\* The invariant holds always.
THEOREM Invariance == Spec => []IInv
  <1>1. IInv /\ [Next]_vars => IInv'
    <2> SUFFICES ASSUME IInv, [Next]_vars PROVE IInv'
      OBVIOUS
    <2>1. CASE Load
      BY <2>1, Loaded DEF IInv
    <2>2. CASE \E t \in Tasks : Answers(t) \/ \E c \in Codes : Submit(t, c)
      BY <2>2, AnswersPreserve
    <2>3. CASE \E t \in Tasks : Lists(t)
      BY <2>3, ListsPreserve
    <2>4. CASE \E t \in Tasks : Plays(t)
      BY <2>4, PlaysPreserve
    <2>5. CASE UNCHANGED vars
      BY <2>5 DEF vars, session, playback, IInv, TypeOK, Awaited, Opens, OneConnection,
         ShownIsCurrent, PanelNeedsToken, BadgeSettles, Awaits
    <2> QED
      BY <2>1, <2>2, <2>3, <2>4, <2>5 DEF Next, Answers, Lists, Plays
  <1> QED
    BY <1>1, Loaded, PTL DEF Spec

\* Every variable keeps its type: no step leaves a task or a flag undefined.
THEOREM TypeCorrect == Spec => []TypeOK
  BY Invariance, PTL DEF IInv

\* One connection is open at most, the one the page can close, for any number of
\* streams opened at once.
THEOREM OneConnectionAlways == Spec => []OneConnection
  BY Invariance, PTL DEF IInv

\* The picture is that of the connection opened last, or none, as long as the
\* page has a connection.
THEOREM PictureIsCurrent == Spec => []ShownIsCurrent
  BY Invariance, PTL DEF IInv

\* A panel without a token is one whose list will be refused.
THEOREM PanelIsClosed == Spec => []PanelNeedsToken
  BY Invariance, PTL DEF IInv

\* With nothing under way the badge says what is shown.
THEOREM BadgeIsTrue == Spec => []BadgeSettles
  BY Invariance, PTL DEF IInv
============================================================================
