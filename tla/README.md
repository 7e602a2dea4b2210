# Verification of the RTMP ingest and playback service

This directory holds TLA+ models of the service in this repository: a FastAPI
backend (`backend/app`) that decides who may publish and who may watch, a
MediaMTX media server it drives, ffmpeg processes it supervises, and the web
clients that call it. The models are checked with TLC on small instances;
theorems about the core are proved with TLAPS for every value of the constants.

    tlc -workers 2 -config IngestRaces.cfg MCIngestControl.tla
    tlapm MediaProofs.tla

`PROJECT.json` lists the components, the runs, a mutant for every property (a
plausible mistake in the code that must make the property fail), the source
lines behind every definition, the findings, the hazards and the theorems.

## 1. The system

| Component | State it keeps | Operations | Interacts with |
|---|---|---|---|
| Ingest control plane (`services/ingest.py`) | table `ingest_sessions`: key, status, started/ended/revoked, bound stream | publish start and stop, create, rotate, revoke, rebind | called by MediaMTX's auth hook and the admin routes; writes output streams; drives the media plane |
| Output streams (`services/streams.py`) | table `output_streams`: playback path, public name, visibility, is_active, source session | create, patch, lookup by path or name; created automatically by a publish | ingest, viewer API, playback |
| Media plane (`services/mediamtx.py`, `services/transcoding.py`) | MediaMTX path configuration (the aliases), in MediaMTX's memory; `_TRANSCODERS` and one thread with one ffmpeg per path, in the process | sync and delete an alias; start and stop a transcoder | called after an ingest commit; pulls are authorised by the hook |
| Startup (`main.py`) | none | bootstrap administrator; restore the media plane of every live session | ingest, media plane, administrator accounts |
| Media hook (`mediamtx_hooks.py`) | none | authorise publish, read and playback requests of MediaMTX | ingest, playback |
| Users and moderation (`moderation.py`, `enrollment.py`) | `users.status`, `moderation_history` | enroll, approve, reject, block, unblock, restore | permissions and playback read the status |
| Groups and permissions (`permissions.py`) | groups, memberships, grants | create, add, remove, grant, revoke; effective access | viewer, playback |
| Playback tokens, viewer API (`playback.py`, `viewer.py`) | `playback_sessions` | open a playback, list streams, validate a token for a path | the hook, permissions |
| Administrators (`admin_auth.py`, `auth.py`) | table `admin_users`; a stateless signed token | bootstrap at startup and at the first login, log in, authorise | every admin route; migrations and restorations replace the table |
| Audit and event logs (`audit.py`) | append-only tables | append within the caller's commit | nobody reads them back but the admin listing |
| Web clients (`nginx/site`) | the page | viewer: open a stream over WebRTC; admin: forms and tables | the HTTP API |
| Migrations (`sql/`) | the schema | 001, 003, 004, 005, 006 in order, again at every installation; 003 alone after a restoration | every table, while the backend writes |
| Deployment scripts (`deploy/`) | the backup files, containers | install, back up, restore, verify | start and stop the backend; apply the migrations |
| Proxy, TURN, media server | configuration files | none | everything |

FastAPI runs the handlers, which are plain functions, in a thread pool of one
uvicorn process. Each request has a SQLAlchemy session of its own with
`autoflush` and `expire_on_commit` off, at PostgreSQL's READ COMMITTED, and no
handler takes a row lock. So:

- a handler loads a row in one step and commits what it decided in a later one,
  and other handlers commit in between;
- a commit writes only the columns whose value differs from the *loaded* one, so
  two overlapping requests mix their columns rather than overwrite each other;
- the media calls follow the commit, one after the other, outside any
  transaction; an exception skips those that remain, and a crash all of them;
- MediaMTX calls its hook when someone publishes or reads and has no hook for
  the end of a publication: the stop is an endpoint of its own, which carries a
  key but nothing that identifies the connection.

What makes each component correct:

- *Ingest*: rows stay well formed under any interleaving; references exist; keys
  and paths are unique; a revocation is stamped and, in the end, final; status
  and timestamps tell one story when requests do not overlap.
- *Output streams*: one that is off comes back only when an administrator asks
  for it.
- *Media plane*: what is live in the database is what its path serves; only a
  failure leaves something of an ended publication behind; every request ends.
- *Transcoder threads*: a stop leaves no ffmpeg; no supervisor is lost; one that
  was told to stop ends, one that was not keeps ffmpeg running.
- *Startup*: what was live is served again; the startup completes.
- *Users and moderation*: a status moves along `VALID_TRANSITIONS` whatever
  overlaps; its history ends with it and is made of allowed transitions; client
  codes are unique.
- *Groups, permissions, playback tokens, the hook's read*: what a viewer is
  given was justified while the request ran, and what a viewer is refused was
  lacking while it ran.
- *Administrators*: one bootstrap account; no request without a valid token.
- *Viewer page*: one connection at a time, and the picture and the badge are
  those of the stream opened last.
- *Migrations, installation, restoration*: whatever was there before, what is
  left stores what the backend writes, and no row loses its meaning.

`PROJECT.json` lists, under `hazards`, the places in the code where this is hard
to get right and hard to test, each with the properties that would notice.

## 2. Plan

| Step | Modules | Status |
|---|---|---|
| 1. Sessions and streams in the database | `SessionLifecycle` (abstract), `IngestControl` | done, proved |
| 2. Media plane and startup, on top of 1 | `MediaControl` | done, proved |
| 3. The supervisor thread behind one registry entry | `TranscoderThread` | done, proved |
| 4. Accounts | `UserStatus` (abstract), `Moderation` | done, proved |
| 5. Access, tokens and the hook's read, on accounts of 4 | `Access` | done, proved |
| 6. The database over installations, migrations, backups and restorations, with the administrators it knows | `Deployment` | done, proved |
| 7. Viewer page: its calls and their answers in any order | `ViewerClient` | done, proved |
| 8. The rest of 1: uniqueness, consistency, the refinement | `TableProofs` | done |
| 9. The theorems of 2 and 6 | `MediaProofs`, `DeploymentProofs` | done |

The page of the administrators is not modelled: it displays what the API answers
and sends what a button says, and all state it changes is that of the services
above. What could still be added: `LiveIsServed` and `OnlyFailuresLeak` for a
larger set of operations than their theorems assume, and a theorem of
`OverlapsKeepAlias` (section 5).

## 3. Modules

A worker is a thread of the pool. In every module a request is cut where other
threads can come in between: between the statements whose results it uses later
and its commit. A handler that reads and commits without using anything it read
earlier is one step. In Access and Moderation each statement is a step. In
IngestControl one pair of reads is not cut: `mark_ingest_started` and
`handle_publish_stop` SELECT the session and at once read the stream it resolves
to (ingest.py:237 and 308, then 200 or 204), and `LoadForStart` and `LoadForStop`
read both together, so that a commit of another request between these two SELECTs
is not covered; one after them is.

**SessionLifecycle.** The abstract specification of one ingest session: `phase`
goes from none to created, live, ended, back to live or created, and to revoked
for good.

**IngestControl.** `sessions` and `streams` are the tables (rows are records of
the columns that code branches on; a timestamp is `"null"` or `"set"`), `req[w]`
is what worker `w` holds: the stage, the ids it loaded, and the *change* its
commit will write, in which a column that keeps its loaded value is `Keep`
(`Assign`). That is SQLAlchemy's UPDATE: `FlushSession` and `FlushStream` lay the
change over whatever the row holds by then.

| Code | Steps |
|---|---|
| `handle_publish_start` | `LookupForPublish`; `AutoRegister` (insert of an unknown key, or a unique violation); `LoadForStart`, `DenyStart` (404, revoked); `CommitStart` with `Binding`, the automatic stream and the activation; `Finish` |
| `handle_publish_stop` | `LoadForStop` with `Resolved`; `CommitStop` (the key is selected again) or `StopUnknown`; `Finish`, `FinishIgnoredStop` |
| rotate, revoke, bind | `LoadForRotate`, `LoadForRevoke`, `LoadForBind`; `CommitSession` |
| create session, create stream | `CreateSession`, `CreateStream` |
| PATCH stream | `LoadForUpdate` (`PatchChange`); `CommitUpdate` |
| a refused or lost commit; the process dies | `DatabaseError`; `Crash` |

`LockedSpec` is `Spec` with requests on one session or stream that do not overlap
between load and commit: what the handlers promise one at a time.

**MediaControl** extends it with the media plane. `calls[a]` is the list of calls
an agent (a worker, or the startup handler) still has to make, `alias` is
MediaMTX's configuration, `transcoders` the registry with the key each handle was
created with, `transcode` the setting `ENABLE_FFMPEG_TRANSCODE`, `boot` the
startup handler. `Arrive` and `Continue` are IngestControl's steps; the step that
ends the database part appends the media calls (`StartCalls`, `StopCalls`), each
of which is then an action. `AddRefused` is MediaMTX's 400 for a path that
exists, `CallFails` a call that fails before or after it took effect,
`StopTranscoderRaises` a `stop()` that raises, `ThreadFails` a thread that does not
start and leaves a handle (`Unstarted`) whose `stop()` raises whenever it comes
(`JoinUnstarted`); each ends the handler, and `ThreadFails` at startup the startup
(`StartupFails`).
`CrashProcess` loses the registry, the calls and the requests and starts the
restoration, perhaps with another setting; `CrashMediaMTX` loses the aliases.
`RestoreNext`, `RestoreAborts`, `RestoreDone`, `Restart` are
`restore_live_ingests` and the container's restart policy. `SerialSpec` lets
requests of different keys interleave and handles those for one key in turn.

**TranscoderThread.** One step is one access to an attribute that the supervisor
thread and `stop()` share: `stop()` reads `self.process` once per line, and the
supervisor clears it in its `finally`. `Start`, and the pop of
`Stop`, hold `_LOCK` throughout and are one step. MediaControl takes such a handle as present or
absent.

**UserStatus, Moderation.** UserStatus is `VALID_TRANSITIONS` with nothing else.
Moderation cuts `enroll_user` at the SELECT that finds a code free
(`DrawCode`, `CommitEnroll`) and `change_user_status` between reading the row and
the commit (`LoadUser`, `CommitChange`, which writes whatever the status is by
now).

**Access.** `status` follows UserStatus. `groups`, `members`, `direct` and
`shared` are the permission tables; a change of one is a single step, since no
row that it refers to is ever deleted and a unique constraint decides between
duplicates. `stream` is what PATCH and automatic activation leave behind; the
streams exist from the start. `tokens` are the signed playback tokens that have
not expired. A request of a viewer or of the hook is cut at each statement:

| Code | Steps |
|---|---|
| hook, action read (`validate_playback_token_for_path`) | `Connect` (active stream of the path), `ReadUser`, `ReadStream` (from the identity map if it is the stream already loaded), `CheckDirect`, `CheckGroup` |
| `issue_playback_token_for_output_stream` | `Ask`, `CheckDirect`, `CheckGroup`, `Admit` |
| the same for a path | `Ask`, `FindStream`, `CheckDirect`, `CheckGroup`, `Admit` |
| `list_output_streams_for_user`, one stream of the list | `Ask`, `ListStream`, `CheckDirect`, `CheckGroup` |

`noted[v]` is an auxiliary variable: the facts about `v`'s request that held, or
failed, at some moment from its first statement to its answer. The properties
are stated with it because "justified" means *at some moment of the request*:
no statement of the code sees more than one.

**Deployment.** `db` is the database: which columns it has (`age`), the two
checks on `ingest_sessions.status` (the one a column definition creates and the
one that 004 and 005 name), whether two sessions share a key, the sessions and
`admin_users`. A row has the columns of the beta and of the product, so that the
conversion is a function of the row. `script` is what the operator runs and the
step it is at: `psql` without a transaction commits each statement, so each is an
action (`BetaDrop`, `BetaLook`, `BetaAdd`, `AddColumns`, `DropNamed`,
`DropInline`, `UpdateRows`, `AddCheck`, `AddUnique`, `CreateAdmins`), which executes or is
refused; `Interrupt` stops a script anywhere. 003's DO block is two steps, since
its query and its ALTER see different moments.

| Code | Steps |
|---|---|
| `install.sh` | `ComposeUp`, then 001, 003 to 006 with the backend up |
| `restore-postgres.sh` | `ComposeStop`, `DropSchema`, `Load`, `ComposeUp`, 003 |
| 004 to 006 by hand on a beta database | `Begin("upgrade")` |
| `backup-postgres.sh`, on a timer | `Backup` |
| startup, `ensure_bootstrap_admin` | `StartBackend`, `CrashBackend` |
| POST /admin/auth/login | `Login` (is there any administrator?), `InsertAdmin`, `VerifyLogin` |
| `require_admin_bearer` and the handler behind it | `Authorize`, `Respond` |
| a commit of an ingest handler | `StoreSession`, if both checks admit the status |

The sessions move as SessionLifecycle lets them; how the handlers come to keep to
it is IngestControl's subject and not repeated. A token is the administrator it
names; one that has expired is no token. Data of other tables is left out: the
scripts only create those when they are absent.

**ViewerClient.** The page is one thread with any number of calls under way, each
suspended at an `await`; `task` holds them, and the other variables are the fields
of `state` and what the page shows. A step runs from one await to the next, and
answers come in any order, fail, or never come.

| Code (`nginx/site/app.js`) | Steps |
|---|---|
| `openSession`, with and without a code | `Submit`, `Load`; `SessionAnswer`, `MeAnswer`, `ConfigAnswer`, `StreamsAnswer`; `SessionFails` with `ResetSession` |
| the refresh button, polling | `Refresh`, `Poll`; `StreamsAnswer`, `ListFails` |
| `renderStreams` with autoplay | `AutoOpen`, within `StreamsAnswer` |
| `openStream`, `startWhepPlayback` | `OpenStream`; `StartWhepPlayback`, or `ConnectionThrows` when the STUN servers are refused; `OnTrack`; `OpenFails` |

`MCIngestControl`, `MCMediaControl`, `MCAccess`, `MCDeployment` and
`MCViewerClient` hold the values of constants that a configuration cannot spell,
and the symmetries; the other two components are checked as they are.

## 4. Runs

| Run | Question | Bounds |
|---|---|---|
| `IngestRaces` | are rows, references, revocation and streams that are off safe under every interleaving of all operations? | 2 workers, 1 session, 2 streams, 2 keys, 2 bodies of a PATCH |
| `IngestLocked` | do requests that do not overlap keep the timestamps in step with the status, and the lifecycle? | 2 workers, 2 sessions, 2 streams, 4 bodies of a PATCH, all operations but rebinding |
| `MediaServes` | is what is live served, what does a publication leave behind, and does every request end? | 2 workers, 2 sessions, 2 streams, 1 fault of any kind, both settings |
| `MediaRestores` | do keys and paths stay unique, does a path keep its alias when handlers overlap, and does a restoration that completes serve every live path? | the same, with publishes and rebinding, no restriction on overlaps, 1 crash of the process |
| `TranscoderRaces` | start, stop, shutdown and the supervisors of two paths | 2 callers, 2 handles, 2 paths, OS errors |
| `ModerationRaces` | accounts and history when decisions overlap | 2 users, 2 codes, 2 workers, 5 history rows |
| `AccessDecides` | are admissions and refusals justified? | 1 user, 1 group, 2 streams, 3 paths and a name that is an ingest key, 1 request at a time |
| `DeploymentLives` | do migrations, restorations and restarts leave a database that the backend can use, with one administrator? | 2 workers, 1 session, 2 streams, 2 administrators, 3 scripts and 2 requests, 4 of both |
| `ViewerPlays` | is what the page shows current, whatever calls overlap? | 2 codes, 3 calls at once, 4 connections, autoplay |
| `RevocationLost`, `StartupBlocked`, `RestoreRefusesEnds` | findings, section 6 | the smallest instance that shows them |

Two workers are enough for the races: each is between one request that has
loaded and another that commits, and both may start afresh any number of times.
Two sessions let a key or a stream change hands, two streams let a session be
taken off its own. One fault reaches every state a fault can leave, and after a
crash and the restoration the instance is back among states without one.
IngestRaces makes do with one session and has every operation instead: a second
one is in the runs of two sessions, and its invariants are proved for any
number. Its two bodies of a PATCH change between them all that other requests read
of a stream: one disables, renames and drops the source, the other sets `is_active`
whatever the visibility; with two workers they race each other and a
publish. No stream is edited in the media runs, so that none is deactivated there:
what MediaMTX is refused then (streams.py:190-191) is in the theorem. Two handles on two paths let a path be started again while the first
supervisor is still on its way out, and the shutdown loop over several. Five
history rows hold two enrolments and two decisions that overlap on one user,
with one to spare. In Access, one request at a time loses nothing: requests
write nothing but tokens, and a token for any user and stream may be there
already. An answer that has been decided can change no more, so it is returned
before administrators act again (`Answering`). Three paths let two streams
exchange theirs.
In Deployment, three scripts are an upgrade or an installation, another one that
finds what the first left, and a restoration of a dump taken at any moment; two
requests let two first logins race, a session go live and end while 003 runs, or
a token be issued and used. Four together are two scripts with two requests, or
three with one in between.
Every row of the beta is an initial state, so one session is enough: the scripts
treat each row alone, and `twins` stands for the one property of a pair. In
ViewerClient, two calls race for the page and a third is the next thing the
viewer does; a connection that nothing refers to is used again.

`TranscoderRaces`, `DeploymentLives` and `RestoreRefusesEnds` say
`CHECK_DEADLOCK FALSE`: the shutdown or the bound on handles ends a behaviour of
the first, and a last script that left the backend stopped one of the others.
The type invariants of Moderation and Access are proved and have no run.

**Fairness.** `FairSpec` of MediaControl is weakly fair to each worker's step
and to the startup's steps: the operating system schedules threads, a statement
ends by itself or by an error, and each call to the control API has a timeout
(mediamtx.py:58-69). Arrivals, faults and administrators are not fair. In
TranscoderThread, the supervisors and the callers within `stop()` are fair for
the same reason, and so is `FfmpegExits`: ffmpeg ends when its source does, and
no publication lasts forever. Without that a supervisor that was told to stop
while `stop()` missed its process would wait for ever, which is what
`StoppedThreadsEnd` is about. Deployment and ViewerClient state no fairness: an
operator may give up and an answer may never come.

## 5. Proofs

Every theorem holds for all values of the constants that satisfy the named
assumptions; those say that the sentinels (`None`, `Keep`) are no values, that
bounds are numbers, and that automatic paths are paths.

- **IngestProofs** - `TypeCorrect`, `ReferencesAlwaysExist`. Neither is inductive
  alone: a commit is well typed because of what the request loaded, and a stored
  reference exists because the pending one did when it was checked and rows are
  never deleted. The invariant is `Inv == TypeOK /\ ReferencesExist`, where
  TypeOK includes the shape of a request in each stage (`RequestShape`) and
  ReferencesExist covers what a request is about to write.
  `RevocationIsStamped`, `SettledRevocationIsFinal`: two step lemmas say how any
  step may write a session row (`Writes`: insert, stop, or the change some request
  holds) and move a request (`Moves`). The strengthening `Sound` says that a held
  change never clears `revoked_at` and that one with status revoked sets it. Settled
  is kept because a request that loads a revoked session holds no other status.
- **TableProofs** - `KeysAndPathsAreUnique`, `OffStaysOff`. Rows are written by
  requests that checked earlier, so the invariant says how any step may change a
  key (`KeyStep`: a fresh one, under the unique index) and a path (`PathStep`), and
  what pending changes may name (`Names`). `OffStaysOff` (`OffUntilReopened`) is of
  any PATCH bodies, is_active on a disabled stream among them, and of any overlaps:
  a step writes a stream only with the change its own request holds
  (`StreamStep`), and of these only an administrator's names a visibility and only
  his and a publish's name `is_active` (`HoldsStream`); a publish that loads the
  stream while it is off leaves it alone.
  `RowsTellOneStory`, `ControlPlaneImplementsLifecycle` are about `LockedSpec`. The
  invariant says that the change a request holds fits the row as it is now
  (`Holds`, `Fits`): true when it was loaded, and kept because nobody else touches
  the row until the commit (`NoOverlap`). Every step then changes a row in one of the
  ways `RowStep` lists, each of which is a step of SessionLifecycle.
- **TranscoderProofs** - `TypeCorrect`, `StopIsEffective`, `NoSupervisorIsLost`,
  `RegisteredAreNotStopped`. `ThreadShape` ties the attributes to the place of
  the thread, `CallerShape` says a caller past `set` has set the event, `Found`
  that a supervisor whose process was seen after the event was set is past its
  spawn, `Unclaimed` that a registered handle is nobody's to stop.
- **ModerationProofs** - `TypeCorrect`, `StatusFollowsTransitions` (Moderation
  implements UserStatus), `CodesStayDistinct`, `HistoryEndsWithStatus`,
  `HistoryIsValid`. `Targeted` says a pending decision is on an enrolled user and
  for approved, rejected or blocked; the refinement then rests on a fact about the
  table: each of the three is reachable from every status but itself, so that the
  step is a transition or a stutter even when the status moved since it was read.
  `HistoryIsValid` rests on `Considered`: the status a decision starts from is one
  the history has already.
- **AccessProofs** - `TypeCorrect`, `AdmissionsAreJustified`,
  `InactiveIsNotWatched`, `RefusalsAreJustified`. The invariant gives, for each
  place a request can be at, the facts noted on the way (`Reasons`, `Lacks`), the
  stream it has found (`Named`) and that its user has not disappeared (`Known`). A
  step of anyone else leaves the request alone and only adds to what is noted. The
  theorems assume `NotesAsked`: that the auxiliary variable keeps the facts the
  properties ask for, as it does in the run.
- **ViewerProofs** - `TypeCorrect`, `OneConnectionAlways`, `PictureIsCurrent`,
  `PanelIsClosed`, `BadgeIsTrue`, for any number of calls and connections. The
  properties are inductive together with `Awaited`, which says what each kind of
  call can be waiting for: the page closes the connection it has in the step that
  makes the next one, so the answer to an earlier one finds its connection closed.
- **MediaProofs** - every step of MediaControl is one of IngestControl or leaves
  the tables and requests alone (`MediaRefinesControl`, `MediaSpec => Spec`), so
  that what is proved above holds of it, `Distinct` and the references among it.
  - `CallsHaveTargets` (`MediaTypeOK`), from `MediaInv`: types, and that the
    reconciliation works through rows that exist.
  - `RestorationServesAll` (`RestoredIsServed`), from `RestoreInv`, of any
    execution: `Behind` - each session the reconciliation is through with has the
    alias of a live session, and its transcoder - is kept because nobody else works
    meanwhile (`Alone`) and no alias stands in the way of the one to add (`AtHand`).
    A crash starts the work afresh, with the registry empty. It assumes
    `OnlyTheProcessFails`: after a failed call the handler gives up the remaining
    sessions (main.py:39), and the property is false. It holds for any PATCH bodies;
    a stream that an administrator deactivated is excepted while transcoding is on,
    because the hook finds no active stream for the pull of the transcoder's output
    (mediamtx_hooks.py:71, streams.py:190-191).
  - `LiveSessionsAreServed` (`LiveIsServed`) and `EndedPublicationsRelease`
    (`OnlyFailuresLeak`), of `SerialSpec`, from `PlaneInv`. `SerialInv` ties each request
    to one session: what a start or stop holds is what the row says, and from its
    commit to its last media call the session keeps its status and its path
    (`HoldsRow`, `IsAbout`), since all who could write the row have the same key or
    are administrators, who wait.
    `OwnStream` keeps the paths of two sessions apart, and `ActiveInv` says that no
    stream is deactivated. `ServedInv` then says, at every point of every handler,
    that a live session is ready, or that an agent is making it so, or that the
    restoration has yet to come to it. `LeakInv` holds whatever fails: a path with a
    transcoder is owned by a session that has not ended, or is being released. That a
    path is left behind is therefore the step of one request, whose own stop has
    failed. A step of one request is a step for one session, and `ElsewhereSame` for
    all others. They assume `OnlyPublishesBind`: administrators rotate and revoke, but
    create, bind and edit nothing by hand. TLC finds `LiveIsServed` false with
    "bind" or with "create", which put two live sessions on one stream, and with
    "create_stream", where a stream made disabled may not be pulled for its
    transcoder. It finds `OnlyFailuresLeak` false with "bind", which takes a
    session off its stream; with "create_stream" it holds on the instance, and the
    theorem leaves that out because a stream made by hand may belong to nobody
    (`OwnStream`).
- **DeploymentProofs** - `TypeCorrect`, `DoneLeavesModel`, `RefusedLeavesStorable`,
  `NeverTwoOwners`, `ServedAreAdmins`, `SessionsSurviveMigrations`,
  `OnlyLateEndsAreRefused`, for any rows, sessions, administrators and number of
  scripts, from `DeploymentInvariant`. The invariant says what the database is like
  at each step of each script: which columns and checks the statements before it
  have left, whether they were executed or found done, and that rows satisfy the
  checks there are. The administrators' part (`OneAdmin`, `Serves`) ties a pending
  insert, a token and a request under way to the table, which only a restoration
  replaces, and only once the backend is stopped.

*Only model-checked*: liveness - `EventuallyServed`, `RequestsReturn`,
`StoppedThreadsEnd`, `KeepsTranscoding` - which is out of the prover's reach, and
`OverlapsKeepAlias`, of the executions without a fault. Every other safety property,
action property and refinement that a passing run checks is stated by a theorem,
some under the hypotheses named above, which the runs satisfy.

## 6. What the checks found

- `RevocationLost`: `mark_ingest_started` decides on the status it loaded and
  commits later; a revocation committed in between is overwritten by `live`.
  The counterpart is `SettledForever`: the window closes with the requests that
  were in flight.
- `StartupBlocked`: a live session that was unbound after another one took over
  its automatic stream makes the restoration insert a duplicate path. The
  IntegrityError is not among those `restore_live_ingests` catches, so the
  backend never starts again. The same state lets the session never publish.
- `RestoreRefusesEnds`: `restore-postgres.sh` applies 003 alone after the dump. On
  a dump of the product without an ended session, 003 adds the check of the beta
  beside the one of the product, and the end of a publication cannot be stored
  until 004 or 005 run again.

Seen while modelling, without a run of their own:

- `start_transcoder` keeps a path's handle whatever key it was created with, and a
  rotation does not stop it: the new publisher is live and the path serves
  nothing. `LiveIsServed` names the exception (`Stale`);
- the first installation stops in 005, which reads `output_stream_id`, a column
  that only the beta had: `install.sh` ends there, with no check on the status
  left and the backend up (`RefusedStoresAll` says why that works). A beta
  database is refused in 001 (001_init.sql:64) and upgraded by hand only;
- 004 and 005, applied again, give a session that was unbound since the beta's
  binding back (`MigrationsKeepSessions` allows it);
- `admin_context.py` sets a ContextVar in one thread's copy of the context and
  reads it in another's: audit rows name the fallback administrator;
- the viewer page shows `Live` over an empty element while the next stream is
  negotiated; a failed poll, or the late failure of an earlier stream, puts `Error`
  over a stream that plays; a connection that cannot be made leaves the last picture
  of the one closed for it; overlapping submits can leave the profile of one
  viewer with the token of another; a reset stops neither polling nor playback; an
  automatic attempt that failed leaves `Loading` until the next poll retries it;
- ingest keys and playback paths are one namespace in MediaMTX and two in the
  database: a publisher may register a playback path as a key;
- a viewer whose access moves from a group to a direct grant between the two
  SELECTs of `user_has_output_stream_access` is refused once;
  `RefusalJustified` is what can be said;
- the hook looks for an active stream at the path and compares the token's
  stream by its path, so that an exchange of paths in between admits a stream
  whose `is_active` was not looked at (the exception in `InactiveNotWatched`);
- the restoration never commits what it resolves: an unbound live session may
  take a path to a key that nobody may pull (the condition of
  `RestoredIsServed`);
- a rotation or a revocation of a live session leaves its alias and transcoder; a
  stop that fails leaves an alias nobody removes - a DELETE that fails, a `stop()`
  that raises before it, a crash between the commit and the calls
  (`OnlyFailuresLeak`);
- a disabled stream can be active: a PATCH sets `is_active` alone, a publish that
  loaded the stream before it was disabled switches it on, and a PATCH that loaded
  `is_active` off disables the stream without writing it again while a publish
  switches it on (`OffUntilReopened` says that nothing else does);
- an administrator may give a stream the path `out-<id>` of a session, whose
  publisher is then refused;
- a late stop carries no identity of its connection, and its media calls may
  follow those of a newer publish: `LiveIsServed` needs `SerialSpec`;
- README.md:17 calls the first status `ready`, the code `created`.

## 7. Not modelled

Names, titles, labels, metadata, `public_name` (as unique as `playback_path`),
`last_seen_at`; audit and event logs, which are written in the commit they are
about and read by no handler; serialisation and validation of requests; the
refusals of the hook by action, protocol and shared secret alone, which change
no state; health and metrics, which only read; the ffmpeg command line, SDP and
ICE; passwords, signatures, and the access by `X-Admin-Secret`, which reads no
table; the page of the administrators (section 2); rows of other tables in the
migrations, and a dump that was loaded in part; host preparation, certificates,
smoke tests and reports of the deployment scripts, which touch no modelled state;
proxy, TURN and media server configuration, which belongs to external programs;
the older copies of backend files at the repository root, which nothing imports.
