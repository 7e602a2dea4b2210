----------------------------- MODULE Deployment -----------------------------
(***************************************************************************)
(* The database of an installation through its life: the scripts of sql/   *)
(* that install.sh and restore-postgres.sh run over it, the daily backup,  *)
(* and the backend that starts, bootstraps its administrator, logs people  *)
(* in and stores ingest sessions while they run.                           *)
(*                                                                         *)
(* psql commits each statement by itself and stops at the first error.  A  *)
(* DO block is one statement, but each query in it sees what was committed *)
(* by then.  A database is empty, has the tables of the beta (003), those  *)
(* of the product (001), or beta tables that 004 gave the product's        *)
(* columns ("upgraded").  The sessions move as SessionLifecycle has them:  *)
(* IngestControl shows when the handlers keep to it.                       *)
(***************************************************************************)
EXTENDS Integers, Sequences, FiniteSets

CONSTANTS
  Workers,     \* the threads of the pool that serve requests
  SessionIds, StreamIds,
  AdminIds,    \* bound on the administrators that anything remembers
  Names,       \* user names of administrators
  MaxScripts,  \* bound on the scripts an operator runs
  MaxRequests, \* bound on the requests the backend receives
  MaxEvents,   \* bound on scripts and requests together
  None         \* SQL NULL, the absence of a row, an empty setting

VARIABLES
  db,          \* the database
  backup,      \* the last dump
  script,      \* what the operator runs, and the step it is at
  backend,     \* the backend process, and the ADMIN_BOOTSTRAP_USERNAME it read
  req,         \* what each worker is doing for an administrator
  tokens,      \* the administrators that were given access tokens
  count        \* how many scripts and requests there were

vars == <<db, backup, script, backend, req, tokens, count>>

Statuses == {"created", "live", "ended", "revoked"}
BetaStatuses == {"created", "connecting", "live", "offline", "revoked", "error"}

\* output is the column of the beta, stream the one of the product.
SessionRow == [status: Statuses \cup BetaStatuses, revoked: {"null", "set"},
               output: StreamIds \cup {None}, stream: StreamIds \cup {None}]

\* The password and the role are left out: nobody is deactivated by this code.
AdminUser == Names \X AdminIds

\* inline is ingest_sessions_status_check, named is ck_ingest_sessions_status;
\* twins: two sessions of the beta had one ingest key.
Database == [age: {"empty", "beta", "product", "upgraded"},
             inline: {"none", "beta", "product"}, named: {"none", "product"},
             twins: BOOLEAN, sessions: [SessionIds -> SessionRow \cup {None}],
             hasAdmins: BOOLEAN, admins: SUBSET AdminUser]

Empty == [age |-> "empty", inline |-> "none", named |-> "none", twins |-> FALSE,
          sessions |-> [s \in SessionIds |-> None],
          hasAdmins |-> FALSE, admins |-> {}]

BetaRow == {r \in SessionRow : r.status \in BetaStatuses
                               /\ r.revoked = "null" /\ r.stream = None}

Beta(rows, twins) ==
  [Empty EXCEPT !.age = "beta", !.inline = "beta", !.twins = twins, !.sessions = rows]

\* The steps of 004, 005 and 006.
Upgrade ==
  <<"004_columns", "004_named", "004_inline", "004_update", "004_add", "004_unique",
    "005_inline", "005_named", "005_update", "005_add", "006">>

\* install.sh starts the stack before it applies the migrations, and cannot pass
\* 001 over a beta database: that is upgraded by hand.
Install ==
  <<"start", "001_admins", "001_tables", "003_drop", "003_look", "003_add",
    "004_columns", "004_named", "004_inline", "004_update", "004_add", "004_unique",
    "005_inline", "005_named", "005_update", "005_add", "006">>

\* Mistake: the backend is stopped when the schema is gone already.
Restore_StopsLate ==
  <<"drop", "stop", "load", "start", "003_drop", "003_look", "003_add">>

Restore == <<"stop", "drop", "load", "start", "003_drop", "003_look", "003_add">>

Steps(name) ==
  CASE name = "install" -> Install
    [] name = "restore" -> Restore
    [] name = "upgrade" -> Upgrade
    [] OTHER -> <<>>

Script == [name: {"none", "install", "restore", "upgrade"}, at: Nat,
           result: {"none", "running", "done", "refused"},
           \* what the DO block of 003 found
           late: BOOLEAN]

NoScript == [name |-> "none", at |-> 1, result |-> "none", late |-> FALSE]

IdleRequest == [stage |-> "idle", name |-> None, admin |-> None]
Request == [stage: {"idle", "insert", "verify", "admin"}, name: Names \cup {None},
            admin: AdminIds \cup {None}]

Stopped == [stage |-> "stopped", setting |-> None]
Backend == [stage: {"stopped", "starting", "up"}, setting: Names \cup {None}]

ASSUME DeploymentAssumption ==
  /\ None \notin SessionRow \cup StreamIds \cup AdminIds \cup Names \cup Database
  /\ MaxScripts \in Nat /\ MaxRequests \in Nat /\ MaxEvents \in Nat

---------------------------------------------------------------------------
\* The statuses that both check constraints admit.
Admitted == {x \in Statuses \cup BetaStatuses :
               /\ db.inline = "beta" => x \in BetaStatuses
               /\ db.inline = "product" => x \in Statuses
               /\ db.named = "product" => x \in Statuses}

\* The columns that models.py maps are there.
Product == db.age \in {"product", "upgraded"}

Rows == {db.sessions[s] : s \in SessionIds} \ {None}

Init ==
  /\ \/ db = Empty
     \/ \E rows \in [SessionIds -> BetaRow \cup {None}], twins \in BOOLEAN :
          db = Beta(rows, twins)
  /\ backup = None
  /\ script = NoScript
  /\ backend = Stopped
  /\ req = [w \in Workers |-> IdleRequest]
  /\ tokens = {}
  /\ count = [scripts |-> 0, requests |-> 0]

Counts(kind, bound) ==
  /\ count[kind] < bound /\ count.scripts + count.requests < MaxEvents
  /\ count' = [count EXCEPT ![kind] = @ + 1]

(* The operator's scripts                                                  *)

Begin(name) ==
  /\ script.result # "running"
  /\ name = "restore" => backup # None
  /\ script' = [name |-> name, at |-> 1, result |-> "running", late |-> FALSE]
  /\ Counts("scripts", MaxScripts)
  /\ UNCHANGED <<db, backup, backend, req, tokens>>

At(step) == script.result = "running" /\ Steps(script.name)[script.at] = step

Ended(result) == [script EXCEPT !.at = 1, !.result = result, !.late = FALSE]

Proceed ==
  /\ script' = IF script.at = Len(Steps(script.name))
               THEN Ended("done") ELSE [script EXCEPT !.at = @ + 1]
  /\ UNCHANGED <<backup, tokens, count>>

\* The statement is executed, or changes nothing, or the database refuses it.
Alters(step, d) == At(step) /\ db' = d /\ Proceed /\ UNCHANGED <<backend, req>>

Refused(step) ==
  /\ At(step)
  /\ script' = Ended("refused")
  /\ UNCHANGED <<db, backup, backend, req, tokens, count>>

\* The host goes down, or the operator gives up.
Interrupt ==
  /\ script.result = "running"
  /\ script' = NoScript
  /\ UNCHANGED <<db, backup, backend, req, tokens, count>>

ComposeUp ==
  /\ At("start") /\ Proceed
  /\ backend' = IF backend.stage = "stopped" THEN [backend EXCEPT !.stage = "starting"]
                                             ELSE backend
  /\ UNCHANGED <<db, req>>

ComposeStop ==
  /\ At("stop") /\ Proceed
  /\ backend' = Stopped
  /\ req' = [w \in Workers |-> IdleRequest]
  /\ UNCHANGED db

DropSchema == Alters("drop", Empty)

\* A dump that cannot be read is refused, and the schema stays empty.
Load == Alters("load", backup) \/ Refused("load")

\* 001 creates what is missing, admin_users first.
InitAdmins == Alters("001_admins", [db EXCEPT !.hasAdmins = TRUE])

\* A beta database lacks the columns that 001 puts keys and indexes on.
InitTables ==
  \/ db.age = "empty" /\ Alters("001_tables", [db EXCEPT !.age = "product", !.inline = "product"])
  \/ Product /\ Alters("001_tables", db)
  \/ db.age = "beta" /\ Refused("001_tables")

BetaDrop == Alters("003_drop", [db EXCEPT !.inline = "none"])

\* The DO block of 003 looks for a status that the beta did not have ...
BetaLook ==
  /\ At("003_look") /\ UNCHANGED <<db, backup, backend, req, tokens, count>>
  /\ script' = [script EXCEPT !.at = @ + 1,
                  !.late = \E r \in Rows : r.status \notin BetaStatuses]

\* ... and adds the check if there was none; one that came since is refused.
BetaAdd ==
  \/ script.late /\ Alters("003_add", db)
  \/ ~script.late /\ (\A r \in Rows : r.status \in BetaStatuses)
     /\ Alters("003_add", [db EXCEPT !.inline = "beta"])
  \/ ~script.late /\ (\E r \in Rows : r.status \notin BetaStatuses) /\ Refused("003_add")

AddColumns ==
  \/ db.age = "empty" /\ Refused("004_columns")
  \/ db.age # "empty" /\ Alters("004_columns", [db EXCEPT
       !.age = IF @ = "beta" THEN "upgraded" ELSE @])

\* Mistake: the check that 003 wrote is left in place.
DropInline_Keeps(step) == Alters(step, db)

DropInline(step) == Alters(step, [db EXCEPT !.inline = "none"])

\* Mistake: the check that 004 and 005 write themselves is forgotten.
DropNamed_Keeps(step) == Alters(step, db)

DropNamed(step) == Alters(step, [db EXCEPT !.named = "none"])

\* Mistake: the beta's binding comes first in the COALESCE.
Converted_BetaFirst(r) ==
  [r EXCEPT !.stream = IF r.output = None THEN @ ELSE r.output,
            !.revoked = IF r.status = "revoked" THEN "set" ELSE @,
            !.status = CASE @ = "connecting" -> "live"
                         [] @ \in {"offline", "error"} -> "ended"
                         [] OTHER -> @]

\* Mistake: a revoked session is not stamped.
Converted_Unstamped(r) ==
  [r EXCEPT !.stream = IF @ = None THEN r.output ELSE @,
            !.status = CASE @ = "connecting" -> "live"
                         [] @ \in {"offline", "error"} -> "ended"
                         [] OTHER -> @]

\* What the UPDATE makes of a row; one its WHERE leaves out has nothing to convert.
Converted(r) ==
  [r EXCEPT !.stream = IF @ = None THEN r.output ELSE @,
            !.revoked = IF r.status = "revoked" THEN "set" ELSE @,
            !.status = CASE @ = "connecting" -> "live"
                         [] @ \in {"offline", "error"} -> "ended"
                         [] OTHER -> @]

Convert(step) ==
  Alters(step, [db EXCEPT !.sessions = [s \in SessionIds |->
                  IF @[s] = None THEN None ELSE Converted(@[s])]])

\* 004 looks whether the beta's output_stream_id is there, 005 takes it for granted.
UpdateRows ==
  \/ Convert("004_update")
  \/ db.age = "upgraded" /\ Convert("005_update")
  \/ db.age # "upgraded" /\ Refused("005_update")

\* The constraint must not exist yet, and every row must satisfy it.
AddCheck(step) ==
  IF db.named = "none" /\ \A r \in Rows : r.status \in Statuses
  THEN Alters(step, [db EXCEPT !.named = "product"]) ELSE Refused(step)

AddUnique ==
  \/ ~db.twins /\ Alters("004_unique", db)
  \/ db.twins /\ Refused("004_unique")

CreateAdmins == Alters("006", [db EXCEPT !.hasAdmins = TRUE])

ScriptStep ==
  \/ ComposeUp \/ ComposeStop \/ DropSchema \/ Load \/ InitAdmins \/ InitTables
  \/ BetaDrop \/ BetaLook \/ BetaAdd
  \/ AddColumns \/ DropNamed("004_named") \/ DropInline("004_inline")
  \/ UpdateRows \/ AddCheck("004_add") \/ AddUnique
  \/ DropInline("005_inline") \/ DropNamed("005_named") \/ AddCheck("005_add")
  \/ CreateAdmins

\* The timer's pg_dump sees one moment, also in the middle of a script.
Backup ==
  /\ db.age # "empty"    \* nobody restores a dump without tables
  /\ backup' = db
  /\ UNCHANGED <<db, script, backend, req, tokens, count>>

(* The backend                                                             *)

\* A uuid nobody has seen.
FreshAdmin(i) ==
  /\ i \in AdminIds \ tokens
  /\ \A n \in Names : <<n, i>> \notin db.admins
                      /\ (backup # None => <<n, i>> \notin backup.admins)
  /\ \A w \in Workers : req[w].admin # i

\* ensure_bootstrap_admin creates the administrator of the settings only when
\* there is no other.
Bootstraps(name) == db.hasAdmins /\ db.admins = {} /\ name # None

\* Without the product's columns the query for live sessions raises: the process
\* ends and Docker starts it again, until they are there.
StartBackend ==
  /\ backend.stage = "starting" /\ Product
  /\ \E n \in Names \cup {None} :
       /\ backend' = [stage |-> "up", setting |-> n]
       /\ \/ ~Bootstraps(n) /\ UNCHANGED db
          \/ /\ Bootstraps(n)
             /\ \E i \in AdminIds : FreshAdmin(i) /\ db' = [db EXCEPT !.admins = {<<n, i>>}]
  /\ UNCHANGED <<backup, script, req, tokens, count>>

CrashBackend ==
  /\ backend.stage = "up"
  /\ backend' = [stage |-> "starting", setting |-> None]
  /\ req' = [w \in Workers |-> IdleRequest]
  /\ UNCHANGED <<db, backup, script, tokens, count>>

Handles(w, stage) == backend.stage = "up" /\ req[w].stage = stage

\* POST /admin/auth/login: is there any administrator?  Without the table the
\* request fails in the SELECT that follows.
Login(w, n) ==
  /\ Handles(w, "idle") /\ Counts("requests", MaxRequests) /\ db.hasAdmins
  /\ req' = [req EXCEPT ![w] = [stage |-> IF Bootstraps(backend.setting) THEN "insert" ELSE "verify",
                                name |-> n, admin |-> None]]
  /\ UNCHANGED <<db, backup, script, backend, tokens>>

\* Mistake: usernames are not unique.
InsertAdmin_Twice(w) ==
  /\ Handles(w, "insert")
  /\ \E i \in AdminIds : FreshAdmin(i)
       /\ db' = [db EXCEPT !.admins = @ \cup {<<backend.setting, i>>}]
  /\ req' = [req EXCEPT ![w].stage = "verify"]
  /\ UNCHANGED <<backup, script, backend, tokens, count>>

\* A first login that comes second meets the unique username, and fails.
InsertAdmin(w) ==
  /\ Handles(w, "insert")
  /\ \/ /\ \A i \in AdminIds : <<backend.setting, i>> \notin db.admins
        /\ \E i \in AdminIds : FreshAdmin(i)
             /\ db' = [db EXCEPT !.admins = @ \cup {<<backend.setting, i>>}]
        /\ req' = [req EXCEPT ![w].stage = "verify"]
     \/ /\ \E i \in AdminIds : <<backend.setting, i>> \in db.admins
        /\ req' = [req EXCEPT ![w] = IdleRequest]
        /\ UNCHANGED db
  /\ UNCHANGED <<backup, script, backend, tokens, count>>

\* Mistake: somebody who is no administrator gets a token too.
VerifyLogin_Anybody(w) ==
  /\ Handles(w, "verify")
  /\ LET known == {i \in AdminIds : <<req[w].name, i>> \in db.admins} IN
     tokens' = tokens \cup IF known = {} THEN {None} ELSE known
  /\ req' = [req EXCEPT ![w] = IdleRequest]
  /\ UNCHANGED <<db, backup, script, backend, count>>

\* The password is right: a token; or there is no such administrator: 401.
VerifyLogin(w) ==
  /\ Handles(w, "verify")
  /\ tokens' = tokens \cup {i \in AdminIds : <<req[w].name, i>> \in db.admins}
  /\ req' = [req EXCEPT ![w] = IdleRequest]
  /\ UNCHANGED <<db, backup, script, backend, count>>

\* The token says who it was, the table whether they are.
ValidToken(i) == i \in tokens /\ \E n \in Names : <<n, i>> \in db.admins

\* require_admin_bearer
Authorize(w, i) ==
  /\ Handles(w, "idle") /\ Counts("requests", MaxRequests) /\ ValidToken(i)
  /\ req' = [req EXCEPT ![w] = [stage |-> "admin", name |-> None, admin |-> i]]
  /\ UNCHANGED <<db, backup, script, backend, tokens>>

Respond(w) ==
  /\ Handles(w, "admin")
  /\ req' = [req EXCEPT ![w] = IdleRequest]
  /\ UNCHANGED <<db, backup, script, backend, tokens, count>>

\* An ingest handler commits a row, unless a check refuses its status.
Store(s, row) ==
  /\ backend.stage = "up" /\ Counts("requests", MaxRequests) /\ row.status \in Admitted
  /\ db' = [db EXCEPT !.sessions[s] = row]
  /\ UNCHANGED <<backup, script, backend, req, tokens>>

Moved(row, status) ==
  [row EXCEPT !.status = status, !.revoked = IF status = "revoked" THEN "set" ELSE @]

StoreSession(s) ==
  \/ /\ db.sessions[s] = None
     /\ Store(s, [status |-> "created", revoked |-> "null", output |-> None, stream |-> None])
  \/ /\ db.sessions[s] # None /\ db.sessions[s].status # "revoked"
     /\ \E status \in Statuses : Store(s, Moved(db.sessions[s], status))
  \/ /\ db.sessions[s] # None
     /\ \E t \in StreamIds \cup {None} : Store(s, [db.sessions[s] EXCEPT !.stream = t])

BackendStep ==
  \/ StartBackend \/ CrashBackend
  \/ \E w \in Workers : \/ \E n \in Names : Login(w, n)
                        \/ InsertAdmin(w) \/ VerifyLogin(w) \/ Respond(w)
                        \/ \E i \in AdminIds : Authorize(w, i)
  \/ \E s \in SessionIds : StoreSession(s)

Next ==
  \/ \E name \in {"install", "restore", "upgrade"} : Begin(name)
  \/ ScriptStep \/ Interrupt \/ Backup \/ BackendStep

Spec == Init /\ [][Next]_vars

---------------------------------------------------------------------------
(* Properties                                                              *)

TypeOK ==
  /\ db \in Database /\ backup \in Database \cup {None}
  /\ script \in Script /\ backend \in Backend
  /\ req \in [Workers -> Request] /\ tokens \subseteq AdminIds
  /\ count \in [scripts: 0..MaxScripts, requests: 0..MaxRequests]

\* Whatever was there before and whatever ran meanwhile, an installation or an
\* upgrade that ends well leaves the schema and the rows that models.py:97-111
\* declares: exactly its statuses can be stored, and what is revoked is stamped.
DoneIsModel ==
  script.result = "done" /\ script.name # "restore" =>
    /\ Product /\ db.hasAdmins
    /\ Admitted = Statuses
    /\ \A r \in Rows : r.status \in Statuses
                       /\ (r.status = "revoked" => r.revoked = "set")

\* One that the database refuses leaves every status storable that the backend
\* writes, once it can run (005_product_model_hotfix.sql:1-2, 24-38).
RefusedStoresAll ==
  script.result = "refused" /\ script.name # "restore" /\ Product =>
    Statuses \subseteq Admitted

\* No statement of the migrations takes a session off its stream, ends a live
\* one or revives a revoked one, also when they are applied again to a database
\* in use (004_product_model.sql:84-100, 005_product_model_hotfix.sql:24-38).
MigrationsKeepSessions ==
  [][script' # script /\ db' # Empty /\ db # Empty /\ ~At("load") =>
       \A s \in SessionIds : db.sessions[s] # None =>
         LET old == db.sessions[s]
             new == db'.sessions[s] IN
         /\ new # None
         /\ old.stream # None => new.stream = old.stream
         /\ old.status \in Statuses => new.status = old.status
         /\ old.revoked = "set" => new.revoked = "set"]_vars

\* On a database whose ingest keys are distinct and that has the columns of both
\* models, the backend may go on writing during an installation: the one statement
\* that can be refused is the check of 003, when a publication ended since the
\* block looked for one that had (003_server_beta.sql:71-82).
OnlyLateEndRefuses ==
  [][/\ db.age = "upgraded" /\ ~db.twins
     /\ script.result = "running" /\ script'.result = "refused"
     => Steps(script.name)[script.at] \in {"003_add"}]_vars

\* Logins, restarts with other settings and restored dumps in any order never
\* make a second bootstrap administrator (admin_auth.py:90-122).
OneOwner == Cardinality(db.admins) <= 1

\* A request that was let in as an administrator is handled while that
\* administrator exists, although tokens outlive a restored dump
\* (auth.py:74-91, admin_auth.py:161-172, restore-postgres.sh:19-23).
AuthorizedIsAdmin ==
  \A w \in Workers : req[w].stage = "admin" =>
    \E n \in Names : <<n, req[w].admin>> \in db.admins

\* README.md:17 and models.py:99 have the status ended.  A restored database that
\* has the check of the product stores it.
RestoredStoresEnds ==
  script.name = "restore" /\ script.result = "done" /\ db.named = "product" =>
    "ended" \in Admitted
============================================================================
