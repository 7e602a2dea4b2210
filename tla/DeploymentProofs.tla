-------------------------- MODULE DeploymentProofs --------------------------
(***************************************************************************)
(* Proofs about Deployment, for any number of workers, sessions, names and *)
(* administrators, whatever scripts the operator runs and wherever they    *)
(* stop.                                                                   *)
(*                                                                         *)
(* The steps of a script are not actions of one process with a history:    *)
(* the invariant says what each step finds (Finds) from the step that must *)
(* have come before it (Precedes), as one annotates a program.  The schema *)
(* that a script leaves behind when it ends is what its last step found.   *)
(***************************************************************************)
EXTENDS Deployment, FiniteSetTheorems, TLAPS

Scripts == {"install", "restore", "upgrade"}

---------------------------------------------------------------------------
(* The order of the steps                                                  *)

\* The only step that y can follow, where the invariant needs to know it.
Precedes(x, y) ==
  /\ y = "drop" => x = "stop"
  /\ y = "load" => x = "drop"
  /\ y = "003_look" => x = "003_drop"
  /\ y = "003_add" => x = "003_look"
  /\ y = "004_named" => x = "004_columns"
  /\ y = "004_inline" => x = "004_named"
  /\ y = "004_update" => x = "004_inline"
  /\ y = "004_add" => x = "004_update"
  /\ y = "004_unique" => x = "004_add"
  /\ y = "005_inline" => x = "004_unique"
  /\ y = "005_named" => x = "005_inline"
  /\ y = "005_update" => x = "005_named"
  /\ y = "005_add" => x = "005_update"
  /\ y = "006" => x = "005_add"

LEMMA Starts ==
  /\ Len(Install) = 17 /\ Install[1] = "start"
  /\ Len(Upgrade) = 11 /\ Upgrade[1] = "004_columns"
  /\ Len(Restore) = 7 /\ Restore[1] = "stop"
BY DEF Install, Upgrade, Restore

\* install.sh ends with 006 and stops or drops nothing.
LEMMA InstallOrder ==
  ASSUME NEW i \in 1..17
  PROVE  /\ i # 17 => Precedes(Install[i], Install[i+1])
         /\ i = 17 => Install[i] = "006"
         /\ Install[i] \notin {"stop", "drop", "load"}
<1>1. /\ Install[1] = "start" /\ Install[2] = "001_admins" /\ Install[3] = "001_tables"
      /\ Install[4] = "003_drop" /\ Install[5] = "003_look" /\ Install[6] = "003_add"
      /\ Install[7] = "004_columns" /\ Install[8] = "004_named" /\ Install[9] = "004_inline"
      /\ Install[10] = "004_update" /\ Install[11] = "004_add" /\ Install[12] = "004_unique"
      /\ Install[13] = "005_inline" /\ Install[14] = "005_named" /\ Install[15] = "005_update"
      /\ Install[16] = "005_add" /\ Install[17] = "006"
  BY DEF Install
<1>2. QED BY <1>1 DEF Precedes

\* So does an upgrade by hand.
LEMMA UpgradeOrder ==
  ASSUME NEW i \in 1..11
  PROVE  /\ i # 11 => Precedes(Upgrade[i], Upgrade[i+1])
         /\ i = 11 => Upgrade[i] = "006"
         /\ Upgrade[i] \notin {"stop", "drop", "load"}
<1>1. /\ Upgrade[1] = "004_columns" /\ Upgrade[2] = "004_named" /\ Upgrade[3] = "004_inline"
      /\ Upgrade[4] = "004_update" /\ Upgrade[5] = "004_add" /\ Upgrade[6] = "004_unique"
      /\ Upgrade[7] = "005_inline" /\ Upgrade[8] = "005_named" /\ Upgrade[9] = "005_update"
      /\ Upgrade[10] = "005_add" /\ Upgrade[11] = "006"
  BY DEF Upgrade
<1>2. QED BY <1>1 DEF Precedes

\* restore-postgres.sh ends with 003.
LEMMA RestoreOrder ==
  ASSUME NEW i \in 1..7
  PROVE  /\ i # 7 => Precedes(Restore[i], Restore[i+1])
         /\ i = 7 => Restore[i] = "003_add"
<1>1. /\ Restore[1] = "stop" /\ Restore[2] = "drop" /\ Restore[3] = "load"
      /\ Restore[4] = "start" /\ Restore[5] = "003_drop" /\ Restore[6] = "003_look"
      /\ Restore[7] = "003_add"
  BY DEF Restore
<1>2. QED BY <1>1 DEF Precedes

\* What the three scripts have in common.
LEMMA Order ==
  ASSUME NEW n \in Scripts, NEW i \in 1..Len(Steps(n))
  PROVE  /\ Len(Steps(n)) \in Nat
         /\ i # Len(Steps(n)) => /\ i+1 \in 1..Len(Steps(n))
                                 /\ Precedes(Steps(n)[i], Steps(n)[i+1])
         /\ i = Len(Steps(n)) => Steps(n)[i] = IF n = "restore" THEN "003_add" ELSE "006"
         /\ Steps(n)[i] \in {"stop", "drop", "load"} => n = "restore"
<1>1. CASE n = "install"
  <2>1. Steps(n) = Install BY <1>1 DEF Steps
  <2>2. Len(Install) \in Nat /\ i \in 1..Len(Install) BY <2>1, Starts
  <2>3. /\ i # Len(Install) => i+1 \in 1..Len(Install) /\ Precedes(Install[i], Install[i+1])
        /\ i = Len(Install) => Install[i] = "006"
        /\ Install[i] \notin {"stop", "drop", "load"}
    BY <2>2, InstallOrder, Starts
  <2>4. QED BY <1>1, <2>1, <2>2, <2>3
<1>2. CASE n = "upgrade"
  <2>1. Steps(n) = Upgrade BY <1>2 DEF Steps
  <2>2. Len(Upgrade) \in Nat /\ i \in 1..Len(Upgrade) BY <2>1, Starts
  <2>3. /\ i # Len(Upgrade) => i+1 \in 1..Len(Upgrade) /\ Precedes(Upgrade[i], Upgrade[i+1])
        /\ i = Len(Upgrade) => Upgrade[i] = "006"
        /\ Upgrade[i] \notin {"stop", "drop", "load"}
    BY <2>2, UpgradeOrder, Starts
  <2>4. QED BY <1>2, <2>1, <2>2, <2>3
<1>3. CASE n = "restore"
  <2>1. Steps(n) = Restore BY <1>3 DEF Steps
  <2>2. Len(Restore) \in Nat /\ i \in 1..Len(Restore) BY <2>1, Starts
  <2>3. /\ i # Len(Restore) => i+1 \in 1..Len(Restore) /\ Precedes(Restore[i], Restore[i+1])
        /\ i = Len(Restore) => Restore[i] = "003_add"
    BY <2>2, RestoreOrder, Starts
  <2>4. QED BY <1>3, <2>1, <2>2, <2>3
<1>4. QED BY <1>1, <1>2, <1>3 DEF Scripts

\* A script begins with a step before which nothing is asked of the database.
LEMMA First ==
  ASSUME NEW n \in Scripts
  PROVE  /\ 1 \in 1..Len(Steps(n))
         /\ Steps(n)[1] \in {"start", "004_columns", "stop"}
BY Starts DEF Scripts, Steps

---------------------------------------------------------------------------
(* The invariant                                                           *)

Running == script.result = "running"
Current == Steps(script.name)[script.at]
Doing(steps) == Running /\ Current \in steps

\* What is stored is a row of the product's model.
GoodRow(r) == r.status \in Statuses /\ (r.status = "revoked" => r.revoked = "set")
GoodRows == \A s \in SessionIds : db.sessions[s] # None => GoodRow(db.sessions[s])

\* The operator is at a step of a script, and restores a dump there is.
ScriptOK ==
  Running => /\ script.name \in Scripts
             /\ script.at \in 1..Len(Steps(script.name))
             /\ script.name = "restore" => backup # None

\* What the steps find.
Finds ==
  /\ Doing({"drop", "load"}) => backend = Stopped
  /\ Doing({"load"}) => db = Empty
  /\ Doing({"003_look", "003_add"}) => db.inline = "none"
  /\ Doing({"004_named", "004_inline", "004_update", "004_add", "004_unique",
            "005_inline", "005_named", "005_update", "005_add", "006"}) => Product
  /\ Doing({"004_update", "004_add", "004_unique",
            "005_inline", "005_named", "005_update", "005_add", "006"}) => db.inline = "none"
  /\ Doing({"004_inline", "004_update", "004_add", "005_update", "005_add"}) => db.named = "none"
  /\ Doing({"004_add", "004_unique",
            "005_inline", "005_named", "005_update", "005_add", "006"}) => GoodRows
  /\ Doing({"006"}) => db.named = "product"

\* What an installation or an upgrade leaves behind.
Leaves ==
  /\ script.result = "done" /\ script.name # "restore" =>
       /\ Product /\ db.hasAdmins /\ GoodRows
       /\ db.inline = "none" /\ db.named = "product"
  /\ script.result = "refused" /\ script.name # "restore" /\ Product => db.inline # "beta"

\* The statements of 004 and 005 that drop a check.
Dropping == {"004_named", "004_inline", "005_inline", "005_named"}

Drops == \/ DropNamed("004_named") \/ DropInline("004_inline")
         \/ DropInline("005_inline") \/ DropNamed("005_named")

SchemaInv == TypeOK /\ ScriptOK /\ Finds /\ Leaves

\* A backend that serves requests is up; one that is about to create the
\* administrator of its settings has found nobody, or who was created since.
Serves ==
  \A w \in Workers :
    /\ req[w] # IdleRequest => backend.stage = "up"
    /\ req[w].stage = "insert" => /\ backend.setting # None
                                  /\ \A a \in db.admins : a[1] = backend.setting

\* In the database, and in what would be restored.
OneAdmin ==
  /\ \A a, b \in db.admins : a = b
  /\ backup # None => \A a, b \in backup.admins : a = b

OwnerInv == SchemaInv /\ Serves /\ OneAdmin /\ AuthorizedIsAdmin

---------------------------------------------------------------------------
(* Types                                                                   *)

LEMMA EndedScript ==
  ASSUME script \in Script, NEW r \in {"done", "refused"}
  PROVE  Ended(r) \in Script /\ Ended(r).name = script.name /\ Ended(r).result = r
BY DEF Script, Ended

\* Where the script goes from a step that is done.
LEMMA Goes ==
  ASSUME script \in Script, ScriptOK, Running,
         script' = IF script.at = Len(Steps(script.name))
                   THEN Ended("done") ELSE [script EXCEPT !.at = @ + 1]
  PROVE  /\ script' \in Script
         /\ script'.name = script.name
         /\ \/ /\ script'.result = "done"
               /\ Current = IF script.name = "restore" THEN "003_add" ELSE "006"
            \/ /\ Running' /\ script'.at \in 1..Len(Steps(script'.name))
               /\ Precedes(Current, Current')
<1>1. script.name \in Scripts /\ script.at \in 1..Len(Steps(script.name))
  BY DEF ScriptOK
<1>2. CASE script.at = Len(Steps(script.name))
  <2>1. script' = Ended("done") BY <1>2
  <2>2. script' \in Script /\ script'.name = script.name /\ script'.result = "done"
    BY <2>1, EndedScript
  <2>3. QED BY <1>1, <1>2, <2>2, Order DEF Current
<1>3. CASE script.at # Len(Steps(script.name))
  <2>1. script' = [script EXCEPT !.at = script.at + 1] BY <1>3
  <2>2. /\ script' \in Script /\ script'.name = script.name
        /\ script'.result = "running" /\ script'.at = script.at + 1
    BY <2>1 DEF Script, Running
  <2>3. QED BY <1>1, <1>3, <2>2, Order DEF Current, Running
<1>4. QED BY <1>2, <1>3

LEMMA ConvertedRow ==
  ASSUME NEW r \in SessionRow
  PROVE  /\ Converted(r) \in SessionRow /\ Converted(r) # None
         /\ GoodRow(Converted(r))
         /\ r.stream # None => Converted(r).stream = r.stream
         /\ r.status \in Statuses => Converted(r).status = r.status
         /\ r.revoked = "set" => Converted(r).revoked = "set"
<1>1. /\ r.status \in Statuses \cup BetaStatuses /\ r.revoked \in {"null", "set"}
      /\ r.output \in StreamIds \cup {None} /\ r.stream \in StreamIds \cup {None}
  BY DEF SessionRow
<1> DEFINE status == CASE r.status = "connecting" -> "live"
                       [] r.status \in {"offline", "error"} -> "ended"
                       [] OTHER -> r.status
           revoked == IF r.status = "revoked" THEN "set" ELSE r.revoked
           stream == IF r.stream = None THEN r.output ELSE r.stream
<1>2. /\ status \in Statuses /\ (r.status \in Statuses => status = r.status)
      /\ status = "revoked" => r.status = "revoked"
  BY <1>1 DEF Statuses, BetaStatuses
<1>3. Converted(r) = [r EXCEPT !.stream = stream, !.revoked = revoked, !.status = status]
  BY DEF Converted
<1> HIDE DEF status
<1>4. /\ Converted(r) \in SessionRow /\ Converted(r).status = status
      /\ Converted(r).revoked = revoked /\ Converted(r).stream = stream
  BY <1>1, <1>2, <1>3 DEF SessionRow
<1>5. Converted(r) # None BY <1>4, DeploymentAssumption
<1>6. QED BY <1>1, <1>2, <1>4, <1>5 DEF GoodRow

\* A step that is done, whatever its statement made of a database.
LEMMA AlteredType ==
  ASSUME TypeOK, ScriptOK, Running, Proceed,
         db' \in Database, backend' \in Backend, req' \in [Workers -> Request]
  PROVE  TypeOK' /\ ScriptOK'
<1>1. /\ script' \in Script /\ script'.name = script.name
      /\ Running' => script'.at \in 1..Len(Steps(script'.name))
      /\ UNCHANGED <<backup, tokens, count>>
  BY Goes DEF TypeOK, Proceed, Running
<1>2. TypeOK' BY <1>1 DEF TypeOK
<1>3. ScriptOK' BY <1>1 DEF ScriptOK, Running
<1>4. QED BY <1>2, <1>3

LEMMA RefusedType ==
  ASSUME TypeOK, ScriptOK, script' = Ended("refused"),
         UNCHANGED <<db, backup, backend, req, tokens, count>>
  PROVE  TypeOK' /\ ScriptOK'
<1>1. script' \in Script /\ script'.result = "refused" /\ script'.name = script.name
  BY EndedScript DEF TypeOK
<1>2. QED BY <1>1 DEF TypeOK, ScriptOK, Running

LEMMA EmptyType == Empty \in Database
BY DEF Empty, Database

LEMMA IdleType == [w \in Workers |-> IdleRequest] \in [Workers -> Request]
BY DEF IdleRequest, Request

LEMMA ScriptStepType ==
  ASSUME TypeOK, ScriptOK, ScriptStep
  PROVE  TypeOK' /\ ScriptOK'
<1> USE DEF At, Running
<1>1. CASE ComposeUp
  <2>1. Running /\ Proceed /\ UNCHANGED <<db, req>> BY <1>1 DEF ComposeUp
  <2>2. backend' \in Backend BY <1>1 DEF ComposeUp, TypeOK, Backend
  <2>3. QED BY <2>1, <2>2, AlteredType DEF TypeOK
<1>2. CASE ComposeStop
  <2>1. Running /\ Proceed /\ UNCHANGED db BY <1>2 DEF ComposeStop
  <2>2. backend' \in Backend BY <1>2 DEF ComposeStop, Stopped, Backend
  <2>3. req' \in [Workers -> Request] BY <1>2, IdleType DEF ComposeStop
  <2>4. QED BY <2>1, <2>2, <2>3, AlteredType DEF TypeOK
<1>3. ASSUME Running, Proceed, db' \in Database, UNCHANGED <<backend, req>>
      PROVE  TypeOK' /\ ScriptOK'
  BY <1>3, AlteredType DEF TypeOK
<1>4. CASE DropSchema
  BY <1>3, <1>4, EmptyType DEF DropSchema, Alters
<1>5. CASE Load
  <2>1. CASE Alters("load", backup)
    <3>1. script.name = "restore"
      BY <2>1, Order DEF Alters, ScriptOK
    <3>2. backup \in Database BY <3>1, <2>1 DEF Alters, ScriptOK, TypeOK
    <3>3. QED BY <1>3, <2>1, <3>2 DEF Alters
  <2>2. QED BY <1>5, <2>1, RefusedType DEF Load, Refused
<1>6. CASE InitAdmins
  BY <1>3, <1>6 DEF InitAdmins, Alters, TypeOK, Database
<1>7. CASE InitTables
  <2>1. CASE Refused("001_tables") BY <2>1, RefusedType DEF Refused
  <2>2. QED BY <1>3, <1>7, <2>1 DEF InitTables, Alters, TypeOK, Database
<1>8. CASE BetaDrop
  BY <1>3, <1>8 DEF BetaDrop, Alters, TypeOK, Database
<1>9. CASE BetaLook
  <2>1. /\ Running /\ Current = "003_look"
        /\ UNCHANGED <<db, backup, backend, req, tokens, count>>
    BY <1>9 DEF BetaLook, Current
  <2> DEFINE late == \E r \in Rows : r.status \notin BetaStatuses
  <2>2. script' = [script EXCEPT !.at = @ + 1, !.late = late] BY <1>9 DEF BetaLook
  <2>3. late \in BOOLEAN OBVIOUS
  <2> HIDE DEF late
  <2>4. script.at + 1 \in 1..Len(Steps(script.name))
    BY <2>1, Order DEF ScriptOK, Current
  <2>5. script.at + 1 \in Nat BY <2>4 DEF TypeOK, Script
  <2>6. script' \in Script BY <2>2, <2>3, <2>5 DEF TypeOK, Script
  <2>7. script'.at = script.at + 1 /\ script'.name = script.name
    BY <2>2 DEF TypeOK, Script
  <2>8. QED BY <2>1, <2>4, <2>6, <2>7 DEF TypeOK, ScriptOK
<1>10. CASE BetaAdd
  <2>1. CASE Refused("003_add") BY <2>1, RefusedType DEF Refused
  <2>2. QED BY <1>3, <1>10, <2>1 DEF BetaAdd, Alters, TypeOK, Database
<1>11. CASE AddColumns
  <2>1. CASE Refused("004_columns") BY <2>1, RefusedType DEF Refused
  <2>2. QED BY <1>3, <1>11, <2>1 DEF AddColumns, Alters, TypeOK, Database
<1>12. CASE Drops
  BY <1>3, <1>12 DEF Drops, DropNamed, DropInline, Alters, TypeOK, Database
<1>13. CASE UpdateRows
  <2>1. CASE Refused("005_update") BY <2>1, RefusedType DEF Refused
  <2>2. CASE Convert("004_update") \/ Convert("005_update")
    <3> DEFINE rows == [s \in SessionIds |-> IF db.sessions[s] = None THEN None
                                             ELSE Converted(db.sessions[s])]
    <3>1. db' = [db EXCEPT !.sessions = rows] /\ Running /\ Proceed /\ UNCHANGED <<backend, req>>
      BY <2>2 DEF Convert, Alters
    <3>2. rows \in [SessionIds -> SessionRow \cup {None}]
      BY ConvertedRow DEF TypeOK, Database
    <3> HIDE DEF rows
    <3>3. db' \in Database BY <3>1, <3>2 DEF TypeOK, Database
    <3>4. QED BY <1>3, <3>1, <3>3
  <2>3. QED BY <1>13, <2>1, <2>2 DEF UpdateRows
<1>14. CASE AddCheck("004_add") \/ AddCheck("005_add")
  <2>1. CASE Refused("004_add") \/ Refused("005_add") BY <2>1, RefusedType DEF Refused
  <2>2. QED BY <1>3, <1>14, <2>1 DEF AddCheck, Alters, TypeOK, Database
<1>15. CASE AddUnique
  <2>1. CASE Refused("004_unique") BY <2>1, RefusedType DEF Refused
  <2>2. QED BY <1>3, <1>15, <2>1 DEF AddUnique, Alters, TypeOK
<1>16. CASE CreateAdmins
  BY <1>3, <1>16 DEF CreateAdmins, Alters, TypeOK, Database
<1>17. QED
  BY <1>1, <1>2, <1>4, <1>5, <1>6, <1>7, <1>8, <1>9, <1>10, <1>11, <1>12, <1>13, <1>14, <1>15,
     <1>16 DEF ScriptStep, Drops

\* What a handler stores is a row of the product's model if what it found was.
LEMMA StoredRow ==
  ASSUME NEW s \in SessionIds, db.sessions[s] \in SessionRow \cup {None}, StoreSession(s)
  PROVE  \E row \in SessionRow :
           /\ Store(s, row)
           /\ db.sessions[s] = None \/ GoodRow(db.sessions[s]) => GoodRow(row)
<1> USE DEF GoodRow
<1>1. CASE db.sessions[s] = None
  <2> DEFINE row == [status |-> "created", revoked |-> "null", output |-> None, stream |-> None]
  <2>1. row \in SessionRow BY DEF SessionRow, Statuses
  <2>2. Store(s, row) BY <1>1 DEF StoreSession
  <2>3. GoodRow(row) BY DEF Statuses
  <2>4. QED BY <2>1, <2>2, <2>3
<1>2. ASSUME db.sessions[s] # None, NEW status \in Statuses, Store(s, Moved(db.sessions[s], status))
      PROVE  \E row \in SessionRow :
               /\ Store(s, row)
               /\ db.sessions[s] = None \/ GoodRow(db.sessions[s]) => GoodRow(row)
  <2> DEFINE row == Moved(db.sessions[s], status)
  <2>1. row \in SessionRow /\ row.status = status /\ (status = "revoked" => row.revoked = "set")
    BY <1>2 DEF Moved, SessionRow
  <2>2. QED BY <1>2, <2>1
<1>3. ASSUME db.sessions[s] # None, NEW t \in StreamIds \cup {None},
             Store(s, [db.sessions[s] EXCEPT !.stream = t])
      PROVE  \E row \in SessionRow :
               /\ Store(s, row)
               /\ db.sessions[s] = None \/ GoodRow(db.sessions[s]) => GoodRow(row)
  <2> DEFINE row == [db.sessions[s] EXCEPT !.stream = t]
  <2>1. /\ row \in SessionRow
        /\ row.status = db.sessions[s].status /\ row.revoked = db.sessions[s].revoked
    BY <1>3 DEF SessionRow
  <2>2. QED BY <1>3, <2>1
<1>4. QED BY <1>1, <1>2, <1>3 DEF StoreSession

\* What the backend serves leaves the script and the dump alone.
LEMMA BackendStepType ==
  ASSUME TypeOK, Serves, BackendStep
  PROVE  TypeOK' /\ UNCHANGED <<backup, script>>
<1> USE DEF TypeOK
<1>1. ASSUME NEW k \in {"requests"}, Counts(k, MaxRequests)
      PROVE  count' \in [scripts: 0..MaxScripts, requests: 0..MaxRequests]
  BY <1>1, DeploymentAssumption DEF Counts
<1>2. CASE StartBackend
  <2>1. PICK n \in Names \cup {None} :
          /\ backend' = [stage |-> "up", setting |-> n]
          /\ \/ UNCHANGED db
             \/ Bootstraps(n) /\ \E i \in AdminIds : db' = [db EXCEPT !.admins = {<<n, i>>}]
    BY <1>2 DEF StartBackend
  <2>2. backend' \in Backend BY <2>1 DEF Backend
  <2>3. db' \in Database BY <2>1 DEF Database, AdminUser, Bootstraps
  <2>4. QED BY <1>2, <2>2, <2>3 DEF StartBackend
<1>3. CASE CrashBackend
  BY <1>3, IdleType DEF CrashBackend, Backend
<1>4. ASSUME NEW w \in Workers, NEW n \in Names, Login(w, n) PROVE TypeOK' /\ UNCHANGED <<backup, script>>
  BY <1>1, <1>4 DEF Login, Request
<1>5. ASSUME NEW w \in Workers, InsertAdmin(w) PROVE TypeOK' /\ UNCHANGED <<backup, script>>
  <2>1. backend.setting \in Names BY <1>5 DEF InsertAdmin, Handles, Serves, Backend
  <2>2. db' \in Database BY <1>5, <2>1 DEF InsertAdmin, Database, AdminUser
  <2>3. QED BY <1>5, <2>2 DEF InsertAdmin, Request, IdleRequest
<1>6. ASSUME NEW w \in Workers, VerifyLogin(w) PROVE TypeOK' /\ UNCHANGED <<backup, script>>
  BY <1>6 DEF VerifyLogin, Request, IdleRequest
<1>7. ASSUME NEW w \in Workers, Respond(w) PROVE TypeOK' /\ UNCHANGED <<backup, script>>
  BY <1>7 DEF Respond, Request, IdleRequest
<1>8. ASSUME NEW w \in Workers, NEW i \in AdminIds, Authorize(w, i)
      PROVE  TypeOK' /\ UNCHANGED <<backup, script>>
  BY <1>1, <1>8 DEF Authorize, Request
<1>9. ASSUME NEW s \in SessionIds, StoreSession(s) PROVE TypeOK' /\ UNCHANGED <<backup, script>>
  <2>1. PICK row \in SessionRow : Store(s, row)
    BY <1>9, StoredRow DEF Database
  <2>2. db' \in Database BY <2>1 DEF Store, Database
  <2>3. QED BY <1>1, <2>1, <2>2 DEF Store
<1>10. QED BY <1>2, <1>3, <1>4, <1>5, <1>6, <1>7, <1>8, <1>9 DEF BackendStep

LEMMA TypeStep ==
  ASSUME TypeOK, ScriptOK, Serves, [Next]_vars
  PROVE  TypeOK' /\ ScriptOK'
<1>1. ASSUME NEW name \in Scripts, Begin(name) PROVE TypeOK' /\ ScriptOK'
  <2>1. script' = [name |-> name, at |-> 1, result |-> "running", late |-> FALSE]
    BY <1>1 DEF Begin
  <2>2. script' \in Script BY <2>1 DEF Script, Scripts
  <2>3. count' \in [scripts: 0..MaxScripts, requests: 0..MaxRequests]
    BY <1>1, DeploymentAssumption DEF Begin, Counts, TypeOK
  <2>4. TypeOK' BY <1>1, <2>2, <2>3 DEF Begin, TypeOK
  <2>5. ScriptOK' BY <1>1, <2>1, First DEF Begin, ScriptOK
  <2>6. QED BY <2>4, <2>5
<1>2. CASE ScriptStep BY <1>2, ScriptStepType
<1>3. CASE Interrupt
  BY <1>3 DEF Interrupt, NoScript, Script, TypeOK, ScriptOK, Running
<1>4. CASE Backup
  BY <1>4, DeploymentAssumption DEF Backup, TypeOK, ScriptOK, Running
<1>5. CASE BackendStep
  BY <1>5, BackendStepType DEF ScriptOK, Running
<1>6. CASE UNCHANGED vars BY <1>6 DEF vars, TypeOK, ScriptOK, Running
<1>7. QED BY <1>1, <1>2, <1>3, <1>4, <1>5, <1>6 DEF Next, Scripts

LEMMA TypeInit == ASSUME Init PROVE TypeOK /\ ScriptOK
<1>1. db \in Database
  <2>1. ASSUME NEW rows \in [SessionIds -> BetaRow \cup {None}], NEW twins \in BOOLEAN
        PROVE  Beta(rows, twins) \in Database
    <3>1. rows \in [SessionIds -> SessionRow \cup {None}] BY DEF BetaRow
    <3>2. QED BY <3>1 DEF Beta, Empty, Database
  <2>2. QED BY <2>1, EmptyType DEF Init
<1>2. script \in Script BY DEF Init, NoScript, Script
<1>3. req \in [Workers -> Request] BY IdleType DEF Init
<1>4. count \in [scripts: 0..MaxScripts, requests: 0..MaxRequests]
  BY DeploymentAssumption DEF Init
<1>5. TypeOK BY <1>1, <1>2, <1>3, <1>4 DEF Init, TypeOK, Stopped, Backend
<1>6. ScriptOK BY DEF Init, NoScript, ScriptOK, Running
<1>7. QED BY <1>5, <1>6

---------------------------------------------------------------------------
(* What the steps find, and what the scripts leave behind                  *)

LEMMA Proceeds ==
  ASSUME TypeOK, ScriptOK, Running, Proceed
  PROVE  /\ script'.name = script.name
         /\ \/ /\ script'.result = "done"
               /\ Current = IF script.name = "restore" THEN "003_add" ELSE "006"
            \/ script'.result = "running" /\ Precedes(Current, Current')
BY Goes DEF TypeOK, Proceed, Running

LEMMA SameRows ==
  ASSUME db'.sessions = db.sessions
  PROVE  GoodRows' <=> GoodRows
BY DEF GoodRows

\* A statement that is refused changes nothing; before 003 has dropped the beta's
\* check, and after it was put back, only statements are refused that find no product.
LEMMA RefusedLeaves ==
  ASSUME TypeOK, script' = Ended("refused"), UNCHANGED db,
         script.name = "restore" \/ ~Product \/ db.inline # "beta"
  PROVE  Finds' /\ Leaves'
<1>1. script'.result = "refused" /\ script'.name = script.name
  BY EndedScript DEF TypeOK
<1>2. Finds' BY <1>1 DEF Finds, Doing, Running
<1>3. Leaves' BY <1>1 DEF Leaves, Product
<1>4. QED BY <1>2, <1>3

LEMMA ScriptStepFinds ==
  ASSUME SchemaInv, ScriptStep
  PROVE  Finds' /\ Leaves'
<1>1. TypeOK /\ ScriptOK /\ Finds BY DEF SchemaInv
<1>2. ASSUME NEW step, At(step) PROVE Running /\ Current = step
  BY <1>2 DEF At, Running, Current
<1>3. ASSUME Running, Proceed, Current \notin {"003_add", "006"}
      PROVE  script'.result = "running" /\ Precedes(Current, Current') /\ Leaves'
  BY <1>1, <1>3, Proceeds DEF Leaves
<1>4. ASSUME Running, Proceed, Current \in {"start", "001_admins", "001_tables", "load"}
      PROVE  Finds' /\ Leaves'
  BY <1>3, <1>4 DEF Finds, Doing, Precedes
<1>5. CASE ComposeUp
  <2>1. Running /\ Proceed /\ Current = "start" BY <1>2, <1>5 DEF ComposeUp
  <2>2. QED BY <1>4, <2>1
<1>6. CASE ComposeStop
  <2>1. Running /\ Proceed /\ Current = "stop" /\ backend' = Stopped
    BY <1>2, <1>6 DEF ComposeStop
  <2>2. QED BY <1>3, <2>1 DEF Finds, Doing, Precedes
<1>7. CASE DropSchema
  <2>1. Running /\ Proceed /\ Current = "drop" /\ backend' = backend /\ db' = Empty
    BY <1>2, <1>7 DEF DropSchema, Alters
  <2>2. backend = Stopped BY <1>1, <2>1 DEF Finds, Doing
  <2>3. QED BY <1>3, <2>1, <2>2 DEF Finds, Doing, Precedes
<1>8. CASE Load
  <2>1. Running /\ Current = "load" BY <1>2, <1>8 DEF Load, Alters, Refused
  <2>2. CASE Alters("load", backup) BY <1>4, <2>1, <2>2 DEF Alters
  <2>3. CASE Refused("load")
    <3>1. script.name = "restore" BY <1>1, <2>1, Order DEF ScriptOK, Current
    <3>2. QED BY <1>1, <2>3, <3>1, RefusedLeaves DEF Refused
  <2>4. QED BY <1>8, <2>2, <2>3 DEF Load
<1>9. CASE InitAdmins
  <2>1. Running /\ Proceed /\ Current = "001_admins" BY <1>2, <1>9 DEF InitAdmins, Alters
  <2>2. QED BY <1>4, <2>1
<1>10. CASE InitTables
  <2>1. Running /\ Current = "001_tables" BY <1>2, <1>10 DEF InitTables, Alters, Refused
  <2>2. CASE Proceed BY <1>4, <2>1, <2>2
  <2>3. CASE db.age = "beta" /\ Refused("001_tables")
    BY <1>1, <2>3, RefusedLeaves DEF Refused, Product
  <2>4. QED BY <1>10, <2>2, <2>3 DEF InitTables, Alters
<1>11. CASE BetaDrop
  <2>1. Running /\ Proceed /\ Current = "003_drop" BY <1>2, <1>11 DEF BetaDrop, Alters
  <2>2. db'.inline = "none" BY <1>1, <1>11 DEF BetaDrop, Alters, TypeOK, Database
  <2>3. QED BY <1>3, <2>1, <2>2 DEF Finds, Doing, Precedes
<1>12. CASE BetaLook
  <2>1. Running /\ Current = "003_look" /\ db' = db BY <1>2, <1>12 DEF BetaLook
  <2>2. /\ script'.result = "running" /\ script'.name = script.name
        /\ script'.at = script.at + 1
    BY <1>1, <1>12, <2>1 DEF BetaLook, TypeOK, Script, Running
  <2>3. Precedes(Current, Current')
    BY <1>1, <2>1, <2>2, Order DEF ScriptOK, Current
  <2>4. db'.inline = "none" BY <1>1, <2>1 DEF Finds, Doing
  <2>5. Finds' BY <2>1, <2>3, <2>4 DEF Finds, Doing, Precedes
  <2>6. QED BY <2>2, <2>5 DEF Leaves
<1>13. CASE BetaAdd
  <2>1. Running /\ Current = "003_add" BY <1>2, <1>13 DEF BetaAdd, Alters, Refused
  <2>2. CASE Proceed
    <3>1. \/ script'.result = "done" /\ script'.name = "restore"
          \/ script'.result = "running" /\ Precedes(Current, Current')
      BY <1>1, <2>1, <2>2, Proceeds
    <3>2. QED BY <2>1, <3>1 DEF Finds, Leaves, Doing, Running, Precedes
  <2>3. CASE Refused("003_add")
    <3>1. db.inline # "beta" BY <1>1, <2>1 DEF Finds, Doing
    <3>2. QED BY <1>1, <2>3, <3>1, RefusedLeaves DEF Refused
  <2>4. QED BY <1>13, <2>2, <2>3 DEF BetaAdd, Alters
<1>14. CASE AddColumns
  <2>1. Running /\ Current = "004_columns" BY <1>2, <1>14 DEF AddColumns, Alters, Refused
  <2>2. CASE db.age = "empty" /\ Refused("004_columns")
    BY <1>1, <2>2, RefusedLeaves DEF Refused, Product
  <2>3. CASE db.age # "empty" /\ Proceed
    <3>1. Product' BY <1>1, <1>14, <2>3 DEF AddColumns, Alters, Refused, TypeOK, Database, Product
    <3>2. QED BY <1>3, <2>1, <2>3, <3>1 DEF Finds, Doing, Precedes
  <2>4. QED BY <1>14, <2>2, <2>3 DEF AddColumns, Alters
<1>15. CASE Drops
  <2>1. PICK step \in Dropping : Alters(step, db')
    BY <1>15 DEF Drops, Dropping, DropNamed, DropInline, Alters
  <2>2. Running /\ Proceed /\ Current = step BY <1>2, <2>1 DEF Alters
  <2>3. /\ Product
        /\ step \in {"005_inline", "005_named"} => db.inline = "none" /\ GoodRows
        /\ step = "004_inline" => db.named = "none"
    BY <1>1, <2>1, <2>2 DEF Dropping, Finds, Doing
  <2>4. /\ db'.age = db.age /\ db'.sessions = db.sessions
        /\ step \in {"004_named", "005_named"} => db'.named = "none" /\ db'.inline = db.inline
        /\ step \in {"004_inline", "005_inline"} => db'.inline = "none" /\ db'.named = db.named
    <3>1. CASE DropNamed("004_named") \/ DropNamed("005_named")
      BY <1>1, <1>2, <2>2, <3>1 DEF DropNamed, Alters, TypeOK, Database
    <3>2. CASE DropInline("004_inline") \/ DropInline("005_inline")
      BY <1>1, <1>2, <2>2, <3>2 DEF DropInline, Alters, TypeOK, Database
    <3>3. QED BY <1>15, <3>1, <3>2 DEF Drops
  <2>5. Product' /\ (step \in {"005_inline", "005_named"} => GoodRows')
    BY <2>3, <2>4, SameRows DEF Product
  <2>6. QED BY <1>3, <2>2, <2>3, <2>4, <2>5 DEF Dropping, Finds, Doing, Precedes
<1>16. ASSUME NEW step \in {"004_update", "005_update"}, Convert(step) PROVE Finds' /\ Leaves'
  <2>1. Running /\ Proceed /\ Current = step BY <1>2, <1>16 DEF Convert, Alters
  <2>2. Product /\ db.inline = "none" /\ db.named = "none" BY <1>1, <2>1 DEF Finds, Doing
  <2>3. /\ db'.inline = db.inline /\ db'.named = db.named /\ db'.age = db.age
        /\ \A s \in SessionIds : db'.sessions[s] = IF db.sessions[s] = None THEN None
                                                   ELSE Converted(db.sessions[s])
    BY <1>1, <1>16 DEF Convert, Alters, TypeOK, Database
  <2>4. GoodRows' BY <1>1, <2>3, ConvertedRow DEF GoodRows, TypeOK, Database
  <2>5. Product' BY <2>2, <2>3 DEF Product
  <2>6. QED BY <1>3, <2>1, <2>2, <2>3, <2>4, <2>5 DEF Finds, Doing, Precedes
<1>17. CASE UpdateRows
  <2>1. CASE Refused("005_update")
    <3>1. db.inline # "beta" BY <1>1, <1>2, <2>1 DEF Refused, Finds, Doing
    <3>2. QED BY <1>1, <2>1, <3>1, RefusedLeaves DEF Refused
  <2>2. QED BY <1>16, <1>17, <2>1 DEF UpdateRows
<1>18. ASSUME NEW step \in {"004_add", "005_add"}, AddCheck(step) PROVE Finds' /\ Leaves'
  <2>1. Running /\ Current = step BY <1>2, <1>18 DEF AddCheck, Alters, Refused
  <2>2. Product /\ db.inline = "none" /\ GoodRows BY <1>1, <2>1 DEF Finds, Doing
  <2>3. CASE Refused(step) BY <1>1, <2>2, <2>3, RefusedLeaves DEF Refused
  <2>4. CASE Alters(step, [db EXCEPT !.named = "product"])
    <3>1. /\ db'.named = "product" /\ db'.inline = db.inline
          /\ db'.age = db.age /\ db'.sessions = db.sessions
      BY <1>1, <2>4 DEF Alters, TypeOK, Database
    <3>2. Product' /\ GoodRows' BY <2>2, <3>1, SameRows DEF Product
    <3>3. QED BY <1>3, <2>1, <2>2, <2>4, <3>1, <3>2 DEF Alters, Finds, Doing, Precedes
  <2>5. QED BY <1>18, <2>3, <2>4 DEF AddCheck
<1>19. CASE AddUnique
  <2>1. Running /\ Current = "004_unique" BY <1>2, <1>19 DEF AddUnique, Alters, Refused
  <2>2. Product /\ db.inline = "none" /\ GoodRows BY <1>1, <2>1 DEF Finds, Doing
  <2>3. CASE Refused("004_unique") BY <1>1, <2>2, <2>3, RefusedLeaves DEF Refused
  <2>4. CASE Alters("004_unique", db)
    <3>1. Proceed /\ db' = db BY <2>4 DEF Alters
    <3>2. Product' /\ db'.inline = "none" /\ GoodRows' BY <2>2, <3>1, SameRows DEF Product
    <3>3. QED BY <1>3, <2>1, <3>1, <3>2 DEF Finds, Doing, Precedes
  <2>5. QED BY <1>19, <2>3, <2>4 DEF AddUnique
<1>20. CASE CreateAdmins
  <2>1. Running /\ Proceed /\ Current = "006" BY <1>2, <1>20 DEF CreateAdmins, Alters
  <2>2. Product /\ db.inline = "none" /\ db.named = "product" /\ GoodRows
    BY <1>1, <2>1 DEF Finds, Doing
  <2>3. /\ db'.hasAdmins /\ db'.named = db.named /\ db'.inline = db.inline
        /\ db'.age = db.age /\ db'.sessions = db.sessions
    BY <1>1, <1>20 DEF CreateAdmins, Alters, TypeOK, Database
  <2>4. Product' /\ GoodRows' BY <2>2, <2>3, SameRows DEF Product
  <2>5. \/ script'.result = "done"
        \/ script'.result = "running" /\ Precedes(Current, Current')
    BY <1>1, <2>1, Proceeds
  <2>6. Finds' BY <2>1, <2>5 DEF Finds, Doing, Running, Precedes
  <2>7. Leaves' BY <2>2, <2>3, <2>4, <2>5 DEF Leaves
  <2>8. QED BY <2>6, <2>7
<1>21. QED
  BY <1>5, <1>6, <1>7, <1>8, <1>9, <1>10, <1>11, <1>12, <1>13, <1>14, <1>15, <1>17, <1>18,
     <1>19, <1>20 DEF SchemaInv, ScriptStep, Drops

\* A handler stores rows of the product and adds administrators, when the backend
\* runs; it does not touch the schema.
LEMMA BackendKeepsSchema ==
  ASSUME TypeOK, BackendStep
  PROVE  /\ script' = script
         /\ backend = Stopped => UNCHANGED <<db, backend>>
         /\ db'.age = db.age /\ db'.inline = db.inline /\ db'.named = db.named
         /\ db'.hasAdmins = db.hasAdmins
         /\ GoodRows => GoodRows'
<1>1. CASE StartBackend
  <2>1. backend # Stopped /\ script' = script BY <1>1 DEF StartBackend, Stopped
  <2>2. \/ UNCHANGED db
        \/ \E n \in Names \cup {None}, i \in AdminIds : db' = [db EXCEPT !.admins = {<<n, i>>}]
    BY <1>1 DEF StartBackend
  <2>3. /\ db'.age = db.age /\ db'.inline = db.inline /\ db'.named = db.named
        /\ db'.hasAdmins = db.hasAdmins /\ db'.sessions = db.sessions
    BY <2>2 DEF TypeOK, Database
  <2>4. QED BY <2>1, <2>3, SameRows
<1>2. CASE CrashBackend
  BY <1>2, SameRows DEF CrashBackend, Stopped
<1>3. ASSUME NEW w \in Workers, NEW n \in Names, Login(w, n)
      PROVE  UNCHANGED <<db, backend, script>>
  BY <1>3 DEF Login
<1>4. ASSUME NEW w \in Workers, InsertAdmin(w)
      PROVE  /\ script' = script /\ backend # Stopped
             /\ db'.age = db.age /\ db'.inline = db.inline /\ db'.named = db.named
             /\ db'.hasAdmins = db.hasAdmins /\ db'.sessions = db.sessions
  BY <1>4 DEF InsertAdmin, Handles, Stopped, TypeOK, Database
<1>5. ASSUME NEW w \in Workers, VerifyLogin(w) \/ Respond(w) \/ \E i \in AdminIds : Authorize(w, i)
      PROVE  UNCHANGED <<db, backend, script>>
  BY <1>5 DEF VerifyLogin, Respond, Authorize
<1>6. ASSUME NEW s \in SessionIds, StoreSession(s)
      PROVE  /\ script' = script /\ backend # Stopped
             /\ db'.age = db.age /\ db'.inline = db.inline /\ db'.named = db.named
             /\ db'.hasAdmins = db.hasAdmins
             /\ GoodRows => GoodRows'
  <2>1. PICK row \in SessionRow :
          /\ Store(s, row)
          /\ db.sessions[s] = None \/ GoodRow(db.sessions[s]) => GoodRow(row)
    BY <1>6, StoredRow DEF TypeOK, Database
  <2>2. /\ db' = [db EXCEPT !.sessions = [db.sessions EXCEPT ![s] = row]]
        /\ script' = script /\ backend # Stopped
    BY <2>1 DEF Store, Stopped
  <2>3. /\ db'.age = db.age /\ db'.inline = db.inline /\ db'.named = db.named
        /\ db'.hasAdmins = db.hasAdmins
        /\ db'.sessions = [db.sessions EXCEPT ![s] = row]
    BY <2>2 DEF TypeOK, Database
  <2>4. ASSUME GoodRows PROVE GoodRows'
    BY <2>1, <2>3, <2>4 DEF GoodRows, TypeOK, Database
  <2>5. QED BY <2>2, <2>3, <2>4
<1>7. QED BY <1>1, <1>2, <1>3, <1>4, <1>5, <1>6, SameRows DEF BackendStep

LEMMA FindsStep ==
  ASSUME SchemaInv, [Next]_vars
  PROVE  Finds' /\ Leaves'
<1> USE DEF SchemaInv
<1>1. ASSUME NEW name \in Scripts, Begin(name) PROVE Finds' /\ Leaves'
  <2>1. script'.result = "running" /\ script'.name = name /\ script'.at = 1
    BY <1>1 DEF Begin
  <2>2. Current' \in {"start", "004_columns", "stop"} BY <2>1, First DEF Current
  <2>3. QED BY <2>1, <2>2 DEF Finds, Leaves, Doing
<1>2. CASE ScriptStep BY <1>2, ScriptStepFinds
<1>3. CASE Interrupt
  <2>1. script'.result = "none" BY <1>3 DEF Interrupt, NoScript
  <2>2. QED BY <2>1 DEF Finds, Leaves, Doing, Running
<1>4. ASSUME UNCHANGED <<db, script, backend>> PROVE Finds' /\ Leaves'
  BY <1>4 DEF Finds, Leaves, Doing, Running, Current, GoodRows, Product
<1>5. CASE Backup BY <1>4, <1>5 DEF Backup
<1>6. CASE BackendStep
  <2>1. /\ script' = script
        /\ backend = Stopped => UNCHANGED <<db, backend>>
        /\ Product' <=> Product
        /\ db'.inline = db.inline /\ db'.named = db.named /\ db'.hasAdmins = db.hasAdmins
        /\ GoodRows => GoodRows'
    BY <1>6, BackendKeepsSchema DEF Product
  <2>2. (Running' <=> Running) /\ Current' = Current BY <2>1 DEF Running, Current
  <2>3. Finds' BY <2>1, <2>2 DEF Finds, Doing
  <2>4. Leaves' BY <2>1 DEF Leaves
  <2>5. QED BY <2>3, <2>4
<1>7. CASE UNCHANGED vars BY <1>4, <1>7 DEF vars
<1>8. QED BY <1>1, <1>2, <1>3, <1>5, <1>6, <1>7 DEF Next, Scripts

---------------------------------------------------------------------------
(* Administrators                                                          *)

\* The database loses or changes administrators only while the backend is stopped.
LEMMA ScriptStepKeeps ==
  ASSUME SchemaInv, ScriptStep
  PROVE  /\ backup' = backup
         /\ \/ db'.admins = db.admins
            \/ /\ backend = Stopped /\ backend' = Stopped /\ req' = req
               /\ db'.admins = {} \/ (backup # None /\ db'.admins = backup.admins)
         /\ \/ req' = req /\ (backend' = backend \/ backend.stage = "stopped")
            \/ \A w \in Workers : req'[w] = IdleRequest
<1>1. TypeOK /\ ScriptOK /\ Finds BY DEF SchemaInv
<1>2. ASSUME NEW step, At(step) PROVE Running /\ Current = step
  BY <1>2 DEF At, Running, Current
<1>3. CASE ComposeUp BY <1>3 DEF ComposeUp, Proceed
<1>4. CASE ComposeStop BY <1>4 DEF ComposeStop, Proceed
<1>5. CASE DropSchema
  <2>1. backend = Stopped BY <1>1, <1>2, <1>5 DEF DropSchema, Alters, Finds, Doing
  <2>2. Empty.admins = {} BY DEF Empty
  <2>3. db' = Empty /\ backup' = backup /\ backend' = backend /\ req' = req
    BY <1>5 DEF DropSchema, Alters, Proceed
  <2>4. db'.admins = {} /\ backend' = Stopped BY <2>1, <2>2, <2>3
  <2>5. QED BY <2>1, <2>3, <2>4
<1>6. CASE Load
  <2>1. Running /\ Current = "load" BY <1>2, <1>6 DEF Load, Alters, Refused
  <2>2. backend = Stopped /\ backup # None
    BY <1>1, <2>1, Order DEF Finds, Doing, ScriptOK, Current
  <2>3. QED BY <1>6, <2>2 DEF Load, Alters, Refused, Proceed
<1>7. CASE InitAdmins BY <1>1, <1>7 DEF InitAdmins, Alters, Proceed, TypeOK, Database
<1>8. CASE InitTables
  BY <1>1, <1>8 DEF InitTables, Alters, Proceed, Refused, TypeOK, Database
<1>9. CASE BetaDrop BY <1>1, <1>9 DEF BetaDrop, Alters, Proceed, TypeOK, Database
<1>10. CASE BetaLook BY <1>10 DEF BetaLook
<1>11. CASE BetaAdd
  BY <1>1, <1>11 DEF BetaAdd, Alters, Proceed, Refused, TypeOK, Database
<1>12. CASE AddColumns
  BY <1>1, <1>12 DEF AddColumns, Alters, Proceed, Refused, TypeOK, Database
<1>13. CASE Drops
  BY <1>1, <1>13 DEF Drops, DropNamed, DropInline, Alters, Proceed, TypeOK, Database
<1>14. CASE UpdateRows
  BY <1>1, <1>14 DEF UpdateRows, Convert, Alters, Proceed, Refused, TypeOK, Database
<1>15. CASE AddCheck("004_add") \/ AddCheck("005_add")
  BY <1>1, <1>15 DEF AddCheck, Alters, Proceed, Refused, TypeOK, Database
<1>16. CASE AddUnique BY <1>16 DEF AddUnique, Alters, Proceed, Refused
<1>17. CASE CreateAdmins
  BY <1>1, <1>17 DEF CreateAdmins, Alters, Proceed, TypeOK, Database
<1>18. QED
  BY <1>3, <1>4, <1>5, <1>6, <1>7, <1>8, <1>9, <1>10, <1>11, <1>12, <1>13, <1>14, <1>15,
     <1>16, <1>17 DEF ScriptStep, Drops

\* While the backend is stopped nobody is served.
LEMMA StoppedIdle ==
  ASSUME Serves, backend.stage # "up", NEW w \in Workers
  PROVE  req[w] = IdleRequest
BY DEF Serves

LEMMA ServesStep ==
  ASSUME SchemaInv, Serves, OneAdmin, AuthorizedIsAdmin, [Next]_vars
  PROVE  Serves' /\ OneAdmin' /\ AuthorizedIsAdmin'
<1> USE DEF Serves, OneAdmin, AuthorizedIsAdmin
<1>1. TypeOK BY DEF SchemaInv
<1>2. IdleRequest.stage = "idle" BY DEF IdleRequest
<1>3. CASE ScriptStep
  <2>1. /\ backup' = backup
        /\ \/ db'.admins = db.admins
           \/ /\ backend = Stopped /\ backend' = Stopped /\ req' = req
              /\ db'.admins = {} \/ (backup # None /\ db'.admins = backup.admins)
        /\ \/ req' = req /\ (backend' = backend \/ backend.stage = "stopped")
           \/ \A w \in Workers : req'[w] = IdleRequest
    BY <1>3, ScriptStepKeeps
  <2>2. CASE \A w \in Workers : req'[w] = IdleRequest BY <1>2, <2>1, <2>2
  <2>3. CASE backend = Stopped
    BY <1>2, <2>1, <2>3, StoppedIdle DEF Stopped
  <2>4. CASE backend.stage = "stopped" /\ db'.admins = db.admins
    BY <1>2, <2>1, <2>4, StoppedIdle
  <2>5. QED BY <2>1, <2>2, <2>3, <2>4
<1>4. CASE StartBackend
  <2>1. PICK n \in Names \cup {None} :
          \/ UNCHANGED db
          \/ \E i \in AdminIds : db' = [db EXCEPT !.admins = {<<n, i>>}]
    BY <1>4 DEF StartBackend
  <2>2. \A a, b \in db'.admins : a = b BY <1>1, <2>1 DEF TypeOK, Database
  <2>3. UNCHANGED <<backup, req>> BY <1>4 DEF StartBackend
  <2>4. \A w \in Workers : req'[w] = IdleRequest BY <1>4, <2>3, StoppedIdle DEF StartBackend
  <2>5. QED BY <1>2, <2>2, <2>3, <2>4
<1>5. CASE CrashBackend BY <1>2, <1>5 DEF CrashBackend
<1>6. ASSUME NEW w \in Workers, NEW n \in Names, Login(w, n)
      PROVE  Serves' /\ OneAdmin' /\ AuthorizedIsAdmin'
  <2>1. /\ req' = [req EXCEPT ![w] = [stage |-> IF Bootstraps(backend.setting) THEN "insert" ELSE "verify",
                                      name |-> n, admin |-> None]]
        /\ UNCHANGED <<db, backup, backend>> /\ backend.stage = "up"
    BY <1>6 DEF Login, Handles
  <2>2. Bootstraps(backend.setting) => db.admins = {} /\ backend.setting # None
    BY DEF Bootstraps
  <2>3. QED BY <1>1, <2>1, <2>2 DEF TypeOK
<1>7. ASSUME NEW w \in Workers, InsertAdmin(w)
      PROVE  Serves' /\ OneAdmin' /\ AuthorizedIsAdmin'
  <2>1. /\ backend.stage = "up" /\ req[w].stage = "insert" /\ UNCHANGED <<backup, backend>>
        /\ \A a \in db.admins : a[1] = backend.setting
    BY <1>7 DEF InsertAdmin, Handles
  <2>2. CASE UNCHANGED db
    <3>1. /\ \A v \in Workers \ {w} : req'[v] = req[v]
          /\ req'[w].stage \in {"idle", "verify"}
      BY <1>1, <1>2, <1>7 DEF InsertAdmin, TypeOK, Request
    <3>2. QED BY <2>1, <2>2, <3>1
  <2>3. CASE ~UNCHANGED db
    <3>1. PICK i \in AdminIds : db' = [db EXCEPT !.admins = @ \cup {<<backend.setting, i>>}]
      BY <1>7, <2>3 DEF InsertAdmin
    <3>2. \A j \in AdminIds : <<backend.setting, j>> \notin db.admins
      BY <1>7, <2>3 DEF InsertAdmin
    <3>3. ASSUME NEW a \in db.admins PROVE FALSE
      <4>1. a \in Names \X AdminIds BY <1>1 DEF TypeOK, Database, AdminUser
      <4>2. a = <<backend.setting, a[2]>> /\ a[2] \in AdminIds BY <2>1, <4>1
      <4>3. QED BY <3>2, <4>2
    <3>4. db'.admins = {<<backend.setting, i>>} BY <1>1, <3>1, <3>3 DEF TypeOK, Database
    <3>5. req' = [req EXCEPT ![w].stage = "verify"] BY <1>7, <2>3 DEF InsertAdmin
    <3>6. Serves' BY <1>1, <2>1, <3>4, <3>5 DEF TypeOK, Request
    <3>7. \A v \in Workers : req'[v].stage # "admin"
      BY <1>1, <3>3, <3>5 DEF TypeOK, Request
    <3>8. QED BY <2>1, <3>4, <3>6, <3>7
  <2>4. QED BY <2>2, <2>3
<1>8. ASSUME NEW w \in Workers, VerifyLogin(w) \/ Respond(w)
      PROVE  Serves' /\ OneAdmin' /\ AuthorizedIsAdmin'
  BY <1>1, <1>2, <1>8 DEF VerifyLogin, Respond, TypeOK
<1>9. ASSUME NEW w \in Workers, NEW i \in AdminIds, Authorize(w, i)
      PROVE  Serves' /\ OneAdmin' /\ AuthorizedIsAdmin'
  BY <1>1, <1>9 DEF Authorize, Handles, ValidToken, TypeOK
<1>10. ASSUME UNCHANGED <<backend, req>>, db'.admins = db.admins,
              backup' = backup \/ backup' = db
       PROVE  Serves' /\ OneAdmin' /\ AuthorizedIsAdmin'
  BY <1>10
<1>11. ASSUME NEW s \in SessionIds, StoreSession(s)
       PROVE  Serves' /\ OneAdmin' /\ AuthorizedIsAdmin'
  <2>1. \E row \in SessionRow : Store(s, row) BY <1>1, <1>11, StoredRow DEF TypeOK, Database
  <2>2. db'.admins = db.admins BY <1>1, <2>1 DEF Store, TypeOK, Database
  <2>3. QED BY <1>10, <2>1, <2>2 DEF Store
<1>12. ASSUME NEW name \in Scripts, Begin(name) PROVE Serves' /\ OneAdmin' /\ AuthorizedIsAdmin'
  BY <1>10, <1>12 DEF Begin
<1>13. CASE Interrupt \/ Backup BY <1>10, <1>13 DEF Interrupt, Backup
<1>14. CASE UNCHANGED vars BY <1>10, <1>14 DEF vars
<1>15. QED
  BY <1>3, <1>4, <1>5, <1>6, <1>7, <1>8, <1>9, <1>11, <1>12, <1>13, <1>14
  DEF Next, BackendStep, Scripts

LEMMA InvInit == ASSUME Init PROVE OwnerInv
<1>1. TypeOK /\ ScriptOK BY TypeInit
<1>2. Finds /\ Leaves BY DEF Init, NoScript, Finds, Leaves, Doing, Running
<1>3. db.admins = {} /\ backup = None /\ \A w \in Workers : req[w].stage = "idle" /\ req[w] = IdleRequest
  <2>1. Empty.admins = {} BY DEF Empty
  <2>2. \A rows, twins : Beta(rows, twins).admins = {} BY DEF Beta, Empty
  <2>3. QED BY <2>1, <2>2 DEF Init, IdleRequest
<1>4. Serves /\ OneAdmin /\ AuthorizedIsAdmin BY <1>3 DEF Serves, OneAdmin, AuthorizedIsAdmin
<1>5. QED BY <1>1, <1>2, <1>4 DEF OwnerInv, SchemaInv

\* The invariant holds of every execution.
THEOREM DeploymentInvariant == Spec => []OwnerInv
<1>1. Init => OwnerInv BY InvInit
<1>2. OwnerInv /\ [Next]_vars => OwnerInv'
  <2> SUFFICES ASSUME OwnerInv, [Next]_vars PROVE OwnerInv' OBVIOUS
  <2>1. SchemaInv /\ TypeOK /\ ScriptOK /\ Serves /\ OneAdmin /\ AuthorizedIsAdmin
    BY DEF OwnerInv, SchemaInv
  <2>2. TypeOK' /\ ScriptOK' BY <2>1, TypeStep
  <2>3. Finds' /\ Leaves' BY <2>1, FindsStep
  <2>4. Serves' /\ OneAdmin' /\ AuthorizedIsAdmin' BY <2>1, ServesStep
  <2>5. QED BY <2>2, <2>3, <2>4 DEF OwnerInv, SchemaInv
<1>3. QED BY <1>1, <1>2, PTL DEF Spec

---------------------------------------------------------------------------
(* The properties of the runs                                              *)

\* The variables keep their types.
THEOREM TypeCorrect == Spec => []TypeOK
<1>1. OwnerInv => TypeOK BY DEF OwnerInv, SchemaInv
<1>2. QED BY <1>1, DeploymentInvariant, PTL

\* However often scripts were stopped before, and whatever the backend stored
\* meanwhile, an installation or an upgrade that ends well leaves the schema of
\* models.py: its last steps found no check but the one they wrote, and rows that
\* satisfy it.
THEOREM DoneLeavesModel == Spec => []DoneIsModel
<1>1. OwnerInv => DoneIsModel
  <2> SUFFICES ASSUME OwnerInv, script.result = "done", script.name # "restore"
               PROVE  /\ Product /\ db.hasAdmins
                      /\ Admitted = Statuses
                      /\ \A r \in Rows : r.status \in Statuses
                                         /\ (r.status = "revoked" => r.revoked = "set")
    BY DEF DoneIsModel
  <2>1. Product /\ db.hasAdmins /\ GoodRows /\ db.inline = "none" /\ db.named = "product"
    BY DEF OwnerInv, SchemaInv, Leaves
  <2>2. Admitted = Statuses BY <2>1 DEF Admitted
  <2>3. \A r \in Rows : GoodRow(r) BY <2>1 DEF Rows, GoodRows
  <2>4. QED BY <2>1, <2>2, <2>3 DEF GoodRow
<1>2. QED BY <1>1, DeploymentInvariant, PTL

\* One that the database refuses leaves every status of the product storable.
THEOREM RefusedLeavesStorable == Spec => []RefusedStoresAll
<1>1. OwnerInv => RefusedStoresAll
  BY DEF OwnerInv, SchemaInv, Leaves, RefusedStoresAll, Admitted
<1>2. QED BY <1>1, DeploymentInvariant, PTL

\* There are never two bootstrap administrators, in whatever order logins that
\* found none, restarts with other settings and restored dumps come.
THEOREM NeverTwoOwners == Spec => []OneOwner
<1>1. OwnerInv => OneOwner
  <2> SUFFICES ASSUME OwnerInv PROVE Cardinality(db.admins) <= 1 BY DEF OneOwner
  <2>1. CASE db.admins = {} BY <2>1, FS_EmptySet
  <2>2. CASE db.admins # {}
    <3>1. PICK a : a \in db.admins BY <2>2
    <3>2. db.admins = {a} BY <3>1 DEF OwnerInv, OneAdmin
    <3>3. QED BY <3>2, FS_Singleton
  <2>3. QED BY <2>1, <2>2
<1>2. QED BY <1>1, DeploymentInvariant, PTL

\* Whoever is served as an administrator is one, also after a dump was restored
\* that does not have him: the script stops the backend first.
THEOREM ServedAreAdmins == Spec => []AuthorizedIsAdmin
<1>1. OwnerInv => AuthorizedIsAdmin BY DEF OwnerInv
<1>2. QED BY <1>1, DeploymentInvariant, PTL

\* The schema may be put in place while the backend writes: no statement of the
\* migrations changes a session that is on a stream, live or revoked.
THEOREM SessionsSurviveMigrations == Spec => MigrationsKeepSessions
<1> DEFINE Keeps ==
      \A s \in SessionIds : db.sessions[s] # None =>
        LET old == db.sessions[s]
            new == db'.sessions[s] IN
        /\ new # None
        /\ old.stream # None => new.stream = old.stream
        /\ old.status \in Statuses => new.status = old.status
        /\ old.revoked = "set" => new.revoked = "set"
<1>1. ASSUME TypeOK, [Next]_vars, script' # script, db' # Empty, db # Empty, ~At("load")
      PROVE  Keeps
  <2> USE DEF TypeOK
  <2>1. ASSUME db'.sessions = db.sessions PROVE Keeps BY <2>1
  <2>2. CASE db' = db BY <2>1, <2>2
  <2>3. CASE DropSchema BY <1>1, <2>3 DEF DropSchema, Alters
  <2>4. CASE Load BY <1>1, <2>2, <2>4 DEF Load, Alters, Refused
  <2>5. CASE InitAdmins \/ CreateAdmins
    BY <1>1, <2>1, <2>5 DEF InitAdmins, CreateAdmins, Alters, Database
  <2>6. CASE InitTables BY <1>1, <2>1, <2>2, <2>6 DEF InitTables, Alters, Refused, Database
  <2>7. CASE BetaDrop BY <1>1, <2>1, <2>7 DEF BetaDrop, Alters, Database
  <2>8. CASE BetaAdd BY <1>1, <2>1, <2>2, <2>8 DEF BetaAdd, Alters, Refused, Database
  <2>9. CASE AddColumns BY <1>1, <2>1, <2>2, <2>9 DEF AddColumns, Alters, Refused, Database
  <2>10. CASE Drops
    BY <1>1, <2>1, <2>10 DEF Drops, DropNamed, DropInline, Alters, Database
  <2>11. CASE Convert("004_update") \/ Convert("005_update")
    <3>1. \A s \in SessionIds : db.sessions[s] # None => db'.sessions[s] = Converted(db.sessions[s])
      BY <1>1, <2>11 DEF Convert, Alters, Database
    <3>2. \A s \in SessionIds : db.sessions[s] # None => db.sessions[s] \in SessionRow
      BY <1>1 DEF Database
    <3>3. QED BY <3>1, <3>2, ConvertedRow
  <2>12. CASE UpdateRows BY <2>2, <2>11, <2>12 DEF UpdateRows, Refused
  <2>13. CASE AddCheck("004_add") \/ AddCheck("005_add")
    BY <1>1, <2>1, <2>2, <2>13 DEF AddCheck, Alters, Refused, Database
  <2>14. CASE ComposeUp \/ ComposeStop \/ BetaLook \/ AddUnique
    BY <2>2, <2>14 DEF ComposeUp, ComposeStop, BetaLook, AddUnique, Alters, Refused
  <2>15. CASE BackendStep BY <1>1, <2>15, BackendKeepsSchema
  <2>16. ASSUME NEW name \in Scripts, Begin(name) PROVE Keeps BY <2>2, <2>16 DEF Begin
  <2>17. CASE Interrupt \/ Backup BY <2>2, <2>17 DEF Interrupt, Backup
  <2>18. CASE UNCHANGED vars BY <2>2, <2>18 DEF vars
  <2> HIDE DEF Keeps
  <2>19. QED
    BY <1>1, <2>3, <2>4, <2>5, <2>6, <2>7, <2>8, <2>9, <2>10, <2>12, <2>13, <2>14, <2>15,
       <2>16, <2>17, <2>18 DEF Next, ScriptStep, Drops, Scripts
<1>2. TypeOK /\ [Next]_vars =>
        [script' # script /\ db' # Empty /\ db # Empty /\ ~At("load") => Keeps]_vars
  BY <1>1
<1>3. QED BY <1>2, TypeCorrect, PTL DEF Spec, MigrationsKeepSessions

\* On a database with the product's columns and distinct keys only the check that
\* 003 adds can be refused: the statements before it find no reason, and those of
\* 004 to 006 find the rows converted and no check of theirs.
THEOREM OnlyLateEndsAreRefused == Spec => OnlyLateEndRefuses
<1>1. ASSUME OwnerInv, [Next]_vars, db.age = "upgraded", ~db.twins,
             script.result = "running", script'.result = "refused"
      PROVE  Steps(script.name)[script.at] \in {"003_add"}
  <2>1. TypeOK /\ ScriptOK /\ Finds /\ Running
    BY <1>1 DEF OwnerInv, SchemaInv, Running
  <2>2. ASSUME NEW step, Refused(step) PROVE Current = step
    BY <2>2 DEF Refused, At, Current
  <2>3. ASSUME Proceed PROVE FALSE BY <1>1, <2>1, <2>3, Proceeds
  <2>4. CASE Load
    <3>1. Current = "load" BY <2>2, <2>3, <2>4 DEF Load, Alters
    <3>2. db = Empty BY <2>1, <3>1 DEF Finds, Doing
    <3>3. QED BY <1>1, <3>2 DEF Empty
  <2>5. CASE InitTables BY <1>1, <2>3, <2>5 DEF InitTables, Alters
  <2>6. CASE BetaAdd BY <2>2, <2>3, <2>6 DEF BetaAdd, Alters, Current
  <2>7. CASE AddColumns BY <1>1, <2>3, <2>7 DEF AddColumns, Alters
  <2>8. CASE UpdateRows BY <1>1, <2>3, <2>8 DEF UpdateRows, Convert, Alters
  <2>9. ASSUME NEW step \in {"004_add", "005_add"}, AddCheck(step) PROVE FALSE
    <3>1. Current = step BY <2>9 DEF AddCheck, Alters, Refused, At, Current
    <3>2. db.named = "none" /\ GoodRows BY <2>1, <3>1 DEF Finds, Doing
    <3>3. \A r \in Rows : r.status \in Statuses BY <3>2 DEF Rows, GoodRows, GoodRow
    <3>4. Alters(step, [db EXCEPT !.named = "product"]) BY <2>9, <3>2, <3>3 DEF AddCheck
    <3>5. QED BY <2>3, <3>4 DEF Alters
  <2>10. CASE AddUnique BY <1>1, <2>3, <2>10 DEF AddUnique, Alters
  <2>11. CASE ComposeUp \/ ComposeStop \/ DropSchema \/ InitAdmins \/ BetaDrop
              \/ Drops \/ CreateAdmins
    BY <2>3, <2>11 DEF ComposeUp, ComposeStop, DropSchema, InitAdmins, BetaDrop, Drops,
                       DropNamed, DropInline, CreateAdmins, Alters
  <2>12. CASE BetaLook
    <3>1. script'.result = script.result BY <2>1, <2>12 DEF BetaLook, TypeOK, Script
    <3>2. QED BY <1>1, <3>1
  <2>13. CASE BackendStep BY <1>1, <2>1, <2>13, BackendKeepsSchema
  <2>14. ASSUME NEW name \in Scripts, Begin(name) PROVE FALSE BY <1>1, <2>14 DEF Begin
  <2>15. CASE Interrupt \/ Backup BY <1>1, <2>15 DEF Interrupt, Backup, NoScript
  <2>16. CASE UNCHANGED vars BY <1>1, <2>16 DEF vars
  <2>17. QED
    BY <1>1, <2>4, <2>5, <2>6, <2>7, <2>8, <2>9, <2>10, <2>11, <2>12, <2>13, <2>14, <2>15,
       <2>16 DEF Next, ScriptStep, Drops, Scripts
<1>2. OwnerInv /\ [Next]_vars =>
        [/\ db.age = "upgraded" /\ ~db.twins
         /\ script.result = "running" /\ script'.result = "refused"
         => Steps(script.name)[script.at] \in {"003_add"}]_vars
  BY <1>1
<1>3. QED BY <1>2, DeploymentInvariant, PTL DEF Spec, OnlyLateEndRefuses
=============================================================================
