------------------------------ MODULE Startup ------------------------------
(***************************************************************************)
(* NewApp: how a replica of the server starts.  It brings the schema of the*)
(* shared database up to date, and agrees with the other replicas on the   *)
(* secret that whoever sets the server up has to know.  Each statement on  *)
(* the database is a step; an error panics, which ends the process.  A     *)
(* secret is random: it is named after the replica that has made it.       *)
(***************************************************************************)
EXTENDS Integers

CONSTANTS
  None,
  Replica,
  Migration,  \* the versions in the program
  MaxCrashes  \* bound on the crashes that are not the program's own panics

ASSUME StartupAssumption ==
  /\ MaxCrashes \in Nat
  /\ None \notin Replica \cup Migration

VARIABLES
  users,     \* the rows of table users, by name
  applied,   \* the migrations whose script has run on the database
  recorded,  \* the rows of table schema_migrations
  kv,        \* the row of table kv with key "secret", or None
  lock,      \* who holds the advisory lock "create_secret"
  phase,     \* where each replica is
  missing,   \* the migrations a replica found no row of
  script,    \* the migration whose script it has run
  secret,    \* App.secret, None for ""
  crashes

schema == <<applied, recorded>>
replica == <<phase, missing, script, secret>>
startupVars == <<users, schema, kv, lock, replica, crashes>>

Phase == {"down", "migrating", "recording", "selecting", "locking", "inserting",
          "polling", "serving"}

StartupInit ==
  /\ users = {} /\ applied = {} /\ recorded = {}
  /\ kv = None /\ lock = None
  /\ phase = [r \in Replica |-> "down"]
  /\ missing = [r \in Replica |-> {}]
  /\ script = [r \in Replica |-> None]
  /\ secret = [r \in Replica |-> None]
  /\ crashes = 0

Enter(r, where) == phase' = [phase EXCEPT ![r] = where]

(* Variant: the lock stays when its holder ends. *)
Die_KeepsLock(r) ==
  /\ Enter(r, "down")
  /\ missing' = [missing EXCEPT ![r] = {}]
  /\ script' = [script EXCEPT ![r] = None]
  /\ secret' = [secret EXCEPT ![r] = None]
  /\ UNCHANGED lock

(* The process ends: what it had in memory is gone, and its connections are *)
(* closed, which frees the lock.                                            *)
Die(r) ==
  /\ Enter(r, "down")
  /\ missing' = [missing EXCEPT ![r] = {}]
  /\ script' = [script EXCEPT ![r] = None]
  /\ secret' = [secret EXCEPT ![r] = None]
  /\ lock' = IF lock = r THEN None ELSE lock

Serve(r, s) ==
  /\ Enter(r, "serving")
  /\ secret' = [secret EXCEPT ![r] = s]
  /\ UNCHANGED <<missing, script>>

----------------------------------------------------------------------------
(***************************************************************************)
(* SetupMigrations                                                         *)
(***************************************************************************)

(* The rows are read once, before the loop over the migrations.             *)
GetMigrations(r) ==
  /\ phase[r] = "down"
  /\ Enter(r, "migrating")
  /\ missing' = [missing EXCEPT ![r] = Migration \ recorded]
  /\ UNCHANGED <<users, schema, kv, lock, script, secret, crashes>>

(* A script runs as a whole or not at all, and not on a database that has   *)
(* its tables.  The order of the migrations is that of a Go map.            *)
RunScript(r, m) ==
  /\ phase[r] = "migrating"
  /\ m \in missing[r]
  /\ \/ /\ m \in applied
        /\ Die(r)
        /\ UNCHANGED applied
     \/ /\ m \notin applied
        /\ applied' = applied \cup {m}
        /\ script' = [script EXCEPT ![r] = m]
        /\ Enter(r, "recording")
        /\ UNCHANGED <<missing, secret, lock>>
  /\ UNCHANGED <<users, recorded, kv, crashes>>

(* Variant: the version is not recorded. *)
RecordVersion_Forgets(r) ==
  /\ phase[r] = "recording"
  /\ missing' = [missing EXCEPT ![r] = @ \ {script[r]}]
  /\ script' = [script EXCEPT ![r] = None]
  /\ Enter(r, "migrating")
  /\ UNCHANGED <<users, applied, recorded, kv, lock, secret, crashes>>

RecordVersion(r) ==
  /\ phase[r] = "recording"
  /\ \/ /\ script[r] \in recorded
        /\ Die(r)
        /\ UNCHANGED recorded
     \/ /\ script[r] \notin recorded
        /\ recorded' = recorded \cup {script[r]}
        /\ missing' = [missing EXCEPT ![r] = @ \ {script[r]}]
        /\ script' = [script EXCEPT ![r] = None]
        /\ Enter(r, "migrating")
        /\ UNCHANGED <<secret, lock>>
  /\ UNCHANGED <<users, applied, kv, crashes>>

----------------------------------------------------------------------------
(***************************************************************************)
(* The secret, which is left empty where there are users already.          *)
(***************************************************************************)

UsersExist == users # {}

NeedsSecret(r) ==
  /\ phase[r] = "migrating"
  /\ missing[r] = {}
  /\ \/ UsersExist /\ Serve(r, None)
     \/ ~UsersExist /\ Enter(r, "selecting") /\ UNCHANGED <<missing, script, secret>>
  /\ UNCHANGED <<users, schema, kv, lock, crashes>>

SelectSecret(r) ==
  /\ phase[r] = "selecting"
  /\ \/ kv # None /\ Serve(r, kv)
     \/ kv = None /\ Enter(r, "locking") /\ UNCHANGED <<missing, script, secret>>
  /\ UNCHANGED <<users, schema, kv, lock, crashes>>

TrySessionLock(r) ==
  /\ phase[r] = "locking"
  /\ \/ lock = None /\ lock' = r /\ Enter(r, "inserting")
     \/ lock # None /\ Enter(r, "polling") /\ UNCHANGED lock
  /\ UNCHANGED <<users, schema, kv, missing, script, secret, crashes>>

(* Variant: an insert that replaces what is there. *)
InsertSecret_Upsert(r) ==
  /\ phase[r] = "inserting"
  /\ kv' = r
  /\ Serve(r, r)
  /\ UNCHANGED <<users, schema, lock, crashes>>

(* The row is not looked for again under the lock, but its key is unique.   *)
InsertSecret(r) ==
  /\ phase[r] = "inserting"
  /\ \/ kv # None /\ Die(r) /\ UNCHANGED kv
     \/ kv = None /\ kv' = r /\ Serve(r, r) /\ UNCHANGED lock
  /\ UNCHANGED <<users, schema, crashes>>

PollSecret(r) ==
  /\ phase[r] = "polling"
  /\ kv # None
  /\ Serve(r, kv)
  /\ UNCHANGED <<users, schema, kv, lock, crashes>>

----------------------------------------------------------------------------
(* The lock belongs to a connection, which the pool closes when it has too  *)
(* many idle ones.                                                          *)
CloseConnection(r) ==
  /\ phase[r] = "serving"
  /\ lock = r
  /\ lock' = None
  /\ UNCHANGED <<users, schema, kv, replica, crashes>>

Crash(r) ==
  /\ phase[r] # "down"
  /\ crashes < MaxCrashes
  /\ crashes' = crashes + 1
  /\ Die(r)
  /\ UNCHANGED <<users, schema, kv>>

SetupMigrations(r) ==
  GetMigrations(r) \/ (\E m \in Migration : RunScript(r, m)) \/ RecordVersion(r)

GetOrCreateSecret(r) ==
  SelectSecret(r) \/ TrySessionLock(r) \/ InsertSecret(r) \/ PollSecret(r)

NewApp(r) == SetupMigrations(r) \/ NeedsSecret(r) \/ GetOrCreateSecret(r)

----------------------------------------------------------------------------
StartupTypeOK ==
  /\ applied \subseteq Migration /\ recorded \subseteq Migration
  /\ kv \in Replica \cup {None}
  /\ lock \in Replica \cup {None}
  /\ phase \in [Replica -> Phase]
  /\ missing \in [Replica -> SUBSET Migration]
  /\ script \in [Replica -> Migration \cup {None}]
  /\ secret \in [Replica -> Replica \cup {None}]
  /\ crashes \in Nat

(* A replica that checks set-up forms checks them against the one secret in *)
(* the database, whichever replica made it and whoever has crashed since.   *)
SecretAgreement ==
  \A r \in Replica : secret[r] # None => phase[r] = "serving" /\ secret[r] = kv

(* What is recorded has run; what has run and is not recorded is so by the  *)
(* hand of one replica, or for good after a crash.                          *)
RecordedHasRun ==
  /\ recorded \subseteq applied
  /\ \A m \in applied \ recorded : crashes > 0 \/ \E r \in Replica : script[r] = m

(* Replicas do not all wait for one another: while one polls for a secret   *)
(* that is not there, another is yet to try for the lock or to insert under *)
(* it.                                                                      *)
SomeoneInserts ==
  (kv = None /\ \E r \in Replica : phase[r] = "polling") =>
    \E p \in Replica : phase[p] \notin {"polling", "serving"} /\ lock \in {None, p}
=============================================================================
