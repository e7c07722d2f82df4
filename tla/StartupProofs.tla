---------------------------- MODULE StartupProofs ----------------------------
(***************************************************************************)
(* What the steps of replicas keep, whatever requests do in between.  The  *)
(* theorems about the whole server are in AccountsProofs.                  *)
(***************************************************************************)
EXTENDS Startup, TLAPS

(* A script that has run and is not recorded yet is held in the phase for   *)
(* it.                                                                      *)
ScriptHasRun ==
  \A r \in Replica :
    /\ phase[r] = "recording" <=> script[r] # None
    /\ script[r] # None => script[r] \in applied

(* The lock is taken to insert the secret, and kept.                        *)
LockIsUsed ==
  \A r \in Replica :
    /\ phase[r] = "inserting" => lock = r
    /\ lock = r => phase[r] \in {"inserting", "serving"}

(* Nobody serves, and nobody is a user, before there is a secret.           *)
SecretFirst ==
  kv = None => users = {} /\ \A r \in Replica : phase[r] # "serving"

(* A replica that serves without the secret has found users.                *)
EmptyIsLate ==
  \A r \in Replica : phase[r] = "serving" /\ secret[r] = None => UsersExist

StartupInv ==
  /\ StartupTypeOK
  /\ ScriptHasRun
  /\ LockIsUsed
  /\ SecretFirst
  /\ EmptyIsLate
  /\ SecretAgreement
  /\ RecordedHasRun
  /\ SomeoneInserts

ReplicaStep(r) == NewApp(r) \/ CloseConnection(r) \/ Crash(r)

LEMMA InitStartup == StartupInit => StartupInv
<1> SUFFICES ASSUME StartupInit PROVE StartupInv
  OBVIOUS
<1>1. StartupTypeOK
  BY DEF StartupInit, StartupTypeOK, Phase
<1>2. ScriptHasRun /\ LockIsUsed /\ SecretFirst
  BY StartupAssumption DEF StartupInit, ScriptHasRun, LockIsUsed, SecretFirst
<1>3. EmptyIsLate /\ SecretAgreement /\ RecordedHasRun /\ SomeoneInserts
  BY DEF StartupInit, EmptyIsLate, SecretAgreement, RecordedHasRun, SomeoneInserts
<1> QED BY <1>1, <1>2, <1>3 DEF StartupInv

LEMMA TypeStep ==
  ASSUME StartupTypeOK, ScriptHasRun, NEW r \in Replica, ReplicaStep(r)
  PROVE  StartupTypeOK'
<1> USE DEF StartupTypeOK, Phase, Enter, Die, Serve
<1>1. CASE GetMigrations(r)
  BY <1>1 DEF GetMigrations, schema
<1>2. CASE \E m \in Migration : RunScript(r, m)
  BY <1>2 DEF RunScript, schema
<1>3. CASE RecordVersion(r)
  <2>1. CASE script[r] \in recorded
    BY <1>3, <2>1 DEF RecordVersion
  <2>2. CASE script[r] \notin recorded
    <3>1. script[r] \in Migration
      BY <1>3 DEF RecordVersion, ScriptHasRun
    <3> QED BY <1>3, <2>2, <3>1 DEF RecordVersion
  <2> QED BY <2>1, <2>2
<1>4. CASE NeedsSecret(r)
  BY <1>4 DEF NeedsSecret, schema
<1>5. CASE SelectSecret(r)
  BY <1>5 DEF SelectSecret, schema
<1>6. CASE TrySessionLock(r)
  BY <1>6 DEF TrySessionLock, schema
<1>7. CASE InsertSecret(r)
  BY <1>7 DEF InsertSecret, schema
<1>8. CASE PollSecret(r)
  BY <1>8 DEF PollSecret, schema
<1>9. CASE CloseConnection(r)
  BY <1>9 DEF CloseConnection, schema, replica
<1>10. CASE Crash(r)
  BY <1>10 DEF Crash, schema
<1> QED BY <1>1, <1>2, <1>3, <1>4, <1>5, <1>6, <1>7, <1>8, <1>9, <1>10
  DEF ReplicaStep, NewApp, SetupMigrations, GetOrCreateSecret

LEMMA SchemaStep ==
  ASSUME StartupTypeOK, ScriptHasRun, RecordedHasRun, NEW r \in Replica, ReplicaStep(r)
  PROVE  ScriptHasRun' /\ RecordedHasRun'
<1> USE StartupAssumption DEF StartupTypeOK, Phase, ScriptHasRun, RecordedHasRun, Enter, Die, Serve
<1>1. CASE GetMigrations(r)
  BY <1>1 DEF GetMigrations, schema
<1>2. CASE \E m \in Migration : RunScript(r, m)
  <2>1. PICK m \in Migration : RunScript(r, m)
    BY <1>2
  <2>2. script[r] = None
    BY <2>1 DEF RunScript
  <2>3. CASE m \in applied
    BY <2>1, <2>2, <2>3 DEF RunScript
  <2>4. CASE m \notin applied
    BY <2>1, <2>2, <2>4 DEF RunScript
  <2> QED BY <2>3, <2>4
<1>3. CASE RecordVersion(r)
  <2>1. CASE script[r] \in recorded
    <3>1. /\ recorded' = recorded /\ applied' = applied /\ crashes' = crashes
          /\ \A p \in Replica : p # r => script'[p] = script[p] /\ phase'[p] = phase[p]
          /\ script'[r] = None /\ phase'[r] # "recording"
      BY <1>3, <2>1 DEF RecordVersion
    <3>2. ScriptHasRun'
      BY <3>1
    <3>3. ASSUME NEW m \in applied \ recorded, NEW p \in Replica, script[p] = m
          PROVE  script'[p] = m
      BY <3>1, <3>3, <2>1
    <3> QED BY <3>1, <3>2, <3>3
  <2>2. CASE script[r] \notin recorded
    <3>1. /\ recorded' = recorded \cup {script[r]}
          /\ script' = [script EXCEPT ![r] = None]
          /\ phase' = [phase EXCEPT ![r] = "migrating"]
          /\ UNCHANGED <<applied, crashes>>
      BY <1>3, <2>2 DEF RecordVersion
    <3>2. script[r] \in applied
      BY <1>3 DEF RecordVersion
    <3>3. ScriptHasRun'
      BY <3>1
    <3> QED BY <3>1, <3>2, <3>3
  <2> QED BY <2>1, <2>2
<1>4. CASE NeedsSecret(r)
  BY <1>4 DEF NeedsSecret, schema
<1>5. CASE SelectSecret(r)
  BY <1>5 DEF SelectSecret, schema
<1>6. CASE TrySessionLock(r)
  BY <1>6 DEF TrySessionLock, schema
<1>7. CASE InsertSecret(r)
  BY <1>7 DEF InsertSecret, schema
<1>8. CASE PollSecret(r)
  BY <1>8 DEF PollSecret, schema
<1>9. CASE CloseConnection(r)
  BY <1>9 DEF CloseConnection, schema, replica
<1>10. CASE Crash(r)
  BY <1>10 DEF Crash, schema
<1> QED BY <1>1, <1>2, <1>3, <1>4, <1>5, <1>6, <1>7, <1>8, <1>9, <1>10
  DEF ReplicaStep, NewApp, SetupMigrations, GetOrCreateSecret

LEMMA SecretStep ==
  ASSUME StartupTypeOK, LockIsUsed, SecretFirst, EmptyIsLate, SecretAgreement,
         NEW r \in Replica, ReplicaStep(r)
  PROVE  LockIsUsed' /\ SecretFirst' /\ EmptyIsLate' /\ SecretAgreement'
<1> USE StartupAssumption DEF StartupTypeOK, Phase, LockIsUsed, SecretFirst, EmptyIsLate,
        SecretAgreement, UsersExist, Enter, Die, Serve
<1>1. CASE GetMigrations(r)
  BY <1>1 DEF GetMigrations, schema
<1>2. CASE \E m \in Migration : RunScript(r, m)
  BY <1>2 DEF RunScript, schema
<1>3. CASE RecordVersion(r)
  BY <1>3 DEF RecordVersion, schema
<1>4. CASE NeedsSecret(r)
  BY <1>4 DEF NeedsSecret, schema
<1>5. CASE SelectSecret(r)
  BY <1>5 DEF SelectSecret, schema
<1>6. CASE TrySessionLock(r)
  BY <1>6 DEF TrySessionLock, schema
<1>7. CASE InsertSecret(r)
  BY <1>7 DEF InsertSecret, schema
<1>8. CASE PollSecret(r)
  BY <1>8 DEF PollSecret, schema
<1>9. CASE CloseConnection(r)
  BY <1>9 DEF CloseConnection, schema, replica
<1>10. CASE Crash(r)
  BY <1>10 DEF Crash, schema
<1> QED BY <1>1, <1>2, <1>3, <1>4, <1>5, <1>6, <1>7, <1>8, <1>9, <1>10
  DEF ReplicaStep, NewApp, SetupMigrations, GetOrCreateSecret

(* The replica that is to insert, or another one if it ends, remains.       *)
LEMMA SomeoneStep ==
  ASSUME StartupTypeOK, LockIsUsed, SecretFirst, SomeoneInserts,
         NEW r \in Replica, ReplicaStep(r)
  PROVE  SomeoneInserts'
<1> USE StartupAssumption DEF StartupTypeOK, Phase, LockIsUsed, SecretFirst,
        SomeoneInserts, UsersExist, Enter, Die, Serve
<1>1. CASE GetMigrations(r)
  BY <1>1 DEF GetMigrations, schema
<1>2. CASE \E m \in Migration : RunScript(r, m)
  BY <1>2 DEF RunScript, schema
<1>3. CASE RecordVersion(r)
  BY <1>3 DEF RecordVersion, schema
<1>4. CASE NeedsSecret(r)
  BY <1>4 DEF NeedsSecret, schema
<1>5. CASE SelectSecret(r)
  BY <1>5 DEF SelectSecret, schema
<1>6. CASE TrySessionLock(r)
  BY <1>6 DEF TrySessionLock, schema
<1>7. CASE InsertSecret(r)
  BY <1>7 DEF InsertSecret, schema
<1>8. CASE PollSecret(r)
  BY <1>8 DEF PollSecret, schema
<1>9. CASE CloseConnection(r)
  BY <1>9 DEF CloseConnection, schema, replica
<1>10. CASE Crash(r)
  BY <1>10 DEF Crash, schema
<1> QED BY <1>1, <1>2, <1>3, <1>4, <1>5, <1>6, <1>7, <1>8, <1>9, <1>10
  DEF ReplicaStep, NewApp, SetupMigrations, GetOrCreateSecret

(* A replica's step keeps the invariant.                                    *)
LEMMA StepStartup ==
  ASSUME StartupInv, NEW r \in Replica, ReplicaStep(r)
  PROVE  StartupInv'
  BY TypeStep, SchemaStep, SecretStep, SomeoneStep DEF StartupInv

(* So does a request, which may add users once there is a secret.           *)
LEMMA ServeStartup ==
  ASSUME StartupInv, kv # None \/ users' = users, users \subseteq users',
         UNCHANGED <<schema, kv, lock, replica, crashes>>
  PROVE  StartupInv'
<1>1. StartupTypeOK' /\ ScriptHasRun' /\ LockIsUsed' /\ SecretFirst'
  BY DEF StartupInv, StartupTypeOK, ScriptHasRun, LockIsUsed, SecretFirst, schema, replica
<1>2. EmptyIsLate' /\ SecretAgreement' /\ RecordedHasRun' /\ SomeoneInserts'
  BY DEF StartupInv, EmptyIsLate, UsersExist, SecretAgreement, RecordedHasRun,
     SomeoneInserts, schema, replica
<1> QED BY <1>1, <1>2 DEF StartupInv
=============================================================================
