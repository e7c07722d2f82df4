------------------------- MODULE DeploymentsProofs -------------------------
(***************************************************************************)
(* Theorems about Deployments, for any number of requests, any service     *)
(* lists and any combination of faults and crashes.                        *)
(***************************************************************************)
EXTENDS Deployments, TLAPS

(* A create request works on its own deployment, and a form that has left   *)
(* "idle" and not returned on some deployment.                              *)
TargetOK ==
  /\ \A d \in Deployment : target[d] = d
  /\ \A w \in Thread : pc[w] \notin {"idle", "done"} => target[w] \in Deployment

(* The type invariant of Deployments, and what its steps need beside it.    *)
TypeInv == TypeOK /\ TargetOK

LEMMA InitTyped == Init => TypeInv
  <1> SUFFICES ASSUME Init PROVE TypeInv
    OBVIOUS
  <1> USE DEF Init
  <1>1. state \in [Deployment -> [index : Nat, configs : SUBSET Answer]]
    BY DEF NoState
  <1>2. local \in [Thread -> [index : Nat, configs : SUBSET Answer, inherited : SUBSET Answer]]
    BY DEF NoLocal
  <1>3. pc \in [Thread -> Control]
    BY DEF Control
  <1>4. created \in Seq(Deployment) /\ restarts \in 0..MaxRestarts
    BY ConstantsAssumption
  <1>5. TargetOK
    BY DEF TargetOK, Thread
  <1>6. QED
    BY <1>1, <1>2, <1>3, <1>4, <1>5 DEF TypeInv, TypeOK, Thread

LEMMA ReturnTyped ==
  ASSUME TypeInv, NEW w \in Thread, Return(w)
  PROVE  /\ pc' \in [Thread -> Control]
         /\ target' \in [Thread -> Deployment \cup {None}]
         /\ local' \in [Thread -> [index : Nat, configs : SUBSET Answer, inherited : SUBSET Answer]]
         /\ ctx' \in [Thread -> {"live", "doomed", "cancelled"}]
         /\ TargetOK'
  BY DEF Return, TypeInv, TypeOK, TargetOK, Control, NoLocal, Thread

LEMMA GotoTyped ==
  ASSUME TypeInv, NEW w \in Thread, NEW where \in Control, Goto(w, where),
         target[w] \in Deployment
  PROVE  /\ pc' \in [Thread -> Control]
         /\ target' \in [Thread -> Deployment \cup {None}]
         /\ local' \in [Thread -> [index : Nat, configs : SUBSET Answer, inherited : SUBSET Answer]]
         /\ ctx' \in [Thread -> {"live", "doomed", "cancelled"}]
         /\ TargetOK'
  BY DEF Goto, TypeInv, TypeOK, TargetOK, Thread

LEMMA StepTyped == TypeInv /\ [Next]_vars => TypeInv'
  <1> SUFFICES ASSUME TypeInv, [Next]_vars PROVE TypeInv'
    OBVIOUS
  <1> USE DEF rows, cluster, world
  <1>1. ASSUME NEW d \in Deployment, Create(d) PROVE TypeInv'
    <2> d \in Thread
      BY DEF Thread
    <2>t. target[d] \in Deployment
      BY DEF TypeInv, TargetOK
    <2>1. CASE CancelInProgressDeployments(d)
      <3>1. status' \in [Deployment -> Status \cup {"absent"}]
        BY <2>1 DEF CancelInProgressDeployments, TypeInv, TypeOK, Status
      <3>2. QED
        BY <2>1, <2>t, <3>1, GotoTyped DEF CancelInProgressDeployments, TypeInv, TypeOK, Control
    <2>2. CASE RefuseModules(d)
      BY <2>2, ReturnTyped DEF RefuseModules, TypeInv, TypeOK
    <2>3. CASE GetLastDeployment(d)
      <3>1. previous' \in [Deployment -> Deployment \cup {None}]
        <4>1. CASE previous' = [previous EXCEPT ![d] = None]
          BY <4>1 DEF TypeInv, TypeOK
        <4>2. ASSUME NEW i \in Successful, previous' = [previous EXCEPT ![d] = created[i]]
              PROVE  previous' \in [Deployment -> Deployment \cup {None}]
          <5>1. created[i] \in Deployment
            BY DEF Successful, TypeInv, TypeOK
          <5>2. QED
            BY <4>2, <5>1 DEF TypeInv, TypeOK
        <4>3. QED
          BY <2>3, <4>1, <4>2 DEF GetLastDeployment
      <3>2. QED
        BY <2>3, <2>t, <3>1, GotoTyped DEF GetLastDeployment, TypeInv, TypeOK, Control
    <2>4. CASE NewDeployment(d)
      BY <2>4, <2>t, GotoTyped DEF NewDeployment, TypeInv, TypeOK, Control, Working, Status
    <2>5. QED
      BY <1>1, <2>1, <2>2, <2>3, <2>4 DEF Create
  <1>2. ASSUME NEW f \in Form, ReadForm(f) \/ AnswerForm(f) PROVE TypeInv'
    <2> f \in Thread
      BY DEF Thread
    <2>1. CASE ReadForm(f)
      BY <2>1, ConstantsAssumption DEF ReadForm, TypeInv, TypeOK, TargetOK, Control
    <2>2. CASE LockForm(f)
      BY <2>2, GotoTyped DEF LockForm, TypeInv, TypeOK, TargetOK, Control, Holding
    <2>3. CASE AcceptEntry(f)
      <3>1. PICK e \in Entry, k \in {"String", "Secret"} :
              \E a \in Named(local[f].inherited, e.module, e.identifier)
                       \cup {[module |-> e.module, identifier |-> e.identifier, kind |-> k]} :
                local' = [local EXCEPT ![f].configs = @ \cup {a}]
        BY <2>3 DEF AcceptEntry
      <3>a. PICK a \in Named(local[f].inherited, e.module, e.identifier)
                       \cup {[module |-> e.module, identifier |-> e.identifier, kind |-> k]} :
              local' = [local EXCEPT ![f].configs = @ \cup {a}]
        BY <3>1
      <3>2. local[f] \in [index : Nat, configs : SUBSET Answer, inherited : SUBSET Answer]
        BY DEF TypeInv, TypeOK
      <3>3. a \in Answer
        BY <3>a, <3>2 DEF Named, Answer, Entry
      <3>4. local' \in [Thread -> [index : Nat, configs : SUBSET Answer, inherited : SUBSET Answer]]
        BY <3>a, <3>2, <3>3 DEF TypeInv, TypeOK
      <3>5. QED
        BY <2>3, <3>4 DEF AcceptEntry, TypeInv, TypeOK, TargetOK
    <2>4. CASE RefuseEntry(f)
      BY <2>4 DEF RefuseEntry, NoLocal, TypeInv, TypeOK, TargetOK, Control, Working
    <2>5. CASE FailEntry(f)
      BY <2>5, ReturnTyped DEF FailEntry, TypeInv, TypeOK
    <2>6. CASE CommitForm(f)
      BY <2>6 DEF CommitForm, Stored, NoLocal, TypeInv, TypeOK, TargetOK, Control, Working, Status
    <2>7. QED
      BY <1>2, <2>1, <2>2, <2>3, <2>4, <2>5, <2>6 DEF AnswerForm
  <1>3. ASSUME NEW w \in Thread, Deploy(w) PROVE TypeInv'
    <2>t. pc[w] \in Working => target[w] \in Deployment
      BY DEF TypeInv, TargetOK, Working, Deploying
    <2> USE DEF Control, Working, Deploying
    <2>1. CASE Lock(w)
      BY <2>1, <2>t, GotoTyped DEF Lock, TypeInv, TypeOK
    <2>2. CASE RefreshDeletedEnvironment(w)
      BY <2>2, ReturnTyped DEF RefreshDeletedEnvironment, TypeInv, TypeOK
    <2>3. CASE Refresh(w)
      <3>1. CASE status[target[w]] \in Unfinished
        <4>1. state[target[w]] \in [index : Nat, configs : SUBSET Answer]
          BY <2>3, <2>t DEF Refresh, TypeInv, TypeOK
        <4> DEFINE fresh == [index     |-> state[target[w]].index,
                             configs   |-> state[target[w]].configs,
                             inherited |-> {}]
        <4>2. fresh \in [index : Nat, configs : SUBSET Answer, inherited : SUBSET Answer]
          BY <4>1
        <4>4. local' = [local EXCEPT ![w] = fresh]
          BY <2>3, <3>1 DEF Refresh
        <4> HIDE DEF fresh
        <4>5. local' \in [Thread -> [index : Nat, configs : SUBSET Answer, inherited : SUBSET Answer]]
          BY <4>2, <4>4 DEF TypeInv, TypeOK
        <4>3. QED
          BY <2>3, <2>t, <3>1, <4>5 DEF Refresh, TypeInv, TypeOK, TargetOK
      <3>2. CASE status[target[w]] \notin Unfinished
        BY <2>3, <2>t, <3>2, GotoTyped DEF Refresh, TypeInv, TypeOK
      <3>3. QED
        BY <3>1, <3>2
    <2>4. CASE MarkInProgress(w)
      BY <2>4, <2>t, GotoTyped DEF MarkInProgress, TypeInv, TypeOK, Status
    <2>5. CASE BeginService(w)
      BY <2>5, <2>t, ReturnTyped, GotoTyped DEF BeginService, TypeInv, TypeOK
    <2>w. ASSUME pc[w] \in Working, Wait(w)
          PROVE  /\ status' \in [Deployment -> Status \cup {"absent"}]
                 /\ state' \in [Deployment -> [index : Nat, configs : SUBSET Answer]]
      <3>1. Stored(w) \in [index : Nat, configs : SUBSET Answer]
        BY DEF Stored, TypeInv, TypeOK
      <3>2. QED
        BY <2>w, <2>t, <3>1 DEF Wait, TypeInv, TypeOK, Status
    <2>6. CASE DeployWingman(w)
      <3>1. CASE Wait(w)
        BY <2>6, <2>w, <3>1, ReturnTyped DEF DeployWingman, Wait, TypeInv, TypeOK
      <3>2. CASE Goto(w, "evaluating") /\ UNCHANGED rows
        BY <2>6, <2>t, <3>2, GotoTyped DEF DeployWingman, TypeInv, TypeOK
      <3>3. QED
        BY <2>6, <3>1, <3>2 DEF DeployWingman
    <2>7. CASE Evaluate(w)
      <3>1. CASE Wait(w)
        BY <2>7, <2>w, <3>1, ReturnTyped DEF Evaluate, Wait, TypeInv, TypeOK
      <3>2. CASE (Goto(w, "applying") \/ Goto(w, "failing")) /\ UNCHANGED rows
        BY <2>7, <2>t, <3>2, GotoTyped DEF Evaluate, TypeInv, TypeOK
      <3>3. CASE Return(w) /\ UNCHANGED rows
        BY <2>7, <3>3, ReturnTyped DEF Evaluate, TypeInv, TypeOK
      <3>4. QED
        BY <2>7, <3>1, <3>2, <3>3 DEF Evaluate
    <2>8. CASE DeployService(w)
      <3>1. local[w].index \in Nat /\ local[w] \in [index : Nat, configs : SUBSET Answer,
                                                    inherited : SUBSET Answer]
        BY DEF TypeInv, TypeOK
      <3>2. applied' \in [Deployment -> SUBSET (Nat \ {0})]
        BY <2>8, <2>t, <3>1 DEF DeployService, TypeInv, TypeOK
      <3>3. local' \in [Thread -> [index : Nat, configs : SUBSET Answer, inherited : SUBSET Answer]]
        <4> DEFINE next == [local[w] EXCEPT !.index = @ + 1]
        <4>1. next \in [index : Nat, configs : SUBSET Answer, inherited : SUBSET Answer]
          BY <3>1
        <4>2. local' = [local EXCEPT ![w] = next]
          BY <2>8 DEF DeployService
        <4> HIDE DEF next
        <4>3. QED
          BY <4>1, <4>2 DEF TypeInv, TypeOK
      <3>4. QED
        BY <2>8, <2>t, <3>2, <3>3 DEF DeployService, TypeInv, TypeOK, TargetOK
    <2>9. CASE Succeed(w)
      BY <2>9, ReturnTyped DEF Succeed, Stored, TypeInv, TypeOK, TargetOK, Status
    <2>10. CASE MarkErrored(w)
      BY <2>10, ReturnTyped DEF MarkErrored, TypeInv, TypeOK, TargetOK, Status
    <2>11. CASE StopCancelled(w)
      BY <2>11, ReturnTyped DEF StopCancelled, TypeInv, TypeOK
    <2>12. CASE CallFails(w)
      BY <2>12, <2>t, ReturnTyped, GotoTyped DEF CallFails, TypeInv, TypeOK
    <2>13. QED
      BY <1>3, <2>1, <2>2, <2>3, <2>4, <2>5, <2>6, <2>7, <2>8, <2>9, <2>10, <2>11, <2>12 DEF Deploy
  <1>4. ASSUME NEW w \in Thread, EnvironmentNotFound(w) PROVE TypeInv'
    BY <1>4, ReturnTyped DEF EnvironmentNotFound, TypeInv, TypeOK
  <1>5. ASSUME NEW w \in Thread, HandleDeployCancel(w) PROVE TypeInv'
    BY <1>5 DEF HandleDeployCancel, IsCancelled, CancelContext, TypeInv, TypeOK, TargetOK
  <1>6. CASE DeleteEnvironment
    BY <1>6 DEF DeleteEnvironment, threads, TypeInv, TypeOK, TargetOK
  <1>7. CASE Crash
    BY <1>7, ConstantsAssumption DEF Crash, NoLocal, TypeInv, TypeOK, TargetOK, Control
  <1>8. CASE Quiet \/ UNCHANGED vars
    BY <1>8 DEF Quiet, vars, threads, TypeInv, TypeOK, TargetOK
  <1>9. QED
    BY <1>1, <1>2, <1>3, <1>4, <1>5, <1>6, <1>7, <1>8 DEF Next

(* Every reachable state is of the right type.                              *)
THEOREM TypeCorrect == Spec => []TypeOK
  <1>1. Spec => []TypeInv
    BY InitTyped, StepTyped, PTL DEF Spec
  <1>2. TypeInv => TypeOK
    BY DEF TypeInv
  <1>3. QED
    BY <1>1, <1>2, PTL

----------------------------------------------------------------------------
(***************************************************************************)
(* Why the database never counts a service that is not up.  ProgressIsReal *)
(* alone is not inductive: what a thread holds in memory becomes the row's *)
(* state later, so it has to be as true of every thread's local state, the *)
(* snapshot of a form included, as of the row; and a thread that is at a   *)
(* service has one left, so an index never runs past the service list.     *)
(***************************************************************************)
AtService == {"wingman", "evaluating", "applying"}

RowsReal ==
  \A d \in Deployment :
    /\ 1..state[d].index \subseteq applied[d]
    /\ state[d].index <= Len(ServiceList[d])

LocalReal ==
  \A w \in Thread : target[w] \in Deployment =>
    /\ 1..local[w].index \subseteq applied[target[w]]
    /\ local[w].index <= Len(ServiceList[target[w]])
    /\ pc[w] \in AtService => ServicesLeft(w)

AppliedReal ==
  \A d \in Deployment :
    /\ applied[d] \subseteq 1..Len(ServiceList[d])
    /\ \A i \in applied[d] : 1..i \subseteq applied[d]

ProgressInv == RowsReal /\ LocalReal /\ AppliedReal /\ SuccessIsComplete

LEMMA InitProgress == Init => ProgressInv
  <1> SUFFICES ASSUME Init PROVE ProgressInv
    OBVIOUS
  <1>1. \A d \in Deployment : state[d].index = 0 /\ applied[d] = {} /\ status[d] = "absent"
    BY DEF Init, NoState
  <1>2. \A w \in Thread : local[w].index = 0 /\ pc[w] = "idle"
    BY DEF Init, NoLocal
  <1>3. 1..0 = {}
    OBVIOUS
  <1>4. RowsReal
    BY <1>1, <1>3, ConstantsAssumption DEF RowsReal
  <1>5. LocalReal
    BY <1>1, <1>2, <1>3, ConstantsAssumption DEF LocalReal, AtService
  <1>6. AppliedReal /\ SuccessIsComplete
    BY <1>1 DEF AppliedReal, SuccessIsComplete
  <1>7. QED
    BY <1>4, <1>5, <1>6 DEF ProgressInv

(* A step that brings nothing up, leaves the rows' states and calls nothing *)
(* successful: a thread moves on, forgets where it was, or takes it from    *)
(* the row.                                                                 *)
LEMMA ControlStep ==
  ASSUME TypeInv, TypeInv', ProgressInv,
         UNCHANGED <<state, applied>>,
         \A d \in Deployment : status'[d] = "Success" => status[d] = "Success",
         \A w \in Thread :
           \/ /\ target'[w] = target[w]
              /\ local'[w].index \in {0, local[w].index}
              /\ pc'[w] \in AtService =>
                   /\ local'[w].index = local[w].index
                   /\ pc[w] \in AtService \/ ServicesLeft(w)
           \/ /\ target'[w] \in Deployment
              /\ local'[w].index = state[target'[w]].index
              /\ pc'[w] \notin AtService
  PROVE  ProgressInv'
  <1>1. RowsReal' /\ AppliedReal'
    BY DEF ProgressInv, RowsReal, AppliedReal
  <1>2. SuccessIsComplete'
    BY DEF ProgressInv, SuccessIsComplete
  <1>3. LocalReal'
    <2> SUFFICES ASSUME NEW w \in Thread, target'[w] \in Deployment
                 PROVE  /\ 1..local'[w].index \subseteq applied'[target'[w]]
                        /\ local'[w].index <= Len(ServiceList[target'[w]])
                        /\ pc'[w] \in AtService => ServicesLeft(w)'
      BY DEF LocalReal
    <2>1. CASE target'[w] = target[w] /\ local'[w].index = local[w].index
               /\ (pc'[w] \in AtService => pc[w] \in AtService \/ ServicesLeft(w))
      BY <2>1 DEF ProgressInv, LocalReal, ServicesLeft
    <2>2. CASE local'[w].index = 0 /\ pc'[w] \notin AtService
      <3>1. 1..local'[w].index = {}
        BY <2>2
      <3>2. QED
        BY <2>2, <3>1, ConstantsAssumption
    <2>3. CASE local'[w].index = state[target'[w]].index /\ pc'[w] \notin AtService
      BY <2>3 DEF ProgressInv, RowsReal
    <2>4. QED
      BY <2>1, <2>2, <2>3
  <1>4. QED
    BY <1>1, <1>2, <1>3 DEF ProgressInv

(* A step in which thread w writes its state to the row and returns.        *)
LEMMA StoreStep ==
  ASSUME TypeInv, TypeInv', ProgressInv,
         NEW w \in Thread, target[w] \in Deployment,
         state' = [state EXCEPT ![target[w]] = Stored(w)],
         UNCHANGED <<applied, target>>,
         local' = [local EXCEPT ![w] = NoLocal],
         \A v \in Thread \ {w} : pc'[v] = pc[v],
         pc'[w] \notin AtService,
         \A d \in Deployment : status'[d] = "Success" =>
           status[d] = "Success" \/ (d = target[w] /\ ~ServicesLeft(w))
  PROVE  ProgressInv'
  <1>0. /\ local[w].index \in Nat
        /\ 1..local[w].index \subseteq applied[target[w]]
        /\ local[w].index <= Len(ServiceList[target[w]])
    BY DEF TypeInv, TypeOK, ProgressInv, LocalReal
  <1>1. RowsReal'
    <2> SUFFICES ASSUME NEW d \in Deployment
                 PROVE  /\ 1..state'[d].index \subseteq applied'[d]
                        /\ state'[d].index <= Len(ServiceList[d])
      BY DEF RowsReal
    <2>1. CASE d = target[w]
      <3>1. state'[d].index = local[w].index
        BY <2>1 DEF Stored, TypeInv, TypeOK
      <3>2. QED
        BY <1>0, <2>1, <3>1
    <2>2. CASE d # target[w]
      BY <2>2 DEF ProgressInv, RowsReal, TypeInv, TypeOK
    <2>3. QED
      BY <2>1, <2>2
  <1>2. AppliedReal'
    BY DEF ProgressInv, AppliedReal
  <1>3. SuccessIsComplete'
    <2> SUFFICES ASSUME NEW d \in Deployment, status'[d] = "Success"
                 PROVE  1..Len(ServiceList[d]) \subseteq applied'[d]
      BY DEF SuccessIsComplete
    <2>1. CASE status[d] = "Success"
      BY <2>1 DEF ProgressInv, SuccessIsComplete
    <2>2. CASE d = target[w] /\ ~ServicesLeft(w)
      <3>1. local[w].index = Len(ServiceList[d])
        BY <1>0, <2>2, ConstantsAssumption DEF ServicesLeft
      <3>2. QED
        BY <1>0, <2>2, <3>1
    <2>3. QED
      BY <2>1, <2>2
  <1>4. LocalReal'
    <2> SUFFICES ASSUME NEW v \in Thread, target'[v] \in Deployment
                 PROVE  /\ 1..local'[v].index \subseteq applied'[target'[v]]
                        /\ local'[v].index <= Len(ServiceList[target'[v]])
                        /\ pc'[v] \in AtService => ServicesLeft(v)'
      BY DEF LocalReal
    <2>1. CASE v # w
      BY <2>1 DEF ProgressInv, LocalReal, ServicesLeft, TypeInv, TypeOK
    <2>2. CASE v = w
      <3>1. local'[v].index = 0
        BY <2>2 DEF NoLocal, TypeInv, TypeOK
      <3>2. 1..local'[v].index = {}
        BY <3>1
      <3>3. QED
        BY <2>2, <3>1, <3>2, ConstantsAssumption
    <2>3. QED
      BY <2>1, <2>2
  <1>5. QED
    BY <1>1, <1>2, <1>3, <1>4 DEF ProgressInv

(* The one step that brings a service up.                                   *)
LEMMA DeployServiceStep ==
  ASSUME TypeInv, TypeInv', ProgressInv, NEW w \in Thread, DeployService(w)
  PROVE  ProgressInv'
  <1> DEFINE d == target[w]
             n == local[w].index + 1
  <1>1. /\ d \in Deployment
        /\ local[w].index \in Nat
        /\ n \in 1..Len(ServiceList[d])
        /\ 1..local[w].index \subseteq applied[d]
    BY ConstantsAssumption
    DEF DeployService, TypeInv, TypeOK, TargetOK, ProgressInv, LocalReal, AtService, ServicesLeft
  <1>2. /\ applied' = [applied EXCEPT ![d] = @ \cup {n}]
        /\ local' = [local EXCEPT ![w].index = n]
        /\ pc' = [pc EXCEPT ![w] = "running"]
        /\ UNCHANGED <<target, state, status>>
    BY DEF DeployService, rows
  <1> HIDE DEF d, n
  <1>3. 1..n \subseteq applied'[d] /\ applied'[d] = applied[d] \cup {n}
    BY <1>1, <1>2 DEF TypeInv, TypeOK, n
  <1>4. \A e \in Deployment : applied[e] \subseteq applied'[e]
    BY <1>2 DEF TypeInv, TypeOK
  <1>5. RowsReal'
    BY <1>2, <1>4 DEF ProgressInv, RowsReal
  <1>6. AppliedReal'
    <2> SUFFICES ASSUME NEW e \in Deployment
                 PROVE  /\ applied'[e] \subseteq 1..Len(ServiceList[e])
                        /\ \A i \in applied'[e] : 1..i \subseteq applied'[e]
      BY DEF AppliedReal
    <2>1. CASE e = d
      BY <1>1, <1>3, <2>1 DEF ProgressInv, AppliedReal
    <2>2. CASE e # d
      BY <1>2, <2>2 DEF ProgressInv, AppliedReal, TypeInv, TypeOK
    <2>3. QED
      BY <2>1, <2>2
  <1>7. SuccessIsComplete'
    BY <1>2, <1>4 DEF ProgressInv, SuccessIsComplete
  <1>8. LocalReal'
    <2> SUFFICES ASSUME NEW v \in Thread, target'[v] \in Deployment
                 PROVE  /\ 1..local'[v].index \subseteq applied'[target'[v]]
                        /\ local'[v].index <= Len(ServiceList[target'[v]])
                        /\ pc'[v] \in AtService => ServicesLeft(v)'
      BY DEF LocalReal
    <2>1. CASE v = w
      <3>1. local'[v].index = n /\ target'[v] = d /\ pc'[v] = "running"
        BY <1>2, <2>1 DEF TypeInv, TypeOK, d
      <3>2. QED
        BY <1>1, <1>3, <3>1 DEF AtService
    <2>2. CASE v # w
      <3>1. local'[v] = local[v] /\ target'[v] = target[v] /\ pc'[v] = pc[v]
        BY <1>2, <2>2 DEF TypeInv, TypeOK
      <3>2. QED
        BY <1>4, <3>1 DEF ProgressInv, LocalReal, ServicesLeft
    <2>3. QED
      BY <2>1, <2>2
  <1>9. QED
    BY <1>5, <1>6, <1>7, <1>8 DEF ProgressInv

LEMMA StepProgress == TypeInv /\ TypeInv' /\ ProgressInv /\ [Next]_vars => ProgressInv'
  <1> SUFFICES ASSUME TypeInv, TypeInv', ProgressInv, [Next]_vars PROVE ProgressInv'
    OBVIOUS
  <1> USE DEF rows, cluster, world, AtService
  <1>1. ASSUME NEW d \in Deployment, Create(d) PROVE ProgressInv'
    <2>1. CASE CancelInProgressDeployments(d)
      BY <2>1, ControlStep DEF CancelInProgressDeployments, Goto, TypeInv, TypeOK
    <2>2. CASE RefuseModules(d)
      BY <2>2, ControlStep DEF RefuseModules, Return, NoLocal, TypeInv, TypeOK
    <2>3. CASE GetLastDeployment(d)
      BY <2>3, ControlStep DEF GetLastDeployment, Goto, TypeInv, TypeOK
    <2>4. CASE NewDeployment(d)
      BY <2>4, ControlStep DEF NewDeployment, Goto, TypeInv, TypeOK
    <2>5. QED
      BY <1>1, <2>1, <2>2, <2>3, <2>4 DEF Create
  <1>2. ASSUME NEW f \in Form, ReadForm(f) \/ AnswerForm(f) PROVE ProgressInv'
    <2>0. f \in Thread
      BY DEF Thread
    <2>1. CASE ReadForm(f)
      BY <2>0, <2>1, ControlStep DEF ReadForm, TypeInv, TypeOK
    <2>2. CASE LockForm(f)
      BY <2>2, ControlStep DEF LockForm, Goto, TypeInv, TypeOK
    <2>3. CASE AcceptEntry(f)
      <3>1. PICK P : local' = [local EXCEPT ![f].configs = P]
        BY <2>3 DEF AcceptEntry
      <3>2. \A w \in Thread : local'[w].index = local[w].index
        BY <2>0, <3>1 DEF TypeInv, TypeOK
      <3>3. QED
        BY <2>3, <3>2, ControlStep DEF AcceptEntry
    <2>4. CASE RefuseEntry(f)
      BY <2>4, ControlStep DEF RefuseEntry, NoLocal, TypeInv, TypeOK
    <2>5. CASE FailEntry(f)
      BY <2>5, ControlStep DEF FailEntry, Return, NoLocal, TypeInv, TypeOK
    <2>6. CASE CommitForm(f)
      <3>1. target[f] \in Deployment
        BY <2>0, <2>6 DEF CommitForm, TypeInv, TargetOK
      <3>2. \A d \in Deployment : status'[d] = "Success" => status[d] = "Success"
        BY <2>6, <3>1 DEF CommitForm, TypeInv, TypeOK
      <3>3. pc'[f] \notin AtService /\ \A v \in Thread \ {f} : pc'[v] = pc[v]
        BY <2>0, <2>6 DEF CommitForm, TypeInv, TypeOK
      <3>4. QED
        BY <2>0, <2>6, <3>1, <3>2, <3>3, StoreStep DEF CommitForm
    <2>7. QED
      BY <1>2, <2>1, <2>2, <2>3, <2>4, <2>5, <2>6 DEF AnswerForm
  <1>3. ASSUME NEW w \in Thread, Deploy(w) PROVE ProgressInv'
    <2>w. ASSUME Wait(w), UNCHANGED applied, target[w] \in Deployment PROVE ProgressInv'
      <3>1. /\ state' = [state EXCEPT ![target[w]] = Stored(w)]
            /\ local' = [local EXCEPT ![w] = NoLocal]
            /\ UNCHANGED <<applied, target>>
        BY <2>w DEF Wait, Return
      <3>2. pc'[w] \notin AtService /\ \A v \in Thread \ {w} : pc'[v] = pc[v]
        BY <2>w DEF Wait, Return, TypeInv, TypeOK, AtService
      <3>3. \A d \in Deployment : status'[d] = "Success" => status[d] = "Success"
        BY <2>w DEF Wait, TypeInv, TypeOK
      <3>4. QED
        BY <2>w, <3>1, <3>2, <3>3, StoreStep
    <2>r. ASSUME Return(w), UNCHANGED rows, UNCHANGED applied PROVE ProgressInv'
      BY <2>r, ControlStep DEF Return, NoLocal, TypeInv, TypeOK
    <2>t. pc[w] \in Working => target[w] \in Deployment
      BY DEF TypeInv, TargetOK, Working, Deploying
    <2>1. CASE Lock(w)
      BY <2>1, ControlStep DEF Lock, Goto, TypeInv, TypeOK
    <2>2. CASE RefreshDeletedEnvironment(w)
      BY <2>2, <2>r DEF RefreshDeletedEnvironment
    <2>3. CASE Refresh(w)
      <3>1. target[w] \in Deployment
        BY <2>3, <2>t DEF Refresh, Working, Deploying
      <3>2. CASE local' = [local EXCEPT ![w] = [index     |-> state[target[w]].index,
                                               configs   |-> state[target[w]].configs,
                                               inherited |-> {}]]
                 /\ pc' = [pc EXCEPT ![w] = "marking"] /\ UNCHANGED target
        <4>1. local'[w].index = state[target[w]].index
          BY <3>2 DEF TypeInv, TypeOK
        <4>2. \A v \in Thread \ {w} : local'[v] = local[v] /\ pc'[v] = pc[v]
          BY <3>2 DEF TypeInv, TypeOK
        <4>3. pc'[w] \notin AtService
          BY <3>2 DEF TypeInv, TypeOK
        <4>4. QED
          BY <2>3, <3>1, <3>2, <4>1, <4>2, <4>3, ControlStep DEF Refresh
      <3>3. CASE Goto(w, "failing")
        BY <2>3, <3>3, ControlStep DEF Refresh, Goto, TypeInv, TypeOK
      <3>4. QED
        BY <2>3, <3>2, <3>3 DEF Refresh
    <2>4. CASE MarkInProgress(w)
      BY <2>4, ControlStep DEF MarkInProgress, Goto, TypeInv, TypeOK
    <2>5. CASE BeginService(w)
      <3>1. CASE Return(w)
        BY <2>5, <2>r, <3>1 DEF BeginService
      <3>2. CASE Goto(w, "evaluating") \/ Goto(w, "wingman") \/ Goto(w, "failing")
        BY <2>5, <3>2, ControlStep DEF BeginService, Goto, TypeInv, TypeOK
      <3>3. QED
        BY <2>5, <3>1, <3>2 DEF BeginService
    <2>6. CASE DeployWingman(w)
      <3>1. CASE Wait(w)
        BY <2>6, <2>t, <2>w, <3>1 DEF DeployWingman, Working, Deploying
      <3>2. CASE Goto(w, "evaluating") /\ UNCHANGED rows
        BY <2>6, <3>2, ControlStep DEF DeployWingman, Goto, TypeInv, TypeOK
      <3>3. QED
        BY <2>6, <3>1, <3>2 DEF DeployWingman
    <2>7. CASE Evaluate(w)
      <3>1. CASE Wait(w)
        BY <2>7, <2>t, <2>w, <3>1 DEF Evaluate, Working, Deploying
      <3>2. CASE (Goto(w, "applying") \/ Goto(w, "failing")) /\ UNCHANGED rows
        BY <2>7, <3>2, ControlStep DEF Evaluate, Goto, TypeInv, TypeOK
      <3>3. CASE Return(w) /\ UNCHANGED rows
        BY <2>7, <2>r, <3>3 DEF Evaluate
      <3>4. QED
        BY <2>7, <3>1, <3>2, <3>3 DEF Evaluate
    <2>8. CASE DeployService(w)
      BY <2>8, DeployServiceStep
    <2>9. CASE Succeed(w)
      BY <2>9, <2>t, StoreStep DEF Succeed, Return, TypeInv, TypeOK, Working, Deploying
    <2>10. CASE MarkErrored(w)
      BY <2>10, ControlStep DEF MarkErrored, Return, NoLocal, TypeInv, TypeOK
    <2>11. CASE StopCancelled(w)
      BY <2>11, <2>r DEF StopCancelled
    <2>12. CASE CallFails(w)
      <3>1. CASE Return(w)
        BY <2>12, <2>r, <3>1 DEF CallFails
      <3>2. CASE Goto(w, "failing")
        BY <2>12, <3>2, ControlStep DEF CallFails, Goto, TypeInv, TypeOK
      <3>3. QED
        BY <2>12, <3>1, <3>2 DEF CallFails
    <2>13. QED
      BY <1>3, <2>1, <2>2, <2>3, <2>4, <2>5, <2>6, <2>7, <2>8, <2>9, <2>10, <2>11, <2>12 DEF Deploy
  <1>4. ASSUME NEW w \in Thread, EnvironmentNotFound(w) PROVE ProgressInv'
    BY <1>4, ControlStep DEF EnvironmentNotFound, Return, NoLocal, TypeInv, TypeOK
  <1>5. ASSUME NEW w \in Thread, HandleDeployCancel(w) PROVE ProgressInv'
    BY <1>5, ControlStep DEF HandleDeployCancel, IsCancelled, CancelContext, TypeInv, TypeOK
  <1>6. CASE DeleteEnvironment
    BY <1>6, ControlStep DEF DeleteEnvironment, threads, TypeInv, TypeOK
  <1>7. CASE Crash
    BY <1>7, ControlStep DEF Crash, NoLocal, TypeInv, TypeOK
  <1>8. CASE Quiet \/ UNCHANGED vars
    BY <1>8, ControlStep DEF Quiet, vars, threads, TypeInv, TypeOK
  <1>9. QED
    BY <1>1, <1>2, <1>3, <1>4, <1>5, <1>6, <1>7, <1>8 DEF Next

LEMMA ProgressCorrect == Spec => [](TypeInv /\ ProgressInv)
  <1>1. Init => TypeInv /\ ProgressInv
    BY InitTyped, InitProgress
  <1>2. TypeInv /\ ProgressInv /\ [Next]_vars => (TypeInv /\ ProgressInv)'
    BY StepTyped, StepProgress
  <1>3. QED
    BY <1>1, <1>2, PTL DEF Spec

(* No row ever counts a service that was not brought up.                    *)
THEOREM ProgressReal == Spec => []ProgressIsReal
  <1>1. TypeInv /\ ProgressInv => ProgressIsReal
    BY DEF ProgressInv, RowsReal, ProgressIsReal
  <1>2. QED
    BY <1>1, ProgressCorrect, PTL

(* A deployment is successful only when all of its services are up.         *)
THEOREM SuccessComplete == Spec => []SuccessIsComplete
  <1>1. TypeInv /\ ProgressInv => SuccessIsComplete
    BY DEF ProgressInv
  <1>2. QED
    BY <1>1, ProgressCorrect, PTL

(* Services come up in the order in which they were sorted.                 *)
THEOREM AppliedOrdered == Spec => []AppliedInOrder
  <1>1. TypeInv /\ ProgressInv => AppliedInOrder
    BY DEF ProgressInv, AppliedReal, AppliedInOrder
  <1>2. QED
    BY <1>1, ProgressCorrect, PTL

----------------------------------------------------------------------------
(***************************************************************************)
(* The refinement.  Every step of Deployments brings one service up, or    *)
(* records the count of one deployment, or is a stutter of Rollout.  That  *)
(* what is recorded is a prefix that is up is ProgressInv after the step.  *)
(***************************************************************************)
LEMMA PromiseStutters ==
  ASSUME UNCHANGED applied,
         \A d \in Deployment :
           /\ state'[d].index = state[d].index
           /\ status'[d] = "Success" <=> status[d] = "Success"
  PROVE  UNCHANGED Promise!vars
  BY DEF Promise!vars

LEMMA PromiseRecords ==
  ASSUME TypeInv', ProgressInv', UNCHANGED applied,
         NEW d \in Deployment,
         \A e \in Deployment \ {d} :
           /\ state'[e].index = state[e].index
           /\ status'[e] = "Success" <=> status[e] = "Success",
         status'[d] = "Success" => state'[d].index = Len(ServiceList[d])
  PROVE  Promise!Next
  <1> DEFINE n == state'[d].index
             finished == status'[d] = "Success"
             Size == [e \in Deployment |-> Len(ServiceList[e])]
             counted == [e \in Deployment |-> state[e].index]
             successful == [e \in Deployment |-> status[e] = "Success"]
  <1>1. n \in 0..Size[d] /\ 1..n \subseteq applied[d]
    BY ConstantsAssumption DEF TypeInv, TypeOK, ProgressInv, RowsReal
  <1>2. finished \in BOOLEAN /\ (finished => n = Size[d])
    OBVIOUS
  <1>3. [e \in Deployment |-> state'[e].index] = [counted EXCEPT ![d] = n]
    OBVIOUS
  <1>4. [e \in Deployment |-> status'[e] = "Success"] = [successful EXCEPT ![d] = finished]
    OBVIOUS
  <1>5. Promise!Record(d)
    BY <1>1, <1>2, <1>3, <1>4 DEF Promise!Record
  <1>6. QED
    BY <1>5 DEF Promise!Next

LEMMA PromiseBringsUp ==
  ASSUME TypeInv, ProgressInv, NEW w \in Thread, DeployService(w)
  PROVE  Promise!Next
  <1> DEFINE d == target[w]
             i == local[w].index + 1
             Size == [e \in Deployment |-> Len(ServiceList[e])]
  <1>0. /\ d \in Deployment
        /\ local[w].index \in Nat
        /\ local[w].index < Len(ServiceList[d])
        /\ 1..local[w].index \subseteq applied[d]
    BY DEF DeployService, TypeInv, TypeOK, TargetOK, ProgressInv, LocalReal, AtService, ServicesLeft
  <1>1. /\ d \in Deployment
        /\ i \in 1..Size[d]
        /\ 1..(i - 1) \subseteq applied[d]
    BY <1>0, ConstantsAssumption
  <1>2. applied' = [applied EXCEPT ![d] = @ \cup {i}] /\ UNCHANGED <<state, status>>
    BY DEF DeployService, rows
  <1>3. Promise!BringUp(d)
    BY <1>1, <1>2 DEF Promise!BringUp
  <1>4. QED
    BY <1>1, <1>3 DEF Promise!Next

LEMMA StepRefines ==
  TypeInv /\ TypeInv' /\ ProgressInv /\ ProgressInv' /\ [Next]_vars
    => [Promise!Next]_(Promise!vars)
  <1> SUFFICES ASSUME TypeInv, TypeInv', ProgressInv, ProgressInv', [Next]_vars
               PROVE  Promise!Next \/ UNCHANGED Promise!vars
    OBVIOUS
  <1> USE DEF rows, cluster, world
  <1>1. ASSUME NEW d \in Deployment, Create(d)
        PROVE  Promise!Next \/ UNCHANGED Promise!vars
    <2>1. CASE CancelInProgressDeployments(d)
      BY <2>1, PromiseStutters DEF CancelInProgressDeployments, Unfinished, TypeInv, TypeOK
    <2>2. CASE RefuseModules(d) \/ GetLastDeployment(d)
      BY <2>2, PromiseStutters DEF RefuseModules, GetLastDeployment
    <2>3. CASE NewDeployment(d)
      BY <2>3, PromiseRecords DEF NewDeployment, TypeInv, TypeOK
    <2>4. QED
      BY <1>1, <2>1, <2>2, <2>3 DEF Create
  <1>2. ASSUME NEW f \in Form, ReadForm(f) \/ AnswerForm(f)
        PROVE  Promise!Next \/ UNCHANGED Promise!vars
    <2>1. CASE CommitForm(f)
      <3>1. target[f] \in Deployment
        BY <2>1 DEF CommitForm, TypeInv, TargetOK, Thread
      <3>2. QED
        BY <2>1, <3>1, PromiseRecords DEF CommitForm, TypeInv, TypeOK
    <2>2. CASE ReadForm(f) \/ LockForm(f) \/ AcceptEntry(f) \/ RefuseEntry(f) \/ FailEntry(f)
      BY <2>2, PromiseStutters DEF ReadForm, LockForm, AcceptEntry, RefuseEntry, FailEntry
    <2>3. QED
      BY <1>2, <2>1, <2>2 DEF AnswerForm
  <1>3. ASSUME NEW w \in Thread, Deploy(w)
        PROVE  Promise!Next \/ UNCHANGED Promise!vars
    <2>t. pc[w] \in Working => target[w] \in Deployment
      BY DEF TypeInv, TargetOK, Working, Deploying
    <2>w. ASSUME Wait(w), UNCHANGED applied, target[w] \in Deployment PROVE Promise!Next
      BY <2>w, PromiseRecords DEF Wait, TypeInv, TypeOK
    <2>1. CASE \/ Lock(w) \/ RefreshDeletedEnvironment(w) \/ Refresh(w) \/ BeginService(w)
               \/ StopCancelled(w) \/ CallFails(w)
      BY <2>1, PromiseStutters
      DEF Lock, RefreshDeletedEnvironment, Refresh, BeginService, StopCancelled, CallFails
    <2>2. CASE MarkInProgress(w) \/ MarkErrored(w)
      <3>1. /\ UNCHANGED <<state, applied>>
            /\ target[w] \in Deployment
            /\ \E s \in {"InProgress", "Errored"} : status' = [status EXCEPT ![target[w]] = s]
        BY <2>2, <2>t DEF MarkInProgress, MarkErrored, Working, Deploying
      <3>2. /\ status'[target[w]] # "Success"
            /\ \A e \in Deployment \ {target[w]} : status'[e] = status[e]
        BY <3>1 DEF TypeInv, TypeOK
      <3>3. QED
        BY <3>1, <3>2, PromiseRecords
    <2>3. CASE DeployWingman(w)
      <3>1. UNCHANGED applied /\ target[w] \in Deployment /\ (Wait(w) \/ UNCHANGED rows)
        BY <2>3, <2>t DEF DeployWingman, Working, Deploying
      <3>2. QED
        BY <2>w, <3>1, PromiseStutters
    <2>4. CASE Evaluate(w)
      <3>1. UNCHANGED applied /\ target[w] \in Deployment /\ (Wait(w) \/ UNCHANGED rows)
        BY <2>4, <2>t DEF Evaluate, Working, Deploying
      <3>2. QED
        BY <2>w, <3>1, PromiseStutters
    <2>5. CASE DeployService(w)
      BY <2>5, PromiseBringsUp
    <2>6. CASE Succeed(w)
      <3>1. /\ target[w] \in Deployment
            /\ local[w].index = Len(ServiceList[target[w]])
        BY <2>6, <2>t, ConstantsAssumption
        DEF Succeed, Working, Deploying, ServicesLeft, TypeInv, TypeOK, ProgressInv, LocalReal
      <3>2. /\ UNCHANGED applied
            /\ state' = [state EXCEPT ![target[w]] = Stored(w)]
            /\ status' = [status EXCEPT ![target[w]] = "Success"]
        BY <2>6 DEF Succeed
      <3>3. state'[target[w]].index = Len(ServiceList[target[w]])
        BY <3>1, <3>2 DEF Stored, TypeInv, TypeOK
      <3>4. QED
        BY <3>1, <3>2, <3>3, PromiseRecords DEF TypeInv, TypeOK
    <2>7. QED
      BY <1>3, <2>1, <2>2, <2>3, <2>4, <2>5, <2>6 DEF Deploy
  <1>4. ASSUME NEW w \in Thread, EnvironmentNotFound(w) \/ HandleDeployCancel(w)
        PROVE  UNCHANGED Promise!vars
    BY <1>4, PromiseStutters
    DEF EnvironmentNotFound, HandleDeployCancel, IsCancelled, CancelContext
  <1>5. CASE DeleteEnvironment \/ Crash \/ Quiet \/ UNCHANGED vars
    BY <1>5, PromiseStutters DEF DeleteEnvironment, Crash, Quiet, vars
  <1>6. QED
    BY <1>1, <1>2, <1>3, <1>4, <1>5 DEF Next

(* Requests, forms, goroutines, cancellation and crashes together implement *)
(* the abstract rollout.                                                    *)
THEOREM RolloutImplemented == Spec => ImplementsRollout
  <1>1. Init => Promise!Init
    <2> SUFFICES ASSUME Init PROVE Promise!Init
      OBVIOUS
    <2>1. \A d \in Deployment : state[d].index = 0 /\ (status[d] = "Success") = FALSE
      BY DEF Init, NoState
    <2>2. applied = [d \in Deployment |-> {}]
      BY DEF Init
    <2>3. [d \in Deployment |-> state[d].index] = [d \in Deployment |-> 0]
      BY <2>1
    <2>4. [d \in Deployment |-> status[d] = "Success"] = [d \in Deployment |-> FALSE]
      BY <2>1, Zenon
    <2>5. QED
      BY <2>2, <2>3, <2>4 DEF Promise!Init
  <1>2. QED
    BY <1>1, StepRefines, ProgressCorrect, PTL DEF Spec, Promise!Spec, ImplementsRollout
----------------------------------------------------------------------------
(***************************************************************************)
(* What a deployment inherits from.  PreviousIsComplete only speaks of rows*)
(* that exist; the previous deployment is chosen a step before the row is  *)
(* inserted, and its success may be taken back in between, so what is kept *)
(* is that it was brought up completely and has a row of its own.          *)
(***************************************************************************)
Before == {"idle", "validating", "inserting"}

(* A deployment has no row before its request has inserted it.              *)
NotYetCreated ==
  \A d \in Deployment : pc[d] \in Before => \A i \in DOMAIN created : created[i] # d

PreviousKnown ==
  \A d \in Deployment : previous[d] # None =>
    /\ 1..Len(ServiceList[previous[d]]) \subseteq applied[previous[d]]
    /\ pc[d] = "inserting" => \E i \in DOMAIN created : created[i] = previous[d]
    /\ pc[d] \notin {"idle", "validating"}

PreviousInv == NotYetCreated /\ PreviousKnown /\ PreviousIsComplete

LEMMA InitPrevious == Init => PreviousInv
  BY DEF Init, PreviousInv, NotYetCreated, PreviousKnown, PreviousIsComplete

(* A step that inserts no row, chooses no previous deployment and takes no  *)
(* request back to where it has no row.                                     *)
LEMMA PreviousFrame ==
  ASSUME TypeInv, PreviousInv, UNCHANGED <<previous, created>>,
         \A d \in Deployment : applied[d] \subseteq applied'[d],
         \A d \in Deployment :
           /\ pc'[d] \in {"idle", "validating"} => pc[d] \in {"idle", "validating"}
           /\ pc'[d] = "inserting" => pc[d] = "inserting"
  PROVE  PreviousInv'
  <1> USE DEF PreviousInv, Before
  <1>1. NotYetCreated'
    BY DEF NotYetCreated
  <1>2. \A d \in Deployment : previous[d] # None => previous[d] \in Deployment
    BY DEF TypeInv, TypeOK
  <1>3. PreviousKnown'
    BY <1>2 DEF PreviousKnown
  <1>4. PreviousIsComplete'
    <2>1. \A i \in DOMAIN created : created[i] \in Deployment
      BY DEF TypeInv, TypeOK
    <2>2. QED
      BY <1>2, <2>1 DEF PreviousIsComplete
  <1>5. QED
    BY <1>1, <1>3, <1>4

(* The last successful deployment is chosen: all of its services are up.    *)
LEMMA PreviousChosen ==
  ASSUME TypeInv, ProgressInv, PreviousInv, NEW d \in Deployment, GetLastDeployment(d)
  PROVE  PreviousInv'
  <1> USE DEF PreviousInv, Before
  <1>1. /\ UNCHANGED <<created, applied, status>>
        /\ pc[d] = "validating"
        /\ pc' = [pc EXCEPT ![d] = "inserting"]
        /\ d \in Thread /\ pc \in [Thread -> Control]
        /\ previous \in [Deployment -> Deployment \cup {None}]
        /\ created \in Seq(Deployment)
    BY DEF GetLastDeployment, Goto, cluster, Thread, TypeInv, TypeOK
  <1>2. PICK p : /\ previous' = [previous EXCEPT ![d] = p]
                 /\ \/ p = None
                    \/ \E i \in DOMAIN created : created[i] = p /\ status[p] = "Success"
    BY DEF GetLastDeployment, Successful
  <1>3. \A i \in DOMAIN created : created[i] # d
    BY <1>1 DEF NotYetCreated
  <1>4. NotYetCreated'
    BY <1>1 DEF NotYetCreated, Thread
  <1>5. PreviousKnown'
    <2> SUFFICES ASSUME NEW e \in Deployment, previous'[e] # None
                 PROVE  /\ 1..Len(ServiceList[previous'[e]]) \subseteq applied[previous'[e]]
                        /\ pc'[e] = "inserting" =>
                             \E i \in DOMAIN created : created[i] = previous'[e]
                        /\ pc'[e] \notin {"idle", "validating"}
      BY <1>1 DEF PreviousKnown
    <2>1. CASE e = d
      <3>1. previous'[e] = p /\ pc'[e] = "inserting"
        BY <1>1, <1>2, <2>1
      <3>2. PICK i \in DOMAIN created : created[i] = p /\ status[p] = "Success"
        BY <1>2, <3>1
      <3>3. p \in Deployment
        BY <1>1, <3>2
      <3>4. 1..Len(ServiceList[p]) \subseteq applied[p]
        BY <3>2, <3>3 DEF ProgressInv, SuccessIsComplete
      <3>5. QED
        BY <3>1, <3>2, <3>4
    <2>2. CASE e # d
      <3>1. previous'[e] = previous[e] /\ pc'[e] = pc[e]
        BY <1>1, <1>2, <2>2 DEF Thread
      <3>2. QED
        BY <3>1 DEF PreviousKnown
    <2>3. QED
      BY <2>1, <2>2
  <1>6. PreviousIsComplete'
    <2>1. \A i \in DOMAIN created : created[i] \in Deployment
      BY <1>1
    <2>2. \A i \in DOMAIN created : previous'[created[i]] = previous[created[i]]
      BY <1>1, <1>2, <1>3, <2>1
    <2>3. QED
      BY <1>1, <2>2 DEF PreviousIsComplete
  <1>7. QED
    BY <1>4, <1>5, <1>6

(* The row is inserted after that of its previous deployment.               *)
LEMMA PreviousInserted ==
  ASSUME TypeInv, PreviousInv, NEW d \in Deployment, NewDeployment(d)
  PROVE  PreviousInv'
  <1> USE DEF PreviousInv, Before
  <1>1. /\ UNCHANGED <<previous, applied>>
        /\ pc[d] = "inserting"
        /\ pc' = [pc EXCEPT ![d] = "locking"]
        /\ d \in Thread /\ pc \in [Thread -> Control]
        /\ created' = Append(created, d)
        /\ created \in Seq(Deployment)
    BY DEF NewDeployment, Goto, cluster, Thread, TypeInv, TypeOK
  <1>2. /\ DOMAIN created = 1..Len(created) /\ Len(created) \in Nat
        /\ DOMAIN created' = 1..(Len(created) + 1)
        /\ \A i \in DOMAIN created : created'[i] = created[i]
        /\ created'[Len(created) + 1] = d
    BY <1>1
  <1>3. \A e \in Deployment : e # d => pc'[e] = pc[e]
    BY <1>1 DEF Thread
  <1>4. \A i \in DOMAIN created' : i \in DOMAIN created \/ i = Len(created) + 1
    BY <1>2
  <1>5. NotYetCreated'
    BY <1>1, <1>2, <1>3, <1>4 DEF NotYetCreated
  <1>6. PreviousKnown'
    <2>1. \A i \in DOMAIN created : i \in DOMAIN created' /\ created'[i] = created[i]
      BY <1>2
    <2>2. pc'[d] = "locking"
      BY <1>1
    <2>3. QED
      BY <1>1, <1>3, <2>1, <2>2 DEF PreviousKnown
  <1>7. PreviousIsComplete'
    <2> SUFFICES ASSUME NEW i \in DOMAIN created', previous[created'[i]] # None
                 PROVE  /\ 1..Len(ServiceList[previous[created'[i]]])
                             \subseteq applied[previous[created'[i]]]
                        /\ \E j \in 1..(i - 1) : created'[j] = previous[created'[i]]
      BY <1>1 DEF PreviousIsComplete
    <2>1. CASE i \in DOMAIN created
      <3>1. created'[i] = created[i] /\ \A j \in 1..(i - 1) : created'[j] = created[j]
        BY <1>2, <2>1
      <3>2. QED
        BY <2>1, <3>1 DEF PreviousIsComplete
    <2>2. CASE i = Len(created) + 1
      <3>1. created'[i] = d /\ i - 1 = Len(created)
        BY <1>2, <2>2
      <3>2. PICK j \in DOMAIN created : created[j] = previous[d]
        BY <1>1, <3>1 DEF PreviousKnown
      <3>3. j \in 1..(i - 1) /\ created'[j] = previous[d]
        BY <1>2, <3>1, <3>2
      <3>4. 1..Len(ServiceList[previous[d]]) \subseteq applied[previous[d]]
        BY <3>1 DEF PreviousKnown
      <3>5. QED
        BY <3>1, <3>3, <3>4
    <2>3. QED
      BY <1>4, <2>1, <2>2
  <1>8. QED
    BY <1>5, <1>6, <1>7

LEMMA StepPrevious == TypeInv /\ ProgressInv /\ PreviousInv /\ [Next]_vars => PreviousInv'
  <1> SUFFICES ASSUME TypeInv, ProgressInv, PreviousInv, [Next]_vars PROVE PreviousInv'
    OBVIOUS
  <1> USE DEF rows, cluster
  <1>t. pc \in [Thread -> Control] /\ Deployment \subseteq Thread /\ Form \subseteq Thread
    BY DEF TypeInv, TypeOK, Thread
  <1>f. ASSUME UNCHANGED <<previous, created>>,
               \A d \in Deployment : applied[d] \subseteq applied'[d],
               NEW w \in Thread, NEW where, pc' = [pc EXCEPT ![w] = where],
               \/ where \notin Before
               \/ where = "validating" /\ pc[w] = "idle"
        PROVE  PreviousInv'
    BY <1>t, <1>f, PreviousFrame DEF Before
  <1>s. ASSUME UNCHANGED <<previous, created>>, UNCHANGED applied, UNCHANGED pc
        PROVE  PreviousInv'
    BY <1>s, PreviousFrame
  <1> USE DEF Before
  <1>1. ASSUME NEW d \in Deployment, Create(d) PROVE PreviousInv'
    <2>1. CASE CancelInProgressDeployments(d)
      BY <1>t, <1>f, <2>1 DEF CancelInProgressDeployments, Goto
    <2>2. CASE RefuseModules(d)
      BY <1>t, <1>f, <2>2 DEF RefuseModules, Return
    <2>3. CASE GetLastDeployment(d)
      BY <2>3, PreviousChosen
    <2>4. CASE NewDeployment(d)
      BY <2>4, PreviousInserted
    <2>5. QED
      BY <1>1, <2>1, <2>2, <2>3, <2>4 DEF Create
  <1>2. ASSUME NEW f \in Form, ReadForm(f) \/ AnswerForm(f) PROVE PreviousInv'
    <2>1. CASE AcceptEntry(f)
      BY <1>s, <2>1 DEF AcceptEntry
    <2>2. CASE ~AcceptEntry(f)
      <3>1. \E where \in {"posting", "answering", "locking", "done"} :
              pc' = [pc EXCEPT ![f] = where]
        BY <1>2, <2>2
        DEF ReadForm, AnswerForm, LockForm, RefuseEntry, FailEntry, CommitForm, Goto, Return
      <3>2. UNCHANGED <<previous, created, applied>>
        BY <1>2, <2>2 DEF ReadForm, AnswerForm, LockForm, RefuseEntry, FailEntry, CommitForm
      <3>3. QED
        BY <1>t, <1>f, <3>1, <3>2
    <2>3. QED
      BY <2>1, <2>2
  <1>3. ASSUME NEW w \in Thread, Deploy(w) PROVE PreviousInv'
    <2>1. UNCHANGED <<previous, created>>
      BY <1>3 DEF Deploy, Lock, RefreshDeletedEnvironment, Refresh, MarkInProgress, BeginService,
         DeployWingman, Evaluate, DeployService, Succeed, MarkErrored, StopCancelled, CallFails, Wait
    <2>2. \A d \in Deployment : applied[d] \subseteq applied'[d]
      <3>1. CASE DeployService(w)
        BY <3>1 DEF DeployService, TypeInv, TypeOK
      <3>2. CASE ~DeployService(w)
        BY <1>3, <3>2 DEF Deploy, Lock, RefreshDeletedEnvironment, Refresh, MarkInProgress,
           BeginService, DeployWingman, Evaluate, Succeed, MarkErrored, StopCancelled, CallFails
      <3>3. QED
        BY <3>1, <3>2
    <2>3. \E where \in Control \ Before : pc' = [pc EXCEPT ![w] = where]
      BY <1>3 DEF Deploy, Lock, RefreshDeletedEnvironment, Refresh, MarkInProgress, BeginService,
         DeployWingman, Evaluate, DeployService, Succeed, MarkErrored, StopCancelled, CallFails,
         Wait, Goto, Return, Control, Working, Deploying
    <2>4. QED
      BY <1>f, <2>1, <2>2, <2>3
  <1>4. ASSUME NEW w \in Thread, EnvironmentNotFound(w) PROVE PreviousInv'
    BY <1>f, <1>4 DEF EnvironmentNotFound, Return
  <1>5. ASSUME NEW w \in Thread, HandleDeployCancel(w) PROVE PreviousInv'
    BY <1>s, <1>5 DEF HandleDeployCancel, IsCancelled, CancelContext
  <1>6. CASE DeleteEnvironment
    BY <1>s, <1>6 DEF DeleteEnvironment, threads
  <1>7. CASE Crash
    BY <1>t, <1>7, PreviousFrame DEF Crash
  <1>8. CASE Quiet \/ UNCHANGED vars
    BY <1>s, <1>8 DEF Quiet, vars, threads
  <1>9. QED
    BY <1>1, <1>2, <1>3, <1>4, <1>5, <1>6, <1>7, <1>8 DEF Next

(* What a deployment inherits from was inserted before it and brought up    *)
(* every one of its services, whatever has become of its status since.      *)
THEOREM PreviousComplete == Spec => []PreviousIsComplete
  <1>1. TypeInv /\ ProgressInv /\ PreviousInv /\ [Next]_vars => PreviousInv'
    BY StepPrevious
  <1>2. PreviousInv => PreviousIsComplete
    BY DEF PreviousInv
  <1>3. QED
    BY <1>1, <1>2, InitPrevious, ProgressCorrect, PTL DEF Spec
----------------------------------------------------------------------------
(***************************************************************************)
(* When forms do not overlap.  A row's state is overwritten with what a    *)
(* thread holds, so nothing is lost as long as every thread that may write *)
(* holds at least what the row says.  That needs the threads to take turns *)
(* (OneAtATime), which the guard of ReadForm gives, and not the lock: the  *)
(* row is read before it.  A create request that has yet to insert its row *)
(* is not in the way of a form, since there is nothing to answer.          *)
(***************************************************************************)
Unknown == {"idle", "validating", "inserting"}
Knows == {"posting", "answering", "marking", "running"} \cup AtService

OneAtATime ==
  \A v, w \in Thread :
    /\ target[v] = target[w]
    /\ pc[v] \notin {"idle", "done"}
    /\ pc[w] \notin {"idle", "done"}
    => v = w

AbsentIsUnknown ==
  /\ \A d \in Deployment : pc[d] \in Unknown => status[d] = "absent"
  /\ \A f \in Form : target[f] \in Deployment => status[target[f]] # "absent"

(* Variable by variable, what thread w holds is no older than its row.      *)
Holds(w) ==
  /\ state[target[w]].index <= local[w].index
  /\ state[target[w]].configs \subseteq local[w].configs

KeepsUp == \A w \in Thread : pc[w] \in Knows => Holds(w)

SerialInv == OneAtATime /\ AbsentIsUnknown /\ KeepsUp

LEMMA InitSerial == Init => SerialInv
  <1> SUFFICES ASSUME Init PROVE SerialInv
    OBVIOUS
  <1>1. \A w \in Thread : pc[w] = "idle"
    BY DEF Init
  <1>2. \A f \in Form : target[f] \notin Deployment
    BY ConstantsAssumption DEF Init, Thread
  <1>3. \A d \in Deployment : status[d] = "absent"
    BY DEF Init
  <1>4. QED
    BY <1>1, <1>2, <1>3
    DEF SerialInv, OneAtATime, AbsentIsUnknown, KeepsUp, Knows, AtService

(* A step of one busy thread, which only touches the row of its deployment. *)
LEMMA SerialFrame ==
  ASSUME TypeInv, SerialInv, NEW w \in Thread, pc[w] \notin {"idle", "done"},
         target' = target,
         \A v \in Thread \ {w} : pc'[v] = pc[v] /\ local'[v] = local[v],
         \A d \in Deployment \ {target[w]} : status'[d] = status[d] /\ state'[d] = state[d],
         status[target[w]] # "absent" => status'[target[w]] # "absent",
         w \in Deployment /\ pc'[w] \in Unknown => pc[w] \in Unknown /\ status' = status,
         pc'[w] \in Knows => Holds(w)'
  PROVE  SerialInv'
  <1>1. target[w] \in Deployment
    BY DEF TypeInv, TargetOK
  <1>2. OneAtATime'
    BY DEF SerialInv, OneAtATime
  <1>3. AbsentIsUnknown'
    <2>1. ASSUME NEW d \in Deployment, pc'[d] \in Unknown PROVE status'[d] = "absent"
      <3>1. CASE d = w
        BY <2>1, <3>1 DEF SerialInv, AbsentIsUnknown
      <3>2. CASE d # w
        <4>1. pc[d] \in Unknown /\ status[d] = "absent"
          BY <2>1, <3>2 DEF SerialInv, AbsentIsUnknown, Thread
        <4>2. d # target[w]
          <5>1. CASE w \in Deployment
            BY <3>2, <5>1 DEF TypeInv, TargetOK
          <5>2. CASE w \in Form
            BY <1>1, <4>1, <5>2 DEF SerialInv, AbsentIsUnknown
          <5>3. QED
            BY <5>1, <5>2 DEF Thread
        <4>3. QED
          BY <4>1, <4>2
      <3>3. QED
        BY <3>1, <3>2
    <2>2. ASSUME NEW f \in Form, target'[f] \in Deployment PROVE status'[target'[f]] # "absent"
      BY <2>2 DEF SerialInv, AbsentIsUnknown
    <2>3. QED
      BY <2>1, <2>2 DEF AbsentIsUnknown
  <1>4. KeepsUp'
    <2> SUFFICES ASSUME NEW v \in Thread, pc'[v] \in Knows, v # w PROVE Holds(v)'
      BY DEF KeepsUp
    <2>1. pc[v] \in Knows /\ pc[v] \notin {"idle", "done"} /\ local'[v] = local[v]
      BY DEF Knows, AtService
    <2>2. target[v] # target[w] /\ target[v] \in Deployment
      BY <2>1 DEF SerialInv, OneAtATime, TypeInv, TargetOK
    <2>3. state'[target[v]] = state[target[v]]
      BY <2>2
    <2>4. Holds(v)
      BY <2>1 DEF SerialInv, KeepsUp
    <2>5. QED
      BY <2>1, <2>3, <2>4 DEF Holds
  <1>5. QED
    BY <1>2, <1>3, <1>4 DEF SerialInv

(* A step that leaves the rows alone and moves w to where it holds nothing  *)
(* new.                                                                     *)
LEMMA SerialMoves ==
  ASSUME TypeInv, SerialInv, NEW w \in Thread, pc[w] \notin {"idle", "done"},
         UNCHANGED <<target, status, state>>,
         NEW where, pc' = [pc EXCEPT ![w] = where],
         \A v \in Thread \ {w} : local'[v] = local[v],
         where \in Unknown => pc[w] \in Unknown,
         where \in Knows => pc[w] \in Knows /\ local'[w] = local[w]
  PROVE  SerialInv'
  <1>1. pc'[w] = where /\ \A v \in Thread \ {w} : pc'[v] = pc[v]
    BY DEF TypeInv, TypeOK
  <1>2. pc'[w] \in Knows => Holds(w)'
    BY <1>1 DEF SerialInv, KeepsUp, Holds
  <1>3. QED
    BY <1>1, <1>2, SerialFrame

(* A thread that stores its state returns or moves on without it.           *)
LEMMA SerialStores ==
  ASSUME TypeInv, SerialInv, NEW w \in Thread, pc[w] \in Knows,
         UNCHANGED target,
         NEW where \in {"done", "locking"}, pc' = [pc EXCEPT ![w] = where],
         local' = [local EXCEPT ![w] = NoLocal],
         NEW s \in Status, status' = [status EXCEPT ![target[w]] = s],
         state' = [state EXCEPT ![target[w]] = Stored(w)]
  PROVE  SerialInv'
  <1>1. target[w] \in Deployment /\ pc[w] \notin {"idle", "done"}
    BY DEF TypeInv, TargetOK, Knows, AtService
  <1>2. pc'[w] = where /\ \A v \in Thread \ {w} : pc'[v] = pc[v] /\ local'[v] = local[v]
    BY DEF TypeInv, TypeOK
  <1>3. \A d \in Deployment \ {target[w]} : status'[d] = status[d] /\ state'[d] = state[d]
    BY DEF TypeInv, TypeOK
  <1>4. status'[target[w]] # "absent"
    BY <1>1 DEF TypeInv, TypeOK, Status
  <1>5. pc'[w] \notin Knows /\ pc'[w] \notin Unknown
    BY <1>2 DEF Knows, AtService, Unknown
  <1>6. QED
    BY <1>1, <1>2, <1>3, <1>4, <1>5, SerialFrame

(* A thread that marks its row without its state.                           *)
LEMMA SerialMarks ==
  ASSUME TypeInv, SerialInv, NEW w \in Thread, pc[w] \notin {"idle", "done"},
         UNCHANGED <<target, state>>,
         NEW where \in {"running", "done", "locking"}, pc' = [pc EXCEPT ![w] = where],
         where = "running" => pc[w] \in Knows /\ local'[w] = local[w],
         \A v \in Thread \ {w} : local'[v] = local[v],
         NEW s \in Status, status' = [status EXCEPT ![target[w]] = s]
  PROVE  SerialInv'
  <1>1. target[w] \in Deployment
    BY DEF TypeInv, TargetOK
  <1>2. pc'[w] = where /\ \A v \in Thread \ {w} : pc'[v] = pc[v] /\ local'[v] = local[v]
    BY DEF TypeInv, TypeOK
  <1>3. \A d \in Deployment \ {target[w]} : status'[d] = status[d] /\ state'[d] = state[d]
    BY DEF TypeInv, TypeOK
  <1>4. status'[target[w]] # "absent"
    BY <1>1 DEF TypeInv, TypeOK, Status
  <1>5. pc'[w] \notin Unknown /\ (pc'[w] \in Knows => Holds(w)')
    BY <1>2 DEF Knows, AtService, Unknown, SerialInv, KeepsUp, Holds
  <1>6. QED
    BY <1>1, <1>2, <1>3, <1>4, <1>5, SerialFrame

(* A form is only posted to a deployment that no thread is busy with.       *)
LEMMA SerialReads ==
  ASSUME "overlap" \notin Faults, TypeInv, SerialInv, NEW f \in Form, ReadForm(f)
  PROVE  SerialInv'
  <1>1. f \in Thread /\ f \notin Deployment
    BY ConstantsAssumption DEF Thread
  <1>2. PICK d \in Deployment :
          /\ status[d] # "absent"
          /\ ~Busy(d)
          /\ target' = [target EXCEPT ![f] = d]
          /\ local' = [local EXCEPT ![f] =
               [index     |-> state[d].index,
                configs   |-> state[d].configs,
                inherited |-> IF previous[d] = None THEN {} ELSE state[previous[d]].configs]]
    BY DEF ReadForm
  <1>3. /\ UNCHANGED <<status, state>>
        /\ pc[f] = "idle" /\ pc' = [pc EXCEPT ![f] = "posting"]
    BY DEF ReadForm, rows
  <1>4. /\ target'[f] = d /\ pc'[f] = "posting"
        /\ local'[f].index = state[d].index /\ local'[f].configs = state[d].configs
        /\ \A v \in Thread \ {f} : pc'[v] = pc[v] /\ target'[v] = target[v] /\ local'[v] = local[v]
    BY <1>1, <1>2, <1>3 DEF TypeInv, TypeOK
  <1>5. \A v \in Thread : target[v] = d => pc[v] \in {"idle", "done"}
    BY <1>2 DEF Busy
  <1>6. OneAtATime'
    BY <1>4, <1>5 DEF SerialInv, OneAtATime
  <1>7. AbsentIsUnknown'
    BY <1>1, <1>2, <1>3, <1>4 DEF SerialInv, AbsentIsUnknown, Thread
  <1>8. KeepsUp'
    <2> SUFFICES ASSUME NEW v \in Thread, pc'[v] \in Knows PROVE Holds(v)'
      BY DEF KeepsUp
    <2>1. CASE v = f
      <3>1. state[d].index \in Nat
        BY DEF TypeInv, TypeOK
      <3>2. QED
        BY <1>3, <1>4, <2>1, <3>1 DEF Holds
    <2>2. CASE v # f
      <3>1. Holds(v)
        BY <1>4, <2>2 DEF SerialInv, KeepsUp
      <3>2. QED
        BY <1>3, <1>4, <2>2, <3>1 DEF Holds
    <2>3. QED
      BY <2>1, <2>2
  <1>9. QED
    BY <1>6, <1>7, <1>8 DEF SerialInv

(* A create request joins: nobody answers a form of a row that is not there.*)
LEMMA SerialBegins ==
  ASSUME TypeInv, SerialInv, NEW d \in Deployment, CancelInProgressDeployments(d)
  PROVE  SerialInv'
  <1>1. /\ UNCHANGED <<target, local, state>>
        /\ pc[d] = "idle" /\ pc' = [pc EXCEPT ![d] = "validating"]
        /\ \A e \in Deployment : status'[e] = "absent" <=> status[e] = "absent"
        /\ d \in Thread
    BY DEF CancelInProgressDeployments, Goto, Unfinished, Thread
  <1>2. pc'[d] = "validating" /\ \A v \in Thread \ {d} : pc'[v] = pc[v]
    BY <1>1 DEF TypeInv, TypeOK
  <1>3. status[d] = "absent" /\ target[d] = d
    BY <1>1 DEF SerialInv, AbsentIsUnknown, Unknown, TypeInv, TargetOK
  <1>4. \A v \in Thread \ {d} : target[v] # d
    BY <1>3 DEF SerialInv, AbsentIsUnknown, Thread, TypeInv, TargetOK
  <1>5. OneAtATime'
    BY <1>1, <1>2, <1>3, <1>4 DEF SerialInv, OneAtATime
  <1>6. AbsentIsUnknown'
    BY <1>1, <1>2, <1>3 DEF SerialInv, AbsentIsUnknown, Thread
  <1>7. KeepsUp'
    BY <1>1, <1>2 DEF SerialInv, KeepsUp, Holds, Knows, AtService
  <1>8. QED
    BY <1>5, <1>6, <1>7 DEF SerialInv

(* Threads that end, or steps that none of them takes.                      *)
LEMMA SerialEnds ==
  ASSUME TypeInv, SerialInv, UNCHANGED <<target, status, state>>,
         \A w \in Thread : pc'[w] = "done" \/ (pc'[w] = pc[w] /\ (local'[w] = local[w] \/ pc[w] = "idle"))
  PROVE  SerialInv'
  <1>1. OneAtATime' /\ AbsentIsUnknown'
    BY DEF SerialInv, OneAtATime, AbsentIsUnknown, Unknown, Thread
  <1>2. KeepsUp'
    BY DEF SerialInv, KeepsUp, Holds, Knows, AtService
  <1>3. QED
    BY <1>1, <1>2 DEF SerialInv

LEMMA StepSerial ==
  ASSUME "overlap" \notin Faults, TypeInv, SerialInv, [Next]_vars
  PROVE  SerialInv'
  <1> USE DEF rows, cluster, world
  <1>t. /\ pc \in [Thread -> Control] /\ Deployment \subseteq Thread /\ Form \subseteq Thread
        /\ \A w \in Thread : pc[w] \notin {"idle", "done"} => target[w] \in Deployment
    BY DEF TypeInv, TypeOK, TargetOK, Thread
  <1>g. ASSUME NEW w \in Thread, NEW where, Goto(w, where), UNCHANGED <<status, state>>,
               pc[w] \notin {"idle", "done"},
               where \in Unknown => pc[w] \in Unknown,
               where \in Knows => pc[w] \in Knows
        PROVE  SerialInv'
    BY <1>g, SerialMoves DEF Goto
  <1>r. ASSUME NEW w \in Thread, Return(w), UNCHANGED <<status, state>> PROVE SerialInv'
    BY <1>r, SerialEnds DEF Return, TypeInv, TypeOK
  <1>1. ASSUME NEW d \in Deployment, Create(d) PROVE SerialInv'
    <2>1. CASE CancelInProgressDeployments(d)
      BY <2>1, SerialBegins
    <2>2. CASE RefuseModules(d)
      BY <1>r, <1>t, <2>2 DEF RefuseModules
    <2>3. CASE GetLastDeployment(d)
      BY <1>g, <1>t, <2>3 DEF GetLastDeployment, Unknown, Knows, AtService
    <2>4. CASE NewDeployment(d)
      <3>1. target[d] = d
        BY DEF TypeInv, TargetOK
      <3>2. QED
        BY <1>t, <2>4, <3>1, SerialMarks DEF NewDeployment, Goto, Status
    <2>5. QED
      BY <1>1, <2>1, <2>2, <2>3, <2>4 DEF Create
  <1>2. ASSUME NEW f \in Form, ReadForm(f) \/ AnswerForm(f) PROVE SerialInv'
    <2>1. CASE ReadForm(f)
      BY <2>1, SerialReads
    <2>2. CASE LockForm(f)
      BY <1>g, <1>t, <2>2 DEF LockForm, Unknown, Knows
    <2>3. CASE AcceptEntry(f)
      <3>1. PICK a : local' = [local EXCEPT ![f].configs = @ \cup {a}]
        BY <2>3 DEF AcceptEntry
      <3>2. /\ \A v \in Thread \ {f} : local'[v] = local[v]
            /\ local'[f].index = local[f].index /\ local[f].configs \subseteq local'[f].configs
        BY <1>t, <3>1 DEF TypeInv, TypeOK
      <3>3. pc[f] = "answering" /\ UNCHANGED <<pc, target, status, state>>
        BY <2>3 DEF AcceptEntry
      <3>4. Holds(f)
        BY <1>t, <3>3 DEF SerialInv, KeepsUp, Knows
      <3>5. Holds(f)'
        BY <3>2, <3>3, <3>4 DEF Holds
      <3>6. QED
        BY <1>t, <3>2, <3>3, <3>5, SerialFrame DEF Unknown
    <2>4. CASE RefuseEntry(f)
      <3>1. \A v \in Thread \ {f} : local'[v] = local[v]
        BY <2>4 DEF RefuseEntry, TypeInv, TypeOK
      <3>2. QED
        BY <1>t, <2>4, <3>1, SerialMoves DEF RefuseEntry, Unknown, Knows, AtService
    <2>5. CASE FailEntry(f)
      BY <1>r, <1>t, <2>5 DEF FailEntry
    <2>6. CASE CommitForm(f)
      BY <1>t, <2>6, SerialStores DEF CommitForm, Knows, Status
    <2>7. QED
      BY <1>2, <2>1, <2>2, <2>3, <2>4, <2>5, <2>6 DEF AnswerForm
  <1>3. ASSUME NEW w \in Thread, Deploy(w) PROVE SerialInv'
    <2> USE DEF Unknown, Knows, AtService
    <2>w. ASSUME Wait(w), pc[w] \in AtService PROVE SerialInv'
      BY <2>w, SerialStores DEF Wait, Return, Status
    <2>1. CASE Lock(w)
      BY <1>g, <2>1 DEF Lock
    <2>2. CASE RefreshDeletedEnvironment(w)
      BY <1>r, <2>2 DEF RefreshDeletedEnvironment
    <2>3. CASE Refresh(w)
      <3>1. CASE Goto(w, "failing")
        BY <1>g, <2>3, <3>1 DEF Refresh
      <3>2. CASE /\ pc' = [pc EXCEPT ![w] = "marking"]
                 /\ local' = [local EXCEPT ![w] = [index     |-> state[target[w]].index,
                                                   configs   |-> state[target[w]].configs,
                                                   inherited |-> {}]]
                 /\ UNCHANGED <<target, ctx>>
        <4>1. /\ pc[w] = "refreshing" /\ pc'[w] = "marking" /\ UNCHANGED <<status, state, target>>
              /\ local'[w].index = state[target[w]].index
              /\ local'[w].configs = state[target[w]].configs
              /\ \A v \in Thread \ {w} : local'[v] = local[v] /\ pc'[v] = pc[v]
          BY <2>3, <3>2 DEF Refresh, TypeInv, TypeOK
        <4>2. state[target[w]].index \in Nat
          BY <1>t, <4>1 DEF TypeInv, TypeOK
        <4>3. Holds(w)'
          BY <4>1, <4>2 DEF Holds
        <4>4. QED
          BY <4>1, <4>3, SerialFrame
      <3>3. QED
        BY <2>3, <3>1, <3>2 DEF Refresh
    <2>4. CASE MarkInProgress(w)
      BY <2>4, SerialMarks DEF MarkInProgress, Goto, Status
    <2>5. CASE BeginService(w)
      <3>1. CASE Return(w)
        BY <1>r, <2>5, <3>1 DEF BeginService
      <3>2. CASE Goto(w, "evaluating") \/ Goto(w, "wingman") \/ Goto(w, "failing")
        BY <1>g, <2>5, <3>2 DEF BeginService
      <3>3. QED
        BY <2>5, <3>1, <3>2 DEF BeginService
    <2>6. CASE DeployWingman(w)
      BY <1>g, <2>6, <2>w DEF DeployWingman
    <2>7. CASE Evaluate(w)
      <3>1. CASE (Goto(w, "applying") \/ Goto(w, "failing")) /\ UNCHANGED rows
        BY <1>g, <2>7, <3>1 DEF Evaluate
      <3>2. CASE Return(w) /\ UNCHANGED rows
        BY <1>r, <3>2
      <3>3. CASE Wait(w)
        BY <2>7, <2>w, <3>3 DEF Evaluate
      <3>4. QED
        BY <2>7, <3>1, <3>2, <3>3 DEF Evaluate
    <2>8. CASE DeployService(w)
      <3>1. /\ pc[w] = "applying" /\ pc'[w] = "running" /\ UNCHANGED <<status, state, target>>
            /\ local[w].index \in Nat
            /\ local'[w].index = local[w].index + 1
            /\ local'[w].configs = local[w].configs
            /\ \A v \in Thread \ {w} : local'[v] = local[v] /\ pc'[v] = pc[v]
        BY <2>8 DEF DeployService, TypeInv, TypeOK
      <3>2. Holds(w) /\ state[target[w]].index \in Nat
        BY <1>t, <3>1 DEF SerialInv, KeepsUp, TypeInv, TypeOK
      <3>3. Holds(w)'
        BY <3>1, <3>2 DEF Holds
      <3>4. QED
        BY <3>1, <3>3, SerialFrame
    <2>9. CASE Succeed(w)
      BY <2>9, SerialStores DEF Succeed, Return, Status
    <2>10. CASE MarkErrored(w)
      <3>1. \A v \in Thread \ {w} : local'[v] = local[v]
        BY <2>10 DEF MarkErrored, Return, TypeInv, TypeOK
      <3>2. QED
        BY <2>10, <3>1, SerialMarks DEF MarkErrored, Return, Status
    <2>11. CASE StopCancelled(w)
      BY <1>r, <2>11 DEF StopCancelled
    <2>12. CASE CallFails(w)
      BY <1>g, <1>r, <2>12 DEF CallFails
    <2>13. QED
      BY <1>3, <2>1, <2>2, <2>3, <2>4, <2>5, <2>6, <2>7, <2>8, <2>9, <2>10, <2>11, <2>12 DEF Deploy
  <1>4. ASSUME NEW w \in Thread, EnvironmentNotFound(w) PROVE SerialInv'
    BY <1>4, <1>r DEF EnvironmentNotFound
  <1>5. ASSUME NEW w \in Thread, HandleDeployCancel(w) PROVE SerialInv'
    BY <1>5, SerialEnds DEF HandleDeployCancel, IsCancelled, CancelContext
  <1>6. CASE DeleteEnvironment \/ Quiet \/ UNCHANGED vars
    BY <1>6, SerialEnds DEF DeleteEnvironment, Quiet, vars, threads
  <1>7. CASE Crash
    BY <1>7, SerialEnds DEF Crash
  <1>8. QED
    BY <1>1, <1>2, <1>3, <1>4, <1>5, <1>6, <1>7 DEF Next

(* Only a thread that holds what its row says writes a row's state.         *)
LEMMA StoresWhatItHolds ==
  ASSUME TypeInv, SerialInv, [Next]_vars, NEW d \in Deployment
  PROVE  /\ state[d].index <= state'[d].index
         /\ state[d].configs \subseteq state'[d].configs
  <1>1. UNCHANGED state \/ \E w \in Thread : pc[w] \in Knows /\ state' = [state EXCEPT ![target[w]] = Stored(w)]
    <2> USE DEF rows, cluster, world, Knows, AtService
    <2>1. ASSUME NEW w \in Thread, Deploy(w), state' # state
          PROVE  pc[w] \in Knows /\ state' = [state EXCEPT ![target[w]] = Stored(w)]
      BY <2>1 DEF Deploy, Lock, RefreshDeletedEnvironment, Refresh, MarkInProgress, BeginService,
         DeployWingman, Evaluate, DeployService, Succeed, MarkErrored, StopCancelled, CallFails, Wait
    <2>2. ASSUME NEW f \in Form, ReadForm(f) \/ AnswerForm(f), state' # state
          PROVE  /\ f \in Thread /\ pc[f] \in Knows
                 /\ state' = [state EXCEPT ![target[f]] = Stored(f)]
      BY <2>2 DEF AnswerForm, ReadForm, LockForm, AcceptEntry, RefuseEntry, FailEntry, CommitForm,
         Thread
    <2>3. ASSUME NEW e \in Deployment, Create(e) PROVE UNCHANGED state
      BY <2>3 DEF Create, CancelInProgressDeployments, RefuseModules, GetLastDeployment, NewDeployment
    <2>4. ASSUME NEW w \in Thread, EnvironmentNotFound(w) \/ HandleDeployCancel(w) PROVE UNCHANGED state
      BY <2>4 DEF EnvironmentNotFound, HandleDeployCancel, IsCancelled, CancelContext
    <2>5. CASE DeleteEnvironment \/ Crash \/ Quiet \/ UNCHANGED vars
      BY <2>5 DEF DeleteEnvironment, Crash, Quiet, vars
    <2>6. QED
      BY <2>1, <2>2, <2>3, <2>4, <2>5 DEF Next
  <1>2. state[d].index \in Nat
    BY DEF TypeInv, TypeOK
  <1>3. CASE UNCHANGED state
    BY <1>2, <1>3
  <1>4. ASSUME NEW w \in Thread, pc[w] \in Knows, state' = [state EXCEPT ![target[w]] = Stored(w)]
        PROVE  /\ state[d].index <= state'[d].index
               /\ state[d].configs \subseteq state'[d].configs
    <2>1. CASE d = target[w]
      <3>1. state'[d].index = local[w].index /\ state'[d].configs = local[w].configs
        BY <1>4, <2>1 DEF Stored, TypeInv, TypeOK
      <3>2. Holds(w)
        BY <1>4 DEF SerialInv, KeepsUp
      <3>3. QED
        BY <2>1, <3>1, <3>2 DEF Holds
    <2>2. CASE d # target[w]
      BY <1>2, <1>4, <2>2 DEF TypeInv, TypeOK
    <2>3. QED
      BY <2>1, <2>2
  <1>5. QED
    BY <1>1, <1>3, <1>4

----------------------------------------------------------------------------
(***************************************************************************)
(* Whatever overlaps.  Of the goroutines of a deployment whose context is  *)
(* not cancelled only one is past the lock, and a form that answers is not *)
(* with it (LockIsOne); what that goroutine holds is no older than the row *)
(* it refreshed from (LockKeepsUp).  A form holds the lock with a row that *)
(* it read before, so of forms nothing of the kind is true.                *)
(***************************************************************************)
Locks(w) == pc[w] \in Holding /\ ctx[w] # "cancelled"
Refreshed == {"marking", "running"} \cup AtService

LockIsOne ==
  \A v, w \in Thread : Locks(v) /\ Locks(w) /\ target[v] = target[w] => v = w

LockKeepsUp == \A w \in Thread : pc[w] \in Refreshed /\ ctx[w] # "cancelled" => Holds(w)

(* The poller only cancels the contexts of goroutines.                      *)
OthersAreLive == \A w \in Thread : pc[w] \notin Working => ctx[w] = "live"

LockInv == LockIsOne /\ LockKeepsUp /\ OthersAreLive

LEMMA InitLock == Init => LockInv
  BY DEF Init, LockInv, LockIsOne, LockKeepsUp, OthersAreLive, Locks, Holding, Deploying,
         Refreshed, AtService

(* A step of one thread: it takes the lock when that is free or keeps it,   *)
(* and it changes a row only while it has the lock.                         *)
LEMMA LockFrame ==
  ASSUME TypeInv, TypeInv', LockInv, NEW w \in Thread,
         \A v \in Thread \ {w} : /\ pc'[v] = pc[v] /\ ctx'[v] = ctx[v]
                                 /\ local'[v] = local[v] /\ target'[v] = target[v],
         Locks(w)' => target'[w] = target[w] /\ (Locks(w) \/ LockFree(target[w])),
         pc'[w] \in Refreshed /\ ctx'[w] # "cancelled" => Holds(w)',
         pc'[w] \notin Working => ctx'[w] = "live",
         \A d \in Deployment : state'[d] = state[d] \/ (d = target[w] /\ Locks(w))
  PROVE  LockInv'
  <1>1. LockIsOne'
    <2>1. ASSUME NEW v \in Thread, v # w, Locks(v)', Locks(w)', target'[v] = target'[w]
          PROVE  FALSE
      <3>1. Locks(v) /\ target[v] = target[w]
        BY <2>1 DEF Locks
      <3>2. ~LockFree(target[w])
        BY <3>1 DEF LockFree, Locks
      <3>3. QED
        BY <2>1, <3>1, <3>2 DEF LockInv, LockIsOne
    <2>2. ASSUME NEW u \in Thread, NEW v \in Thread, u # w, v # w,
                 Locks(u)', Locks(v)', target'[u] = target'[v]
          PROVE  u = v
      BY <2>2 DEF LockInv, LockIsOne, Locks
    <2>3. QED
      BY <2>1, <2>2 DEF LockIsOne
  <1>2. LockKeepsUp'
    <2> SUFFICES ASSUME NEW v \in Thread, v # w, pc'[v] \in Refreshed, ctx'[v] # "cancelled"
                 PROVE  Holds(v)'
      BY DEF LockKeepsUp
    <2>1. Locks(v) /\ pc[v] \in Refreshed /\ ctx[v] # "cancelled"
      BY DEF Locks, Refreshed, AtService, Holding, Deploying
    <2>2. target[v] \in Deployment
      BY <2>1 DEF TypeInv, TargetOK, Refreshed, AtService
    <2>3. state'[target[v]] = state[target[v]]
      BY <2>1, <2>2 DEF LockInv, LockIsOne
    <2>4. Holds(v)
      BY <2>1 DEF LockInv, LockKeepsUp
    <2>5. QED
      BY <2>3, <2>4 DEF Holds
  <1>3. OthersAreLive'
    BY DEF LockInv, OthersAreLive
  <1>4. QED
    BY <1>1, <1>2, <1>3 DEF LockInv

(* A step that leaves the rows' states and what w holds alone.              *)
LEMMA LockMoves ==
  ASSUME TypeInv, TypeInv', LockInv, NEW w \in Thread, UNCHANGED state,
         NEW where, Goto(w, where),
         where \in Holding => Locks(w) \/ LockFree(target[w]),
         where \in Refreshed => pc[w] \in Refreshed,
         where \notin Working => ctx[w] = "live"
  PROVE  LockInv'
  <1>1. /\ pc'[w] = where /\ UNCHANGED <<ctx, local, target>>
        /\ \A v \in Thread \ {w} : pc'[v] = pc[v]
    BY DEF Goto, TypeInv, TypeOK
  <1>2. pc'[w] \in Refreshed /\ ctx'[w] # "cancelled" => Holds(w)'
    BY <1>1 DEF LockInv, LockKeepsUp, Holds
  <1>3. QED
    BY <1>1, <1>2, LockFrame DEF Locks

(* A thread that returns, whether it writes its row first or not.           *)
LEMMA LockReturns ==
  ASSUME TypeInv, TypeInv', LockInv, NEW w \in Thread, Return(w),
         \A d \in Deployment : state'[d] = state[d] \/ (d = target[w] /\ Locks(w))
  PROVE  LockInv'
  <1>1. /\ pc'[w] = "done" /\ ctx'[w] = "live"
        /\ \A v \in Thread \ {w} : /\ pc'[v] = pc[v] /\ ctx'[v] = ctx[v]
                                   /\ local'[v] = local[v] /\ target'[v] = target[v]
    BY DEF Return, TypeInv, TypeOK
  <1>2. ~Locks(w)' /\ pc'[w] \notin Refreshed
    BY <1>1 DEF Locks, Holding, Deploying, Refreshed, AtService
  <1>3. QED
    BY <1>1, <1>2, LockFrame

(* A form that goes on to deploy, having written its row or not.            *)
LEMMA LockHandsOver ==
  ASSUME TypeInv, TypeInv', LockInv, NEW f \in Thread, pc[f] = "answering",
         pc' = [pc EXCEPT ![f] = "locking"], local' = [local EXCEPT ![f] = NoLocal],
         UNCHANGED <<target, ctx>>,
         \A d \in Deployment : state'[d] = state[d] \/ d = target[f]
  PROVE  LockInv'
  <1>1. /\ pc'[f] = "locking"
        /\ \A v \in Thread \ {f} : pc'[v] = pc[v] /\ local'[v] = local[v]
    BY DEF TypeInv, TypeOK
  <1>2. ctx[f] = "live"
    BY DEF LockInv, OthersAreLive, Working, Deploying
  <1>3. Locks(f)
    BY <1>2 DEF Locks, Holding
  <1>4. ~Locks(f)' /\ pc'[f] \notin Refreshed /\ pc'[f] \in Working
    BY <1>1 DEF Locks, Holding, Deploying, Refreshed, AtService, Working
  <1>5. QED
    BY <1>1, <1>3, <1>4, LockFrame

LEMMA StepLock == TypeInv /\ TypeInv' /\ LockInv /\ [Next]_vars => LockInv'
  <1> SUFFICES ASSUME TypeInv, TypeInv', LockInv, [Next]_vars PROVE LockInv'
    OBVIOUS
  <1> USE DEF rows, cluster, world
  <1>t. /\ pc \in [Thread -> Control] /\ Deployment \subseteq Thread /\ Form \subseteq Thread
        /\ \A w \in Thread : pc[w] \notin {"idle", "done"} => target[w] \in Deployment
    BY DEF TypeInv, TypeOK, TargetOK, Thread
  <1>l. \A w \in Thread : pc[w] \notin Working => ctx[w] = "live"
    BY DEF LockInv, OthersAreLive
  <1>r. ASSUME NEW w \in Thread, Return(w), UNCHANGED state PROVE LockInv'
    BY <1>r, LockReturns
  <1>1. ASSUME NEW d \in Deployment, Create(d) PROVE LockInv'
    <2> USE DEF Working, Deploying, Holding, Refreshed, AtService
    <2>1. CASE CancelInProgressDeployments(d)
      BY <1>t, <1>l, <2>1, LockMoves DEF CancelInProgressDeployments
    <2>2. CASE RefuseModules(d)
      BY <1>r, <1>t, <2>2 DEF RefuseModules
    <2>3. CASE GetLastDeployment(d)
      BY <1>t, <1>l, <2>3, LockMoves DEF GetLastDeployment
    <2>4. CASE NewDeployment(d)
      BY <1>t, <1>l, <2>4, LockMoves DEF NewDeployment
    <2>5. QED
      BY <1>1, <2>1, <2>2, <2>3, <2>4 DEF Create
  <1>2. ASSUME NEW f \in Form, ReadForm(f) \/ AnswerForm(f) PROVE LockInv'
    <2> USE DEF Working, Deploying, Holding, Refreshed, AtService
    <2>f. f \in Thread
      BY <1>t
    <2>1. CASE ReadForm(f)
      <3>1. PICK d \in Deployment : target' = [target EXCEPT ![f] = d]
                               /\ \E x : local' = [local EXCEPT ![f] = x]
        BY <2>1 DEF ReadForm
      <3>2. /\ pc[f] = "idle" /\ pc'[f] = "posting" /\ UNCHANGED <<ctx, state>>
            /\ \A v \in Thread \ {f} : /\ pc'[v] = pc[v] /\ local'[v] = local[v]
                                       /\ target'[v] = target[v]
        BY <2>1, <2>f, <3>1 DEF ReadForm, TypeInv, TypeOK
      <3>3. ctx'[f] = "live" /\ ~Locks(f)'
        BY <1>l, <2>f, <3>2 DEF Locks
      <3>4. QED
        BY <2>f, <3>2, <3>3, LockFrame
    <2>2. CASE LockForm(f)
      BY <1>l, <2>f, <2>2, LockMoves DEF LockForm
    <2>3. CASE AcceptEntry(f)
      <3>1. PICK a : local' = [local EXCEPT ![f].configs = @ \cup {a}]
        BY <2>3 DEF AcceptEntry
      <3>2. /\ pc[f] = "answering" /\ UNCHANGED <<pc, target, ctx, state>>
            /\ \A v \in Thread \ {f} : local'[v] = local[v]
        BY <2>3, <3>1 DEF AcceptEntry, TypeInv, TypeOK
      <3>3. ctx'[f] = "live" /\ (Locks(f)' => Locks(f))
        BY <1>l, <2>f, <3>2 DEF Locks
      <3>4. QED
        BY <2>f, <3>2, <3>3, LockFrame
    <2>4. CASE RefuseEntry(f)
      BY <2>f, <2>4, LockHandsOver DEF RefuseEntry
    <2>5. CASE FailEntry(f)
      BY <1>r, <2>f, <2>5 DEF FailEntry
    <2>6. CASE CommitForm(f)
      <3>1. \A d \in Deployment : state'[d] = state[d] \/ d = target[f]
        BY <2>6 DEF CommitForm, TypeInv, TypeOK
      <3>2. QED
        BY <2>f, <2>6, <3>1, LockHandsOver DEF CommitForm
    <2>7. QED
      BY <1>2, <2>1, <2>2, <2>3, <2>4, <2>5, <2>6 DEF AnswerForm
  <1>3. ASSUME NEW w \in Thread, Deploy(w) PROVE LockInv'
    <2> USE DEF Working, Deploying, Holding, Refreshed, AtService
    <2>g. ASSUME NEW where \in Working, Goto(w, where), UNCHANGED state, pc[w] \in Working, Alive(w),
                 where \in Holding => pc[w] \in Holding,
                 where \in Refreshed => pc[w] \in Refreshed
          PROVE  LockInv'
      BY <2>g, LockMoves DEF Locks, Alive
    <2>w. ASSUME Wait(w), pc[w] \in AtService, Alive(w) PROVE LockInv'
      <3>1. Return(w) /\ \A d \in Deployment : state'[d] = state[d] \/ d = target[w]
        BY <2>w DEF Wait, TypeInv, TypeOK
      <3>2. Locks(w)
        BY <2>w DEF Locks, Alive
      <3>3. QED
        BY <3>1, <3>2, LockReturns
    <2>1. CASE Lock(w)
      BY <2>1, LockMoves DEF Lock
    <2>2. CASE RefreshDeletedEnvironment(w)
      BY <1>r, <2>2 DEF RefreshDeletedEnvironment
    <2>3. CASE Refresh(w)
      <3>1. CASE Goto(w, "failing")
        BY <2>g, <2>3, <3>1 DEF Refresh
      <3>2. CASE /\ pc' = [pc EXCEPT ![w] = "marking"]
                 /\ local' = [local EXCEPT ![w] = [index     |-> state[target[w]].index,
                                                   configs   |-> state[target[w]].configs,
                                                   inherited |-> {}]]
                 /\ UNCHANGED <<target, ctx>>
        <4>1. /\ pc[w] = "refreshing" /\ pc'[w] = "marking" /\ UNCHANGED <<state, target, ctx>>
              /\ local'[w].index = state[target[w]].index
              /\ local'[w].configs = state[target[w]].configs
              /\ \A v \in Thread \ {w} : local'[v] = local[v] /\ pc'[v] = pc[v]
              /\ target[w] \in Deployment
          BY <1>t, <2>3, <3>2 DEF Refresh, TypeInv, TypeOK
        <4>2. state[target[w]].index \in Nat
          BY <4>1 DEF TypeInv, TypeOK
        <4>3. Holds(w)'
          BY <4>1, <4>2 DEF Holds
        <4>4. Locks(w)' => Locks(w)
          BY <4>1 DEF Locks
        <4>5. QED
          BY <4>1, <4>3, <4>4, LockFrame
      <3>3. QED
        BY <2>3, <3>1, <3>2 DEF Refresh
    <2>4. CASE MarkInProgress(w)
      BY <2>g, <2>4 DEF MarkInProgress
    <2>5. CASE BeginService(w)
      <3>1. CASE Return(w)
        BY <1>r, <2>5, <3>1 DEF BeginService
      <3>2. CASE Goto(w, "evaluating") \/ Goto(w, "wingman") \/ Goto(w, "failing")
        BY <2>g, <2>5, <3>2 DEF BeginService
      <3>3. QED
        BY <2>5, <3>1, <3>2 DEF BeginService
    <2>6. CASE DeployWingman(w)
      BY <2>g, <2>6, <2>w DEF DeployWingman
    <2>7. CASE Evaluate(w)
      <3>1. CASE (Goto(w, "applying") \/ Goto(w, "failing")) /\ UNCHANGED rows
        BY <2>g, <2>7, <3>1 DEF Evaluate
      <3>2. CASE Return(w) /\ UNCHANGED rows
        BY <1>r, <3>2
      <3>3. CASE Wait(w)
        BY <2>7, <2>w, <3>3 DEF Evaluate
      <3>4. QED
        BY <2>7, <3>1, <3>2, <3>3 DEF Evaluate
    <2>8. CASE DeployService(w)
      <3>1. /\ pc[w] = "applying" /\ pc'[w] = "running" /\ UNCHANGED <<state, target, ctx>>
            /\ ctx[w] # "cancelled" /\ target[w] \in Deployment
            /\ local[w].index \in Nat
            /\ local'[w].index = local[w].index + 1
            /\ local'[w].configs = local[w].configs
            /\ \A v \in Thread \ {w} : local'[v] = local[v] /\ pc'[v] = pc[v]
        BY <1>t, <2>8 DEF DeployService, Alive, TypeInv, TypeOK
      <3>2. Holds(w) /\ state[target[w]].index \in Nat
        BY <3>1 DEF LockInv, LockKeepsUp, TypeInv, TypeOK
      <3>3. Holds(w)' /\ Locks(w)
        BY <3>1, <3>2 DEF Holds, Locks
      <3>4. QED
        BY <3>1, <3>3, LockFrame
    <2>9. CASE Succeed(w)
      <3>1. Return(w) /\ Locks(w)
        BY <2>9 DEF Succeed, Locks, Alive
      <3>2. \A d \in Deployment : state'[d] = state[d] \/ d = target[w]
        BY <2>9 DEF Succeed, TypeInv, TypeOK
      <3>3. QED
        BY <3>1, <3>2, LockReturns
    <2>10. CASE MarkErrored(w)
      BY <1>r, <2>10 DEF MarkErrored
    <2>11. CASE StopCancelled(w)
      BY <1>r, <2>11 DEF StopCancelled
    <2>12. CASE CallFails(w)
      BY <1>r, <2>g, <2>12 DEF CallFails
    <2>13. QED
      BY <1>3, <2>1, <2>2, <2>3, <2>4, <2>5, <2>6, <2>7, <2>8, <2>9, <2>10, <2>11, <2>12 DEF Deploy
  <1>4. ASSUME NEW w \in Thread, EnvironmentNotFound(w) PROVE LockInv'
    BY <1>4, <1>r DEF EnvironmentNotFound
  <1>5. ASSUME NEW w \in Thread, HandleDeployCancel(w) PROVE LockInv'
    <2>1. /\ UNCHANGED <<pc, target, local, state>>
          /\ \A v \in Thread \ {w} : ctx'[v] = ctx[v]
          /\ pc[w] \in Working
          /\ ctx'[w] # "cancelled" => ctx[w] # "cancelled"
      BY <1>5, <1>l DEF HandleDeployCancel, IsCancelled, CancelContext, TypeInv, TypeOK
    <2>2. Locks(w)' => Locks(w)
      BY <2>1 DEF Locks
    <2>3. pc'[w] \in Refreshed /\ ctx'[w] # "cancelled" => Holds(w)'
      BY <2>1 DEF LockInv, LockKeepsUp, Holds
    <2>4. QED
      BY <2>1, <2>2, <2>3, LockFrame
  <1>6. CASE DeleteEnvironment \/ Quiet \/ UNCHANGED vars
    <2>1. UNCHANGED <<state, threads>>
      BY <1>6 DEF DeleteEnvironment, Quiet, vars
    <2>2. QED
      BY <2>1 DEF threads, LockInv, LockIsOne, LockKeepsUp, OthersAreLive, Locks, Holds
  <1>7. CASE Crash
    BY <1>7 DEF Crash, LockInv, LockIsOne, LockKeepsUp, OthersAreLive, Locks, Holding, Deploying,
                Refreshed, AtService
  <1>8. QED
    BY <1>1, <1>2, <1>3, <1>4, <1>5, <1>6, <1>7 DEF Next

(* A goroutine only writes over a row that says no more than it holds.      *)
LEMMA GoroutinesKeep ==
  ASSUME TypeInv, LockInv, NEW w \in Thread, Deploy(w), NEW d \in Deployment
  PROVE  Kept(d)
  <1>1. \/ UNCHANGED state
        \/ /\ pc[w] \in Refreshed /\ ctx[w] # "cancelled"
           /\ state' = [state EXCEPT ![target[w]] = Stored(w)]
    BY DEF Deploy, Lock, RefreshDeletedEnvironment, Refresh, MarkInProgress, BeginService,
           DeployWingman, Evaluate, DeployService, Succeed, MarkErrored, StopCancelled, CallFails,
           Wait, rows, Alive, Refreshed, AtService
  <1>2. state[d].index \in Nat
    BY DEF TypeInv, TypeOK
  <1>3. CASE UNCHANGED state
    BY <1>2, <1>3 DEF Kept
  <1>4. CASE /\ pc[w] \in Refreshed /\ ctx[w] # "cancelled"
             /\ state' = [state EXCEPT ![target[w]] = Stored(w)]
    <2>1. Holds(w)
      BY <1>4 DEF LockInv, LockKeepsUp
    <2>2. state'[d] = IF d = target[w] THEN Stored(w) ELSE state[d]
      BY <1>4 DEF TypeInv, TypeOK
    <2>3. QED
      BY <1>2, <2>1, <2>2 DEF Kept, Stored, Holds
  <1>5. QED
    BY <1>1, <1>3, <1>4

(* No step but the commit of a form writes over a row that says more.       *)
LEMMA OnlyFormsLose ==
  ASSUME TypeInv, LockInv, [Next]_vars, NEW d \in Deployment
  PROVE  Kept(d) \/ \E f \in Form : target[f] = d /\ CommitForm(f)
  <1>s. UNCHANGED state => Kept(d)
    BY DEF Kept, TypeInv, TypeOK
  <1>1. ASSUME NEW w \in Thread, Deploy(w) PROVE Kept(d)
    BY <1>1, GoroutinesKeep
  <1>2. ASSUME NEW f \in Form, ReadForm(f) \/ AnswerForm(f)
        PROVE  Kept(d) \/ (target[f] = d /\ CommitForm(f))
    <2>1. CASE CommitForm(f) /\ target[f] # d
      <3>1. state'[d] = state[d]
        BY <2>1 DEF CommitForm, TypeInv, TypeOK
      <3>2. QED
        BY <3>1 DEF Kept, TypeInv, TypeOK
    <2>2. QED
      BY <1>2, <1>s, <2>1
      DEF AnswerForm, ReadForm, LockForm, AcceptEntry, RefuseEntry, FailEntry, rows
  <1>3. ASSUME NEW e \in Deployment, Create(e) PROVE UNCHANGED state
    BY <1>3 DEF Create, CancelInProgressDeployments, RefuseModules, GetLastDeployment,
                NewDeployment, rows
  <1>4. ASSUME NEW w \in Thread, EnvironmentNotFound(w) \/ HandleDeployCancel(w)
        PROVE  UNCHANGED state
    BY <1>4 DEF EnvironmentNotFound, HandleDeployCancel, IsCancelled, CancelContext, rows
  <1>5. CASE DeleteEnvironment \/ Crash \/ Quiet \/ UNCHANGED vars
    BY <1>5, <1>s DEF DeleteEnvironment, Crash, Quiet, vars, rows
  <1>6. QED
    BY <1>s, <1>1, <1>2, <1>3, <1>4, <1>5 DEF Next

(* Nothing a goroutine, a cancellation, a crash or a refused form does takes*)
(* back an answer or a counted service; a form's commit can, and only where *)
(* forms overlap.                                                           *)
THEOREM NothingLost == Spec => NothingIsLost
  <1> DEFINE Serial == "overlap" \notin Faults => SerialInv
             Inv    == TypeInv /\ LockInv /\ Serial
  <1>1. Init => Inv
    BY InitTyped, InitLock, InitSerial
  <1>2. Inv /\ [Next]_vars => Inv'
    <2> SUFFICES ASSUME Inv, [Next]_vars PROVE Inv'
      OBVIOUS
    <2>1. TypeInv' /\ LockInv'
      BY StepTyped, StepLock
    <2>2. Serial'
      BY StepSerial
    <2>3. QED
      BY <2>1, <2>2
  <1>3. Inv /\ [Next]_vars => [\A d \in Deployment : Kept(d) \/ Overwritten(d)]_vars
    <2> SUFFICES ASSUME Inv, [Next]_vars, NEW d \in Deployment PROVE Kept(d) \/ Overwritten(d)
      OBVIOUS
    <2>1. CASE "overlap" \in Faults
      BY <2>1, OnlyFormsLose DEF Overwritten
    <2>2. CASE "overlap" \notin Faults
      BY <2>2, StoresWhatItHolds DEF Kept
    <2>3. QED
      BY <2>1, <2>2
  <1> HIDE DEF Inv
  <1>4. QED
    BY <1>1, <1>2, <1>3, PTL DEF Spec, NothingIsLost
----------------------------------------------------------------------------
(***************************************************************************)
(* A question that was open when the row was written is open whenever the  *)
(* page looks: wingmen are never taken from the cluster, and a wingman     *)
(* more turns no value into another and no question into an error.  It     *)
(* only turns "no such function" into an answer.                           *)
(***************************************************************************)
LEMMA ExpressionMonotone ==
  ASSUME NEW e, NEW declared, NEW configs, NEW V, NEW W, V \subseteq W,
         EvaluateExpression(e, declared, configs, V) # Error
  PROVE  EvaluateExpression(e, declared, configs, W) = EvaluateExpression(e, declared, configs, V)
  <1>1. CASE e.form = "literal"
    BY <1>1 DEF EvaluateExpression
  <1>2. CASE e.form = "config"
    BY <1>2 DEF EvaluateExpression
  <1>3. CASE e.form = "function"
    BY <1>3 DEF EvaluateExpression, EvaluateFunction
  <1>4. CASE e.form \notin {"literal", "config", "function"}
    BY <1>4 DEF EvaluateExpression
  <1>5. QED
    BY <1>1, <1>2, <1>3, <1>4

LEMMA WingmanMonotone ==
  ASSUME NEW s, NEW declared, NEW configs, NEW V, NEW W, V \subseteq W,
         EvaluateWingman(s, declared, configs, V).result = "value"
  PROVE  EvaluateWingman(s, declared, configs, W).result = "value"
  <1>1. EvaluateExpression(s.wingman.image, declared, configs, V) # Error
    BY DEF EvaluateWingman, MustBeString, Error
  <1>2. QED
    BY <1>1, ExpressionMonotone DEF EvaluateWingman

(* What a service asks for does not depend on the wingmen that come later.  *)
LEMMA ServiceMonotone ==
  ASSUME NEW s, NEW declared, NEW configs, NEW V, NEW W, V \subseteq W,
         EvaluateService(s, declared, configs, V).result = "points"
  PROVE  EvaluateService(s, declared, configs, W) = EvaluateService(s, declared, configs, V)
  <1> DEFINE E(e, U)    == EvaluateExpression(e, declared, configs, U)
             image(U)   == MustBeString(E(s.image, U))
             command(U) == IF s.command = None THEN Value("String")
                           ELSE MustBeString(E(s.command, U))
             envs(U)    == {MustBeEnv(E(e, U)) : e \in s.env}
             points(U)  == UNION {r.points : r \in envs(U)}
  <1>u. ASSUME NEW U
        PROVE  EvaluateService(s, declared, configs, U) =
                 IF image(U).result # "value" THEN image(U)
                 ELSE IF command(U).result # "value" THEN command(U)
                 ELSE IF Error \in envs(U) THEN Error
                 ELSE IF points(U) # {} THEN Missing(points(U))
                 ELSE Value("Definition")
    BY DEF EvaluateService
  <1>m. \A r : MustBeString(r).result # "points" /\ (MustBeString(r).result = "value" => r # Error)
    BY DEF MustBeString, Error, Panic
  <1>e. \A r : MustBeEnv(r) # Error => r # Error
    BY DEF MustBeEnv, Error
  <1>x. \A e : E(e, V) # Error => E(e, W) = E(e, V)
    BY ExpressionMonotone
  <1> HIDE DEF E
  <1>1. image(V).result = "value" /\ image(W) = image(V)
    BY <1>u, <1>m, <1>x
  <1>2. command(V).result = "value" /\ command(W) = command(V)
    <2>1. command(V).result = "value"
      <3>1. command(V).result # "points"
        BY <1>m DEF Value
      <3>2. QED
        BY <1>u, <1>1, <3>1
    <2>2. QED
      BY <2>1, <1>m, <1>x
  <1>3. Error \notin envs(V)
    <2> SUFFICES ASSUME Error \in envs(V) PROVE FALSE
      OBVIOUS
    <2> HIDE DEF image, command, envs, points
    <2>1. EvaluateService(s, declared, configs, V) = Error
      BY <1>u, <1>1, <1>2
    <2>2. Error.result = "error"
      BY DEF Error
    <2>3. QED
      BY <2>1, <2>2
  <1>4. \A e \in s.env : E(e, W) = E(e, V)
    BY <1>3, <1>e, <1>x
  <1>5. envs(W) = envs(V)
    BY <1>4
  <1>6. QED
    BY <1>u, <1>1, <1>2, <1>5

LEMMA FindMonotone ==
  ASSUME NEW s, NEW declared, NEW configs, NEW V, NEW W, V \subseteq W,
         FindConfigPoints(s, declared, configs, V).result = "points"
  PROVE  FindConfigPoints(s, declared, configs, W).result = "points"
  <1> DEFINE wingman(U) == IF s.wingman = None THEN Value("String")
                           ELSE EvaluateWingman(s, declared, configs, U)
             asked(U)   == IF s.wingman # None /\ WingmanOf(s) \in U
                           THEN WingmanPoints(s, configs) ELSE {}
  <1>u. ASSUME NEW U
        PROVE  FindConfigPoints(s, declared, configs, U) =
                 IF wingman(U).result # "value" THEN wingman(U)
                 ELSE IF asked(U) # {} THEN Missing(asked(U))
                 ELSE EvaluateService(s, declared, configs, U)
    BY DEF FindConfigPoints
  <1>m. \A r : MustBeString(r).result # "points"
    BY DEF MustBeString, Error, Panic
  <1>1. wingman(V).result = "value"
    <2>1. wingman(V).result # "points"
      BY <1>m DEF Value, EvaluateWingman
    <2>2. QED
      BY <1>u, <2>1
  <1>2. wingman(W).result = "value"
    BY <1>1, WingmanMonotone
  <1>3. asked(V) # {} => asked(W) # {}
    OBVIOUS
  <1>4. asked(V) = {} => EvaluateService(s, declared, configs, W).result = "points"
    BY <1>u, <1>1, ServiceMonotone
  <1>5. \A P : Missing(P).result = "points"
    BY DEF Missing
  <1> HIDE DEF wingman, asked
  <1>6. QED
    BY <1>u, <1>2, <1>3, <1>4, <1>5

(* What the wingman's goroutine found out when it began the service: the    *)
(* wingman's image is a string, so the page gets past it.                   *)
WingmanIsKnown ==
  \A w \in Thread : pc[w] \in {"wingman", "evaluating"} =>
    /\ pc[w] = "wingman" => ServiceAt(w).wingman # None
    /\ ServiceAt(w).wingman # None =>
         EvaluateWingman(ServiceAt(w), Declared[target[w]], local[w].configs, wingmen).result = "value"

WaitingInv == WingmanIsKnown /\ WaitingIsJustified

LEMMA InitWaiting == Init => WaitingInv
  BY DEF Init, WaitingInv, WingmanIsKnown, WaitingIsJustified

(* A thread that keeps its place keeps what it found out, whatever wingman  *)
(* another one has brought up.                                              *)
LEMMA WingmanFrame ==
  ASSUME WaitingInv, wingmen \subseteq wingmen',
         NEW v \in Thread, pc'[v] = pc[v], target'[v] = target[v], local'[v] = local[v],
         pc'[v] \in {"wingman", "evaluating"}
  PROVE  /\ pc'[v] = "wingman" => ServiceAt(v)'.wingman # None
         /\ ServiceAt(v)'.wingman # None =>
              EvaluateWingman(ServiceAt(v)', Declared[target'[v]], local'[v].configs, wingmen').result = "value"
  <1>1. ServiceAt(v)' = ServiceAt(v)
    BY DEF ServiceAt
  <1>2. /\ pc[v] = "wingman" => ServiceAt(v).wingman # None
        /\ ServiceAt(v).wingman # None =>
             EvaluateWingman(ServiceAt(v), Declared[target[v]], local[v].configs, wingmen).result = "value"
    BY DEF WaitingInv, WingmanIsKnown
  <1>3. QED
    BY <1>1, <1>2, WingmanMonotone

(* A row that waited and is left alone waits for the same question.         *)
LEMMA RowStillWaits ==
  ASSUME WaitingInv, wingmen \subseteq wingmen',
         NEW d \in Deployment, state'[d] = state[d], status[d] = "Waiting"
  PROVE  /\ state'[d].index < Len(ServiceList[d])
         /\ FindConfigPoints(ServiceList[d][state'[d].index + 1], Declared[d],
                             state'[d].configs, wingmen').result = "points"
  BY FindMonotone DEF WaitingInv, WaitingIsJustified

(* A step that makes no row wait, and that leaves every thread at a service *)
(* where it was.                                                            *)
LEMMA WaitingFrame ==
  ASSUME WaitingInv, wingmen \subseteq wingmen',
         \A d \in Deployment : status'[d] = "Waiting" => status[d] = "Waiting" /\ state'[d] = state[d],
         \A v \in Thread : pc'[v] \in {"wingman", "evaluating"} =>
           pc'[v] = pc[v] /\ target'[v] = target[v] /\ local'[v] = local[v]
  PROVE  WaitingInv'
  <1>1. WingmanIsKnown'
    BY WingmanFrame DEF WingmanIsKnown
  <1>2. WaitingIsJustified'
    BY RowStillWaits DEF WaitingIsJustified
  <1>3. QED
    BY <1>1, <1>2 DEF WaitingInv

(* A thread at a service stores the question that made it wait.             *)
LEMMA WaitIsJustified ==
  ASSUME TypeInv, ProgressInv, WaitingInv, NEW w \in Thread, pc[w] \in AtService, Wait(w),
         wingmen \subseteq wingmen',
         FindConfigPoints(ServiceAt(w), Declared[target[w]], local[w].configs, wingmen').result = "points"
  PROVE  WaitingInv'
  <1>1. /\ target[w] \in Deployment
        /\ local[w].index < Len(ServiceList[target[w]])
    BY DEF TypeInv, TargetOK, AtService, ProgressInv, LocalReal, ServicesLeft
  <1>2. /\ state'[target[w]] = Stored(w)
        /\ \A d \in Deployment \ {target[w]} : status'[d] = status[d] /\ state'[d] = state[d]
    BY <1>1 DEF Wait, TypeInv, TypeOK
  <1>3. \A v \in Thread : pc'[v] \in {"wingman", "evaluating"} =>
          pc'[v] = pc[v] /\ target'[v] = target[v] /\ local'[v] = local[v]
    BY DEF Wait, Return, TypeInv, TypeOK
  <1>4. WingmanIsKnown'
    BY <1>3, WingmanFrame DEF WingmanIsKnown
  <1>5. WaitingIsJustified'
    <2> SUFFICES ASSUME NEW d \in Deployment, status'[d] = "Waiting"
                 PROVE  /\ state'[d].index < Len(ServiceList[d])
                        /\ FindConfigPoints(ServiceList[d][state'[d].index + 1], Declared[d],
                                            state'[d].configs, wingmen').result = "points"
      BY DEF WaitingIsJustified
    <2>1. CASE d = target[w]
      BY <1>1, <1>2, <2>1 DEF Stored, ServiceAt
    <2>2. CASE d # target[w]
      BY <1>2, <2>2, RowStillWaits
    <2>3. QED
      BY <2>1, <2>2
  <1>6. QED
    BY <1>4, <1>5 DEF WaitingInv

(* The page asks what the goroutine was missing: past the wingman's image,  *)
(* either what the wingman wants or what the service does.                  *)
LEMMA EvaluateWaits ==
  ASSUME NEW s, NEW declared, NEW configs, NEW W,
         s.wingman # None => EvaluateWingman(s, declared, configs, W).result = "value",
         \/ EvaluateService(s, declared, configs, W).result = "points"
         \/ s.wingman # None /\ WingmanOf(s) \in W /\ WingmanPoints(s, configs) # {}
  PROVE  FindConfigPoints(s, declared, configs, W).result = "points"
  <1> DEFINE wingman == IF s.wingman = None THEN Value("String")
                        ELSE EvaluateWingman(s, declared, configs, W)
             asked   == IF s.wingman # None /\ WingmanOf(s) \in W
                        THEN WingmanPoints(s, configs) ELSE {}
  <1>1. wingman.result = "value"
    BY DEF Value
  <1>2. FindConfigPoints(s, declared, configs, W) =
          IF asked # {} THEN Missing(asked) ELSE EvaluateService(s, declared, configs, W)
    BY <1>1 DEF FindConfigPoints
  <1>3. asked # {} => FindConfigPoints(s, declared, configs, W).result = "points"
    BY <1>2 DEF Missing
  <1>4. QED
    BY <1>2, <1>3

LEMMA BeginServiceWaits ==
  ASSUME TypeInv, WaitingInv, NEW w \in Thread, BeginService(w)
  PROVE  WaitingInv'
  <1>1. /\ UNCHANGED <<status, state, wingmen, target>>
        /\ \A v \in Thread \ {w} : pc'[v] = pc[v] /\ local'[v] = local[v]
    BY DEF BeginService, Goto, Return, rows, cluster, TypeInv, TypeOK
  <1>2. CASE Return(w)
    BY <1>1, <1>2, WaitingFrame DEF Return, TypeInv, TypeOK
  <1>3. CASE Goto(w, "failing")
    BY <1>1, <1>3, WaitingFrame DEF Goto, TypeInv, TypeOK
  <1>4. CASE /\ Goto(w, "evaluating") \/ Goto(w, "wingman")
             /\ Goto(w, "wingman") => ServiceAt(w).wingman # None
             /\ ServiceAt(w).wingman # None =>
                  EvaluateWingman(ServiceAt(w), Declared[target[w]], local[w].configs, wingmen).result = "value"
    <2>1. UNCHANGED <<target, local>> /\ (pc'[w] = "wingman" => Goto(w, "wingman"))
      BY <1>4 DEF Goto, TypeInv, TypeOK
    <2>2. ServiceAt(w)' = ServiceAt(w)
      BY <2>1 DEF ServiceAt
    <2>3. WingmanIsKnown'
      <3> SUFFICES ASSUME NEW v \in Thread, pc'[v] \in {"wingman", "evaluating"}
                   PROVE  /\ pc'[v] = "wingman" => ServiceAt(v)'.wingman # None
                          /\ ServiceAt(v)'.wingman # None =>
                               EvaluateWingman(ServiceAt(v)', Declared[target'[v]],
                                               local'[v].configs, wingmen').result = "value"
        BY DEF WingmanIsKnown
      <3>1. CASE v = w
        BY <1>1, <1>4, <2>1, <2>2, <3>1
      <3>2. CASE v # w
        BY <1>1, <2>1, <3>2, WingmanFrame
      <3>3. QED
        BY <3>1, <3>2
    <2>4. WaitingIsJustified'
      BY <1>1, RowStillWaits DEF WaitingIsJustified
    <2>5. QED
      BY <2>3, <2>4 DEF WaitingInv
  <1>5. QED
    <2>1. \/ Return(w) \/ Goto(w, "failing")
          \/ ServiceAt(w).wingman = None /\ Goto(w, "evaluating")
          \/ /\ ServiceAt(w).wingman # None
             /\ EvaluateWingman(ServiceAt(w), Declared[target[w]], local[w].configs, wingmen).result = "value"
             /\ Goto(w, "wingman")
      BY DEF BeginService
    <2>2. Goto(w, "evaluating") => ~Goto(w, "wingman")
      BY DEF Goto, TypeInv, TypeOK
    <2>3. QED
      BY <1>2, <1>3, <1>4, <2>1, <2>2

LEMMA DeployWingmanWaits ==
  ASSUME TypeInv, ProgressInv, WaitingInv, NEW w \in Thread, DeployWingman(w)
  PROVE  WaitingInv'
  <1>1. /\ pc[w] = "wingman" /\ wingmen \subseteq wingmen'
        /\ WingmanOf(ServiceAt(w)) \in wingmen'
        /\ ServiceAt(w).wingman # None
        /\ EvaluateWingman(ServiceAt(w), Declared[target[w]], local[w].configs, wingmen).result = "value"
    BY DEF DeployWingman, WaitingInv, WingmanIsKnown
  <1>2. EvaluateWingman(ServiceAt(w), Declared[target[w]], local[w].configs, wingmen').result = "value"
    BY <1>1, WingmanMonotone
  <1>3. CASE WingmanPoints(ServiceAt(w), local[w].configs) # {}
    <2>1. FindConfigPoints(ServiceAt(w), Declared[target[w]], local[w].configs, wingmen').result = "points"
      BY ONLY <1>1, <1>2, <1>3, EvaluateWaits
    <2>2. Wait(w)
      BY <1>3 DEF DeployWingman
    <2>3. pc[w] \in AtService
      BY <1>1 DEF AtService
    <2>4. QED
      BY <1>1, <2>1, <2>2, <2>3, WaitIsJustified
  <1>4. CASE WingmanPoints(ServiceAt(w), local[w].configs) = {}
    <2>1. Goto(w, "evaluating") /\ UNCHANGED <<status, state>>
      BY <1>4 DEF DeployWingman, rows
    <2>2. /\ UNCHANGED <<target, local>> /\ pc'[w] = "evaluating"
          /\ \A v \in Thread \ {w} : pc'[v] = pc[v]
      BY <2>1 DEF Goto, TypeInv, TypeOK
    <2>3. ServiceAt(w)' = ServiceAt(w)
      BY <2>2 DEF ServiceAt
    <2>4. WingmanIsKnown'
      <3> SUFFICES ASSUME NEW v \in Thread, pc'[v] \in {"wingman", "evaluating"}
                   PROVE  /\ pc'[v] = "wingman" => ServiceAt(v)'.wingman # None
                          /\ ServiceAt(v)'.wingman # None =>
                               EvaluateWingman(ServiceAt(v)', Declared[target'[v]],
                                               local'[v].configs, wingmen').result = "value"
        BY DEF WingmanIsKnown
      <3>1. CASE v = w
        BY <1>2, <2>2, <2>3, <3>1
      <3>2. CASE v # w
        BY <1>1, <2>2, <3>2, WingmanFrame
      <3>3. QED
        BY <3>1, <3>2
    <2>5. WaitingIsJustified'
      BY <1>1, <2>1, RowStillWaits DEF WaitingIsJustified
    <2>6. QED
      BY <2>4, <2>5 DEF WaitingInv
  <1>5. QED
    BY <1>3, <1>4

LEMMA StepWaiting == TypeInv /\ ProgressInv /\ WaitingInv /\ [Next]_vars => WaitingInv'
  <1> SUFFICES ASSUME TypeInv, ProgressInv, WaitingInv, [Next]_vars PROVE WaitingInv'
    OBVIOUS
  <1> USE DEF rows, cluster, world
  <1>t. /\ pc \in [Thread -> Control] /\ Deployment \subseteq Thread /\ Form \subseteq Thread
        /\ status \in [Deployment -> Status \cup {"absent"}]
        /\ state \in [Deployment -> [index : Nat, configs : SUBSET Answer]]
        /\ local \in [Thread -> [index : Nat, configs : SUBSET Answer, inherited : SUBSET Answer]]
    BY DEF TypeInv, TypeOK, Thread
  <1>g. ASSUME NEW w \in Thread, NEW where, where \notin {"wingman", "evaluating"},
               pc' = [pc EXCEPT ![w] = where],
               UNCHANGED <<target, wingmen>>,
               \A v \in Thread \ {w} : local'[v] = local[v],
               \A d \in Deployment : status'[d] = "Waiting" => status[d] = "Waiting" /\ state'[d] = state[d]
        PROVE  WaitingInv'
    BY <1>g, <1>t, WaitingFrame
  <1>m. ASSUME NEW w \in Thread, NEW where, where \notin {"wingman", "evaluating"}, Goto(w, where),
               UNCHANGED <<status, state, wingmen>>
        PROVE  WaitingInv'
    BY <1>g, <1>m DEF Goto
  <1>r. ASSUME NEW w \in Thread, Return(w), UNCHANGED <<status, state, wingmen>> PROVE WaitingInv'
    BY <1>g, <1>r, <1>t DEF Return
  <1>1. ASSUME NEW d \in Deployment, Create(d) PROVE WaitingInv'
    <2>1. CASE CancelInProgressDeployments(d)
      BY <1>g, <1>t, <2>1 DEF CancelInProgressDeployments, Goto, Unfinished
    <2>2. CASE RefuseModules(d)
      BY <1>r, <1>t, <2>2 DEF RefuseModules
    <2>3. CASE GetLastDeployment(d)
      BY <1>m, <1>t, <2>3 DEF GetLastDeployment
    <2>4. CASE NewDeployment(d)
      BY <1>g, <1>t, <2>4 DEF NewDeployment, Goto
    <2>5. QED
      BY <1>1, <2>1, <2>2, <2>3, <2>4 DEF Create
  <1>2. ASSUME NEW f \in Form, ReadForm(f) \/ AnswerForm(f) PROVE WaitingInv'
    <2>1. CASE ReadForm(f)
      <3>1. /\ UNCHANGED <<status, state, wingmen>>
            /\ pc[f] = "idle" /\ pc'[f] = "posting"
            /\ \A v \in Thread \ {f} : pc'[v] = pc[v] /\ local'[v] = local[v] /\ target'[v] = target[v]
        BY <1>t, <2>1 DEF ReadForm, TypeInv, TypeOK
      <3>2. QED
        BY <1>t, <3>1, WaitingFrame
    <2>2. CASE LockForm(f)
      BY <1>m, <1>t, <2>2 DEF LockForm
    <2>3. CASE AcceptEntry(f)
      <3>1. /\ UNCHANGED <<pc, target, status, state, wingmen>> /\ pc[f] = "answering"
            /\ \A v \in Thread \ {f} : local'[v] = local[v]
        BY <1>t, <2>3 DEF AcceptEntry
      <3>2. QED
        BY <1>t, <3>1, WaitingFrame
    <2>4. CASE RefuseEntry(f)
      BY <1>g, <1>t, <2>4 DEF RefuseEntry
    <2>5. CASE FailEntry(f)
      BY <1>r, <1>t, <2>5 DEF FailEntry
    <2>6. CASE CommitForm(f)
      BY <1>g, <1>t, <2>6 DEF CommitForm
    <2>7. QED
      BY <1>2, <2>1, <2>2, <2>3, <2>4, <2>5, <2>6 DEF AnswerForm
  <1>3. ASSUME NEW w \in Thread, Deploy(w) PROVE WaitingInv'
    <2>1. CASE Lock(w)
      BY <1>m, <2>1 DEF Lock
    <2>2. CASE RefreshDeletedEnvironment(w)
      BY <1>r, <2>2 DEF RefreshDeletedEnvironment
    <2>3. CASE Refresh(w)
      <3>1. CASE Goto(w, "failing")
        BY <1>m, <2>3, <3>1 DEF Refresh
      <3>2. CASE ~Goto(w, "failing")
        BY <1>g, <1>t, <2>3, <3>2 DEF Refresh
      <3>3. QED
        BY <3>1, <3>2
    <2>4. CASE MarkInProgress(w)
      BY <1>g, <1>t, <2>4 DEF MarkInProgress, Goto
    <2>5. CASE BeginService(w)
      BY <2>5, BeginServiceWaits
    <2>6. CASE DeployWingman(w)
      BY <2>6, DeployWingmanWaits
    <2>7. CASE Evaluate(w)
      <3>1. CASE (Goto(w, "applying") \/ Goto(w, "failing") \/ Return(w)) /\ UNCHANGED rows
        BY <1>m, <1>r, <2>7, <3>1 DEF Evaluate
      <3>2. CASE /\ Wait(w)
                 /\ EvaluateService(ServiceAt(w), Declared[target[w]], local[w].configs, wingmen).result = "points"
        <4>1. pc[w] = "evaluating" /\ UNCHANGED wingmen
          BY <2>7 DEF Evaluate
        <4>2. ServiceAt(w).wingman # None =>
                EvaluateWingman(ServiceAt(w), Declared[target[w]], local[w].configs, wingmen).result = "value"
          BY <4>1 DEF WaitingInv, WingmanIsKnown
        <4>3. FindConfigPoints(ServiceAt(w), Declared[target[w]], local[w].configs, wingmen).result = "points"
          BY <3>2, <4>2, EvaluateWaits
        <4>4. QED
          BY <3>2, <4>1, <4>3, WaitIsJustified DEF AtService
      <3>3. QED
        BY <2>7, <3>1, <3>2 DEF Evaluate
    <2>8. CASE DeployService(w)
      BY <1>g, <1>t, <2>8 DEF DeployService
    <2>9. CASE Succeed(w)
      BY <1>g, <1>t, <2>9 DEF Succeed, Return
    <2>10. CASE MarkErrored(w)
      BY <1>g, <1>t, <2>10 DEF MarkErrored, Return
    <2>11. CASE StopCancelled(w)
      BY <1>r, <2>11 DEF StopCancelled
    <2>12. CASE CallFails(w)
      BY <1>m, <1>r, <2>12 DEF CallFails
    <2>13. QED
      BY <1>3, <2>1, <2>2, <2>3, <2>4, <2>5, <2>6, <2>7, <2>8, <2>9, <2>10, <2>11, <2>12 DEF Deploy
  <1>4. ASSUME NEW w \in Thread, EnvironmentNotFound(w) PROVE WaitingInv'
    BY <1>4, <1>r DEF EnvironmentNotFound
  <1>5. ASSUME NEW w \in Thread, HandleDeployCancel(w) PROVE WaitingInv'
    BY <1>5, WaitingFrame DEF HandleDeployCancel, IsCancelled, CancelContext
  <1>6. CASE DeleteEnvironment \/ Quiet \/ UNCHANGED vars
    BY <1>6, WaitingFrame DEF DeleteEnvironment, Quiet, vars, threads
  <1>7. CASE Crash
    BY <1>t, <1>7, WaitingFrame DEF Crash
  <1>8. QED
    BY <1>1, <1>2, <1>3, <1>4, <1>5, <1>6, <1>7 DEF Next

(* A deployment that says it waits has a question to show, whatever happens *)
(* between the goroutine that wrote it and the page that looks.             *)
THEOREM WaitingJustified == Spec => []WaitingIsJustified
  <1>1. WaitingInv => WaitingIsJustified
    BY DEF WaitingInv
  <1>2. QED
    BY <1>1, InitTyped, StepTyped, InitProgress, StepProgress, InitWaiting, StepWaiting, PTL DEF Spec

----------------------------------------------------------------------------
(***************************************************************************)
(* Why a row holds the answers of what it counts, though a stale form may  *)
(* write over it.  Row and memory are written as pairs: wherever an index  *)
(* is, the configs beside it answer every service before it.  An answer    *)
(* that is added is one to an open point, so it changes the answer of      *)
(* nothing that has one, and a service that evaluates goes on to.          *)
(***************************************************************************)
Grows(C, D) ==
  /\ C \subseteq D
  /\ \A p \in D \ C : Named(C, p.module, p.identifier) = {}

IsExpression(e) == e.form \in {"literal", "config", "function"}

LEMMA ExpressionAnswered ==
  ASSUME NEW e, IsExpression(e), NEW declared, NEW C, NEW D, Grows(C, D),
         NEW V, NEW W, V \subseteq W,
         EvaluateExpression(e, declared, C, V).result = "value"
  PROVE  EvaluateExpression(e, declared, D, W) = EvaluateExpression(e, declared, C, V)
  <1>1. CASE e.form = "literal"
    BY <1>1 DEF EvaluateExpression
  <1>2. CASE e.form = "config"
    <2>1. EvaluateExpression(e, declared, C, V) = EvaluateConfig(e.module, e.identifier, declared, C)
      BY <1>2 DEF EvaluateExpression
    <2>2. Named(C, e.module, e.identifier) # {}
      BY <2>1 DEF EvaluateConfig, Missing, Error
    <2>3. Named(D, e.module, e.identifier) = Named(C, e.module, e.identifier)
      BY <2>2 DEF Grows, Named
    <2>4. EvaluateExpression(e, declared, D, W) = EvaluateConfig(e.module, e.identifier, declared, D)
      BY <1>2 DEF EvaluateExpression
    <2>5. QED
      BY <2>1, <2>2, <2>3, <2>4 DEF EvaluateConfig
  <1>3. CASE e.form = "function"
    <2>1. \A X, U : EvaluateExpression(e, declared, X, U) = EvaluateFunction(e, X, U)
      BY <1>3 DEF EvaluateExpression
    <2>2. e.provider \in V /\ Unanswered(e.points, C) = {}
      BY <2>1 DEF EvaluateFunction, Missing, Error
    <2>3. Unanswered(e.points, D) = {}
      BY <2>2 DEF Grows, Named, Unanswered
    <2>4. QED
      BY <2>1, <2>2, <2>3 DEF EvaluateFunction
  <1>4. QED
    BY <1>1, <1>2, <1>3 DEF IsExpression

(* An expression has a value, or nothing but an error, or open points.      *)
LEMMA ExpressionResults ==
  ASSUME NEW e, IsExpression(e), NEW declared, NEW C, NEW V,
         NEW r, r = EvaluateExpression(e, declared, C, V)
  PROVE  /\ r.result = "value" \/ r = Error \/ r.points # {}
         /\ \A p \in r.points : Named(C, p.module, p.identifier) = {}
  <1>1. CASE e.form = "literal"
    BY <1>1 DEF EvaluateExpression, Value
  <1>2. CASE e.form = "config"
    <2>1. r = EvaluateConfig(e.module, e.identifier, declared, C)
      BY <1>2 DEF EvaluateExpression
    <2>2. CASE Named(C, e.module, e.identifier) # {}
      BY <2>1, <2>2 DEF EvaluateConfig, Value
    <2>3. CASE /\ Named(C, e.module, e.identifier) = {}
               /\ Named(declared, e.module, e.identifier) # {}
      <3>1. r.points = Named(declared, e.module, e.identifier)
        BY <2>1, <2>3 DEF EvaluateConfig, Missing
      <3>2. \A p \in r.points : p.module = e.module /\ p.identifier = e.identifier
        BY <3>1 DEF Named
      <3>3. QED
        BY <2>3, <3>1, <3>2
    <2>4. CASE /\ Named(C, e.module, e.identifier) = {}
               /\ Named(declared, e.module, e.identifier) = {}
      BY <2>1, <2>4 DEF EvaluateConfig, Error
    <2>5. QED
      BY <2>2, <2>3, <2>4
  <1>3. CASE e.form = "function"
    <2>1. r = EvaluateFunction(e, C, V)
      BY <1>3 DEF EvaluateExpression
    <2>2. QED
      BY <2>1 DEF EvaluateFunction, Error, Missing, Value, Unanswered
  <1>4. QED
    BY <1>1, <1>2, <1>3 DEF IsExpression

LEMMA ServiceAnswered ==
  ASSUME NEW s, \A e \in Expressions(s) : IsExpression(e), NEW declared,
         NEW C, NEW D, Grows(C, D), NEW V, NEW W, V \subseteq W,
         EvaluateService(s, declared, C, V).result = "value"
  PROVE  EvaluateService(s, declared, D, W).result = "value"
  <1> DEFINE E(e, X, U)    == EvaluateExpression(e, declared, X, U)
             image(X, U)   == MustBeString(E(s.image, X, U))
             command(X, U) == IF s.command = None THEN Value("String")
                              ELSE MustBeString(E(s.command, X, U))
             envs(X, U)    == {MustBeEnv(E(e, X, U)) : e \in s.env}
             points(X, U)  == UNION {r.points : r \in envs(X, U)}
  <1>u. ASSUME NEW X, NEW U
        PROVE  EvaluateService(s, declared, X, U) =
                 IF image(X, U).result # "value" THEN image(X, U)
                 ELSE IF command(X, U).result # "value" THEN command(X, U)
                 ELSE IF Error \in envs(X, U) THEN Error
                 ELSE IF points(X, U) # {} THEN Missing(points(X, U))
                 ELSE Value("Definition")
    BY DEF EvaluateService
  <1>e. /\ IsExpression(s.image)
        /\ s.command # None => IsExpression(s.command)
        /\ \A e \in s.env : IsExpression(e)
    BY DEF Expressions
  <1>s. \A r : MustBeString(r).result = "value" => r.result = "value"
    BY DEF MustBeString, Error, Panic
  <1>x. \A e : IsExpression(e) /\ E(e, C, V).result = "value" => E(e, D, W) = E(e, C, V)
    BY ExpressionAnswered
  <1>r. \A e : IsExpression(e) =>
          E(e, C, V).result = "value" \/ E(e, C, V) = Error \/ E(e, C, V).points # {}
    BY ExpressionResults
  <1>k. /\ \A P : Missing(P).result # "value"
        /\ Error.result # "value"
        /\ \A k : Value(k).result = "value"
    BY DEF Missing, Error, Value
  <1> HIDE DEF E
  <1>1. image(C, V).result = "value" /\ image(D, W) = image(C, V)
    BY <1>u, <1>e, <1>s, <1>x
  <1>2. command(C, V).result = "value" /\ command(D, W) = command(C, V)
    <2>1. command(C, V).result = "value"
      BY <1>u, <1>1
    <2>2. QED
      BY <2>1, <1>e, <1>s, <1>x
  <1>3. Error \notin envs(C, V) /\ points(C, V) = {}
    <2> HIDE DEF image, command, envs, points
    <2>1. EvaluateService(s, declared, C, V) =
            IF Error \in envs(C, V) THEN Error
            ELSE IF points(C, V) # {} THEN Missing(points(C, V)) ELSE Value("Definition")
      BY <1>u, <1>1, <1>2
    <2>2. QED
      BY <2>1, <1>k
  <1>4. ASSUME NEW e \in s.env PROVE E(e, D, W) = E(e, C, V)
    <2>1. MustBeEnv(E(e, C, V)) \in envs(C, V)
      OBVIOUS
    <2>2. MustBeEnv(E(e, C, V)) # Error /\ MustBeEnv(E(e, C, V)).points = {}
      BY <1>3, <2>1
    <2>3. E(e, C, V) # Error /\ E(e, C, V).points = {}
      BY <2>2 DEF MustBeEnv
    <2>4. QED
      BY <2>3, <1>e, <1>r, <1>x
  <1>5. envs(D, W) = envs(C, V)
    BY <1>4
  <1>6. points(D, W) = {} /\ Error \notin envs(D, W)
    BY <1>3, <1>5
  <1> HIDE DEF image, command, envs, points
  <1>7. EvaluateService(s, declared, D, W) = Value("Definition")
    BY <1>u, <1>1, <1>2, <1>6
  <1>8. QED
    BY <1>7, <1>k

LEMMA StillAnswered ==
  ASSUME NEW d \in Deployment, NEW i \in 1..Len(ServiceList[d]),
         NEW C, NEW D, Grows(C, D), NEW V, NEW W, V \subseteq W,
         Answered(ServiceList[d][i], Declared[d], C, V)
  PROVE  Answered(ServiceList[d][i], Declared[d], D, W)
  <1>1. \A e \in Expressions(ServiceList[d][i]) : IsExpression(e)
    BY ServicesAssumption DEF IsExpression
  <1>2. EvaluateService(ServiceList[d][i], Declared[d], D, W).result = "value"
    BY <1>1, ServiceAnswered DEF Answered
  <1>3. WingmanPoints(ServiceList[d][i], C) = {} => WingmanPoints(ServiceList[d][i], D) = {}
    BY DEF Grows, WingmanPoints, Unanswered, Named
  <1>4. QED
    BY <1>2, <1>3 DEF Answered

(* What the page asks for has no answer yet.                                *)
LEMMA PointsAreOpen ==
  ASSUME NEW s, \A e \in Expressions(s) : IsExpression(e), NEW declared, NEW C, NEW V,
         NEW p \in FindConfigPoints(s, declared, C, V).points
  PROVE  Named(C, p.module, p.identifier) = {}
  <1> DEFINE Open(P)  == \A q \in P : Named(C, q.module, q.identifier) = {}
             E(e)     == EvaluateExpression(e, declared, C, V)
             image    == MustBeString(E(s.image))
             command  == IF s.command = None THEN Value("String") ELSE MustBeString(E(s.command))
             envs     == {MustBeEnv(E(e)) : e \in s.env}
             points   == UNION {r.points : r \in envs}
             wingman  == IF s.wingman = None THEN Value("String")
                         ELSE EvaluateWingman(s, declared, C, V)
             asked    == IF s.wingman # None /\ WingmanOf(s) \in V
                         THEN WingmanPoints(s, C) ELSE {}
  <1>k. /\ Value("String").points = {} /\ Value("Definition").points = {} /\ Error.points = {}
        /\ Panic.points = {} /\ \A P : Missing(P).points = P
    BY DEF Value, Error, Panic, Missing
  <1>e. \A e \in Expressions(s) : Open(E(e).points)
    BY ExpressionResults
  <1>s. \A r : Open(r.points) => Open(MustBeString(r).points) /\ Open(MustBeEnv(r).points)
    BY <1>k DEF MustBeString, MustBeEnv
  <1>1. /\ s.image \in Expressions(s) /\ s.env \subseteq Expressions(s)
        /\ s.command # None => s.command \in Expressions(s)
        /\ s.wingman # None => s.wingman.image \in Expressions(s)
    BY DEF Expressions
  <1>w. s.wingman # None => EvaluateWingman(s, declared, C, V) = MustBeString(E(s.wingman.image))
    BY DEF EvaluateWingman
  <1>v. EvaluateService(s, declared, C, V) =
          IF image.result # "value" THEN image
          ELSE IF command.result # "value" THEN command
          ELSE IF Error \in envs THEN Error
          ELSE IF points # {} THEN Missing(points)
          ELSE Value("Definition")
    BY DEF EvaluateService
  <1>f. FindConfigPoints(s, declared, C, V) =
          IF wingman.result # "value" THEN wingman
          ELSE IF asked # {} THEN Missing(asked)
          ELSE EvaluateService(s, declared, C, V)
    BY DEF FindConfigPoints
  <1>a. Open(asked)
    BY DEF WingmanPoints, Unanswered
  <1> HIDE DEF E
  <1>2. Open(image.points) /\ Open(command.points)
    BY <1>1, <1>e, <1>s, <1>k
  <1>3. Open(points)
    BY <1>1, <1>e, <1>s
  <1>4. Open(wingman.points)
    BY <1>1, <1>e, <1>s, <1>k, <1>w
  <1> HIDE DEF image, command, envs, points, wingman, asked
  <1>5. Open(EvaluateService(s, declared, C, V).points)
    BY <1>2, <1>3, <1>k, <1>v
  <1>6. Open(FindConfigPoints(s, declared, C, V).points)
    BY <1>4, <1>5, <1>a, <1>k, <1>f
  <1>7. QED
    BY <1>6

(* With the configs C, every service of d before the index has its answers. *)
Complete(d, index, C, running) ==
  \A i \in 1..index : Answered(ServiceList[d][i], Declared[d], C, running)

RowsComplete ==
  \A d \in Deployment : Complete(d, state[d].index, state[d].configs, wingmen)

LocalComplete ==
  \A w \in Thread : target[w] \in Deployment =>
    Complete(target[w], local[w].index, local[w].configs, wingmen)

(* A goroutine past its service's wingman has nothing left to answer it, and*)
(* what it applies has been evaluated.                                      *)
ServiceComplete(w) ==
  /\ pc[w] \in {"evaluating", "applying"} /\ ServiceAt(w).wingman # None =>
       WingmanPoints(ServiceAt(w), local[w].configs) = {}
  /\ pc[w] = "applying" =>
       EvaluateService(ServiceAt(w), Declared[target[w]], local[w].configs, wingmen).result = "value"

AnswersInv == RowsComplete /\ LocalComplete /\ \A w \in Thread : ServiceComplete(w)

LEMMA NothingIsComplete ==
  ASSUME NEW d, NEW C, NEW V PROVE Complete(d, 0, C, V)
  BY DEF Complete

LEMMA InitAnswers == Init => AnswersInv
  <1> SUFFICES ASSUME Init PROVE AnswersInv
    OBVIOUS
  <1>1. /\ \A d \in Deployment : state[d].index = 0
        /\ \A w \in Thread : local[w].index = 0 /\ pc[w] = "idle"
    BY DEF Init, NoState, NoLocal
  <1>2. RowsComplete /\ LocalComplete
    BY <1>1, NothingIsComplete DEF RowsComplete, LocalComplete
  <1>3. QED
    BY <1>1, <1>2 DEF AnswersInv, ServiceComplete

LEMMA StillComplete ==
  ASSUME NEW d \in Deployment, NEW n \in Nat, n <= Len(ServiceList[d]),
         NEW C, NEW D, Grows(C, D), NEW V, NEW W, V \subseteq W, Complete(d, n, C, V)
  PROVE  Complete(d, n, D, W)
  <1> SUFFICES ASSUME NEW i \in 1..n PROVE Answered(ServiceList[d][i], Declared[d], D, W)
    BY DEF Complete
  <1>1. i \in 1..Len(ServiceList[d])
    BY ConstantsAssumption
  <1>2. QED
    BY <1>1, StillAnswered DEF Complete

LEMMA OneMoreComplete ==
  ASSUME NEW d \in Deployment, NEW n \in Nat, n + 1 <= Len(ServiceList[d]),
         NEW C, NEW V, NEW W, V \subseteq W, Complete(d, n, C, V),
         Answered(ServiceList[d][n + 1], Declared[d], C, V)
  PROVE  Complete(d, n + 1, C, W)
  <1>1. Complete(d, n + 1, C, V)
    <2> SUFFICES ASSUME NEW i \in 1..(n + 1) PROVE Answered(ServiceList[d][i], Declared[d], C, V)
      BY DEF Complete
    <2>1. i \in 1..n \/ i = n + 1
      OBVIOUS
    <2>2. QED
      BY <2>1 DEF Complete
  <1>2. Grows(C, C)
    BY DEF Grows
  <1>3. QED
    BY <1>1, <1>2, StillComplete

(* What a thread w may do to the rows and to its own memory: store the one  *)
(* in the other, read the one into the other, forget what it held, add an   *)
(* open answer, or count a service that is complete.                        *)
LEMMA AnswersStep ==
  ASSUME TypeInv, TypeInv', ProgressInv, ProgressInv', AnswersInv, NEW w \in Thread,
         \A v \in Thread \ {w} : pc'[v] = pc[v] /\ target'[v] = target[v] /\ local'[v] = local[v],
         wingmen \subseteq wingmen',
         \/ state' = state
         \/ target[w] \in Deployment /\ state' = [state EXCEPT ![target[w]] = Stored(w)],
         \/ local'[w].index = 0
         \/ /\ target'[w] = target[w] /\ local'[w].index = local[w].index
            /\ Grows(local[w].configs, local'[w].configs)
         \/ /\ target'[w] = target[w] /\ local'[w].configs = local[w].configs
            /\ local'[w].index = local[w].index + 1
            /\ Answered(ServiceAt(w), Declared[target[w]], local[w].configs, wingmen)
         \/ /\ local'[w].index = state[target'[w]].index
            /\ local'[w].configs = state[target'[w]].configs,
         ServiceComplete(w)'
  PROVE  AnswersInv'
  <1> USE DEF AnswersInv
  <1>g. \A C : Grows(C, C)
    BY DEF Grows
  <1>n. /\ \A d \in Deployment : state[d].index \in Nat /\ state[d].index <= Len(ServiceList[d])
        /\ \A v \in Thread : /\ local[v].index \in Nat
                             /\ target[v] \in Deployment => local[v].index <= Len(ServiceList[target[v]])
    BY DEF TypeInv, TypeOK, ProgressInv, RowsReal, LocalReal
  <1>n2. \A v \in Thread : /\ local'[v].index \in Nat
                           /\ target'[v] \in Deployment => local'[v].index <= Len(ServiceList[target'[v]])
    BY DEF TypeInv, TypeOK, ProgressInv, LocalReal
  <1>c. \A v \in Thread : target[v] \in Deployment =>
          Complete(target[v], local[v].index, local[v].configs, wingmen')
    <2> SUFFICES ASSUME NEW v \in Thread, target[v] \in Deployment
                 PROVE  Complete(target[v], local[v].index, local[v].configs, wingmen')
      OBVIOUS
    <2>1. Complete(target[v], local[v].index, local[v].configs, wingmen)
      BY DEF LocalComplete
    <2>2. QED
      BY <1>g, <1>n, <2>1, StillComplete
  <1>d. \A d \in Deployment : Complete(d, state[d].index, state[d].configs, wingmen')
    BY <1>g, <1>n, StillComplete DEF RowsComplete
  <1>1. RowsComplete'
    <2> SUFFICES ASSUME NEW d \in Deployment
                 PROVE  Complete(d, state'[d].index, state'[d].configs, wingmen')
      BY DEF RowsComplete
    <2>1. \/ state'[d] = state[d]
          \/ d = target[w] /\ state'[d].index = local[w].index /\ state'[d].configs = local[w].configs
      BY DEF Stored, TypeInv, TypeOK
    <2>2. QED
      BY <1>c, <1>d, <2>1
  <1>2. LocalComplete'
    <2> SUFFICES ASSUME NEW v \in Thread, target'[v] \in Deployment
                 PROVE  Complete(target'[v], local'[v].index, local'[v].configs, wingmen')
      BY DEF LocalComplete
    <2>1. CASE v # w
      BY <1>c, <2>1
    <2>2. CASE v = w /\ local'[w].index = 0
      BY <2>2, NothingIsComplete
    <2>3. CASE /\ v = w /\ target'[w] = target[w] /\ local'[w].index = local[w].index
               /\ Grows(local[w].configs, local'[w].configs)
      BY <1>n, <2>3, StillComplete DEF LocalComplete
    <2>4. CASE /\ v = w /\ target'[w] = target[w] /\ local'[w].configs = local[w].configs
               /\ local'[w].index = local[w].index + 1
               /\ Answered(ServiceAt(w), Declared[target[w]], local[w].configs, wingmen)
      <3>1. Complete(target[w], local[w].index, local[w].configs, wingmen)
        BY <2>4 DEF LocalComplete
      <3>2. Answered(ServiceList[target[w]][local[w].index + 1], Declared[target[w]],
                     local[w].configs, wingmen)
        BY <2>4 DEF ServiceAt
      <3>3. target[w] \in Deployment /\ local[w].index + 1 <= Len(ServiceList[target[w]])
        BY <1>n2, <2>4
      <3>4. Complete(target[w], local[w].index + 1, local[w].configs, wingmen')
        BY <1>n, <3>1, <3>2, <3>3, OneMoreComplete
      <3>5. QED
        BY <2>4, <3>4
    <2>5. CASE /\ v = w /\ local'[w].index = state[target'[w]].index
               /\ local'[w].configs = state[target'[w]].configs
      BY <1>d, <2>5
    <2>6. QED
      BY <2>1, <2>2, <2>3, <2>4, <2>5
  <1>3. ASSUME NEW v \in Thread PROVE ServiceComplete(v)'
    <2>1. CASE v = w
      BY <2>1
    <2>2. CASE v # w
      <3>1. /\ pc'[v] = pc[v] /\ local'[v] = local[v] /\ target'[v] = target[v]
            /\ ServiceAt(v)' = ServiceAt(v)
        BY <2>2 DEF ServiceAt
      <3>2. ServiceComplete(v)
        OBVIOUS
      <3>3. CASE pc[v] = "applying"
        <4>1. target[v] \in Deployment /\ ServicesLeft(v)
          BY <3>3 DEF TypeInv, TargetOK, ProgressInv, LocalReal, AtService
        <4>2. local[v].index + 1 \in 1..Len(ServiceList[target[v]])
          BY <1>n, <4>1, ConstantsAssumption DEF ServicesLeft
        <4>3. Answered(ServiceAt(v), Declared[target[v]], local[v].configs, wingmen)
          BY <3>2, <3>3 DEF ServiceComplete, Answered
        <4>4. Answered(ServiceAt(v), Declared[target[v]], local[v].configs, wingmen')
          BY <1>g, <4>1, <4>2, <4>3, StillAnswered DEF ServiceAt
        <4>5. QED
          BY <3>1, <3>2, <3>3, <4>4 DEF ServiceComplete, Answered
      <3>4. CASE pc[v] # "applying"
        BY <3>1, <3>2, <3>4 DEF ServiceComplete
      <3>5. QED
        BY <3>3, <3>4
    <2>3. QED
      BY <2>1, <2>2
  <1>4. QED
    BY <1>1, <1>2, <1>3

(* A step after which w is at no service that it has evaluated.             *)
LEMMA AnswersMove ==
  ASSUME TypeInv, TypeInv', ProgressInv, ProgressInv', AnswersInv, NEW w \in Thread,
         UNCHANGED <<target, wingmen>>,
         NEW where, pc' = [pc EXCEPT ![w] = where], where \notin {"evaluating", "applying"},
         local' = local \/ local' = [local EXCEPT ![w] = NoLocal],
         \/ state' = state
         \/ target[w] \in Deployment /\ state' = [state EXCEPT ![target[w]] = Stored(w)]
  PROVE  AnswersInv'
  <1>1. /\ pc'[w] = where
        /\ \A v \in Thread \ {w} : pc'[v] = pc[v] /\ local'[v] = local[v]
        /\ local'[w].index = 0 \/ local'[w] = local[w]
    BY DEF TypeInv, TypeOK, NoLocal
  <1>2. Grows(local[w].configs, local[w].configs)
    BY DEF Grows
  <1>3. ServiceComplete(w)'
    BY <1>1 DEF ServiceComplete
  <1>4. QED
    BY <1>1, <1>2, <1>3, AnswersStep

(* The answer of an entry belongs to a point that has none.                 *)
LEMMA EntriesAreOpen ==
  ASSUME TypeInv, NEW f \in Form, AcceptEntry(f)
  PROVE  /\ local'[f].index = local[f].index
         /\ Grows(local[f].configs, local'[f].configs)
         /\ \A v \in Thread \ {f} : local'[v] = local[v]
  <1>1. f \in Thread /\ target[f] \in Deployment /\ local[f].index \in Nat
    BY DEF AcceptEntry, TypeInv, TypeOK, TargetOK, Thread
  <1>2. PICK e \in Entry, k \in {"String", "Secret"} :
          /\ Named(PointsFor(f).points, e.module, e.identifier) # {}
          /\ \E a \in Named(local[f].inherited, e.module, e.identifier)
                     \cup {[module |-> e.module, identifier |-> e.identifier, kind |-> k]} :
               local' = [local EXCEPT ![f].configs = @ \cup {a}]
    BY DEF AcceptEntry
  <1>3. PICK a \in Named(local[f].inherited, e.module, e.identifier)
                   \cup {[module |-> e.module, identifier |-> e.identifier, kind |-> k]} :
          local' = [local EXCEPT ![f].configs = @ \cup {a}]
    BY <1>2
  <1>4. a.module = e.module /\ a.identifier = e.identifier
    BY <1>3 DEF Named
  <1>5. PICK c \in PointsFor(f).points : c.module = e.module /\ c.identifier = e.identifier
    BY <1>2 DEF Named
  <1>6. local[f].index + 1 \in 1..Len(ServiceList[target[f]])
    BY <1>1, ConstantsAssumption DEF AcceptEntry, ServicesLeft
  <1>7. \A x \in Expressions(ServiceAt(f)) : IsExpression(x)
    BY <1>1, <1>6, ServicesAssumption DEF IsExpression, ServiceAt
  <1>8. Named(local[f].configs, e.module, e.identifier) = {}
    BY <1>5, <1>7, PointsAreOpen DEF PointsFor
  <1>9. /\ local'[f].index = local[f].index
        /\ local'[f].configs = local[f].configs \cup {a}
        /\ \A v \in Thread \ {f} : local'[v] = local[v]
    BY <1>1, <1>3 DEF TypeInv, TypeOK
  <1>10. QED
    BY <1>4, <1>8, <1>9 DEF Grows

LEMMA StepAnswers ==
  TypeInv /\ TypeInv' /\ ProgressInv /\ ProgressInv' /\ AnswersInv /\ [Next]_vars => AnswersInv'
  <1> SUFFICES ASSUME TypeInv, TypeInv', ProgressInv, ProgressInv', AnswersInv, [Next]_vars
               PROVE  AnswersInv'
    OBVIOUS
  <1> USE DEF rows, cluster, world
  <1>t. /\ pc \in [Thread -> Control] /\ Deployment \subseteq Thread /\ Form \subseteq Thread
        /\ \A w \in Thread : pc[w] \notin {"idle", "done"} => target[w] \in Deployment
    BY DEF TypeInv, TypeOK, TargetOK, Thread
  <1>r. ASSUME NEW w \in Thread, Return(w), UNCHANGED <<state, wingmen>> PROVE AnswersInv'
    BY <1>r, AnswersMove DEF Return
  <1>g. ASSUME NEW w \in Thread, NEW where, Goto(w, where), UNCHANGED <<state, wingmen>>,
               where \notin {"evaluating", "applying"}
        PROVE  AnswersInv'
    BY <1>g, AnswersMove DEF Goto
  <1>1. ASSUME NEW d \in Deployment, Create(d) PROVE AnswersInv'
    BY <1>1, <1>t, <1>r, <1>g
    DEF Create, CancelInProgressDeployments, RefuseModules, GetLastDeployment, NewDeployment
  <1>2. ASSUME NEW f \in Form, ReadForm(f) \/ AnswerForm(f) PROVE AnswersInv'
    <2>f. f \in Thread
      BY <1>t
    <2>1. CASE ReadForm(f)
      <3>1. PICK d \in Deployment :
              /\ target' = [target EXCEPT ![f] = d]
              /\ local' = [local EXCEPT ![f] =
                   [index     |-> state[d].index,
                    configs   |-> state[d].configs,
                    inherited |-> IF previous[d] = None THEN {} ELSE state[previous[d]].configs]]
        BY <2>1 DEF ReadForm
      <3>2. /\ UNCHANGED <<state, wingmen>>
            /\ target'[f] = d /\ pc'[f] = "posting"
            /\ local'[f].index = state[d].index /\ local'[f].configs = state[d].configs
            /\ \A v \in Thread \ {f} : /\ pc'[v] = pc[v] /\ local'[v] = local[v]
                                       /\ target'[v] = target[v]
        BY <2>1, <2>f, <3>1 DEF ReadForm, TypeInv, TypeOK
      <3>3. ServiceComplete(f)'
        BY <3>2 DEF ServiceComplete
      <3>4. QED
        BY <2>f, <3>2, <3>3, AnswersStep
    <2>2. CASE LockForm(f)
      BY <1>g, <2>f, <2>2 DEF LockForm
    <2>3. CASE AcceptEntry(f)
      <3>1. pc[f] = "answering" /\ UNCHANGED <<pc, target, state, wingmen>>
        BY <2>3 DEF AcceptEntry
      <3>2. ServiceComplete(f)'
        BY <3>1 DEF ServiceComplete
      <3>3. QED
        BY <2>f, <2>3, <3>1, <3>2, EntriesAreOpen, AnswersStep
    <2>4. CASE RefuseEntry(f)
      BY <2>f, <2>4, AnswersMove DEF RefuseEntry
    <2>5. CASE FailEntry(f)
      BY <1>r, <2>f, <2>5 DEF FailEntry
    <2>6. CASE CommitForm(f)
      BY <1>t, <2>f, <2>6, AnswersMove DEF CommitForm
    <2>7. QED
      BY <1>2, <2>1, <2>2, <2>3, <2>4, <2>5, <2>6 DEF AnswerForm
  <1>3. ASSUME NEW w \in Thread, Deploy(w) PROVE AnswersInv'
    <2>w. ASSUME Wait(w), pc[w] \in AtService, UNCHANGED wingmen PROVE AnswersInv'
      <3>1. target[w] \in Deployment /\ state' = [state EXCEPT ![target[w]] = Stored(w)]
        BY <1>t, <2>w DEF Wait, AtService
      <3>2. /\ UNCHANGED target /\ pc' = [pc EXCEPT ![w] = "done"]
            /\ local' = [local EXCEPT ![w] = NoLocal]
        BY <2>w DEF Wait, Return
      <3>3. QED
        BY <2>w, <3>1, <3>2, AnswersMove
    <2>e. ASSUME NEW where \in {"evaluating", "applying"}, Goto(w, where), UNCHANGED state,
                 wingmen \subseteq wingmen', ServiceComplete(w)'
          PROVE  AnswersInv'
      <3>1. /\ UNCHANGED <<local, target>> /\ \A v \in Thread \ {w} : pc'[v] = pc[v]
            /\ Grows(local[w].configs, local[w].configs)
        BY <2>e DEF Goto, Grows, TypeInv, TypeOK
      <3>2. QED
        BY <2>e, <3>1, AnswersStep
    <2>1. CASE Lock(w)
      BY <1>g, <2>1 DEF Lock
    <2>2. CASE RefreshDeletedEnvironment(w)
      BY <1>r, <2>2 DEF RefreshDeletedEnvironment
    <2>3. CASE Refresh(w)
      <3>1. CASE Goto(w, "failing")
        BY <1>g, <2>3, <3>1 DEF Refresh
      <3>2. CASE /\ pc' = [pc EXCEPT ![w] = "marking"]
                 /\ local' = [local EXCEPT ![w] = [index     |-> state[target[w]].index,
                                                   configs   |-> state[target[w]].configs,
                                                   inherited |-> {}]]
                 /\ UNCHANGED <<target, ctx>>
        <4>1. /\ pc'[w] = "marking" /\ UNCHANGED <<state, target, wingmen>>
              /\ local'[w].index = state[target[w]].index
              /\ local'[w].configs = state[target[w]].configs
              /\ \A v \in Thread \ {w} : local'[v] = local[v] /\ pc'[v] = pc[v]
          BY <2>3, <3>2 DEF Refresh, TypeInv, TypeOK
        <4>2. ServiceComplete(w)'
          BY <4>1 DEF ServiceComplete
        <4>3. QED
          BY <4>1, <4>2, AnswersStep
      <3>3. QED
        BY <2>3, <3>1, <3>2 DEF Refresh
    <2>4. CASE MarkInProgress(w)
      BY <1>g, <2>4 DEF MarkInProgress
    <2>5. CASE BeginService(w)
      <3>1. CASE Return(w)
        BY <1>r, <2>5, <3>1 DEF BeginService
      <3>2. CASE Goto(w, "wingman") \/ Goto(w, "failing")
        BY <1>g, <2>5, <3>2 DEF BeginService
      <3>3. CASE ServiceAt(w).wingman = None /\ Goto(w, "evaluating")
        <4>1. pc'[w] = "evaluating" /\ ServiceAt(w)' = ServiceAt(w) /\ UNCHANGED <<state, wingmen>>
          BY <2>5, <3>3 DEF BeginService, Goto, ServiceAt, TypeInv, TypeOK
        <4>2. ServiceComplete(w)'
          BY <3>3, <4>1 DEF ServiceComplete
        <4>3. QED
          BY <2>e, <3>3, <4>1, <4>2
      <3>4. QED
        BY <2>5, <3>1, <3>2, <3>3 DEF BeginService
    <2>6. CASE DeployWingman(w)
      <3>1. CASE Wait(w)
        <4>1. /\ pc[w] = "wingman" /\ wingmen \subseteq wingmen' /\ pc'[w] = "done"
              /\ UNCHANGED target /\ local'[w].index = 0
              /\ \A v \in Thread \ {w} : local'[v] = local[v] /\ pc'[v] = pc[v]
              /\ state' = [state EXCEPT ![target[w]] = Stored(w)]
          BY <2>6, <3>1 DEF DeployWingman, Wait, Return, NoLocal, TypeInv, TypeOK
        <4>2. ServiceComplete(w)' /\ target[w] \in Deployment
          BY <1>t, <4>1 DEF ServiceComplete
        <4>3. QED
          BY <4>1, <4>2, AnswersStep
      <3>2. CASE /\ WingmanPoints(ServiceAt(w), local[w].configs) = {}
                 /\ Goto(w, "evaluating") /\ UNCHANGED rows
        <4>1. /\ pc'[w] = "evaluating" /\ UNCHANGED local /\ ServiceAt(w)' = ServiceAt(w)
              /\ wingmen \subseteq wingmen'
          BY <2>6, <3>2 DEF DeployWingman, Goto, ServiceAt, TypeInv, TypeOK
        <4>2. ServiceComplete(w)'
          BY <3>2, <4>1 DEF ServiceComplete
        <4>3. QED
          BY <2>e, <3>2, <4>1, <4>2
      <3>3. QED
        BY <2>6, <3>1, <3>2 DEF DeployWingman
    <2>7. CASE Evaluate(w)
      <3>1. CASE Goto(w, "failing") /\ UNCHANGED rows
        BY <1>g, <2>7, <3>1 DEF Evaluate
      <3>2. CASE Return(w) /\ UNCHANGED rows
        BY <1>r, <2>7, <3>2 DEF Evaluate
      <3>3. CASE Wait(w)
        BY <2>7, <2>w, <3>3 DEF Evaluate, AtService
      <3>4. CASE /\ EvaluateService(ServiceAt(w), Declared[target[w]], local[w].configs, wingmen).result = "value"
                 /\ Goto(w, "applying") /\ UNCHANGED rows
        <4>1. /\ pc[w] = "evaluating" /\ pc'[w] = "applying"
              /\ UNCHANGED <<local, target, wingmen>> /\ ServiceAt(w)' = ServiceAt(w)
          BY <2>7, <3>4 DEF Evaluate, Goto, ServiceAt, TypeInv, TypeOK
        <4>2. ServiceComplete(w)
          BY DEF AnswersInv
        <4>3. ServiceComplete(w)'
          BY <3>4, <4>1, <4>2 DEF ServiceComplete
        <4>4. QED
          BY <2>e, <3>4, <4>1, <4>3
      <3>5. QED
        BY <2>7, <3>1, <3>2, <3>3, <3>4 DEF Evaluate
    <2>8. CASE DeployService(w)
      <3>1. /\ pc[w] = "applying" /\ pc'[w] = "running" /\ UNCHANGED <<state, target, wingmen>>
            /\ local'[w].index = local[w].index + 1
            /\ local'[w].configs = local[w].configs
            /\ \A v \in Thread \ {w} : local'[v] = local[v] /\ pc'[v] = pc[v]
        BY <2>8 DEF DeployService, TypeInv, TypeOK
      <3>2. Answered(ServiceAt(w), Declared[target[w]], local[w].configs, wingmen)
        BY <3>1 DEF AnswersInv, ServiceComplete, Answered
      <3>3. ServiceComplete(w)'
        BY <3>1 DEF ServiceComplete
      <3>4. QED
        BY <3>1, <3>2, <3>3, AnswersStep
    <2>9. CASE Succeed(w)
      BY <1>t, <2>9, AnswersMove DEF Succeed, Return
    <2>10. CASE MarkErrored(w)
      BY <1>r, <2>10 DEF MarkErrored
    <2>11. CASE StopCancelled(w)
      BY <1>r, <2>11 DEF StopCancelled
    <2>12. CASE CallFails(w)
      BY <1>r, <1>g, <2>12 DEF CallFails
    <2>13. QED
      BY <1>3, <2>1, <2>2, <2>3, <2>4, <2>5, <2>6, <2>7, <2>8, <2>9, <2>10, <2>11, <2>12 DEF Deploy
  <1>4. ASSUME NEW w \in Thread, EnvironmentNotFound(w) PROVE AnswersInv'
    BY <1>4, <1>r DEF EnvironmentNotFound
  <1>5. CASE (\E w \in Thread : HandleDeployCancel(w)) \/ DeleteEnvironment \/ Quiet \/ UNCHANGED vars
    <2>1. UNCHANGED <<state, pc, target, local, wingmen>>
      BY <1>5 DEF HandleDeployCancel, IsCancelled, CancelContext, DeleteEnvironment, Quiet, vars, threads
    <2>2. QED
      BY <2>1 DEF AnswersInv, RowsComplete, LocalComplete, ServiceComplete, ServiceAt
  <1>6. CASE Crash
    <2>1. /\ UNCHANGED <<state, target, wingmen>>
          /\ \A w \in Thread : local'[w].index = 0 /\ pc'[w] \notin {"evaluating", "applying"}
      BY <1>6 DEF Crash, NoLocal
    <2>2. LocalComplete' /\ RowsComplete'
      BY <2>1, NothingIsComplete DEF AnswersInv, LocalComplete, RowsComplete
    <2>3. QED
      BY <2>1, <2>2 DEF AnswersInv, ServiceComplete
  <1>7. QED
    BY <1>1, <1>2, <1>3, <1>4, <1>5, <1>6 DEF Next

(* A row holds the answers of every service it counts, whichever of several *)
(* forms, goroutines and crashes wrote it last.                             *)
THEOREM AnswersKeptUp == Spec => []AnswersKeepUp
  <1>1. Spec => [](TypeInv /\ ProgressInv)
    BY ProgressCorrect
  <1>2. AnswersInv => AnswersKeepUp
    BY DEF AnswersInv, RowsComplete, Complete, AnswersKeepUp
  <1>3. QED
    BY <1>1, <1>2, InitAnswers, StepAnswers, PTL DEF Spec
============================================================================
