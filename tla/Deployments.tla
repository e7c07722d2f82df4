---------------------------- MODULE Deployments ----------------------------
(***************************************************************************)
(* The deployments of one environment: the rows of the deployments table,  *)
(* the requests that create a deployment or answer its form, the goroutine *)
(* each of them leaves behind to deploy the services (App.deploy), the     *)
(* poller that cancels that goroutine, and what has reached the cluster.   *)
(*                                                                         *)
(* A thread is named by the request it starts as.  Thread d \in Deployment *)
(* is the POST that creates deployment d, thread f \in Form is one POST of *)
(* a deployment's form; each turns into the goroutine `go a.deploy(d)` that*)
(* the request starts as its last act.                                     *)
(***************************************************************************)
EXTENDS ServiceEvaluation, Integers, Sequences, FiniteSets

CONSTANTS
  Deployment,    \* one per create request
  Form,          \* one per POST of a deployment's form
  Module,        \* module names
  Identifier,    \* identifiers of config points
  ServiceList,   \* Config.Services of each deployment, already sorted
  Declared,      \* Config.Configs of each deployment
  Faults,        \* what the surroundings may do, a subset of FaultKind
  MaxRestarts    \* how often the server may crash and come back

FaultKind == {"invalid",  \* a create request whose modules are refused
              "failure",  \* a call to the cluster or a wingman fails
              "overlap",  \* a form is posted while another thread is busy
              "delete"}   \* the environment is deleted

ASSUME ConstantsAssumption ==
  /\ Deployment \cap Form = {}
  /\ None \notin Deployment
  /\ Faults \subseteq FaultKind
  /\ MaxRestarts \in Nat
  /\ \A d \in Deployment : Len(ServiceList[d]) \in Nat

ASSUME ServicesAssumption ==
  \A d \in Deployment : \A i \in 1..Len(ServiceList[d]) :
    \A e \in Expressions(ServiceList[d][i]) : e.form \in {"literal", "config", "function"}

Thread == Deployment \cup Form
Answer == [module : Module, identifier : Identifier, kind : {"String", "Secret"}]
Entry  == [module : Module, identifier : Identifier, inherit : BOOLEAN]

VARIABLES
  status,     \* status[d]: the row's status, "absent" before the INSERT
  state,      \* state[d]: the row's state, the index of the next service and the configs
  previous,   \* previous[d]: the row's previous_deployment_id
  created,    \* the rows in the order of created_at
  applied,    \* applied[d]: the positions of the services d has brought up (history)
  wingmen,    \* the wingmen that run on the cluster
  pc,         \* where each thread is
  target,     \* the deployment a thread works on
  local,      \* the state a thread holds in memory, and for a form the previous configs
  ctx,        \* a goroutine's context: live, about to be cancelled, cancelled
  deleted,    \* the environment is soft-deleted
  restarts    \* crashes so far

rows    == <<status, state, previous, created>>
cluster == <<applied, wingmen>>
threads == <<pc, target, local, ctx>>
world   == <<deleted, restarts>>
vars    == <<rows, cluster, threads, world>>

Status     == {"NotStarted", "InProgress", "Waiting", "Cancelled", "Errored", "Success"}
Unfinished == {"NotStarted", "InProgress", "Waiting"}

(* A goroutine holds its deployment's advisory lock from Lock to the end of *)
(* its transaction, a form from LockForm to the end of its own.  A cancelled*)
(* context rolls the transaction back before the goroutine notices.         *)
Deploying == {"refreshing", "marking", "running", "wingman", "evaluating", "applying"}
Working   == Deploying \cup {"locking", "failing"}
Holding   == Deploying \cup {"answering"}
Control   == Working \cup Holding \cup {"idle", "validating", "inserting", "posting", "done"}

NoState == [index |-> 0, configs |-> {}]
NoLocal == [index |-> 0, configs |-> {}, inherited |-> {}]

(* Variant: the lock's key is not the same in both places, so it is always free. *)
LockFree_Always(d) == TRUE

LockFree(d) == \A w \in Thread :
  target[w] = d /\ pc[w] \in Holding => ctx[w] = "cancelled"
Busy(d)     == \E w \in Thread : target[w] = d /\ pc[w] \notin {"idle", "done"}

(* The service a thread is at, and its state as it is written to the row.   *)
(* Variant: the loop ends one service early. *)
ServicesLeft_OneLess(w) == local[w].index + 1 < Len(ServiceList[target[w]])

ServicesLeft(w) == local[w].index < Len(ServiceList[target[w]])
ServiceAt(w)    == ServiceList[target[w]][local[w].index + 1]
(* Variants: the index of the service before, or after, the current one is stored. *)
Stored_OneBack(w)  == [index |-> local[w].index - 1, configs |-> local[w].configs]
Stored_OneAhead(w) == [index |-> local[w].index + 1, configs |-> local[w].configs]

Stored(w)       == [index |-> local[w].index, configs |-> local[w].configs]

Init ==
  /\ status = [d \in Deployment |-> "absent"]
  /\ state = [d \in Deployment |-> NoState]
  /\ previous = [d \in Deployment |-> None]
  /\ created = <<>>
  /\ applied = [d \in Deployment |-> {}]
  /\ wingmen = {}
  /\ pc = [w \in Thread |-> "idle"]
  /\ target = [w \in Thread |-> IF w \in Deployment THEN w ELSE None]
  /\ local = [w \in Thread |-> NoLocal]
  /\ ctx = [w \in Thread |-> "live"]
  /\ deleted = FALSE
  /\ restarts = 0

Goto(w, where) == pc' = [pc EXCEPT ![w] = where] /\ UNCHANGED <<target, local, ctx>>

(* The thread ends: its transaction is over, its lock and its poller gone.  *)
Return(w) ==
  /\ pc' = [pc EXCEPT ![w] = "done"]
  /\ local' = [local EXCEPT ![w] = NoLocal]
  /\ ctx' = [ctx EXCEPT ![w] = "live"]
  /\ UNCHANGED target

----------------------------------------------------------------------------
(***************************************************************************)
(* createDeployment.  The statements are not in one transaction.           *)
(***************************************************************************)

(* The environment is found and what is unfinished in it is cancelled.      *)
CancelInProgressDeployments(d) ==
  /\ pc[d] = "idle"
  /\ ~deleted
  /\ status' = [e \in Deployment |-> IF status[e] \in Unfinished THEN "Cancelled" ELSE status[e]]
  /\ Goto(d, "validating")
  /\ UNCHANGED <<state, previous, created, cluster, world>>

EnvironmentNotFound(w) ==
  /\ pc[w] = "idle"
  /\ deleted
  /\ Return(w)
  /\ UNCHANGED <<rows, cluster, world>>

(* The modules are only looked at now, after the cancelling.                *)
RefuseModules(d) ==
  /\ "invalid" \in Faults
  /\ pc[d] = "validating"
  /\ Return(d)
  /\ UNCHANGED <<rows, cluster, world>>

(* Variant: the query forgets the status. *)
Successful_AnyStatus == DOMAIN created

Successful == {i \in DOMAIN created : status[created[i]] = "Success"}

GetLastDeployment(d) ==
  /\ pc[d] = "validating"
  /\ \/ /\ Successful = {}
        /\ previous' = [previous EXCEPT ![d] = None]
     \/ \E i \in Successful :
          /\ \A j \in Successful : j <= i
          /\ previous' = [previous EXCEPT ![d] = created[i]]
  /\ Goto(d, "inserting")
  /\ UNCHANGED <<status, state, created, cluster, world>>

(* The row is inserted and the goroutine started.                           *)
NewDeployment(d) ==
  /\ pc[d] = "inserting"
  /\ status' = [status EXCEPT ![d] = "NotStarted"]
  /\ created' = Append(created, d)
  /\ Goto(d, "locking")
  /\ UNCHANGED <<state, previous, cluster, world>>

----------------------------------------------------------------------------
(***************************************************************************)
(* updateDeploymentConfigHtmxRoute.  The row is read before the lock is    *)
(* taken and is not read again under it, and its status is never looked at.*)
(***************************************************************************)

ReadForm(f) ==
  /\ pc[f] = "idle"
  /\ ~deleted
  /\ \E d \in Deployment :
       /\ status[d] # "absent"
       /\ "overlap" \in Faults \/ ~Busy(d)
       /\ target' = [target EXCEPT ![f] = d]
       /\ local' = [local EXCEPT ![f] =
            [index     |-> state[d].index,
             configs   |-> state[d].configs,
             inherited |-> IF previous[d] = None THEN {} ELSE state[previous[d]].configs]]
  /\ pc' = [pc EXCEPT ![f] = "posting"]
  /\ UNCHANGED <<ctx, rows, cluster, world>>

LockForm(f) ==
  /\ pc[f] = "posting"
  /\ LockFree(target[f])
  /\ Goto(f, "answering")
  /\ UNCHANGED <<rows, cluster, world>>

PointsFor(w) == FindConfigPoints(ServiceAt(w), Declared[target[w]], local[w].configs, wingmen)

(* One entry is valid: it names a point that is still open.                 *)
AcceptEntry(f) ==
  /\ pc[f] = "answering"
  /\ ServicesLeft(f)
  /\ \E e \in Entry :
       /\ e.module = ServiceAt(f).module
       /\ PointsFor(f).result \notin {"error", "panic"}
       /\ \E c \in Named(PointsFor(f).points, e.module, e.identifier) :
            \E a \in IF e.inherit THEN Named(local[f].inherited, e.module, e.identifier)
                     ELSE {[module |-> e.module, identifier |-> e.identifier,
                            kind |-> IF c.kind = "Secret" THEN "Secret" ELSE "String"]} :
              local' = [local EXCEPT ![f].configs = @ \cup {a}]
  /\ UNCHANGED <<pc, target, ctx, rows, cluster, world>>

(***************************************************************************)
(* An entry is for another module or for no open point (400), or looking   *)
(* for the points panics and Transact swallows the panic.  The closure     *)
(* returns no error in either case, nothing is stored, and the goroutine   *)
(* is started all the same.                                                *)
(***************************************************************************)
RefuseEntry(f) ==
  /\ pc[f] = "answering"
  /\ ServicesLeft(f)
  /\ \E e \in Entry :
       \/ e.module # ServiceAt(f).module
       \/ PointsFor(f).result = "panic"
       \/ /\ PointsFor(f).result # "error"
          /\ Named(PointsFor(f).points, e.module, e.identifier) = {}
  /\ pc' = [pc EXCEPT ![f] = "locking"]
  /\ local' = [local EXCEPT ![f] = NoLocal]
  /\ UNCHANGED <<target, ctx, rows, cluster, world>>

(* No service is left, its points cannot be found, or there is nothing to   *)
(* inherit: an error, and no goroutine.                                     *)
FailEntry(f) ==
  /\ pc[f] = "answering"
  /\ \/ ~ServicesLeft(f)
     \/ /\ ServicesLeft(f)
        /\ \E e \in Entry :
             /\ e.module = ServiceAt(f).module
             /\ \/ PointsFor(f).result = "error"
                \/ /\ Named(PointsFor(f).points, e.module, e.identifier) # {}
                   /\ e.inherit
                   /\ Named(local[f].inherited, e.module, e.identifier) = {}
  /\ Return(f)
  /\ UNCHANGED <<rows, cluster, world>>

(* Variant: an answered form counts the service it was for. *)
CommitForm_Counts(f) ==
  /\ pc[f] = "answering"
  /\ status' = [status EXCEPT ![target[f]] = "InProgress"]
  /\ state' = [state EXCEPT ![target[f]] = [Stored(f) EXCEPT !.index = @ + 1]]
  /\ pc' = [pc EXCEPT ![f] = "locking"]
  /\ local' = [local EXCEPT ![f] = NoLocal]
  /\ UNCHANGED <<target, ctx, previous, created, cluster, world>>

(* Variant: the larger index is kept, so that no progress is lost, and the  *)
(* configs of the form are stored with it.                                  *)
CommitForm_LargerIndex(f) ==
  /\ pc[f] = "answering"
  /\ status' = [status EXCEPT ![target[f]] = "InProgress"]
  /\ state' = [state EXCEPT ![target[f]] =
       IF @.index > local[f].index THEN [Stored(f) EXCEPT !.index = state[target[f]].index]
       ELSE Stored(f)]
  /\ pc' = [pc EXCEPT ![f] = "locking"]
  /\ local' = [local EXCEPT ![f] = NoLocal]
  /\ UNCHANGED <<target, ctx, previous, created, cluster, world>>

(* Every entry is done: the state goes back to the row, whatever is there.  *)
CommitForm(f) ==
  /\ pc[f] = "answering"
  /\ status' = [status EXCEPT ![target[f]] = "InProgress"]
  /\ state' = [state EXCEPT ![target[f]] = Stored(f)]
  /\ pc' = [pc EXCEPT ![f] = "locking"]
  /\ local' = [local EXCEPT ![f] = NoLocal]
  /\ UNCHANGED <<target, ctx, previous, created, cluster, world>>

----------------------------------------------------------------------------
(***************************************************************************)
(* App.deploy.  Once its context is cancelled every statement and every    *)
(* call of the goroutine fails, so each of its steps needs a context that  *)
(* is not.                                                                 *)
(***************************************************************************)

Alive(w) == ctx[w] # "cancelled"

Lock(w) ==
  /\ pc[w] = "locking"
  /\ Alive(w)
  /\ LockFree(target[w])
  /\ Goto(w, "refreshing")
  /\ UNCHANGED <<rows, cluster, world>>

(* A deleted environment is nil and its owner is read through it: a panic.  *)
RefreshDeletedEnvironment(w) ==
  /\ pc[w] = "refreshing"
  /\ Alive(w)
  /\ deleted
  /\ Return(w)
  /\ UNCHANGED <<rows, cluster, world>>

Refresh(w) ==
  /\ pc[w] = "refreshing"
  /\ Alive(w)
  /\ ~deleted
  /\ IF status[target[w]] \in Unfinished
     THEN /\ pc' = [pc EXCEPT ![w] = "marking"]
          /\ local' = [local EXCEPT ![w] = [index     |-> state[target[w]].index,
                                            configs   |-> state[target[w]].configs,
                                            inherited |-> {}]]
          /\ UNCHANGED <<target, ctx>>
     ELSE Goto(w, "failing")
  /\ UNCHANGED <<rows, cluster, world>>

(* UpdateStatusDb(InProgress): outside the transaction and unconditional.   *)
MarkInProgress(w) ==
  /\ pc[w] = "marking"
  /\ Alive(w)
  /\ status' = [status EXCEPT ![target[w]] = "InProgress"]
  /\ Goto(w, "running")
  /\ UNCHANGED <<state, previous, created, cluster, world>>

(* The next service: straight to its evaluation if it has no wingman.       *)
BeginService(w) ==
  /\ pc[w] = "running"
  /\ Alive(w)
  /\ ServicesLeft(w)
  /\ \/ /\ ServiceAt(w).wingman = None
        /\ Goto(w, "evaluating")
     \/ /\ ServiceAt(w).wingman # None
        /\ LET r == EvaluateWingman(ServiceAt(w), Declared[target[w]], local[w].configs, wingmen)
           IN  \/ r.result = "value" /\ Goto(w, "wingman")
               \/ r.result = "error" /\ Goto(w, "failing")
               \/ r.result = "panic" /\ Return(w)
  /\ UNCHANGED <<rows, cluster, world>>

(* Variants: only the status, or only the state, is written. *)
Wait_StatusOnly(w) ==
  /\ status' = [status EXCEPT ![target[w]] = "Waiting"]
  /\ Return(w)
  /\ UNCHANGED <<state, previous, created>>

Wait_StateOnly(w) ==
  /\ state' = [state EXCEPT ![target[w]] = Stored(w)]
  /\ Return(w)
  /\ UNCHANGED <<status, previous, created>>

(* UpdateStateAndStatus(Waiting): the page will ask for what is missing.    *)
Wait(w) ==
  /\ status' = [status EXCEPT ![target[w]] = "Waiting"]
  /\ state' = [state EXCEPT ![target[w]] = Stored(w)]
  /\ Return(w)
  /\ UNCHANGED <<previous, created>>

(* The wingman is up and has been asked for its config points.              *)
DeployWingman(w) ==
  /\ pc[w] = "wingman"
  /\ Alive(w)
  /\ wingmen' = wingmen \cup {WingmanOf(ServiceAt(w))}
  /\ IF WingmanPoints(ServiceAt(w), local[w].configs) # {}
     THEN Wait(w)
     ELSE Goto(w, "evaluating") /\ UNCHANGED rows
  /\ UNCHANGED <<applied, world>>

Evaluate(w) ==
  /\ pc[w] = "evaluating"
  /\ Alive(w)
  /\ LET r == EvaluateService(ServiceAt(w), Declared[target[w]], local[w].configs, wingmen)
     IN  \/ r.result = "value" /\ Goto(w, "applying") /\ UNCHANGED rows
         \/ r.result = "points" /\ Wait(w)
         \/ r.result = "error" /\ Goto(w, "failing") /\ UNCHANGED rows
         \/ r.result = "panic" /\ Return(w) /\ UNCHANGED rows
  /\ UNCHANGED <<cluster, world>>

(* The service's resources are ready; ServiceIndex++ in memory only.        *)
DeployService(w) ==
  /\ pc[w] = "applying"
  /\ Alive(w)
  /\ applied' = [applied EXCEPT ![target[w]] = @ \cup {local[w].index + 1}]
  /\ local' = [local EXCEPT ![w].index = @ + 1]
  /\ pc' = [pc EXCEPT ![w] = "running"]
  /\ UNCHANGED <<target, ctx, wingmen, rows, world>>

Succeed(w) ==
  /\ pc[w] = "running"
  /\ Alive(w)
  /\ ~ServicesLeft(w)
  /\ status' = [status EXCEPT ![target[w]] = "Success"]
  /\ state' = [state EXCEPT ![target[w]] = Stored(w)]
  /\ Return(w)
  /\ UNCHANGED <<previous, created, cluster, world>>

(* The transaction is rolled back and the lock free when the status is set. *)
MarkErrored(w) ==
  /\ pc[w] = "failing"
  /\ Alive(w)
  /\ status' = [status EXCEPT ![target[w]] = "Errored"]
  /\ Return(w)
  /\ UNCHANGED <<state, previous, created, cluster, world>>

(* The error ends with "context canceled", or the last update fails with it. *)
StopCancelled(w) ==
  /\ pc[w] \in Working
  /\ ~Alive(w)
  /\ Return(w)
  /\ UNCHANGED <<rows, cluster, world>>

----------------------------------------------------------------------------
(***************************************************************************)
(* handleDeployCancel, beside each goroutine for as long as that runs: it  *)
(* reads the status and, in a later step, cancels the context.             *)
(***************************************************************************)

IsCancelled(w) ==
  /\ pc[w] \in Working
  /\ ctx[w] = "live"
  /\ status[target[w]] = "Cancelled"
  /\ ctx' = [ctx EXCEPT ![w] = "doomed"]
  /\ UNCHANGED <<pc, target, local, rows, cluster, world>>

CancelContext(w) ==
  /\ ctx[w] = "doomed"
  /\ ctx' = [ctx EXCEPT ![w] = "cancelled"]
  /\ UNCHANGED <<pc, target, local, rows, cluster, world>>

----------------------------------------------------------------------------
(***************************************************************************)
(* The surroundings.                                                       *)
(***************************************************************************)

(* Variant: the error is logged and the loop goes on with the next service. *)
CallFails_Continues(w) ==
  /\ "failure" \in Faults
  /\ pc[w] = "applying"
  /\ Alive(w)
  /\ local' = [local EXCEPT ![w].index = @ + 1]
  /\ pc' = [pc EXCEPT ![w] = "running"]
  /\ UNCHANGED <<target, ctx, rows, cluster, world>>

(* A call to the cluster or to a wingman fails or times out, or the client  *)
(* of a form goes away.                                                     *)
CallFails(w) ==
  /\ "failure" \in Faults
  /\ \/ /\ pc[w] \in {"running", "wingman", "evaluating", "applying"}
        /\ Alive(w)
        /\ Goto(w, "failing")
     \/ pc[w] \in {"posting", "answering"} /\ Return(w)
  /\ UNCHANGED <<rows, cluster, world>>

DeleteEnvironment ==
  /\ "delete" \in Faults
  /\ ~deleted
  /\ deleted' = TRUE
  /\ UNCHANGED <<rows, cluster, threads, restarts>>

(* Every thread dies and every lock goes with its connection.  The server   *)
(* comes back and starts none of them again.                                *)
Crash ==
  /\ restarts < MaxRestarts
  /\ restarts' = restarts + 1
  /\ pc' = [w \in Thread |-> IF pc[w] = "idle" THEN "idle" ELSE "done"]
  /\ local' = [w \in Thread |-> NoLocal]
  /\ ctx' = [w \in Thread |-> "live"]
  /\ UNCHANGED <<target, rows, cluster, deleted>>

(* No request is being served; without a next step elsewhere is a deadlock.  *)
Quiet ==
  /\ \A w \in Thread : pc[w] \in {"idle", "done"}
  /\ UNCHANGED vars

----------------------------------------------------------------------------
Create(d) ==
  \/ CancelInProgressDeployments(d) \/ RefuseModules(d)
  \/ GetLastDeployment(d) \/ NewDeployment(d)

AnswerForm(f) ==
  \/ LockForm(f) \/ AcceptEntry(f) \/ RefuseEntry(f) \/ FailEntry(f) \/ CommitForm(f)

Deploy(w) ==
  \/ Lock(w) \/ RefreshDeletedEnvironment(w) \/ Refresh(w) \/ MarkInProgress(w)
  \/ BeginService(w) \/ DeployWingman(w) \/ Evaluate(w) \/ DeployService(w)
  \/ Succeed(w) \/ MarkErrored(w) \/ StopCancelled(w) \/ CallFails(w)

HandleDeployCancel(w) == IsCancelled(w) \/ CancelContext(w)

Next ==
  \/ \E d \in Deployment : Create(d)
  \/ \E f \in Form : ReadForm(f) \/ AnswerForm(f)
  \/ \E w \in Thread : EnvironmentNotFound(w) \/ Deploy(w) \/ HandleDeployCancel(w)
  \/ DeleteEnvironment
  \/ Crash
  \/ Quiet

Spec == Init /\ [][Next]_vars

(***************************************************************************)
(* A request that was accepted runs on, and so do its goroutine and the    *)
(* poller's ticks; calls to the cluster end, with an error after a minute  *)
(* at the latest.  Nothing has to be requested, and nothing has to break.  *)
(***************************************************************************)
Fairness ==
  /\ \A d \in Deployment : WF_vars(pc[d] # "idle" /\ Create(d))
  /\ \A f \in Form : WF_vars(AnswerForm(f))
  /\ \A w \in Thread : WF_vars(Deploy(w)) /\ WF_vars(HandleDeployCancel(w))

FairSpec == Spec /\ Fairness

----------------------------------------------------------------------------
(***************************************************************************)
(* Properties.                                                             *)
(***************************************************************************)

(* The rows, the cluster and the threads hold values of their types.        *)
TypeOK ==
  /\ status \in [Deployment -> Status \cup {"absent"}]
  /\ state \in [Deployment -> [index : Nat, configs : SUBSET Answer]]
  /\ previous \in [Deployment -> Deployment \cup {None}]
  /\ created \in Seq(Deployment)
  /\ applied \in [Deployment -> SUBSET (Nat \ {0})]
  /\ pc \in [Thread -> Control]
  /\ target \in [Thread -> Deployment \cup {None}]
  /\ local \in [Thread -> [index : Nat, configs : SUBSET Answer, inherited : SUBSET Answer]]
  /\ ctx \in [Thread -> {"live", "doomed", "cancelled"}]
  /\ deleted \in BOOLEAN
  /\ restarts \in 0..MaxRestarts

(* The ServiceIndex of a row never counts a service that was not brought up,*)
(* however forms, goroutines, cancellations and crashes interleave.         *)
ProgressIsReal ==
  \A d \in Deployment : 1..state[d].index \subseteq applied[d]

(* A deployment is only called successful when every service of it is up.   *)
SuccessIsComplete ==
  \A d \in Deployment : status[d] = "Success" => 1..Len(ServiceList[d]) \subseteq applied[d]

(* A service is brought up after everything that was sorted before it, so   *)
(* after what it requires, whichever goroutine of the deployment does it.   *)
AppliedInOrder ==
  \A d \in Deployment : \A i \in applied[d] : 1..i \subseteq applied[d]

(* A deployment that says it waits has a question to show: the page that    *)
(* reads the row and the cluster later finds an open point to answer.       *)
WaitingIsJustified ==
  \A d \in Deployment : status[d] = "Waiting" =>
    /\ state[d].index < Len(ServiceList[d])
    /\ FindConfigPoints(ServiceList[d][state[d].index + 1], Declared[d],
                        state[d].configs, wingmen).result = "points"

(* What a deployment inherits from brought up every one of its services,    *)
(* and was inserted before it: the chain of previous deployments ends.      *)
PreviousIsComplete ==
  \A i \in DOMAIN created : previous[created[i]] # None =>
    /\ 1..Len(ServiceList[previous[created[i]]]) \subseteq applied[previous[created[i]]]
    /\ \E j \in 1..(i - 1) : created[j] = previous[created[i]]

(* A goroutine, a cancellation, a crash or a refused form never takes back  *)
(* an answer the user has given or a service that was counted.  The commit  *)
(* of a form can, because its handler read the row before it had the lock;  *)
(* but only if it may be posted while another thread is at the deployment.  *)
Kept(d) ==
  /\ state[d].index <= state'[d].index
  /\ state[d].configs \subseteq state'[d].configs

Overwritten(d) == "overlap" \in Faults /\ \E f \in Form : target[f] = d /\ CommitForm(f)

NothingIsLost == [][\A d \in Deployment : Kept(d) \/ Overwritten(d)]_vars

(* Whatever a stale form stores over a newer row, a row never counts a      *)
(* service whose answers it does not hold: with the configs of the row every*)
(* service before its index still evaluates, and its wingman asks nothing.  *)
Answered(s, declared, configs, running) ==
  /\ EvaluateService(s, declared, configs, running).result = "value"
  /\ s.wingman # None => WingmanPoints(s, configs) = {}

AnswersKeepUp ==
  \A d \in Deployment : \A i \in 1..state[d].index :
    Answered(ServiceList[d][i], Declared[d], state[d].configs, wingmen)

(* The whole of it implements the abstract rollout.                         *)
Promise == INSTANCE Rollout WITH
  Size       <- [d \in Deployment |-> Len(ServiceList[d])],
  up         <- applied,
  counted    <- [d \in Deployment |-> state[d].index],
  successful <- [d \in Deployment |-> status[d] = "Success"]

ImplementsRollout == Promise!Spec

(* A goroutine that takes up an unfinished row sees it come to an end or ask*)
(* for input, whatever forms, goroutines and other deployments do meanwhile *)
(* - unless its own context is cancelled, the environment is deleted or the *)
(* server goes down: then nobody has to finish the row.                     *)
Underway(w) ==
  /\ pc[w] \in Working
  /\ status[target[w]] \in {"NotStarted", "InProgress"}
Settled(d) == status[d] \in {"Waiting", "Cancelled", "Errored", "Success"}

Settles ==
  \A w \in Thread, r \in 0..MaxRestarts :
    Underway(w) /\ restarts = r ~>
      \/ \E d \in Deployment : d = target[w] /\ Settled(d)
      \/ ctx[w] = "cancelled" \/ deleted \/ restarts # r

----------------------------------------------------------------------------
(***************************************************************************)
(* What the repository says of the program and the program does not keep.  *)
(***************************************************************************)

(* handleDeployCancel: two deployments are only at the cluster together     *)
(* while the older one is cancelled and has not noticed yet.                *)
ContentionOnlyWhileCancelling ==
  \A v, w \in Thread :
    /\ target[v] # target[w]
    /\ pc[v] \in {"wingman", "applying"}
    /\ pc[w] \in {"wingman", "applying"}
    => \E u \in {v, w} : status[target[u]] = "Cancelled"

(* The page of a cancelled deployment: it was cancelled to start a new one. *)
CancelledForANewDeployment ==
  \A d \in Deployment : status[d] = "Cancelled" =>
    \E e \in Deployment \ {d} : status[e] # "absent" \/ pc[e] \in {"validating", "inserting"}

(* The page of a deployment in progress: it will update when the deployment *)
(* finishes or needs input.                                                 *)
PageUpdates == \A d \in Deployment : status[d] = "InProgress" ~> Settled(d)

(* CancelInProgressDeployments: a cancellation is not undone.               *)
CancelledIsFinal ==
  [][\A d \in Deployment : status[d] = "Cancelled" => status'[d] = "Cancelled"]_vars

(* The page of an errored deployment: it contained an error.  One whose     *)
(* services are all up, on a cluster where no call fails, contained none.   *)
ErroredContainedAnError ==
  \A d \in Deployment : status[d] = "Errored" =>
    ~ (1..Len(ServiceList[d]) \subseteq applied[d])
============================================================================
