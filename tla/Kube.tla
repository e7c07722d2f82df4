-------------------------------- MODULE Kube --------------------------------
(***************************************************************************)
(* What "bring a service up" in Deployments stands for: a goroutine makes  *)
(* sure of the namespace and deploys the resources of one materialized     *)
(* service, one after the other, each under a timeout of a minute.  Several*)
(* goroutines may do so for the same service.  Only the program creates and*)
(* deletes resources; the cluster makes them ready and removes them.       *)
(***************************************************************************)
EXTENDS Integers

CONSTANTS
  None,
  Deployer,  \* the goroutines
  Last,      \* the resources are 1..Last, in the order they are deployed in
  Content,   \* what is in a resource, its command aside
  Command,   \* the commands of a Deployment's container
  Wants,     \* Wants[w][i]: what deployer w wants resource i to be
  Instant,   \* the resources that are ready as soon as they exist
  Faults     \* what the surroundings may do, a subset of FaultKind

FaultKind == {"failure",  \* a call to the cluster fails, or the deployment is cancelled
              "falter",   \* a ready resource becomes unready
              "overlap"}  \* a deployer starts while another one is busy

Resource == 1..Last
Version == [content : Content, command : Command \cup {None}]
Object == [version : Version, ready : BOOLEAN, terminating : BOOLEAN]

ASSUME KubeAssumption ==
  /\ Last \in Nat \ {0}
  /\ Wants \in [Deployer -> [Resource -> Version]]
  /\ Instant \subseteq Resource
  /\ Faults \subseteq FaultKind
  /\ None \notin Object
  /\ None \notin Deployer

VARIABLES
  namespace,  \* the namespace exists
  cluster,    \* cluster[i]: resource i as it is on the cluster, or None
  pc,         \* where each deployer is
  at,         \* the resource each deployer is at
  up,         \* the resources that have been ready at some time (history)
  latest      \* the deployer that started last, if no other was busy then (history)

vars == <<namespace, cluster, pc, at, up, latest>>

Ended    == {"done", "failed"}
Placing  == {"getting", "deleting", "waiting", "creating", "polling"}
Active   == {"finding", "naming"} \cup Placing
Control  == {"idle"} \cup Active \cup Ended

Init ==
  /\ namespace = FALSE
  /\ cluster = [i \in Resource |-> None]
  /\ pc = [w \in Deployer |-> "idle"]
  /\ at = [w \in Deployer |-> 1]
  /\ up = {}
  /\ latest = None

Goto(w, where) == pc' = [pc EXCEPT ![w] = where] /\ UNCHANGED at

(* Variant: the loop over the resources runs one too far. *)
Advance_PastTheEnd(w) ==
  /\ at' = [at EXCEPT ![w] = @ + 1]
  /\ pc' = [pc EXCEPT ![w] = IF at[w] > Last THEN "done" ELSE "getting"]

(* The deployer's resource is ready: the next one, or the end.              *)
Advance(w) ==
  IF at[w] = Last
  THEN Goto(w, "done")
  ELSE /\ at' = [at EXCEPT ![w] = @ + 1]
       /\ pc' = [pc EXCEPT ![w] = "getting"]

Start(w) ==
  /\ pc[w] = "idle"
  /\ "overlap" \in Faults \/ \A v \in Deployer : pc[v] \notin Active
  /\ latest' = IF \A v \in Deployer : pc[v] \notin Active THEN w ELSE None
  /\ Goto(w, "finding")
  /\ UNCHANGED <<namespace, cluster, up>>

----------------------------------------------------------------------------
(* EnsureNamespace: look, and in a later step create.                       *)
GetNamespace(w) ==
  /\ pc[w] = "finding"
  /\ Goto(w, IF namespace THEN "getting" ELSE "naming")
  /\ UNCHANGED <<namespace, cluster, up, latest>>

CreateNamespace(w) ==
  /\ pc[w] = "naming"
  /\ namespace' = TRUE
  /\ Goto(w, IF namespace THEN "failed" ELSE "getting")
  /\ UNCHANGED <<cluster, up, latest>>

----------------------------------------------------------------------------
(***************************************************************************)
(* kube.Deploy of the resource the deployer is at.                         *)
(***************************************************************************)

(* Variant: whatever exists will do. *)
IsValid_Exists(i, w) == TRUE

(* A command that is there and not wanted is not noticed.                   *)
IsValid(i, w) ==
  /\ cluster[i].version.content = Wants[w][i].content
  /\ \/ Wants[w][i].command = None
     \/ cluster[i].version.command = Wants[w][i].command

(* The deletion timestamp of what is found is not looked at.                *)
Get(w) ==
  LET i == at[w] IN
  /\ pc[w] = "getting"
  /\ \/ cluster[i] = None /\ Goto(w, "creating")
     \/ /\ cluster[i] # None
        /\ \/ ~IsValid(i, w) /\ Goto(w, "deleting")
           \/ IsValid(i, w) /\ cluster[i].ready /\ Advance(w)
           \/ IsValid(i, w) /\ ~cluster[i].ready /\ Goto(w, "polling")
  /\ UNCHANGED <<namespace, cluster, up, latest>>

(* What is deleted need not be what was looked at.  It is gone at once, or  *)
(* stays for a while as terminating.                                        *)
Delete(w) ==
  LET i == at[w] IN
  /\ pc[w] = "deleting"
  /\ \/ cluster[i] = None /\ Goto(w, "failed") /\ UNCHANGED cluster
     \/ /\ cluster[i] # None
        /\ \/ cluster' = [cluster EXCEPT ![i] = None]
           \/ cluster' = [cluster EXCEPT ![i].terminating = TRUE]
        /\ Goto(w, "waiting")
  /\ UNCHANGED <<namespace, up, latest>>

AwaitDeletion(w) ==
  /\ pc[w] = "waiting"
  /\ cluster[at[w]] = None
  /\ Goto(w, "creating")
  /\ UNCHANGED <<namespace, cluster, up, latest>>

(* Variant: what was created is not polled. *)
Create_NoPoll(w) ==
  LET i == at[w] IN
  /\ pc[w] = "creating"
  /\ cluster[i] = None
  /\ cluster' = [cluster EXCEPT ![i] =
       [version |-> Wants[w][i], ready |-> i \in Instant, terminating |-> FALSE]]
  /\ up' = up \cup ({i} \cap Instant)
  /\ Advance(w)
  /\ UNCHANGED <<namespace, latest>>

Create(w) ==
  LET i == at[w] IN
  /\ pc[w] = "creating"
  /\ \/ cluster[i] # None /\ Goto(w, "failed") /\ UNCHANGED <<cluster, up>>
     \/ /\ cluster[i] = None
        /\ cluster' = [cluster EXCEPT ![i] =
             [version |-> Wants[w][i], ready |-> i \in Instant, terminating |-> FALSE]]
        /\ up' = up \cup ({i} \cap Instant)
        /\ IF i \in Instant THEN Advance(w) ELSE Goto(w, "polling")
  /\ UNCHANGED <<namespace, latest>>

(* pollReady takes what it finds, whoever created it.                       *)
PollReady(w) ==
  LET i == at[w] IN
  /\ pc[w] = "polling"
  /\ \/ cluster[i] = None /\ Goto(w, "failed")
     \/ cluster[i] # None /\ cluster[i].ready /\ Advance(w)
  /\ UNCHANGED <<namespace, cluster, up, latest>>

(* Variant: the loop that waits for the deletion does not look at the context. *)
TimeOut_PollOnly(w) ==
  /\ pc[w] = "polling"
  /\ Goto(w, "failed")
  /\ UNCHANGED <<namespace, cluster, up, latest>>

(* The minute is over in one of the two loops.                              *)
TimeOut(w) ==
  /\ pc[w] \in {"waiting", "polling"}
  /\ Goto(w, "failed")
  /\ UNCHANGED <<namespace, cluster, up, latest>>

(* A call returns an error, or fails with its cancelled context.            *)
CallFails(w) ==
  /\ "failure" \in Faults
  /\ pc[w] \in Active
  /\ Goto(w, "failed")
  /\ UNCHANGED <<namespace, cluster, up, latest>>

----------------------------------------------------------------------------
(***************************************************************************)
(* The cluster.                                                            *)
(***************************************************************************)

BecomeReady(i) ==
  /\ cluster[i] # None
  /\ ~cluster[i].ready
  /\ cluster' = [cluster EXCEPT ![i].ready = TRUE]
  /\ up' = up \cup {i}
  /\ UNCHANGED <<namespace, pc, at, latest>>

Falter(i) ==
  /\ "falter" \in Faults
  /\ i \notin Instant
  /\ cluster[i] # None
  /\ cluster[i].ready
  /\ cluster' = [cluster EXCEPT ![i].ready = FALSE]
  /\ UNCHANGED <<namespace, pc, at, up, latest>>

Vanish(i) ==
  /\ cluster[i] # None
  /\ cluster[i].terminating
  /\ cluster' = [cluster EXCEPT ![i] = None]
  /\ UNCHANGED <<namespace, pc, at, up, latest>>

Quiet ==
  /\ \A w \in Deployer : pc[w] \in Ended
  /\ UNCHANGED vars

----------------------------------------------------------------------------
Deploy(w) ==
  \/ Get(w) \/ Delete(w) \/ AwaitDeletion(w) \/ Create(w) \/ PollReady(w)

Step(w) == GetNamespace(w) \/ CreateNamespace(w) \/ Deploy(w)

Next ==
  \/ \E w \in Deployer : Start(w) \/ Step(w) \/ TimeOut(w) \/ CallFails(w)
  \/ \E i \in Resource : BecomeReady(i) \/ Falter(i) \/ Vanish(i)
  \/ Quiet

Spec == Init /\ [][Next]_vars

(* A goroutine runs on and its timer fires; the cluster promises nothing.   *)
Fairness == \A w \in Deployer : WF_vars(Step(w)) /\ WF_vars(TimeOut(w))

FairSpec == Spec /\ Fairness

----------------------------------------------------------------------------
TypeOK ==
  /\ namespace \in BOOLEAN
  /\ cluster \in [Resource -> Object \cup {None}]
  /\ pc \in [Deployer -> Control]
  /\ at \in [Deployer -> Resource]
  /\ up \subseteq Resource
  /\ latest \in Deployer \cup {None}

(* A resource only exists after everything that is deployed before it has   *)
(* been ready, whoever deployed it: a wingman's Service is never found      *)
(* before its Deployment has run, nor its Deployment before its Role.       *)
ReadyInOrder ==
  \A i \in Resource : cluster[i] # None =>
    /\ namespace
    /\ \A j \in 1..(i - 1) : j \in up

(* A deployer that had the cluster to itself and says it is done leaves it  *)
(* with what it put into its resources, each of which has been ready,       *)
(* whatever the overlapping deployers before it have made of the cluster.   *)
(* Only an earlier one that gave up can have left a deletion still to come. *)
SuccessIsReal ==
  \A w \in Deployer : pc[w] = "done" /\ latest = w =>
    /\ up = Resource
    /\ \A i \in Resource :
         IF cluster[i] = None
         THEN \E v \in Deployer : pc[v] = "failed"
         ELSE /\ cluster[i].version.content = Wants[w][i].content
              /\ Wants[w][i].command \in {None, cluster[i].version.command}

(* The page of a successful deployment: its changes are active if no other  *)
(* has succeeded it.  Where nothing failed, the cluster is what it wants.   *)
ChangesAreActive ==
  \A w \in Deployer :
    pc[w] = "done" /\ latest = w /\ (\A v \in Deployer : pc[v] # "failed") =>
      \A i \in Resource : cluster[i] # None /\ cluster[i].version = Wants[w][i]

(* A deployer comes to an end, though the cluster may never make a resource *)
(* ready, and though others may put back what it waits to see deleted.      *)
Ends == \A w \in Deployer : pc[w] \in Active ~> pc[w] \in Ended
============================================================================
