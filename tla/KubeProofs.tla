----------------------------- MODULE KubeProofs -----------------------------
(***************************************************************************)
(* Theorems about Kube, for any number of deployers and resources.         *)
(***************************************************************************)
EXTENDS Kube, TLAPS

LEMMA InitTyped == Init => TypeOK
  <1> SUFFICES ASSUME Init PROVE TypeOK
    OBVIOUS
  <1>1. 1 \in Resource
    BY KubeAssumption DEF Resource
  <1>2. at \in [Deployer -> Resource]
    BY <1>1 DEF Init
  <1>3. pc \in [Deployer -> Control]
    BY DEF Init, Control
  <1>4. QED
    BY <1>2, <1>3 DEF Init, TypeOK

(* A resource on the cluster may be made ready, unready or terminating.     *)
LEMMA SetObject ==
  ASSUME TypeOK, NEW i \in Resource, cluster[i] # None, NEW b \in BOOLEAN,
         \/ cluster' = [cluster EXCEPT ![i].ready = b]
         \/ cluster' = [cluster EXCEPT ![i].terminating = b]
         \/ cluster' = [cluster EXCEPT ![i] = None]
  PROVE  cluster' \in [Resource -> Object \cup {None}]
  <1>1. cluster[i] \in Object /\ cluster \in [Resource -> Object \cup {None}]
    BY DEF TypeOK
  <1>2. /\ [cluster[i] EXCEPT !.ready = b] \in Object
        /\ [cluster[i] EXCEPT !.terminating = b] \in Object
    BY <1>1 DEF Object
  <1>3. \E o \in Object \cup {None} : cluster' = [cluster EXCEPT ![i] = o]
    BY <1>2
  <1>4. QED
    BY <1>1, <1>3

LEMMA GotoTyped ==
  ASSUME TypeOK, NEW w \in Deployer, NEW where \in Control, Goto(w, where)
  PROVE  pc' \in [Deployer -> Control] /\ at' \in [Deployer -> Resource]
  BY DEF Goto, TypeOK

LEMMA AdvanceTyped ==
  ASSUME TypeOK, NEW w \in Deployer, Advance(w)
  PROVE  pc' \in [Deployer -> Control] /\ at' \in [Deployer -> Resource]
  <1>1. at[w] \in Resource /\ Last \in Nat \ {0}
    BY KubeAssumption DEF TypeOK
  <1>2. CASE at[w] = Last
    BY <1>2, GotoTyped DEF Advance, Control, Ended
  <1>3. CASE at[w] # Last
    <2>1. at[w] + 1 \in Resource
      BY <1>1, <1>3 DEF Resource
    <2>2. QED
      BY <1>3, <2>1 DEF Advance, TypeOK, Control, Active, Placing
  <1>4. QED
    BY <1>2, <1>3

(* What Create puts on the cluster is an object.                            *)
LEMMA NewObject ==
  ASSUME TypeOK, NEW w \in Deployer, NEW ready \in BOOLEAN
  PROVE  [version |-> Wants[w][at[w]], ready |-> ready, terminating |-> FALSE] \in Object
  BY KubeAssumption DEF TypeOK, Object

LEMMA StepTyped == TypeOK /\ [Next]_vars => TypeOK'
  <1> SUFFICES ASSUME TypeOK, [Next]_vars PROVE TypeOK'
    OBVIOUS
  <1>1. ASSUME NEW w \in Deployer, Start(w) \/ Step(w) \/ TimeOut(w) \/ CallFails(w)
        PROVE  TypeOK'
    <2> USE DEF Control, Active, Placing, Ended
    <2>1. CASE Start(w)
      BY <2>1, GotoTyped DEF Start, TypeOK
    <2>2. CASE GetNamespace(w)
      BY <2>2, GotoTyped DEF GetNamespace, TypeOK
    <2>3. CASE CreateNamespace(w)
      BY <2>3, GotoTyped DEF CreateNamespace, TypeOK
    <2>4. CASE Get(w)
      BY <2>4, GotoTyped, AdvanceTyped DEF Get, TypeOK
    <2>5. CASE Delete(w)
      <3>1. pc' \in [Deployer -> Control] /\ at' \in [Deployer -> Resource]
        BY <2>5, GotoTyped DEF Delete
      <3>2. cluster' \in [Resource -> Object \cup {None}]
        <4>1. at[w] \in Resource
          BY DEF TypeOK
        <4>2. CASE UNCHANGED cluster
          BY <4>2 DEF TypeOK
        <4>3. CASE /\ cluster[at[w]] # None
                   /\ \/ cluster' = [cluster EXCEPT ![at[w]] = None]
                      \/ cluster' = [cluster EXCEPT ![at[w]].terminating = TRUE]
          BY <4>1, <4>3, SetObject
        <4>4. QED
          BY <2>5, <4>2, <4>3 DEF Delete
      <3>3. QED
        BY <2>5, <3>1, <3>2 DEF Delete, TypeOK
    <2>6. CASE AwaitDeletion(w)
      BY <2>6, GotoTyped DEF AwaitDeletion, TypeOK
    <2>7. CASE Create(w)
      <3>1. pc' \in [Deployer -> Control] /\ at' \in [Deployer -> Resource]
        BY <2>7, GotoTyped, AdvanceTyped DEF Create
      <3>2. cluster' \in [Resource -> Object \cup {None}] /\ up' \subseteq Resource
        <4>1. CASE UNCHANGED <<cluster, up>>
          BY <4>1 DEF TypeOK
        <4>2. CASE /\ cluster' = [cluster EXCEPT ![at[w]] =
                        [version |-> Wants[w][at[w]], ready |-> at[w] \in Instant,
                         terminating |-> FALSE]]
                   /\ up' = up \cup ({at[w]} \cap Instant)
          <5>1. (at[w] \in Instant) \in BOOLEAN /\ at[w] \in Resource
            BY DEF TypeOK
          <5>2. PICK o \in Object : cluster' = [cluster EXCEPT ![at[w]] = o]
            BY <4>2, <5>1, NewObject
          <5>3. cluster' \in [Resource -> Object \cup {None}]
            BY <5>1, <5>2 DEF TypeOK
          <5>4. up' \subseteq Resource
            BY <4>2, <5>1 DEF TypeOK
          <5>5. QED
            BY <5>3, <5>4
        <4>3. QED
          BY <2>7, <4>1, <4>2 DEF Create
      <3>3. QED
        BY <2>7, <3>1, <3>2 DEF Create, TypeOK
    <2>8. CASE PollReady(w)
      BY <2>8, GotoTyped, AdvanceTyped DEF PollReady, TypeOK
    <2>9. CASE TimeOut(w)
      BY <2>9, GotoTyped DEF TimeOut, TypeOK
    <2>10. CASE CallFails(w)
      BY <2>10, GotoTyped DEF CallFails, TypeOK
    <2>11. QED
      BY <1>1, <2>1, <2>2, <2>3, <2>4, <2>5, <2>6, <2>7, <2>8, <2>9, <2>10 DEF Step, Deploy
  <1>2. ASSUME NEW i \in Resource, BecomeReady(i) \/ Falter(i) \/ Vanish(i) PROVE TypeOK'
    <2>1. cluster' \in [Resource -> Object \cup {None}]
      BY <1>2, SetObject DEF BecomeReady, Falter, Vanish
    <2>2. QED
      BY <1>2, <2>1 DEF BecomeReady, Falter, Vanish, TypeOK
  <1>3. CASE UNCHANGED vars
    BY <1>3 DEF vars, TypeOK
  <1>4. QED
    BY <1>1, <1>2, <1>3 DEF Next, Quiet

(* Types are kept by every deployer, in any interleaving.                   *)
THEOREM KubeTypeCorrect == Spec => []TypeOK
  BY InitTyped, StepTyped, PTL DEF Spec

----------------------------------------------------------------------------
(***************************************************************************)
(* ReadyInOrder says nothing of the deployers, so it is not inductive: what*)
(* one of them is about to create depends on what it has seen before.      *)
(***************************************************************************)

(* A deployer has come past the namespace, and past what has been ready.    *)
PlacedInOrder ==
  \A w \in Deployer : pc[w] \in Placing =>
    namespace /\ \A j \in 1..(at[w] - 1) : j \in up

(* What is ready now has been ready.                                        *)
ReadyIsUp == \A i \in Resource : cluster[i] # None /\ cluster[i].ready => i \in up

(* A deployer begins with the first resource.                               *)
FirstIsFirst == \A w \in Deployer : pc[w] \in {"idle", "finding", "naming"} => at[w] = 1

OrderInv == TypeOK /\ ReadyInOrder /\ PlacedInOrder /\ ReadyIsUp /\ FirstIsFirst

LEMMA InitInOrder == Init => OrderInv
  BY InitTyped DEF Init, OrderInv, ReadyInOrder, PlacedInOrder, ReadyIsUp, FirstIsFirst, Placing

(* A deployer that stays at its resource keeps the order of what is placed. *)
LEMMA GotoInOrder ==
  ASSUME OrderInv, NEW w \in Deployer, NEW where, Goto(w, where),
         where \notin {"idle", "finding", "naming"} \/ at[w] = 1,
         where \in Placing => pc[w] \in Placing \/ (namespace' /\ at[w] = 1),
         up \subseteq up', namespace => namespace'
  PROVE  PlacedInOrder' /\ FirstIsFirst'
  <1>1. ASSUME NEW v \in Deployer, pc'[v] \in Placing
        PROVE  namespace' /\ \A j \in 1..(at'[v] - 1) : j \in up'
    <2>1. at'[v] = at[v] /\ (v # w => pc'[v] = pc[v]) /\ (v = w => pc'[v] = where)
      BY DEF Goto, OrderInv, TypeOK
    <2>2. CASE pc[v] \in Placing
      BY <2>1, <2>2 DEF OrderInv, PlacedInOrder
    <2>3. CASE pc[v] \notin Placing
      <3>1. namespace' /\ at[v] = 1
        BY <1>1, <2>1, <2>3
      <3>2. QED
        BY <2>1, <3>1
    <2>4. QED
      BY <2>2, <2>3
  <1>2. ASSUME NEW v \in Deployer, pc'[v] \in {"idle", "finding", "naming"}
        PROVE  at'[v] = 1
    BY <1>2 DEF Goto, OrderInv, TypeOK, FirstIsFirst
  <1>3. QED
    BY <1>1, <1>2 DEF PlacedInOrder, FirstIsFirst

(* So does one that goes on after a resource that has been ready.           *)
LEMMA AdvanceInOrder ==
  ASSUME OrderInv, NEW w \in Deployer, Advance(w), pc[w] \in Placing, at[w] \in up',
         up \subseteq up', namespace' = namespace
  PROVE  PlacedInOrder' /\ FirstIsFirst'
  <1>1. CASE at[w] = Last
    BY <1>1, GotoInOrder DEF Advance, Placing
  <1>2. CASE at[w] # Last
    <2>1. /\ at' = [at EXCEPT ![w] = @ + 1]
          /\ pc' = [pc EXCEPT ![w] = "getting"]
      BY <1>2 DEF Advance
    <2>2. ASSUME NEW v \in Deployer, pc'[v] \in Placing
          PROVE  namespace' /\ \A j \in 1..(at'[v] - 1) : j \in up'
      <3>1. CASE v = w
        <4>1. at'[w] = at[w] + 1 /\ at[w] \in Nat
          BY <2>1 DEF OrderInv, TypeOK, Resource
        <4>2. namespace /\ \A j \in 1..(at[w] - 1) : j \in up
          BY DEF OrderInv, PlacedInOrder
        <4>3. \A j \in 1..at[w] : j \in 1..(at[w] - 1) \/ j = at[w]
          BY <4>1
        <4>4. \A j \in 1..at[w] : j \in up'
          BY <4>2, <4>3
        <4>5. at'[v] - 1 = at[w]
          BY <3>1, <4>1
        <4>6. QED
          BY <4>2, <4>4, <4>5
      <3>2. CASE v # w
        BY <2>1, <2>2, <3>2 DEF OrderInv, TypeOK, PlacedInOrder
      <3>3. QED
        BY <3>1, <3>2
    <2>3. ASSUME NEW v \in Deployer, pc'[v] \in {"idle", "finding", "naming"}
          PROVE  at'[v] = 1
      BY <2>1, <2>3 DEF OrderInv, TypeOK, FirstIsFirst
    <2>4. QED
      BY <2>2, <2>3 DEF PlacedInOrder, FirstIsFirst
  <1>3. QED
    BY <1>1, <1>2

(* Only a deployer that has come past a resource creates the next.          *)
LEMMA CreateInOrder ==
  ASSUME OrderInv, NEW w \in Deployer, Create(w)
  PROVE  ReadyInOrder' /\ PlacedInOrder' /\ ReadyIsUp' /\ FirstIsFirst'
  <1> DEFINE i == at[w]
  <1>1. i \in Resource /\ cluster \in [Resource -> Object \cup {None}] /\ pc[w] \in Placing
    BY DEF OrderInv, TypeOK, Create, Placing
  <1>2. CASE Goto(w, "failed") /\ UNCHANGED <<cluster, up>>
    BY <1>2, GotoInOrder DEF Create, Placing, OrderInv, ReadyInOrder, ReadyIsUp
  <1>3. CASE /\ cluster[i] = None
             /\ cluster' = [cluster EXCEPT ![i] =
                  [version |-> Wants[w][i], ready |-> i \in Instant, terminating |-> FALSE]]
             /\ up' = up \cup ({i} \cap Instant)
             /\ IF i \in Instant THEN Advance(w) ELSE Goto(w, "polling")
    <2>1. namespace' = namespace /\ up \subseteq up'
      BY <1>3 DEF Create
    <2>2. PlacedInOrder' /\ FirstIsFirst'
      <3>1. CASE i \in Instant
        <4>1. i \in up'
          BY <1>3, <3>1
        <4>2. QED
          BY <1>1, <1>3, <2>1, <3>1, <4>1, AdvanceInOrder
      <3>2. CASE i \notin Instant
        BY <1>1, <1>3, <2>1, <3>2, GotoInOrder
      <3>3. QED
        BY <3>1, <3>2
    <2>3. ReadyInOrder'
      <3>1. namespace /\ \A j \in 1..(i - 1) : j \in up
        BY <1>1 DEF OrderInv, PlacedInOrder
      <3>2. ASSUME NEW k \in Resource, cluster'[k] # None
            PROVE  namespace' /\ \A j \in 1..(k - 1) : j \in up'
        <4>1. CASE k = i
          BY <2>1, <3>1, <4>1
        <4>2. CASE k # i
          <5>1. cluster[k] # None
            BY <1>1, <1>3, <3>2, <4>2
          <5>2. QED
            BY <2>1, <5>1 DEF OrderInv, ReadyInOrder
        <4>3. QED
          BY <4>1, <4>2
      <3>3. QED
        BY <3>2 DEF ReadyInOrder
    <2>4. ReadyIsUp'
      <3>1. ASSUME NEW k \in Resource, cluster'[k] # None, cluster'[k].ready PROVE k \in up'
        <4>1. CASE k = i
          <5>1. cluster'[k].ready = (i \in Instant)
            BY <1>1, <1>3, <4>1
          <5>2. QED
            BY <1>3, <3>1, <4>1, <5>1
        <4>2. CASE k # i
          <5>1. cluster'[k] = cluster[k]
            BY <1>1, <1>3, <4>2
          <5>2. QED
            BY <2>1, <3>1, <5>1 DEF OrderInv, ReadyIsUp
        <4>3. QED
          BY <4>1, <4>2
      <3>2. QED
        BY <3>1 DEF ReadyIsUp
    <2>5. QED
      BY <2>2, <2>3, <2>4
  <1>4. QED
    BY <1>2, <1>3 DEF Create

LEMMA StepInOrder == OrderInv /\ [Next]_vars => OrderInv'
  <1> SUFFICES ASSUME OrderInv, [Next]_vars PROVE OrderInv'
    OBVIOUS
  <1>t. TypeOK /\ TypeOK'
    BY StepTyped DEF OrderInv
  <1>s. ASSUME UNCHANGED <<cluster, up>>, namespace => namespace',
               PlacedInOrder' /\ FirstIsFirst'
        PROVE  OrderInv'
    BY <1>t, <1>s DEF OrderInv, ReadyInOrder, ReadyIsUp
  <1>1. ASSUME NEW w \in Deployer, Start(w) \/ Step(w) \/ TimeOut(w) \/ CallFails(w)
        PROVE  OrderInv'
    <2>1. CASE Start(w)
      <3>1. at[w] = 1
        BY <2>1 DEF Start, OrderInv, FirstIsFirst
      <3>2. QED
        BY <1>s, <2>1, <3>1, GotoInOrder DEF Start, Placing
    <2>2. CASE GetNamespace(w)
      <3>1. at[w] = 1
        BY <2>2 DEF GetNamespace, OrderInv, FirstIsFirst
      <3>2. QED
        BY <1>s, <2>2, <3>1, GotoInOrder DEF GetNamespace, Placing
    <2>3. CASE CreateNamespace(w)
      <3>1. at[w] = 1
        BY <2>3 DEF CreateNamespace, OrderInv, FirstIsFirst
      <3>2. QED
        BY <1>s, <2>3, <3>1, GotoInOrder DEF CreateNamespace, Placing
    <2>4. CASE Get(w)
      <3>1. pc[w] \in Placing /\ at[w] \in Resource
        BY <2>4, <1>t DEF Get, Placing, TypeOK
      <3>2. CASE Advance(w)
        <4>1. Goto(w, "creating") \/ Goto(w, "deleting") \/ Goto(w, "polling")
              \/ (cluster[at[w]] # None /\ cluster[at[w]].ready)
          BY <2>4 DEF Get
        <4>2. CASE cluster[at[w]] # None /\ cluster[at[w]].ready
          <5>1. at[w] \in up
            BY <3>1, <4>2 DEF OrderInv, ReadyIsUp
          <5>2. QED
            BY <1>s, <2>4, <3>1, <3>2, <5>1, AdvanceInOrder DEF Get
        <4>3. CASE Goto(w, "creating") \/ Goto(w, "deleting") \/ Goto(w, "polling")
          BY <1>s, <2>4, <3>1, <4>3, GotoInOrder DEF Get
        <4>4. QED
          BY <4>1, <4>2, <4>3
      <3>3. CASE Goto(w, "creating") \/ Goto(w, "deleting") \/ Goto(w, "polling")
        BY <1>s, <2>4, <3>1, <3>3, GotoInOrder DEF Get
      <3>4. QED
        BY <2>4, <3>2, <3>3 DEF Get
    <2>5. CASE Delete(w)
      <3>1. PlacedInOrder' /\ FirstIsFirst'
        BY <2>5, GotoInOrder DEF Delete, Placing
      <3>2. ASSUME NEW k \in Resource, cluster'[k] # None
            PROVE  cluster[k] # None /\ cluster'[k].ready = cluster[k].ready
        BY <1>t, <2>5, <3>2 DEF Delete, TypeOK, Object
      <3>3. ReadyInOrder' /\ ReadyIsUp'
        BY <2>5, <3>2 DEF Delete, OrderInv, ReadyInOrder, ReadyIsUp
      <3>4. QED
        BY <1>t, <3>1, <3>3 DEF OrderInv
    <2>6. CASE AwaitDeletion(w)
      BY <1>s, <2>6, GotoInOrder DEF AwaitDeletion, Placing
    <2>7. CASE Create(w)
      BY <1>t, <2>7, CreateInOrder DEF OrderInv
    <2>8. CASE PollReady(w)
      <3>1. pc[w] \in Placing /\ at[w] \in Resource
        BY <2>8, <1>t DEF PollReady, Placing, TypeOK
      <3>2. CASE Goto(w, "failed")
        BY <1>s, <2>8, <3>2, GotoInOrder DEF PollReady, Placing
      <3>3. CASE cluster[at[w]] # None /\ cluster[at[w]].ready /\ Advance(w)
        <4>1. at[w] \in up
          BY <3>1, <3>3 DEF OrderInv, ReadyIsUp
        <4>2. QED
          BY <1>s, <2>8, <3>1, <3>3, <4>1, AdvanceInOrder DEF PollReady
      <3>4. QED
        BY <2>8, <3>2, <3>3 DEF PollReady
    <2>9. CASE TimeOut(w)
      BY <1>s, <2>9, GotoInOrder DEF TimeOut, Placing
    <2>10. CASE CallFails(w)
      BY <1>s, <2>10, GotoInOrder DEF CallFails, Placing
    <2>11. QED
      BY <1>1, <2>1, <2>2, <2>3, <2>4, <2>5, <2>6, <2>7, <2>8, <2>9, <2>10 DEF Step, Deploy
  <1>2. ASSUME NEW i \in Resource, BecomeReady(i) \/ Falter(i) \/ Vanish(i) PROVE OrderInv'
    <2>1. /\ up \subseteq up' /\ namespace' = namespace /\ pc' = pc /\ at' = at
      BY <1>2 DEF BecomeReady, Falter, Vanish
    <2>2. PlacedInOrder' /\ FirstIsFirst'
      BY <2>1 DEF OrderInv, PlacedInOrder, FirstIsFirst
    <2>3. ASSUME NEW k \in Resource, cluster'[k] # None
          PROVE  cluster[k] # None /\ (cluster'[k].ready => cluster[k].ready \/ k \in up')
      BY <1>t, <1>2, <2>3 DEF BecomeReady, Falter, Vanish, TypeOK, Object
    <2>4. ReadyInOrder' /\ ReadyIsUp'
      BY <2>1, <2>3 DEF OrderInv, ReadyInOrder, ReadyIsUp
    <2>5. QED
      BY <1>t, <2>2, <2>4 DEF OrderInv
  <1>3. CASE UNCHANGED vars
    BY <1>3 DEF vars, OrderInv, TypeOK, ReadyInOrder, PlacedInOrder, ReadyIsUp, FirstIsFirst
  <1>4. QED
    BY <1>1, <1>2, <1>3 DEF Next, Quiet

(* Whoever deploys a service and however they overlap, a resource only      *)
(* exists after all that is deployed before it has been ready.              *)
THEOREM KubeOrdered == Spec => []ReadyInOrder
  <1>1. OrderInv => ReadyInOrder
    BY DEF OrderInv
  <1>2. QED
    BY <1>1, InitInOrder, StepInOrder, PTL DEF Spec

----------------------------------------------------------------------------
(***************************************************************************)
(* SuccessIsReal: what the last deployer has passed stays as it left it.   *)
(***************************************************************************)

(* While latest is a deployer, nobody else is busy.                         *)
Alone == \A w \in Deployer : latest = w => \A v \in Deployer \ {w} : pc[v] \notin Active

SomeFailed == \E v \in Deployer : pc[v] = "failed"

(* Who has deleted a resource that is still there waits for it or has given *)
(* up.                                                                      *)
DeletedBySomeone ==
  \A i \in Resource : cluster[i] # None /\ cluster[i].terminating =>
    SomeFailed \/ \E v \in Deployer : pc[v] = "waiting" /\ at[v] = i

Kept(w, i) == IF cluster[i] = None THEN SomeFailed ELSE IsValid(i, w)

(* The resources that a deployer will not look at again, or only polls.     *)
Past(w) ==
  {i \in Resource :
     \/ pc[w] = "done"
     \/ pc[w] \in Placing /\ i < at[w]
     \/ pc[w] = "polling" /\ i = at[w]}

PastIsKept == \A w \in Deployer : latest = w => \A i \in Past(w) : Kept(w, i)

DoneIsUp == \A w \in Deployer : pc[w] = "done" => up = Resource

SuccessInv == OrderInv /\ Alone /\ DeletedBySomeone /\ PastIsKept /\ DoneIsUp

LEMMA InitSuccess == Init => SuccessInv
  <1> SUFFICES ASSUME Init PROVE SuccessInv
    OBVIOUS
  <1>1. /\ \A w \in Deployer : pc[w] = "idle" /\ latest # w
        /\ \A i \in Resource : cluster[i] = None
    BY KubeAssumption DEF Init
  <1>2. QED
    BY <1>1, InitInOrder DEF SuccessInv, Alone, DeletedBySomeone, PastIsKept, DoneIsUp

(* What a busy deployer does to its own state.                              *)
Busy(u) == Step(u) \/ TimeOut(u) \/ CallFails(u)

LEMMA BusyIsActive ==
  ASSUME TypeOK, NEW u \in Deployer, Busy(u)
  PROVE  /\ pc[u] \in Active /\ latest' = latest /\ up \subseteq up'
         /\ \A v \in Deployer \ {u} : pc'[v] = pc[v] /\ at'[v] = at[v]
         /\ SomeFailed => SomeFailed'
  <1>1. pc[u] \in Active /\ latest' = latest /\ up \subseteq up'
    BY DEF Busy, Step, Deploy, TimeOut, CallFails, GetNamespace, CreateNamespace, Get, Delete,
       AwaitDeletion, Create, PollReady, Active, Placing
  <1>2. \A v \in Deployer \ {u} : pc'[v] = pc[v] /\ at'[v] = at[v]
    <2>1. (\E where : Goto(u, where)) \/ Advance(u)
      BY DEF Busy, Step, Deploy, TimeOut, CallFails, GetNamespace, CreateNamespace, Get, Delete,
         AwaitDeletion, Create, PollReady
    <2>2. QED
      BY <2>1 DEF Goto, Advance, TypeOK
  <1>3. SomeFailed => SomeFailed'
    BY <1>1, <1>2 DEF SomeFailed, Active, Placing
  <1>4. QED
    BY <1>1, <1>2, <1>3

(* Advance goes past the resource the deployer is at, and no further.       *)
LEMMA AdvancePast ==
  ASSUME TypeOK, NEW u \in Deployer, pc[u] \in Placing, Advance(u)
  PROVE  /\ \A i \in Past(u)' : i \in Past(u) \/ i = at[u]
         /\ pc'[u] = "done" => at[u] = Last
         /\ pc'[u] \in {"done", "getting"}
  <1>1. at[u] \in Resource /\ Last \in Nat \ {0}
    BY KubeAssumption DEF TypeOK
  <1>2. CASE at[u] = Last
    <2>1. pc'[u] = "done"
      BY <1>2 DEF Advance, Goto, TypeOK
    <2>2. \A i \in Resource : i < at[u] \/ i = at[u]
      BY <1>1, <1>2 DEF Resource
    <2>3. QED
      BY <1>2, <2>1, <2>2 DEF Past
  <1>3. CASE at[u] # Last
    <2>1. pc'[u] = "getting" /\ at'[u] = at[u] + 1
      BY <1>3 DEF Advance, TypeOK
    <2>2. \A i \in Resource : i < at[u] + 1 => i < at[u] \/ i = at[u]
      BY <1>1 DEF Resource
    <2>3. QED
      BY <2>1, <2>2 DEF Past
  <1>4. QED
    BY <1>2, <1>3

(* Goto passes nothing, but for what it begins to poll.                     *)
LEMMA GotoPast ==
  ASSUME TypeOK, NEW u \in Deployer, NEW where, Goto(u, where), where # "done",
         pc[u] \in Placing \/ where \notin Placing \/ at[u] = 1
  PROVE  /\ \A i \in Past(u)' : i \in Past(u) \/ (where = "polling" /\ i = at[u])
         /\ pc'[u] = where
  <1>1. pc'[u] = where /\ at'[u] = at[u]
    BY DEF Goto, TypeOK
  <1>2. \A i \in Resource : ~(i < 1)
    BY DEF Resource
  <1>3. QED
    BY <1>1, <1>2 DEF Past, Placing

(* Everything the deployer has passed after its step it had passed before,  *)
(* or it has just seen or made it as it wants it.                           *)
LEMMA BusyPast ==
  ASSUME OrderInv, NEW u \in Deployer, Busy(u)
  PROVE  \A i \in Past(u)' :
           \/ i \in Past(u) /\ cluster'[i] = cluster[i]
           \/ cluster'[i] # None /\ IsValid(i, u)'
  <1> USE DEF Placing
  <1>1. TypeOK /\ at[u] \in Resource /\ cluster \in [Resource -> Object \cup {None}]
    BY DEF OrderInv, TypeOK
  <1>2. ASSUME NEW where, Goto(u, where), where \notin {"done", "polling"},
               pc[u] \in Placing \/ where \notin Placing \/ at[u] = 1
        PROVE  Past(u)' \subseteq Past(u)
    BY <1>1, <1>2, GotoPast
  <1>3. CASE GetNamespace(u) \/ CreateNamespace(u)
    <2>1. at[u] = 1
      BY <1>3 DEF GetNamespace, CreateNamespace, OrderInv, FirstIsFirst
    <2>2. Past(u)' \subseteq Past(u)
      BY <1>2, <1>3, <2>1 DEF GetNamespace, CreateNamespace
    <2>3. QED
      BY <1>3, <2>2 DEF GetNamespace, CreateNamespace
  <1>4. CASE Get(u)
    <2>1. pc[u] = "getting" /\ UNCHANGED cluster
      BY <1>4 DEF Get
    <2>2. CASE Goto(u, "creating") \/ Goto(u, "deleting")
      BY <1>2, <2>1, <2>2
    <2>3. CASE cluster[at[u]] # None /\ IsValid(at[u], u) /\ (Advance(u) \/ Goto(u, "polling"))
      <3>1. \A i \in Past(u)' : i \in Past(u) \/ i = at[u]
        BY <1>1, <2>1, <2>3, AdvancePast, GotoPast
      <3>2. cluster'[at[u]] # None
        BY <2>1, <2>3
      <3>3. \A i \in Resource : IsValid(i, u) => IsValid(i, u)'
        BY <2>1 DEF IsValid
      <3>4. QED
        BY <1>1, <2>1, <2>3, <3>1, <3>2, <3>3
    <2>4. QED
      BY <1>4, <2>2, <2>3 DEF Get
  <1>5. CASE Delete(u)
    <2>1. Past(u)' \subseteq Past(u) /\ pc[u] = "deleting" /\ pc'[u] \in {"waiting", "failed"}
      BY <1>1, <1>2, <1>5, GotoPast DEF Delete
    <2>2. \A i \in Resource \ {at[u]} : cluster'[i] = cluster[i]
      BY <1>1, <1>5 DEF Delete
    <2>3. at[u] \notin Past(u)
      BY <1>1, <2>1 DEF Past, Resource
    <2>4. QED
      BY <2>1, <2>2, <2>3 DEF Past
  <1>6. CASE AwaitDeletion(u) \/ TimeOut(u) \/ CallFails(u)
    <2>1. Past(u)' \subseteq Past(u)
      BY <1>2, <1>6 DEF AwaitDeletion, TimeOut, CallFails
    <2>2. QED
      BY <1>6, <2>1 DEF AwaitDeletion, TimeOut, CallFails
  <1>7. CASE Create(u)
    <2>1. CASE Goto(u, "failed") /\ UNCHANGED cluster
      BY <1>2, <2>1
    <2>2. CASE /\ cluster' = [cluster EXCEPT ![at[u]] =
                    [version |-> Wants[u][at[u]], ready |-> at[u] \in Instant,
                     terminating |-> FALSE]]
               /\ Advance(u) \/ Goto(u, "polling")
      <3>1. \A i \in Past(u)' : i \in Past(u) \/ i = at[u]
        BY <1>1, <1>7, <2>2, AdvancePast, GotoPast DEF Create
      <3>2. \A i \in Resource \ {at[u]} : cluster'[i] = cluster[i]
        BY <1>1, <2>2
      <3>3. cluster'[at[u]].version = Wants[u][at[u]]
        BY <1>1, <2>2
      <3>4. (at[u] \in Instant) \in BOOLEAN
        OBVIOUS
      <3>5. cluster'[at[u]] \in Object
        BY <1>1, <2>2, <3>4, NewObject
      <3>6. cluster'[at[u]] # None
        BY <3>5, KubeAssumption
      <3>7. ASSUME NEW i \in Resource, i = at[u] PROVE IsValid(i, u)'
        BY <3>3, <3>7 DEF IsValid
      <3>8. QED
        BY <3>1, <3>2, <3>6, <3>7 DEF Past
    <2>3. QED
      BY <1>7, <2>1, <2>2 DEF Create
  <1>8. CASE PollReady(u)
    <2>1. pc[u] = "polling" /\ UNCHANGED cluster
      BY <1>8 DEF PollReady
    <2>2. \A i \in Past(u)' : i \in Past(u)
      <3>1. CASE Goto(u, "failed")
        BY <1>2, <2>1, <3>1
      <3>2. CASE Advance(u)
        <4>1. at[u] \in Past(u)
          BY <1>1, <2>1 DEF Past
        <4>2. QED
          BY <1>1, <2>1, <3>2, <4>1, AdvancePast
      <3>3. QED
        BY <1>8, <3>1, <3>2 DEF PollReady
    <2>3. QED
      BY <2>1, <2>2
  <1>9. QED
    BY <1>3, <1>4, <1>5, <1>6, <1>7, <1>8 DEF Busy, Step, Deploy

(* A deployer that ends well has come past the last resource.               *)
LEMMA BusyDone ==
  ASSUME OrderInv, OrderInv', NEW u \in Deployer, Busy(u), pc'[u] = "done"
  PROVE  up' = Resource
  <1>1. /\ TypeOK /\ TypeOK' /\ at[u] \in Resource
        /\ cluster \in [Resource -> Object \cup {None}]
        /\ Last \in Nat \ {0}
    BY KubeAssumption DEF OrderInv, TypeOK
  <1>2. \A where : Goto(u, where) => pc'[u] = where
    BY <1>1 DEF Goto, TypeOK
  <1>3. /\ Get(u) \/ PollReady(u) \/ Create(u)
        /\ Advance(u)
    BY <1>2 DEF Busy, Step, Deploy, TimeOut, CallFails, GetNamespace, CreateNamespace, Get,
       Delete, AwaitDeletion, Create, PollReady
  <1>4. pc[u] \in Placing /\ up \subseteq up'
    BY <1>3 DEF Get, PollReady, Create, Placing
  <1>5. at[u] = Last
    BY <1>1, <1>3, <1>4, AdvancePast
  <1>6. at[u] \in up'
    <2>1. CASE Get(u) \/ PollReady(u)
      <3>1. cluster[at[u]] # None /\ cluster[at[u]].ready
        BY <1>2, <2>1 DEF Get, PollReady
      <3>2. QED
        BY <1>1, <1>4, <3>1 DEF OrderInv, ReadyIsUp
    <2>2. CASE Create(u)
      BY <1>2, <2>2 DEF Create
    <2>3. QED
      BY <1>3, <2>1, <2>2
  <1>7. \A j \in 1..(at[u] - 1) : j \in up
    BY <1>4 DEF OrderInv, PlacedInOrder
  <1>8. \A j \in Resource : j \in 1..(at[u] - 1) \/ j = at[u]
    BY <1>1, <1>5 DEF Resource
  <1>9. Resource \subseteq up'
    BY <1>4, <1>6, <1>7, <1>8
  <1>10. QED
    BY <1>1, <1>9 DEF TypeOK

(* What a deployer leaves terminating it waits for, and it stops waiting    *)
(* when the resource is gone or when it gives up.                           *)
LEMMA BusyDeletes ==
  ASSUME OrderInv, OrderInv', DeletedBySomeone, NEW u \in Deployer, Busy(u)
  PROVE  DeletedBySomeone'
  <1>1. TypeOK /\ at[u] \in Resource /\ cluster \in [Resource -> Object \cup {None}]
    BY DEF OrderInv, TypeOK
  <1>2. /\ \A v \in Deployer \ {u} : pc'[v] = pc[v] /\ at'[v] = at[v]
        /\ SomeFailed => SomeFailed'
    BY <1>1, BusyIsActive
  <1>3. \A where : Goto(u, where) => pc'[u] = where /\ at'[u] = at[u]
    BY <1>1 DEF Goto, TypeOK
  <1>4. SUFFICES ASSUME NEW i \in Resource, cluster'[i] # None, cluster'[i].terminating,
                        ~SomeFailed'
                 PROVE  \E v \in Deployer : pc'[v] = "waiting" /\ at'[v] = i
    BY DEF DeletedBySomeone
  <1>5. pc'[u] # "failed"
    BY <1>4 DEF SomeFailed
  <1>6. CASE Delete(u) /\ i = at[u]
    BY <1>3, <1>5, <1>6 DEF Delete
  <1>7. CASE ~(Delete(u) /\ i = at[u])
    <2>1. cluster[i] # None /\ cluster[i].terminating /\ cluster'[i] = cluster[i]
      <3>1. CASE Delete(u)
        BY <1>1, <1>4, <1>7, <3>1 DEF Delete
      <3>2. CASE Create(u)
        <4>1. CASE UNCHANGED cluster
          BY <1>4, <4>1
        <4>2. CASE cluster' = [cluster EXCEPT ![at[u]] =
                     [version |-> Wants[u][at[u]], ready |-> at[u] \in Instant,
                      terminating |-> FALSE]]
          <5>1. i # at[u]
            BY <1>1, <1>4, <4>2
          <5>2. QED
            BY <1>1, <1>4, <4>2, <5>1
        <4>3. QED
          BY <3>2, <4>1, <4>2 DEF Create
      <3>3. CASE ~Delete(u) /\ ~Create(u)
        <4>1. UNCHANGED cluster
          BY <3>3 DEF Busy, Step, Deploy, TimeOut, CallFails, GetNamespace, CreateNamespace,
             Get, AwaitDeletion, PollReady
        <4>2. QED
          BY <1>4, <4>1
      <3>4. QED
        BY <3>1, <3>2, <3>3
    <2>2. PICK v \in Deployer : pc[v] = "waiting" /\ at[v] = i
      BY <1>2, <1>4, <2>1 DEF DeletedBySomeone
    <2>3. v # u
      <3>1. SUFFICES ASSUME v = u PROVE FALSE
        OBVIOUS
      <3>2. AwaitDeletion(u) \/ Goto(u, "failed")
        BY <2>2, <3>1 DEF Busy, Step, Deploy, TimeOut, CallFails, GetNamespace,
           CreateNamespace, Get, Delete, Create, PollReady
      <3>3. QED
        BY <1>3, <1>5, <2>1, <2>2, <3>1, <3>2 DEF AwaitDeletion
    <2>4. QED
      BY <1>2, <2>2, <2>3
  <1>8. QED
    BY <1>6, <1>7

LEMMA BusySuccess ==
  ASSUME SuccessInv, OrderInv', NEW u \in Deployer, Busy(u)
  PROVE  SuccessInv'
  <1>1. OrderInv /\ TypeOK /\ TypeOK'
    BY DEF SuccessInv, OrderInv
  <1>2. /\ pc[u] \in Active /\ latest' = latest /\ up \subseteq up'
        /\ \A v \in Deployer \ {u} : pc'[v] = pc[v] /\ at'[v] = at[v]
        /\ SomeFailed => SomeFailed'
    BY <1>1, BusyIsActive
  <1>3. \A w \in Deployer : latest = w => w = u
    BY <1>2 DEF SuccessInv, Alone
  <1>4. Alone'
    BY <1>2, <1>3 DEF SuccessInv, Alone
  <1>5. DeletedBySomeone'
    BY <1>1, BusyDeletes DEF SuccessInv
  <1>6. PastIsKept'
    <2>1. SUFFICES ASSUME latest = u, NEW i \in Past(u)' PROVE Kept(u, i)'
      BY <1>2, <1>3 DEF PastIsKept
    <2>2. CASE i \in Past(u) /\ cluster'[i] = cluster[i]
      <3>1. Kept(u, i)
        BY <2>1, <2>2 DEF SuccessInv, PastIsKept
      <3>2. QED
        BY <1>2, <2>2, <3>1 DEF Kept, IsValid
    <2>3. CASE cluster'[i] # None /\ IsValid(i, u)'
      BY <2>3 DEF Kept
    <2>4. QED
      BY <1>1, <2>1, <2>2, <2>3, BusyPast
  <1>7. DoneIsUp'
    <2>1. SUFFICES ASSUME NEW w \in Deployer, pc'[w] = "done" PROVE up' = Resource
      BY DEF DoneIsUp
    <2>2. CASE w = u
      BY <1>1, <2>1, <2>2, BusyDone
    <2>3. CASE w # u
      <3>1. up = Resource
        BY <1>2, <2>1, <2>3 DEF SuccessInv, DoneIsUp
      <3>2. QED
        BY <1>1, <1>2, <3>1 DEF TypeOK
    <2>4. QED
      BY <2>2, <2>3
  <1>8. QED
    BY <1>4, <1>5, <1>6, <1>7 DEF SuccessInv

(* A deployer that starts has passed nothing; if others are busy, the last  *)
(* one before it has no longer the cluster to itself.                       *)
LEMMA StartSuccess ==
  ASSUME SuccessInv, OrderInv', NEW u \in Deployer, Start(u)
  PROVE  SuccessInv'
  <1>1. /\ pc' = [pc EXCEPT ![u] = "finding"] /\ at' = at /\ cluster' = cluster /\ up' = up
        /\ pc[u] = "idle" /\ pc \in [Deployer -> Control]
        /\ latest' = IF \A v \in Deployer : pc[v] \notin Active THEN u ELSE None
    BY DEF Start, Goto, SuccessInv, OrderInv, TypeOK
  <1>2. \A w \in Deployer : latest' = w => w = u /\ \A v \in Deployer : pc[v] \notin Active
    BY <1>1, KubeAssumption
  <1>3. Alone'
    BY <1>1, <1>2 DEF Alone
  <1>4. DeletedBySomeone'
    <2>1. SomeFailed => SomeFailed'
      BY <1>1 DEF SomeFailed
    <2>2. ASSUME NEW i \in Resource, NEW v \in Deployer, pc[v] = "waiting" /\ at[v] = i
          PROVE  pc'[v] = "waiting" /\ at'[v] = i
      BY <1>1, <2>2
    <2>3. QED
      BY <1>1, <2>1, <2>2 DEF SuccessInv, DeletedBySomeone
  <1>5. PastIsKept'
    <2>1. pc'[u] = "finding"
      BY <1>1
    <2>2. Past(u)' = {}
      BY <2>1 DEF Past, Placing
    <2>3. QED
      BY <1>2, <2>2 DEF PastIsKept
  <1>6. DoneIsUp'
    BY <1>1 DEF SuccessInv, DoneIsUp
  <1>7. QED
    BY <1>3, <1>4, <1>5, <1>6 DEF SuccessInv

(* The cluster changes no version, and it only removes what was deleted:    *)
(* by the last deployer, which has not passed it, or by one that gave up.   *)
LEMMA ClusterSuccess ==
  ASSUME SuccessInv, OrderInv', NEW k \in Resource, BecomeReady(k) \/ Falter(k) \/ Vanish(k)
  PROVE  SuccessInv'
  <1>1. /\ pc' = pc /\ at' = at /\ latest' = latest /\ up \subseteq up'
        /\ TypeOK /\ TypeOK' /\ cluster \in [Resource -> Object \cup {None}]
    BY DEF BecomeReady, Falter, Vanish, SuccessInv, OrderInv, TypeOK
  <1>2. Alone'
    BY <1>1 DEF SuccessInv, Alone
  <1>3. SomeFailed' = SomeFailed
    BY <1>1 DEF SomeFailed
  <1>4. DoneIsUp'
    BY <1>1 DEF SuccessInv, DoneIsUp, TypeOK
  <1>5. ASSUME NEW i \in Resource
        PROVE  \/ cluster'[i] = None /\ (cluster[i] = None \/ cluster[i].terminating)
               \/ /\ cluster[i] # None /\ cluster'[i] # None
                  /\ cluster'[i].version = cluster[i].version
                  /\ cluster'[i].terminating = cluster[i].terminating
    <2>1. CASE i # k
      <3>1. cluster'[i] = cluster[i]
        BY <1>1, <2>1 DEF BecomeReady, Falter, Vanish
      <3>2. QED
        BY <3>1
    <2>2. CASE i = k /\ Vanish(k)
      BY <1>1, <2>2 DEF Vanish
    <2>3. CASE i = k /\ (BecomeReady(k) \/ Falter(k))
      <3>1. PICK b \in BOOLEAN : cluster' = [cluster EXCEPT ![k].ready = b]
        BY <2>3 DEF BecomeReady, Falter
      <3>2. cluster[k] \in Object
        BY <1>1, <2>3 DEF BecomeReady, Falter
      <3>3. cluster'[k] = [cluster[k] EXCEPT !.ready = b]
        BY <1>1, <3>1
      <3>4. /\ [cluster[k] EXCEPT !.ready = b] \in Object
            /\ [cluster[k] EXCEPT !.ready = b].version = cluster[k].version
            /\ [cluster[k] EXCEPT !.ready = b].terminating = cluster[k].terminating
        BY <3>2 DEF Object
      <3>5. None \notin Object
        BY KubeAssumption
      <3>6. QED
        BY <2>3, <3>2, <3>3, <3>4, <3>5
    <2>4. QED
      BY <2>1, <2>2, <2>3
  <1>6. DeletedBySomeone'
    BY <1>1, <1>3, <1>5 DEF SuccessInv, DeletedBySomeone
  <1>7. PastIsKept'
    <2>1. SUFFICES ASSUME NEW w \in Deployer, latest = w, NEW i \in Past(w)
                   PROVE  Kept(w, i)'
      BY <1>1 DEF PastIsKept, Past
    <2>2. Kept(w, i) /\ i \in Resource
      BY <2>1 DEF SuccessInv, PastIsKept, Past
    <2>3. CASE cluster[i] = None
      BY <1>3, <1>5, <2>2, <2>3 DEF Kept
    <2>4. CASE cluster[i] # None /\ cluster'[i] = None
      <3>1. cluster[i].terminating
        BY <1>5, <2>2, <2>4
      <3>2. ASSUME NEW v \in Deployer, pc[v] = "waiting", at[v] = i PROVE FALSE
        <4>1. CASE v = w
          BY <2>1, <3>2, <4>1 DEF Past, Placing, SuccessInv, OrderInv, TypeOK, Resource
        <4>2. CASE v # w
          BY <2>1, <3>2, <4>2 DEF SuccessInv, Alone, Active, Placing
        <4>3. QED
          BY <4>1, <4>2
      <3>3. SomeFailed
        BY <2>2, <2>4, <3>1, <3>2 DEF SuccessInv, DeletedBySomeone
      <3>4. QED
        BY <1>3, <2>4, <3>3 DEF Kept
    <2>5. CASE cluster[i] # None /\ cluster'[i] # None
      <3>1. cluster'[i].version = cluster[i].version
        BY <1>5, <2>2, <2>5
      <3>2. QED
        BY <2>2, <2>5, <3>1 DEF Kept, IsValid
    <2>6. QED
      BY <2>3, <2>4, <2>5
  <1>8. QED
    BY <1>2, <1>4, <1>6, <1>7 DEF SuccessInv

LEMMA StepSuccess == SuccessInv /\ [Next]_vars => SuccessInv'
  <1> SUFFICES ASSUME SuccessInv, [Next]_vars PROVE SuccessInv'
    OBVIOUS
  <1>1. OrderInv'
    BY StepInOrder DEF SuccessInv
  <1>2. CASE UNCHANGED vars
    BY <1>1, <1>2 DEF vars, SuccessInv, Alone, DeletedBySomeone, SomeFailed, PastIsKept, Past,
       Kept, IsValid, DoneIsUp
  <1>3. CASE \E w \in Deployer : Start(w) \/ Busy(w)
    BY <1>1, <1>3, StartSuccess, BusySuccess
  <1>4. CASE \E i \in Resource : BecomeReady(i) \/ Falter(i) \/ Vanish(i)
    BY <1>1, <1>4, ClusterSuccess
  <1>5. QED
    BY <1>2, <1>3, <1>4 DEF Next, Quiet, Busy

(* A deployer that had the cluster to itself and says it is done leaves     *)
(* every resource as it wants it, all of them having been ready; what is    *)
(* gone again was deleted by a deployer that gave up.                       *)
THEOREM KubeSuccessIsReal == Spec => []SuccessIsReal
  <1>1. SuccessInv => SuccessIsReal
    <2> SUFFICES ASSUME SuccessInv, NEW w \in Deployer, pc[w] = "done", latest = w
                 PROVE  /\ up = Resource
                        /\ \A i \in Resource :
                             IF cluster[i] = None
                             THEN \E v \in Deployer : pc[v] = "failed"
                             ELSE /\ cluster[i].version.content = Wants[w][i].content
                                  /\ Wants[w][i].command \in {None, cluster[i].version.command}
      BY DEF SuccessIsReal
    <2>1. up = Resource
      BY DEF SuccessInv, DoneIsUp
    <2>2. \A i \in Resource : Kept(w, i)
      BY DEF SuccessInv, PastIsKept, Past
    <2>3. QED
      BY <2>1, <2>2 DEF Kept, IsValid, SomeFailed
  <1>2. QED
    BY <1>1, InitSuccess, StepSuccess, PTL DEF Spec
============================================================================
