------------------------- MODULE ServiceOrderProofs -------------------------
(***************************************************************************)
(* Theorems about ServiceOrder, for any list of declarations.              *)
(***************************************************************************)
EXTENDS ServiceOrder, FiniteSetTheorems, SequenceTheorems, TLAPS

Taken  == {result[i] : i \in DOMAIN result}
Queued == {queue[i] : i \in DOMAIN queue}

(* The requirements of p that inDegree[p] still counts.                     *)
Open(p) == {e \in Into(p) : e \in rest \/ From(e) \notin Taken}

(* The count is right, and only what was taken is being followed.           *)
Counted ==
  /\ \A p \in Declared : inDegree[p] = Cardinality(Open(p))
  /\ \A e \in rest : From(e) \in Taken

(* Who has no open requirement has been queued, once, and nobody else has.  *)
QueuedOnce ==
  /\ \A p \in Declared : inDegree[p] = 0 <=> p \in Taken \cup Queued
  /\ \A i, j \in DOMAIN queue : queue[i] = queue[j] => i = j
  /\ Taken \cap Queued = {}

OrderInv == TypeOK /\ Counted /\ QueuedOnce /\ DeployedOnce /\ RequirementsFirst

(* A list of declarations has finitely many requirements.                   *)
LEMMA EdgesAreFinite ==
  ASSUME declarations \in Seq(Declaration)
  PROVE  /\ IsFiniteSet(Edge)
         /\ \A p : IsFiniteSet(Into(p)) /\ IsFiniteSet(Open(p))
         /\ IsFiniteSet(Declared)
  <1> DEFINE D == DOMAIN declarations
             f == [i \in D |-> {i} \X DOMAIN declarations[i].requires]
             S == {{i} \X DOMAIN declarations[i].requires : i \in D}
             g == [i \in D |-> declarations[i].path]
  <1>1. /\ Len(declarations) \in Nat
        /\ D = 1..Len(declarations)
        /\ \A i \in D : declarations[i] \in Declaration
    OBVIOUS
  <1>2. IsFiniteSet(D)
    BY <1>1, FS_Interval
  <1>3. IsFiniteSet(S)
    <2>1. f \in Surjection(D, S)
      BY DEF Surjection
    <2>2. QED
      BY ONLY <1>2, <2>1, FS_Surjection
  <1>4. ASSUME NEW T \in S PROVE IsFiniteSet(T)
    <2>1. PICK i \in D : T = {i} \X DOMAIN declarations[i].requires
      OBVIOUS
    <2>2. declarations[i].requires \in Seq(Path)
      BY <1>1 DEF Declaration
    <2>3. /\ Len(declarations[i].requires) \in Nat
          /\ DOMAIN declarations[i].requires = 1..Len(declarations[i].requires)
      BY <2>2
    <2>4. IsFiniteSet({i})
      BY FS_Singleton
    <2>5. IsFiniteSet(DOMAIN declarations[i].requires)
      BY <2>3, FS_Interval
    <2>6. QED
      BY <2>1, <2>4, <2>5, FS_Product
  <1>5. IsFiniteSet(Edge)
    BY <1>3, <1>4, FS_UNION DEF Edge
  <1>6. ASSUME NEW p PROVE IsFiniteSet(Into(p)) /\ IsFiniteSet(Open(p))
    BY <1>5, FS_Subset DEF Into, Open
  <1>7. IsFiniteSet(Declared)
    <2>1. g \in Surjection(D, Declared)
      BY DEF Surjection, Declared
    <2>2. QED
      BY ONLY <1>2, <2>1, FS_Surjection
  <1>8. QED
    BY <1>5, <1>6, <1>7

LEMMA InitOrdered == Init => OrderInv
  <1> SUFFICES ASSUME Init PROVE OrderInv
    OBVIOUS
  <1>1. declarations \in Seq(Declaration)
    BY InputAssumption DEF Init
  <1>2. ASSUME NEW p \in Declared PROVE inDegree[p] \in Nat /\ Open(p) = Into(p)
    <2>1. inDegree[p] = Cardinality(Into(p))
      BY DEF Init, Degree
    <2>2. Open(p) = Into(p)
      BY DEF Init, Open, Taken
    <2>3. QED
      BY <1>1, <2>1, <2>2, EdgesAreFinite, FS_CardinalityType
  <1> DEFINE Z == {p \in Declared : inDegree[p] = 0}
  <1>3. IsFiniteSet(Z)
    BY <1>1, EdgesAreFinite, FS_Subset
  <1>4. Cardinality(Z) \in Nat
    BY <1>3, FS_CardinalityType
  <1>5. /\ queue \in [1..Cardinality(Z) -> Z]
        /\ \A i, j \in DOMAIN queue : queue[i] = queue[j] => i = j
    BY DEF Init, Orders
  <1>6. Queued = Z
    <2>1. queue \in Injection(1..Cardinality(Z), Z)
      <3>1. DOMAIN queue = 1..Cardinality(Z)
        BY <1>5
      <3>2. QED
        BY <1>5, <3>1 DEF Injection, IsInjective
    <2>2. Cardinality(1..Cardinality(Z)) = Cardinality(Z)
      <3>1. 1 \in Int /\ Cardinality(Z) \in Int
        BY <1>4
      <3>2. Cardinality(1..Cardinality(Z))
              = IF 1 > Cardinality(Z) THEN 0 ELSE Cardinality(Z) - 1 + 1
        BY ONLY <3>1, FS_Interval
      <3>3. QED
        BY <1>4, <3>2
    <2>3. queue \in Surjection(1..Cardinality(Z), Z)
      BY ONLY <1>3, <2>1, <2>2, FS_Injection
    <2>4. QED
      BY <1>5, <2>3 DEF Surjection, Queued
  <1>7. TypeOK
    <2>1. queue \in Seq(Declared)
      BY <1>4, <1>5
    <2>2. inDegree \in [Declared -> Nat]
      BY <1>2 DEF Init
    <2>3. QED
      BY <1>1, <2>1, <2>2 DEF Init, TypeOK
  <1>8. Counted
    BY <1>2 DEF Init, Counted, Degree
  <1>9. QueuedOnce /\ DeployedOnce /\ RequirementsFirst
    BY <1>5, <1>6, SMTT(30) DEF Init, QueuedOnce, Taken, DeployedOnce, RequirementsFirst
  <1>10. QED
    BY <1>7, <1>8, <1>9 DEF OrderInv

(* Taking a service without open requirements changes no count: what it     *)
(* frees is counted by `rest` until it is followed.                         *)
LEMMA TakeOrdered ==
  ASSUME OrderInv, Take
  PROVE  OrderInv'
  <1> USE DEF Take
  <1> DEFINE p == Head(queue)
             n == Len(result)
  <1>0. /\ declarations' = declarations /\ Edge' = Edge /\ Declared' = Declared
        /\ \A q : Into(q)' = Into(q)
        /\ \A e : From(e)' = From(e) /\ To(e)' = To(e)
    BY DEF Edge, Declared, Into, From, To
  <1>1. /\ queue \in Seq(Declared) /\ queue # <<>> /\ result \in Seq(Declared)
        /\ n \in Nat /\ Len(queue) \in Nat \ {0}
        /\ DOMAIN result = 1..n /\ DOMAIN queue = 1..Len(queue)
    BY DEF OrderInv, TypeOK
  <1>2. p \in Declared /\ p = queue[1]
    BY <1>1
  <1>3. /\ result' \in Seq(Declared)
        /\ DOMAIN result' = 1..(n + 1)
        /\ result'[n + 1] = p
        /\ \A i \in 1..n : result'[i] = result[i]
    BY <1>1, <1>2
  <1>4. /\ queue' \in Seq(Declared)
        /\ DOMAIN queue' = 1..(Len(queue) - 1)
        /\ \A i \in 1..(Len(queue) - 1) : queue'[i] = queue[i + 1]
    BY <1>1
  <1>5. p \notin Taken /\ p \in Queued
    BY <1>1, <1>2 DEF OrderInv, QueuedOnce, Queued
  <1>6. Taken' = Taken \cup {p}
    <2>1. ASSUME NEW x \in Taken' PROVE x \in Taken \cup {p}
      BY <1>1, <1>3 DEF Taken
    <2>2. ASSUME NEW x \in Taken \cup {p} PROVE x \in Taken'
      BY <1>1, <1>3 DEF Taken
    <2>3. QED
      BY <2>1, <2>2
  <1>7. Queued' = Queued \ {p}
    <2>1. ASSUME NEW x \in Queued' PROVE x \in Queued \ {p}
      <3>1. PICK i \in 1..(Len(queue) - 1) : x = queue[i + 1]
        BY <1>4 DEF Queued
      <3>2. i + 1 \in DOMAIN queue /\ 1 \in DOMAIN queue /\ i + 1 # 1
        BY <1>1, <3>1
      <3>3. queue[i + 1] # queue[1]
        BY <3>2 DEF OrderInv, QueuedOnce
      <3>4. QED
        BY <1>2, <3>1, <3>2, <3>3 DEF Queued
    <2>2. ASSUME NEW x \in Queued \ {p} PROVE x \in Queued'
      <3>1. PICK i \in 1..Len(queue) : x = queue[i]
        BY <1>1 DEF Queued
      <3>2. i # 1
        BY <1>2, <3>1
      <3>3. i - 1 \in 1..(Len(queue) - 1) /\ (i - 1) + 1 = i
        BY <1>1, <3>2
      <3>4. queue'[i - 1] = x
        BY <1>4, <3>1, <3>3
      <3>5. QED
        BY <1>4, <3>3, <3>4 DEF Queued
    <2>3. QED
      BY <2>1, <2>2
  <1>8. ASSUME NEW q PROVE Open(q)' = Open(q)
    <2>1. rest = {} /\ rest' = OutOf(p)
      OBVIOUS
    <2>2. ASSUME NEW e \in Into(q)
          PROVE  (e \in OutOf(p) \/ From(e) \notin Taken \cup {p}) <=> From(e) \notin Taken
      BY <1>5 DEF Into, OutOf
    <2>3. QED
      BY <1>0, <1>6, <2>1, <2>2 DEF Open
  <1>9. TypeOK'
    <2>1. rest' \subseteq Edge
      BY DEF OutOf
    <2>2. QED
      BY <1>0, <1>3, <1>4, <2>1 DEF OrderInv, TypeOK
  <1>10. Counted'
    <2>1. \A e \in rest' : From(e) \in Taken'
      BY <1>6 DEF OutOf
    <2>2. QED
      BY <1>0, <1>8, <2>1 DEF OrderInv, Counted
  <1>11. QueuedOnce'
    <2>1. ASSUME NEW i \in DOMAIN queue', NEW j \in DOMAIN queue', queue'[i] = queue'[j]
          PROVE  i = j
      <3>1. queue[i + 1] = queue[j + 1] /\ i + 1 \in DOMAIN queue /\ j + 1 \in DOMAIN queue
        BY <1>1, <1>4, <2>1
      <3>2. i + 1 = j + 1
        BY <3>1 DEF OrderInv, QueuedOnce
      <3>3. QED
        BY <1>1, <1>4, <3>2
    <2>2. QED
      BY <1>0, <1>5, <1>6, <1>7, <2>1 DEF OrderInv, QueuedOnce
  <1>12. DeployedOnce'
    <2>1. \A i \in 1..n : result[i] # p
      BY <1>1, <1>5 DEF Taken
    <2>2. \A i, j \in 1..n : result[i] = result[j] => i = j
      BY <1>1 DEF OrderInv, DeployedOnce
    <2>3. QED
      BY <1>1, <1>3, <2>1, <2>2 DEF DeployedOnce
  <1>13. RequirementsFirst'
    <2>1. ASSUME NEW i \in 1..n, NEW e \in Into(result[i])
          PROVE  \E j \in 1..(i - 1) : result'[j] = From(e)
      <3>1. PICK j \in 1..(i - 1) : result[j] = From(e)
        BY <1>1, <2>1 DEF OrderInv, RequirementsFirst
      <3>2. j \in 1..n
        BY <1>1, <3>1
      <3>3. QED
        BY <1>3, <3>1, <3>2
    <2>2. ASSUME NEW e \in Into(p)
          PROVE  \E j \in 1..((n + 1) - 1) : result'[j] = From(e)
      <3>1. Cardinality(Open(p)) = 0
        BY <1>2, <1>5 DEF OrderInv, Counted, QueuedOnce
      <3>2. Open(p) = {}
        BY <3>1, EdgesAreFinite, FS_EmptySet DEF OrderInv, TypeOK
      <3>3. From(e) \in Taken
        BY <2>2, <3>2 DEF Open
      <3>4. PICK j \in 1..n : result[j] = From(e)
        BY <1>1, <3>3 DEF Taken
      <3>5. QED
        BY <1>1, <1>3, <3>4
    <2>3. QED
      BY <1>0, <1>1, <1>3, <2>1, <2>2 DEF RequirementsFirst
  <1>14. QED
    BY <1>9, <1>10, <1>11, <1>12, <1>13 DEF OrderInv

(* Following a requirement closes it, and queues its service with the last. *)
LEMMA FollowOrdered ==
  ASSUME OrderInv, NEW e \in Edge, Follow(e)
  PROVE  OrderInv'
  <1> USE DEF Follow
  <1> DEFINE p == To(e)
             m == Len(queue)
  <1>0. /\ declarations' = declarations /\ result' = result
        /\ Edge' = Edge /\ Declared' = Declared /\ Taken' = Taken
        /\ \A q : Into(q)' = Into(q)
        /\ \A x : From(x)' = From(x) /\ To(x)' = To(x)
    BY DEF Edge, Declared, Into, From, To, Taken
  <1>1. /\ queue \in Seq(Declared) /\ m \in Nat /\ DOMAIN queue = 1..m
        /\ inDegree \in [Declared -> Nat]
    BY DEF OrderInv, TypeOK
  <1>2. p \in Declared
    BY DEF Edge, To, Declared
  <1>3. e \in Open(p)
    BY DEF Open, Into
  <1>4. ASSUME NEW q, q = p PROVE Open(q)' = Open(q) \ {e}
    <2>1. From(e) \in Taken
      BY DEF OrderInv, Counted
    <2>2. ASSUME NEW x \in Into(q)
          PROVE  (x \in rest \ {e} \/ From(x) \notin Taken)
                 <=> ((x \in rest \/ From(x) \notin Taken) /\ x # e)
      BY <2>1
    <2>3. rest' = rest \ {e}
      OBVIOUS
    <2>4. QED
      BY <1>0, <2>2, <2>3 DEF Open
  <1>5. ASSUME NEW q, q # p PROVE Open(q)' = Open(q)
    <2>1. e \notin Into(q)
      BY <1>5 DEF Into
    <2>2. rest' = rest \ {e}
      OBVIOUS
    <2>3. QED
      BY <1>0, <2>1, <2>2 DEF Open
  <1>6. /\ inDegree[p] = Cardinality(Open(p))
        /\ inDegree[p] \in Nat \ {0}
        /\ Cardinality(Open(p) \ {e}) = inDegree[p] - 1
    <2>1. inDegree[p] = Cardinality(Open(p)) /\ inDegree[p] \in Nat
      BY <1>1, <1>2 DEF OrderInv, Counted
    <2>2. IsFiniteSet(Open(p))
      BY EdgesAreFinite DEF OrderInv, TypeOK
    <2>3. Cardinality(Open(p)) # 0
      BY <1>3, <2>2, FS_EmptySet
    <2>4. Cardinality(Open(p) \ {e}) = Cardinality(Open(p)) - 1
      BY ONLY <1>3, <2>2, FS_RemoveElement
    <2>5. QED
      BY <2>1, <2>3, <2>4
  <1>7. p \notin Taken \cup Queued
    BY <1>2, <1>6 DEF OrderInv, QueuedOnce
  <1>8. /\ inDegree' \in [Declared -> Nat]
        /\ inDegree'[p] = inDegree[p] - 1
        /\ \A q \in Declared \ {p} : inDegree'[q] = inDegree[q]
    BY <1>1, <1>2, <1>6
  <1>9. Counted'
    <2>1. ASSUME NEW q \in Declared PROVE inDegree'[q] = Cardinality(Open(q)')
      <3>1. CASE q = p
        BY <1>4, <1>6, <1>8, <3>1
      <3>2. CASE q # p
        <4>1. inDegree'[q] = inDegree[q] /\ Open(q)' = Open(q)
          BY <1>5, <1>8, <3>2
        <4>2. QED
          BY <4>1 DEF OrderInv, Counted
      <3>3. QED
        BY <3>1, <3>2
    <2>2. QED
      BY <1>0, <2>1 DEF OrderInv, Counted
  <1>10. CASE inDegree[p] = 1
    <2>1. queue' = Append(queue, p)
      BY <1>10 DEF Free
    <2>2. /\ queue' \in Seq(Declared)
          /\ DOMAIN queue' = 1..(m + 1)
          /\ queue'[m + 1] = p
          /\ \A i \in 1..m : queue'[i] = queue[i]
      <3> HIDE DEF p
      <3>1. QED
        BY ONLY <1>1, <1>2, <2>1
    <2>3. Queued' = Queued \cup {p}
      <3> HIDE DEF p, m
      <3>1. m + 1 \in 1..(m + 1) /\ 1..m \subseteq 1..(m + 1)
        BY <1>1
      <3>2. 1..(m + 1) = 1..m \cup {m + 1}
        BY <1>1
      <3>3. Queued' = {queue'[i] : i \in 1..(m + 1)} /\ Queued = {queue[i] : i \in 1..m}
        BY <1>1, <2>2 DEF Queued
      <3>4. QED
        BY ONLY <2>2, <3>2, <3>3
    <2>4. \A i \in 1..m : queue[i] # p
      BY <1>1, <1>7 DEF Queued
    <2>5. \A i, j \in 1..m : queue[i] = queue[j] => i = j
      BY <1>1 DEF OrderInv, QueuedOnce
    <2>6. \A i, j \in DOMAIN queue' : queue'[i] = queue'[j] => i = j
      BY <1>1, <2>2, <2>4, <2>5, SMTT(30)
    <2>7. QueuedOnce'
      <3>1. \A q \in Declared : inDegree'[q] = 0 <=> q \in Taken \cup (Queued \cup {p})
        BY <1>7, <1>8, <1>10 DEF OrderInv, QueuedOnce
      <3>2. Taken \cap (Queued \cup {p}) = {}
        BY <1>7 DEF OrderInv, QueuedOnce
      <3>3. QED
        BY <1>0, <2>3, <2>6, <3>1, <3>2 DEF QueuedOnce
    <2>8. TypeOK'
      BY <1>0, <1>8, <2>2 DEF OrderInv, TypeOK
    <2>9. QED
      BY <1>0, <1>9, <2>7, <2>8 DEF OrderInv, DeployedOnce, RequirementsFirst
  <1>11. CASE inDegree[p] # 1
    <2>1. queue' = queue /\ inDegree'[p] # 0
      BY <1>6, <1>8, <1>11 DEF Free
    <2>2. QueuedOnce'
      <3>1. Queued' = Queued
        BY <2>1 DEF Queued
      <3>2. \A q \in Declared : inDegree'[q] = 0 <=> q \in Taken \cup Queued
        BY <1>7, <1>8, <2>1 DEF OrderInv, QueuedOnce
      <3>3. QED
        BY <1>0, <2>1, <3>1, <3>2 DEF OrderInv, QueuedOnce
    <2>3. TypeOK'
      BY <1>0, <1>8, <2>1 DEF OrderInv, TypeOK
    <2>4. QED
      BY <1>0, <1>9, <2>2, <2>3 DEF OrderInv, DeployedOnce, RequirementsFirst
  <1>12. QED
    BY <1>10, <1>11

LEMMA StepOrdered == OrderInv /\ [Next]_vars => OrderInv'
  <1> SUFFICES ASSUME OrderInv, [Next]_vars PROVE OrderInv'
    OBVIOUS
  <1>1. CASE UNCHANGED vars
    <2>1. /\ Edge' = Edge /\ Declared' = Declared /\ Taken' = Taken /\ Queued' = Queued
          /\ \A e : From(e)' = From(e) /\ To(e)' = To(e)
      BY <1>1 DEF vars, Edge, Declared, From, To, Taken, Queued
    <2>2. \A p : Into(p)' = Into(p)
      BY <2>1 DEF Into
    <2>3. \A p : Open(p)' = Open(p)
      BY <1>1, <2>1, <2>2 DEF vars, Open
    <2>4. TypeOK' /\ QueuedOnce'
      BY <1>1, <2>1 DEF vars, OrderInv, TypeOK, QueuedOnce
    <2>5. Counted'
      BY <1>1, <2>1, <2>3 DEF vars, OrderInv, Counted
    <2>6. DeployedOnce' /\ RequirementsFirst'
      BY <1>1, <2>1, <2>2 DEF vars, OrderInv, DeployedOnce, RequirementsFirst
    <2>7. QED
      BY <2>4, <2>5, <2>6 DEF OrderInv
  <1>2. QED
    BY <1>1, TakeOrdered, FollowOrdered DEF Next, Done

(* Every reachable state of the sort satisfies the invariant.               *)
LEMMA AlwaysOrdered == Spec => []OrderInv
  BY InitOrdered, StepOrdered, PTL DEF Spec

(* The counters of ServiceConfigFromModules never go below zero, whatever   *)
(* is declared and however often a requirement is written.                  *)
THEOREM OrderTypeCorrect == Spec => []TypeOK
  <1>1. OrderInv => TypeOK
    BY DEF OrderInv
  <1>2. QED
    BY <1>1, AlwaysOrdered, PTL

(* The list that App.deploy works through has every service after all that  *)
(* it requires.                                                             *)
THEOREM OrderSound == Spec => []RequirementsFirst
  <1>1. OrderInv => RequirementsFirst
    BY DEF OrderInv
  <1>2. QED
    BY <1>1, AlwaysOrdered, PTL

(* The list has no service twice.                                           *)
THEOREM OrderInjective == Spec => []DeployedOnce
  <1>1. OrderInv => DeployedOnce
    BY DEF OrderInv
  <1>2. QED
    BY <1>1, AlwaysOrdered, PTL

(* A service is only missing from the finished list when it requires one    *)
(* that is missing from it too.                                             *)
THEOREM OrderDropsForAReason == Spec => []DroppedForAReason
  <1>1. OrderInv => DroppedForAReason
    <2> SUFFICES ASSUME OrderInv, Finished, NEW p \in Declared,
                        \A i \in DOMAIN result : result[i] # p
                 PROVE  \E e \in Into(p) : \A i \in DOMAIN result : result[i] # From(e)
      BY DEF DroppedForAReason
    <2>1. p \notin Taken \cup Queued
      BY DEF Taken, Queued, Finished
    <2>2. Cardinality(Open(p)) # 0
      BY <2>1 DEF OrderInv, Counted, QueuedOnce
    <2>3. PICK e \in Into(p) : From(e) \notin Taken
      <3>1. Open(p) # {}
        BY <2>2, FS_EmptySet
      <3>2. QED
        BY <3>1 DEF Open, Finished
    <2>4. QED
      BY <2>3 DEF Taken
  <1>2. QED
    BY <1>1, AlwaysOrdered, PTL
============================================================================
