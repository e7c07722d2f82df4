---------------------------- MODULE ServiceOrder ----------------------------
(***************************************************************************)
(* ServiceConfigFromModules: the services of a create request's modules,   *)
(* sorted so that each comes after the services it requires.  The order of *)
(* this list is the order in which App.deploy brings services up, and its  *)
(* length is what "every service" means there.                             *)
(*                                                                         *)
(* The services of all modules are one list of declarations.  A required   *)
(* path need not be declared, and may be given more than once.             *)
(***************************************************************************)
EXTENDS Integers, Sequences, FiniteSets

CONSTANTS
  Path,    \* the paths module/service that can be written
  Input    \* the declarations a request may hold

Declaration == [path : Path, requires : Seq(Path)]

ASSUME InputAssumption == Input \subseteq Seq(Declaration)

VARIABLES
  declarations,  \* what the modules declare and require
  queue,         \* paths without an open requirement, to be taken
  result,        \* the sorted services
  inDegree,      \* open requirements of each declared path
  rest           \* the edges of the service just taken that are not yet followed

vars == <<declarations, queue, result, inDegree, rest>>

(* The requirements, counted as often as they are written.                  *)
Edge == UNION {{i} \X DOMAIN declarations[i].requires : i \in DOMAIN declarations}
From(e) == declarations[e[1]].requires[e[2]]
To(e)   == declarations[e[1]].path

Declared == {declarations[i].path : i \in DOMAIN declarations}
Into(p)  == {e \in Edge : To(e) = p}
OutOf(p) == {e \in Edge : From(e) = p}

(* Variant: a requirement that is written twice is counted once. *)
Degree_Distinct(p) == Cardinality({From(e) : e \in Into(p)})

Degree(p) == Cardinality(Into(p))

(* The paths of a set in some order: the program ranges over a map.         *)
Orders(S) == {s \in [1..Cardinality(S) -> S] : \A i, j \in DOMAIN s : s[i] = s[j] => i = j}

Init ==
  /\ declarations \in Input
  /\ inDegree = [p \in Declared |-> Degree(p)]
  /\ queue \in Orders({p \in Declared : inDegree[p] = 0})
  /\ result = <<>>
  /\ rest = {}

(* Variant: the head stays in the queue. *)
Take_Keeps ==
  /\ rest = {}
  /\ queue # <<>>
  /\ Len(result) <= Cardinality(Declared)
  /\ result' = Append(result, Head(queue))
  /\ rest' = OutOf(Head(queue))
  /\ UNCHANGED <<declarations, queue, inDegree>>

Take ==
  /\ rest = {}
  /\ queue # <<>>
  /\ result' = Append(result, Head(queue))
  /\ queue' = Tail(queue)
  /\ rest' = OutOf(Head(queue))
  /\ UNCHANGED <<declarations, inDegree>>

(* Variant: a service is queued as soon as one of its requirements is met. *)
Free_Early(p, open) == Append(queue, p)
(* Variant: the count is compared before it is lowered. *)
Free_Late(p, open) == IF inDegree[p] = 0 THEN Append(queue, p) ELSE queue

Free(p, open) == IF open = 0 THEN Append(queue, p) ELSE queue

Follow(e) ==
  /\ e \in rest
  /\ rest' = rest \ {e}
  /\ inDegree' = [inDegree EXCEPT ![To(e)] = @ - 1]
  /\ queue' = Free(To(e), inDegree[To(e)] - 1)
  /\ UNCHANGED <<declarations, result>>

Finished == rest = {} /\ queue = <<>>

Done == Finished /\ UNCHANGED vars

Next == Take \/ (\E e \in Edge : Follow(e)) \/ Done

Spec == Init /\ [][Next]_vars

----------------------------------------------------------------------------
(* The counters, queues and lists hold declared paths, and no count goes    *)
(* below zero.                                                              *)
TypeOK ==
  /\ declarations \in Seq(Declaration)
  /\ queue \in Seq(Declared)
  /\ result \in Seq(Declared)
  /\ inDegree \in [Declared -> Nat]
  /\ rest \subseteq Edge

(* A service comes after everything it requires, in whatever order the map  *)
(* of services is ranged over: what App.deploy relies on.                   *)
RequirementsFirst ==
  \A i \in DOMAIN result : \A e \in Into(result[i]) :
    \E j \in 1..(i - 1) : result[j] = From(e)

(* No service is deployed twice, though one may be declared twice and       *)
(* required several times.                                                  *)
DeployedOnce ==
  \A i, j \in DOMAIN result : result[i] = result[j] => i = j

(* A declared service is only left out because it requires, directly, one   *)
(* that is itself not deployed: it is on or behind a cycle, or behind a     *)
(* service nobody declared.  The program reports neither.                   *)
DroppedForAReason ==
  Finished =>
    \A p \in Declared : (\A i \in DOMAIN result : result[i] # p) =>
      \E e \in Into(p) : \A i \in DOMAIN result : result[i] # From(e)
============================================================================
