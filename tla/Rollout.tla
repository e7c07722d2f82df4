------------------------------ MODULE Rollout ------------------------------
(***************************************************************************)
(* What the manager promises of a deployment, without requests, forms,     *)
(* goroutines, locks or cancellation: its services come up in their sorted *)
(* order, the database only ever counts a prefix that is up, and a         *)
(* deployment is successful only when it counts all of them.  A recorded   *)
(* count may go back (a stale form, a deployment that is resumed), and a   *)
(* success may be withdrawn; a service that came up is never forgotten.    *)
(***************************************************************************)
EXTENDS Integers

CONSTANTS
  Deployment,
  Size         \* the number of services of each deployment, a natural number

VARIABLES
  up,          \* up[d]: the positions of the services that came up
  counted,     \* counted[d]: how many services the database counts
  successful   \* successful[d]: the database calls the deployment successful

vars == <<up, counted, successful>>

Init ==
  /\ up = [d \in Deployment |-> {}]
  /\ counted = [d \in Deployment |-> 0]
  /\ successful = [d \in Deployment |-> FALSE]

BringUp(d) ==
  /\ \E i \in 1..Size[d] :
       /\ 1..(i - 1) \subseteq up[d]
       /\ up' = [up EXCEPT ![d] = @ \cup {i}]
  /\ UNCHANGED <<counted, successful>>

Record(d) ==
  /\ \E n \in 0..Size[d], finished \in BOOLEAN :
       /\ 1..n \subseteq up[d]
       /\ finished => n = Size[d]
       /\ counted' = [counted EXCEPT ![d] = n]
       /\ successful' = [successful EXCEPT ![d] = finished]
  /\ UNCHANGED up

Next == \E d \in Deployment : BringUp(d) \/ Record(d)

Spec == Init /\ [][Next]_vars
============================================================================
