-------------------------- MODULE MCServiceOrder --------------------------
(***************************************************************************)
(* Every request of three declarations, each of which requires at most two *)
(* services, where "x" is a path nobody has to declare.                    *)
(***************************************************************************)
EXTENDS ServiceOrder

UpTo(n, S) == UNION {[1..k -> S] : k \in 0..n}

(* "a" and "b" are declared, and a third declaration repeats "b" or is "c". *)
MCInput ==
  {<<[path |-> "a", requires |-> ra], [path |-> "b", requires |-> rb],
     [path |-> p, requires |-> rc]>> :
     ra \in UpTo(2, Path), rb \in UpTo(2, Path), rc \in UpTo(2, Path), p \in {"b", "c"}}
===========================================================================
