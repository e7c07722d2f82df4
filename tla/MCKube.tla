------------------------------- MODULE MCKube -------------------------------
(***************************************************************************)
(* Small instances of Kube: a Role, a Deployment and a Service, of which   *)
(* only the Deployment takes time and differs between deployers: the first *)
(* wants an image with a command, the second another image, and the third  *)
(* the first image without the command.                                    *)
(***************************************************************************)
EXTENDS Kube

CONSTANTS w1, w2, w3

Plain(content) == [content |-> content, command |-> None]

Image(w) ==
  IF w = w1 THEN [content |-> "old", command |-> "serve"]
  ELSE Plain(IF w = w2 THEN "new" ELSE "old")

MCWants == [w \in Deployer |-> <<Plain("role"), Image(w), Plain("service")>>]
=============================================================================
