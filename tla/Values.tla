------------------------------- MODULE Values -------------------------------
(***************************************************************************)
(* What becomes of a value that is written as JSON and read back.  A value *)
(* is its kind and, where a string holds it, its text; a document is the   *)
(* member "_type" and what the member "value" is decoded to.               *)
(***************************************************************************)

Kind == {"Null", "String", "Identifier", "Secret", "Boolean", "Integer", "ServiceReference"}

NoText == <<>>
IsText(kind) == kind \in {"String", "Identifier", "Secret"}

(* Numbers are decoded as float64.                                          *)
Decoded(kind) ==
  CASE IsText(kind)      -> "string"
    [] kind = "Boolean"  -> "bool"
    [] kind = "Integer"  -> "float64"
    [] kind = "Null"     -> "nil"

(* A service reference has no MarshalJSON, so it is written without _type,  *)
(* and a nil value is written as null; the zero of Kind is Null.            *)
Marshal(v) ==
  IF v.kind \in {"nil", "ServiceReference"}
  THEN [kind |-> "Null", value |-> "nil", text |-> NoText]
  ELSE [kind |-> v.kind, value |-> Decoded(v.kind), text |-> v.text]

(* What Unmarshal asserts of the decoded value.                             *)
Asserted(kind) ==
  CASE IsText(kind)     -> "string"
    [] kind = "Boolean" -> "bool"
    [] kind = "Integer" -> "int"
    [] OTHER            -> "none"

Refused == [kind |-> "error", text |-> NoText]

(* Variant: a secret is decoded like any text. *)
Unmarshal_SecretAsString(d) ==
  IF d.kind = "Null" THEN [kind |-> "Null", text |-> NoText]
  ELSE IF d.value # Asserted(d.kind) THEN Refused
  ELSE [kind |-> IF d.kind = "Secret" THEN "String" ELSE d.kind, text |-> d.text]

Unmarshal(d) ==
  IF d.kind = "Null" THEN [kind |-> "Null", text |-> NoText]
  ELSE IF d.value # Asserted(d.kind) THEN Refused
  ELSE [kind |-> d.kind, text |-> d.text]
==============================================================================
