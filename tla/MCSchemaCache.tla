--------------------------- MODULE MCSchemaCache ---------------------------
(* Small instances of SchemaCache. *)
EXTENDS SchemaCache, TLC

CONSTANTS b1, b2, i1, string

J(e, ident, type, dry) == [e |-> e, ident |-> ident, type |-> type, dry |-> dry]

(* An attribute, the same name as an enum value, plain data, and the       *)
(* attribute as a speculative transaction.                                 *)
SomeJobs == {J(0, i1, string, FALSE), J(0, i1, NoType, FALSE), PlainData, J(0, i1, string, TRUE)}

(* Connections differ in nothing. *)
Connections == Permutations({b1, b2})
=============================================================================
