---------------------------- MODULE Attributes ------------------------------
(***************************************************************************)
(* The rows of the schema table that the reads consult (SchemaAttrInfo of  *)
(* functions/pull.rs).  Values, entities and attributes are integer codes. *)
(***************************************************************************)
EXTENDS Integers

CONSTANTS
    Schema,     \* attribute -> [type, many, component], the rows of the schema table
    Named       \* the entities of the schema, which have a :db/ident

\* The value types, each with a table of the log and one of the projection.
ValueType == {"ref", "boolean", "long", "double", "string", "keyword", "instant", "uuid", "bytes"}

ASSUME SchemaAssumption ==
    \A a \in DOMAIN Schema : a \in Nat /\ Schema[a] \in [type : ValueType, many : BOOLEAN, component : BOOLEAN]

IsRef(a) == Schema[a].type = "ref"
Many(a) == a \in DOMAIN Schema /\ Schema[a].many

\* A reference to an entity of the schema is shown as its ident.
IdentOf(x) == IF x \in Named THEN 1000 + x ELSE x
=============================================================================
