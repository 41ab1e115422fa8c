---------------------------- MODULE MCQueryCache ----------------------------
(* Small instances of QueryCache. *)
EXTENDS QueryCache, TLC

CONSTANTS s1, s2

(* Slots differ in nothing. *)
Slots == Permutations({s1, s2})

(* What transactions set: everything, or one value of each entity. *)
AllChanges == Entity \X (Val \cup {None})
SomeChanges == {<<1, 30>>, <<2, 31>>}
=============================================================================
