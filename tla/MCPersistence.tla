---------------------------- MODULE MCPersistence ----------------------------
(* Persistence on small instances. *)
EXTENDS Persistence, TLC

MCBackups == {Uids \ {DefaultUid}}

Symmetry == Permutations(Handlers) \union Permutations(Tokens)
==============================================================================
