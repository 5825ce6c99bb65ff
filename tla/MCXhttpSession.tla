--------------------------- MODULE MCXhttpSession ----------------------------
(* Instances of XhttpSession for TLC. *)
EXTENDS XhttpSession, TLC

Symmetry == Permutations(Sids) \union Permutations(Sess) \union Permutations(Conns)
              \union Permutations(Posts)

(* Objects that nobody refers to are as good as new. *)
Live == <<table, [s \in Sess |-> IF FreeSess(s) THEN NoSess ELSE sess[s]],
          [c \in Conns |-> IF FreeConn(c) THEN NoConn ELSE conn[c]], post, tear, reaping>>
==============================================================================
