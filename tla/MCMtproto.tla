------------------------------ MODULE MCMtproto ------------------------------
(* Instances of Mtproto for TLC. *)
EXTENDS Mtproto, TLC

(* The empty backup, and those with one MTProto link. *)
MCBackups ==
  {[u \in Uids |-> NoLink]}
    \union {[[u \in Uids |-> NoLink] EXCEPT ![v] =
               [present |-> TRUE, mtproto |-> TRUE, active |-> a, refused |-> FALSE,
                listen_port |-> p, mtproto_port |-> p]] :
               v \in Uids, p \in Ports, a \in BOOLEAN}

Symmetry == Permutations(Uids) \union Permutations(Ports)
              \union Permutations(Tasks) \union Permutations(Procs)
==============================================================================
