----------------------------- MODULE MCCoreSync ------------------------------
(* CoreSync on small instances: a link that either core serves, and one     *)
(* that a backup gives to xray although xray no longer serves it.           *)
EXTENDS CoreSync, TLC

MCCoreOrder == <<"xray", "singbox">>
MCProtocol == [u \in Uids |-> IF u = CHOOSE v \in Uids : TRUE THEN "vless" ELSE "mtproto"]
MCBackups == {[u \in Uids |-> [core |-> "xray", active |-> TRUE]]}
Symmetry == Permutations(Procs) \union Permutations(Syncs)
==============================================================================
