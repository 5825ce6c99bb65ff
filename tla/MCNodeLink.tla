----------------------------- MODULE MCNodeLink ------------------------------
(* NodeLink with one peer panel. *)
EXTENDS NodeLink, TLC

MCKeyHost == [k \in Keys |-> CHOOSE h \in Hosts : TRUE]
MCBackups ==
  {[[i \in Ids |-> None] EXCEPT ![n] = [key |-> k, enabled |-> TRUE, share |-> DefaultShare,
                                        twin |-> FALSE]] : n \in Ids, k \in Keys}
Symmetry == Permutations(Ids) \union Permutations(Keys) \union Permutations(Jobs)

(* No property asks what a late answer holds, and once it is sent, a        *)
(* request of the subscription is like any other.                           *)
LateEntry(e) == IF e.late THEN [e EXCEPT !.got = {}, !.version = 0] ELSE e
LateJob(j) == IF j.late /\ j.at # "gathered" THEN [j EXCEPT !.got = {}, !.version = 0, !.kind = "fetch"]
              ELSE IF j.kind = "fresh" /\ j.at # "gathered" THEN [j EXCEPT !.kind = "fetch"] ELSE j
(* What a revoked key may do can be changed before or after it is restored. *)
KeyState(k) == IF node_keys[k] \in {None, Deleted} THEN node_keys[k]
               ELSE IF node_keys[k].revoked THEN "revoked" ELSE <<node_keys[k]>>
View == <<nodes, {LateEntry(e) : e \in cache}, [j \in Jobs |-> LateJob(job[j])], [k \in Keys |-> KeyState(k)],
          version, confirmed>>
==============================================================================
