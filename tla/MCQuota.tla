------------------------------- MODULE MCQuota -------------------------------
(* Quota on a small instance.  A batch of 2 bytes and frames of 1 or 2      *)
(* bytes give every order of batching, settling and refusal; the backup     *)
(* file holds each link over its quota.                                     *)
EXTENDS Quota

(* A tunnel beside a session of each kind. *)
Pairs == {<<"tunnel", "packet-up">>, <<"tunnel", "stream-up">>}
MCMixes ==
  LET first == CHOOSE c \in Conns : TRUE
  IN  {[c \in Conns |-> IF c = first THEN p[1] ELSE p[2]] : p \in Pairs}

MCBackups ==
  {[l \in Links |-> [NoLink EXCEPT !.present = TRUE, !.active = TRUE,
                                   !.limit_bytes = 2, !.used_bytes = 3]]}
==============================================================================
