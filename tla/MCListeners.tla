----------------------------- MODULE MCListeners -----------------------------
(***************************************************************************)
(* Zeus and PortManager for TLC: what listens beside the panel's own port. *)
(* The two share the event loop and no state, so a behaviour exercises one *)
(* of them; to PortManager, Zeus is another program that may take a port.  *)
(***************************************************************************)
EXTENDS Zeus, PortManager, TLC

OneIp == [c \in Clients |-> CHOOSE i \in Ips : TRUE]

\* One without limits, one with all of them.
TwoConfigs == {[limit |-> 0, perIp |-> 0, days |-> FALSE],
               [limit |-> 1, perIp |-> 1, days |-> TRUE]}

\* An empty backup, and those of one TCP link.
TcpLink(p) == [present |-> TRUE, active |-> TRUE, kind |-> "tcp", port |-> p]
PortBackups ==
  LET empty == [u \in Uids |-> NoLink] IN
  {empty} \union {[empty EXCEPT ![v] = TcpLink(p)] : v \in Uids, p \in Ports}

ASSUME PortsAssumption

\* Links are alike, and the liveness property is of Zeus, which knows none: the
\* states of its behaviours are their own images under a permutation of links.
LinkSymmetry == Permutations(Uids)

VARIABLE component

allVars == <<zvars, vars, component>>

ListenersInit ==
  /\ ZeusInit /\ Init
  /\ component \in {"zeus", "ports"}
  /\ component = "ports" => waits /\ cfg.limit = 0

ListenersNext ==
  \/ component = "zeus" /\ ZeusNext /\ UNCHANGED <<vars, component>>
  \/ component = "ports" /\ Next /\ UNCHANGED <<zvars, component>>

ListenersSpec == ListenersInit /\ [][ListenersNext]_allVars /\ ZeusFairness
==============================================================================
