--------------------------- MODULE MCStreamsSaves ----------------------------
(***************************************************************************)
(* Streams and Persistence for TLC, each with the fairness of the event    *)
(* loop, which is all they share: a behaviour exercises one of them.       *)
(* Persistence is under way as soon as the panel starts, so the behaviours *)
(* of Streams come first put a panel to rest that was stopped at once.     *)
(***************************************************************************)
EXTENDS MCStreams, Persistence

OneBackup == {Uids \ {DefaultUid}}

VARIABLE component

bothVars == <<tvars, vars, component>>

BothInit ==
  /\ Init /\ StreamsInit /\ component = "saves"
  /\ \A t \in Tunnels : proto[t] = "vmess-ws"

(* A new panel, stopped before anything had changed: of Persistence nothing *)
(* is left but a restart.                                                   *)
AtRest ==
  /\ phase = "stopped" /\ boots = 0 /\ n = 0 /\ file = mem
  /\ {u \in Uids : mem[u] # None} = {DefaultUid}
  /\ debounce = "off" /\ \A t \in Tokens : sessions[t] = None

StreamsBegin ==
  /\ component = "saves" /\ AtRest
  /\ component' = "streams" /\ proto' \in [Tunnels -> Protos]
  /\ UNCHANGED <<vars, link, pc, up, down, client, reader, target>>

(* A panel that was stopped, and has used up its restarts, stays stopped.   *)
StaysDown == ~Running /\ boots = MaxBoots /\ UNCHANGED vars

BothNext ==
  \/ component = "saves" /\ (Next \/ StaysDown) /\ UNCHANGED <<tvars, component>>
  \/ StreamsBegin
  \/ component = "streams" /\ StreamsNext /\ UNCHANGED <<vars, component>>

BothSpec == BothInit /\ [][BothNext]_bothVars /\ StreamsFairness /\ Fairness
==============================================================================
