------------------------------- MODULE Tunnel -------------------------------
(***************************************************************************)
(* What the VMess and the Shadowsocks tunnels have in common: the two      *)
(* peers of a tunnel, its handler and its two relay tasks.                 *)
(*                                                                         *)
(* A client's stream is a sequence of chunks, and what a reader needs of a *)
(* chunk comes in two cells: cell 2i-1 is the sealed length of chunk i,    *)
(* cell 2i its sealed payload.  A read that ends inside a cell completes   *)
(* no more cells than one that ends before it.                             *)
(***************************************************************************)
EXTENDS Integers

CONSTANTS
  Tunnels,     \* the connections
  Protos,      \* which of "vmess-ws", "vmess-tcp", "ss-ws", "ss-tcp" they use
  MaxChunks,   \* bound: chunks a client sends
  MaxReplies,  \* bound: reads worth of reply a target sends
  PackMax      \* replies that still fit the two-byte length of one sealed chunk

ASSUME TunnelAssumption ==
  /\ Protos \subseteq {"vmess-ws", "vmess-tcp", "ss-ws", "ss-tcp"}
  /\ MaxChunks \in Nat \ {0} /\ MaxReplies \in Nat /\ PackMax \in Nat \ {0}

VARIABLES
  link,     \* is_link_allowed(link): one link owns the tunnels
  proto,    \* the listener each connection came to
  pc,       \* where its handler is
  up,       \* client_to_target / relay_ws_to_tcp
  down,     \* target_to_client / relay_tcp_to_ws
  client,   \* wire: cells that arrived, term: the last is a termination chunk
  reader,   \* fed: cells read, taken: cells decrypted, nonce: receive counter,
            \* options: what a VMess request asked for
  target    \* got: chunks, eof: our half-close, sent/read: its replies, open

tvars == <<link, proto, pc, up, down, client, reader, target>>

Vmess == {t \in Tunnels : proto[t] \in {"vmess-ws", "vmess-tcp"}}
Ss    == {t \in Tunnels : proto[t] \in {"ss-ws", "ss-tcp"}}
Tcp   == {t \in Tunnels : proto[t] \in {"vmess-tcp", "ss-tcp"}}

Outcomes == {"eof", "quota", "reset", "error", "expired", "cancelled"}
Ended(task) == task \in Outcomes
Live(t)     == pc[t] \in {"relay", "linger"}

StreamsTypeOK ==
  /\ link \in BOOLEAN
  /\ proto \in [Tunnels -> Protos]
  /\ pc \in [Tunnels -> {"accepted", "handshake", "matched", "dialing",
                         "relay", "linger", "closed"}]
  /\ up \in [Tunnels -> {"none", "run"} \cup Outcomes]
  /\ down \in [Tunnels -> {"none", "run"} \cup Outcomes]
  /\ client \in [Tunnels -> [wire : 0..(2 * MaxChunks + 1), term : BOOLEAN,
                             end : {"open", "half", "gone"}]]
  /\ reader \in [Tunnels -> [fed : 0..(2 * MaxChunks + 1), taken : 0..(2 * MaxChunks + 1),
                             nonce : 0..(2 * MaxChunks + 1),
                             options : {"sound", "padding_only"}]]
  /\ target \in [Tunnels -> [got : 0..MaxChunks, eof : BOOLEAN, sent : 0..MaxReplies,
                             read : 0..MaxReplies, open : BOOLEAN]]

StreamsInit ==
  /\ link = TRUE
  /\ proto \in [Tunnels -> Protos]
  /\ pc = [t \in Tunnels |-> "accepted"]
  /\ up = [t \in Tunnels |-> "none"]
  /\ down = [t \in Tunnels |-> "none"]
  /\ client = [t \in Tunnels |-> [wire |-> 0, term |-> FALSE, end |-> "open"]]
  /\ reader = [t \in Tunnels |-> [fed |-> 0, taken |-> 0, nonce |-> 0,
                                  options |-> "sound"]]
  /\ target = [t \in Tunnels |-> [got |-> 0, eof |-> FALSE, sent |-> 0,
                                  read |-> 0, open |-> TRUE]]

(***************************************************************************)
(* The surroundings: the panel switches the link, the peers speak and end. *)
(***************************************************************************)
LinkSwitched ==
  /\ link' = ~link
  /\ UNCHANGED <<proto, pc, up, down, client, reader, target>>

ClientSends(t) ==
  /\ pc[t] # "closed" /\ client[t].end = "open" /\ ~client[t].term
  /\ client[t].wire < 2 * MaxChunks
  /\ client' = [client EXCEPT ![t].wire = @ + 1]
  /\ UNCHANGED <<link, proto, pc, up, down, reader, target>>

\* VMess only: an empty chunk says that nothing more will come.
ClientTerminates(t) ==
  /\ t \in Vmess /\ pc[t] # "closed"
  /\ client[t].end = "open" /\ ~client[t].term /\ client[t].wire % 2 = 0
  /\ client' = [client EXCEPT ![t].wire = @ + 1, ![t].term = TRUE]
  /\ UNCHANGED <<link, proto, pc, up, down, reader, target>>

\* A TCP client can end its side and still read; a WebSocket is closed whole.
ClientHalfCloses(t) ==
  /\ t \in Tcp /\ pc[t] # "closed" /\ client[t].end = "open"
  /\ client' = [client EXCEPT ![t].end = "half"]
  /\ UNCHANGED <<link, proto, pc, up, down, reader, target>>

ClientLeaves(t) ==
  /\ pc[t] # "closed" /\ client[t].end # "gone"
  /\ client' = [client EXCEPT ![t].end = "gone"]
  /\ UNCHANGED <<link, proto, pc, up, down, reader, target>>

TargetSends(t) ==
  /\ Live(t) /\ target[t].open /\ target[t].sent < MaxReplies
  /\ target' = [target EXCEPT ![t].sent = @ + 1]
  /\ UNCHANGED <<link, proto, pc, up, down, client, reader>>

TargetCloses(t) ==
  /\ Live(t) /\ target[t].open
  /\ target' = [target EXCEPT ![t].open = FALSE]
  /\ UNCHANGED <<link, proto, pc, up, down, client, reader>>

Surroundings ==
  \/ LinkSwitched
  \/ \E t \in Tunnels : \/ ClientSends(t) \/ ClientTerminates(t)
                        \/ ClientHalfCloses(t) \/ ClientLeaves(t)
                        \/ TargetSends(t) \/ TargetCloses(t)

(***************************************************************************)
(* The handlers' common steps.                                             *)
(***************************************************************************)
Pending(t) == target[t].sent - target[t].read

\* The finally clauses: the target's writer is closed and the entry of
\* `connections` is dropped.
Closes(t) ==
  /\ pc' = [pc EXCEPT ![t] = "closed"]
  /\ UNCHANGED <<link, proto, up, down, client, reader, target>>

\* The relay ends: a task that still runs is cancelled and awaited.
RelayCloses(t, why) ==
  /\ up' = [up EXCEPT ![t] = IF Ended(@) THEN @ ELSE "cancelled"]
  /\ down' = [down EXCEPT ![t] = IF Ended(@) THEN @ ELSE why]
  /\ pc' = [pc EXCEPT ![t] = "closed"]
  /\ UNCHANGED <<link, proto, client, reader, target>>

RelayStarts(t, got) ==
  /\ pc' = [pc EXCEPT ![t] = "relay"]
  /\ up' = [up EXCEPT ![t] = "run"]
  /\ down' = [down EXCEPT ![t] = "run"]
  /\ target' = [target EXCEPT ![t].got = got]
  /\ UNCHANGED <<link, proto, client, reader>>

\* client_to_target returns after it half-closed the target's connection.
UpEnds(t, how) ==
  /\ up' = [up EXCEPT ![t] = how]
  /\ target' = [target EXCEPT ![t].eof = TRUE]
  /\ UNCHANGED <<link, proto, pc, down, client, reader>>

\* client_to_target ends and leaves the target's connection as it is.
UpStops(t, how) ==
  /\ up' = [up EXCEPT ![t] = how]
  /\ UNCHANGED <<link, proto, pc, down, client, reader, target>>

DownEnds(t, how) ==
  /\ down' = [down EXCEPT ![t] = how]
  /\ UNCHANGED <<link, proto, pc, up, client, reader, target>>
=============================================================================
