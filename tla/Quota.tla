-------------------------------- MODULE Quota --------------------------------
(***************************************************************************)
(* Per-link traffic accounting of the WebSocket and TCP tunnels: the link  *)
(* table's quota fields, check_and_use, the adaptive _QuotaGate each relay *)
(* direction owns, and the life of a tunnel (accept, first chunk, dial,    *)
(* two relays, FIRST_COMPLETED teardown).  VLESS, Trojan and Shadowsocks   *)
(* share this code or a copy of it.  XHTTP sessions have such a gate per   *)
(* direction too: the uplink's belongs to the session and is shared by its *)
(* POSTs.                                                                  *)
(*                                                                         *)
(* The panel is one asyncio loop.  LINKS_LOCK is only ever held around     *)
(* code that does not await, so gate.add, gate.flush and the link handlers *)
(* are atomic; tunnels interleave between chunks.                          *)
(***************************************************************************)
EXTENDS Integers

CONSTANTS
  Links,              \* link uuids
  Conns,              \* tunnels and XHTTP sessions
  Mixes,              \* which of them may be which
  Limits,             \* quota values the admin may set; 0 means unlimited
  Backups,            \* link tables a backup file may hold
  MaxChunk,           \* RELAY_BUF: the largest frame a relay handles at once
  QUOTA_MIN_BATCH, QUOTA_MAX_BATCH, QUOTA_START_BATCH,
  MaxUsed             \* bound: no frame is read that would push usage beyond

(* One entry of LINKS; a missing key has present = FALSE. *)
Link == [present : BOOLEAN, active : BOOLEAN, expired : BOOLEAN,
         limit_bytes : Nat, used_bytes : Nat]

Transport == {"tunnel", "packet-up", "stream-up"}

ASSUME QuotaAssumption ==
  /\ Mixes \subseteq [Conns -> Transport]
  /\ Limits \subseteq Nat
  /\ Backups \subseteq [Links -> Link]
  /\ MaxChunk \in Nat \ {0}
  /\ QUOTA_MIN_BATCH \in Nat \ {0}
  /\ QUOTA_START_BATCH \in Nat
  /\ QUOTA_MAX_BATCH \in Nat
  /\ QUOTA_MIN_BATCH <= QUOTA_START_BATCH
  /\ QUOTA_START_BATCH <= QUOTA_MAX_BATCH
  /\ MaxUsed \in Nat

Dirs  == {"up", "down"}
Gates == Conns \X Dirs
Batch == QUOTA_MIN_BATCH .. QUOTA_MAX_BATCH
Phase == {"closed", "accepted", "dialing", "session", "relay"}
Live  == {"session", "relay"}   \* with gates

VARIABLES
  links,        \* LINKS, the quota fields of each entry
  transport,    \* of each tunnel: what it is,
  phase, uuid,  \* how far its handler is, and its link
  running,      \* of each gate: its relay task has not ended
  ok, pending, batch_bytes,   \* the fields of each _QuotaGate
  unbilled,     \* history: bytes this gate let through minus bytes it charged
  late          \* history: bytes let through since the link stopped being
                \* allowed, without a check of the link

gateVars == <<running, ok, pending, batch_bytes, unbilled, late>>
vars == <<links, transport, phase, uuid, running, ok, pending, batch_bytes, unbilled, late>>

NoLink == [present |-> FALSE, active |-> FALSE, expired |-> FALSE,
           limit_bytes |-> 0, used_bytes |-> 0]

(* Mutant: the quota is not looked at. *)
is_link_allowed_no_limit(link) == link.present /\ link.active /\ ~link.expired

is_link_allowed(link) ==
  /\ link.present
  /\ link.active
  /\ ~link.expired
  /\ link.limit_bytes > 0 => link.used_bytes < link.limit_bytes

Charged(link, n) == [link EXCEPT !.used_bytes = @ + n]

(* The step's change of the link table when n bytes are put to the check. *)
check_and_use(l, n) ==
  links' = IF is_link_allowed(links[l])
           THEN [links EXCEPT ![l] = Charged(@, n)]
           ELSE links

(* Traffic is unchecked again from zero once a link is allowed again. *)
Forgive ==
  late' = [g \in Gates |-> IF is_link_allowed(links'[uuid[g[1]]]) THEN 0 ELSE late[g]]

TypeOK ==
  /\ links \in [Links -> Link]
  /\ transport \in [Conns -> Transport]
  /\ phase \in [Conns -> Phase]
  /\ uuid \in [Conns -> Links]
  /\ running \in [Gates -> BOOLEAN]
  /\ ok \in [Gates -> BOOLEAN]
  /\ pending \in [Gates -> Nat]
  /\ batch_bytes \in [Gates -> Batch]
  /\ unbilled \in [Gates -> Int]
  /\ late \in [Gates -> Nat]

Init ==
  /\ links = [l \in Links |-> NoLink]
  /\ transport \in Mixes
  /\ phase = [c \in Conns |-> "closed"]
  /\ uuid \in [Conns -> Links]
  /\ running = [g \in Gates |-> FALSE]
  /\ ok = [g \in Gates |-> TRUE]
  /\ pending = [g \in Gates |-> 0]
  /\ batch_bytes = [g \in Gates |-> QUOTA_START_BATCH]
  /\ unbilled = [g \in Gates |-> 0]
  /\ late = [g \in Gates |-> 0]
------------------------------------------------------------------------------
(* The panel's handlers on a link. *)

create_link(l, m) ==
  /\ ~links[l].present
  /\ links' = [links EXCEPT ![l] = [NoLink EXCEPT !.present = TRUE, !.active = TRUE,
                                                  !.limit_bytes = m]]
  /\ Forgive
  /\ UNCHANGED <<transport, phase, uuid, running, ok, pending, batch_bytes, unbilled>>

(* Any subset of the body's fields: a field that is absent keeps its value. *)
update_link(l) ==
  /\ links[l].present
  /\ \E a \in BOOLEAN, u \in {links[l].used_bytes, 0},
        m \in {links[l].limit_bytes} \union Limits, e \in {links[l].expired, FALSE} :
       links' = [links EXCEPT ![l] = [present |-> TRUE, active |-> a, expired |-> e,
                                      limit_bytes |-> m, used_bytes |-> u]]
  /\ Forgive
  /\ UNCHANGED <<transport, phase, uuid, running, ok, pending, batch_bytes, unbilled>>

delete_link(l) ==
  /\ links[l].present
  /\ links' = [links EXCEPT ![l] = NoLink]
  /\ UNCHANGED <<transport, phase, uuid, gateVars>>

(* The clock passes the link's expires_at. *)
Expire(l) ==
  /\ links[l].present /\ ~links[l].expired
  /\ links' = [links EXCEPT ![l].expired = TRUE]
  /\ UNCHANGED <<transport, phase, uuid, gateVars>>

backup_import ==
  /\ links' \in Backups
  /\ Forgive
  /\ UNCHANGED <<transport, phase, uuid, running, ok, pending, batch_bytes, unbilled>>
------------------------------------------------------------------------------
(* A tunnel up to its relays. *)

Accept(c, l) ==
  /\ phase[c] = "closed" /\ transport[c] = "tunnel"
  /\ is_link_allowed(links[l])
  /\ phase' = [phase EXCEPT ![c] = "accepted"]
  /\ uuid' = [uuid EXCEPT ![c] = l]
  /\ UNCHANGED <<links, transport, gateVars>>

(* The whole first frame is charged before its payload goes anywhere. *)
FirstChunk(c, n) ==
  /\ phase[c] = "accepted"
  /\ links[uuid[c]].used_bytes + n <= MaxUsed
  /\ check_and_use(uuid[c], n)
  /\ phase' = [phase EXCEPT ![c] = IF is_link_allowed(links[uuid[c]]) THEN "dialing"
                                                                      ELSE "closed"]
  /\ UNCHANGED <<transport, uuid, gateVars>>

(* Disconnect, bad header, handshake or connect timeout, refused connect. *)
SetupFails(c) ==
  /\ phase[c] \in {"accepted", "dialing"}
  /\ phase' = [phase EXCEPT ![c] = "closed"]
  /\ UNCHANGED <<links, transport, uuid, gateVars>>

(* Both relay tasks are created, each with a new gate. *)
Connected(c) ==
  /\ phase[c] = "dialing"
  /\ phase' = [phase EXCEPT ![c] = "relay"]
  /\ running' = [g \in Gates |-> IF g[1] = c THEN TRUE ELSE running[g]]
  /\ UNCHANGED <<links, transport, uuid, ok, pending, batch_bytes, unbilled, late>>

(* The first POST of a session id makes the session, and the uplink's gate, *)
(* for whatever uuid its URL names.                                         *)
OpenSession(c, l) ==
  /\ phase[c] = "closed" /\ transport[c] # "tunnel"
  /\ phase' = [phase EXCEPT ![c] = "session"]
  /\ uuid' = [uuid EXCEPT ![c] = l]
  /\ running' = [running EXCEPT ![<<c, "up">>] = TRUE]
  /\ UNCHANGED <<links, transport, ok, pending, batch_bytes, unbilled, late>>

(* A POST whose chunk the gate let through opens the connection; the pump   *)
(* has the gate of the downlink.                                            *)
SessionConnected(c) ==
  /\ phase[c] = "session" /\ running[<<c, "up">>]
  /\ phase' = [phase EXCEPT ![c] = "relay"]
  /\ running' = [running EXCEPT ![<<c, "down">>] = TRUE]
  /\ UNCHANGED <<links, transport, uuid, ok, pending, batch_bytes, unbilled, late>>
------------------------------------------------------------------------------
(* One frame of n bytes read by the relay of gate g (the POSTs of a         *)
(* session, for its uplink).  The gate batches it,                          *)
(* or (batch full, or QUOTA_CHECK_INTERVAL elapsed) settles the batch with  *)
(* the link; a refusal ends the relay and the frame is not forwarded.       *)

(* Mutant: only the elapsed time settles a batch, never its size. *)
AddBatchesAnySize(g, n) ==
  /\ pending[g] < QUOTA_MAX_BATCH
  /\ pending' = [pending EXCEPT ![g] = @ + n]
  /\ unbilled' = [unbilled EXCEPT ![g] = @ + n]
  /\ UNCHANGED <<links, running, ok, batch_bytes, late>>

AddBatches(g, n) ==
  LET l == uuid[g[1]] IN
  /\ pending[g] + n < batch_bytes[g]
  /\ pending' = [pending EXCEPT ![g] = @ + n]
  /\ unbilled' = [unbilled EXCEPT ![g] = @ + n]
  /\ late' = [late EXCEPT ![g] = IF is_link_allowed(links[l]) THEN 0 ELSE @ + n]
  /\ UNCHANGED <<links, running, ok, batch_bytes>>

AddGranted(g, n) ==
  LET l == uuid[g[1]] IN
  /\ is_link_allowed(links[l])
  /\ check_and_use(l, pending[g] + n)
  /\ unbilled' = [unbilled EXCEPT ![g] = @ - pending[g]]
  /\ UNCHANGED <<running, ok, late>>

(* Mutant: the relay forwards the frame and goes on after a refusal. *)
AddRefusedForwards(g, n) ==
  /\ ~is_link_allowed(links[uuid[g[1]]])
  /\ late[g] < QUOTA_MAX_BATCH
  /\ late' = [late EXCEPT ![g] = @ + n]
  /\ UNCHANGED <<links, running, ok, unbilled>>

(* Mutant: the relay drops the frame but keeps reading. *)
AddRefusedContinues(g, n) ==
  /\ ~is_link_allowed(links[uuid[g[1]]])
  /\ unbilled' = [unbilled EXCEPT ![g] = @ - pending[g]]
  /\ late' = [late EXCEPT ![g] = 0]
  /\ UNCHANGED <<links, running, ok>>

AddRefused(g, n) ==
  LET l == uuid[g[1]] IN
  /\ ~is_link_allowed(links[l])
  /\ check_and_use(l, pending[g] + n)
  /\ ok' = [ok EXCEPT ![g] = FALSE]
  /\ running' = [running EXCEPT ![g] = FALSE]
  /\ UNCHANGED <<unbilled, late>>

(* Mutant: the adapted batch is not clamped from below. *)
AddSettlesUnclamped(g, n) ==
  /\ pending' = [pending EXCEPT ![g] = 0]
  /\ \E b \in 0 .. QUOTA_MAX_BATCH : batch_bytes' = [batch_bytes EXCEPT ![g] = b]
  /\ AddGranted(g, n) \/ AddRefused(g, n)

(* A full batch is settled at once, a partial one when the interval is over. *)
AddSettles(g, n) ==
  /\ pending' = [pending EXCEPT ![g] = 0]
  /\ \E b \in Batch : batch_bytes' = [batch_bytes EXCEPT ![g] = b]
  /\ AddGranted(g, n) \/ AddRefused(g, n)

RelayFrame(g, n) ==
  /\ running[g] /\ ok[g]
  /\ links[uuid[g[1]]].used_bytes + n <= MaxUsed
  /\ AddBatches(g, n) \/ AddSettles(g, n)
  /\ UNCHANGED <<transport, phase, uuid>>

(* gate.flush: what is pending is charged if the link is still allowed and  *)
(* lost otherwise.                                                          *)
Flush(g) ==
  LET l == uuid[g[1]]
      granted == ok[g] /\ is_link_allowed(links[l])
  IN
  /\ pending' = [pending EXCEPT ![g] = 0]
  /\ IF granted
     THEN /\ check_and_use(l, pending[g])
          /\ unbilled' = [unbilled EXCEPT ![g] = @ - pending[g]]
          /\ UNCHANGED ok
     ELSE /\ ok' = [ok EXCEPT ![g] = @ /\ pending[g] = 0]
          /\ UNCHANGED <<links, unbilled>>
  /\ UNCHANGED <<transport, phase, uuid, batch_bytes, late>>

(* A stream-up POST ends with its body, and its session goes on.            *)
PostEnds(c) ==
  /\ transport[c] = "stream-up" /\ running[<<c, "up">>]
  /\ Flush(<<c, "up">>)
  /\ UNCHANGED running

(* The uplink's gate of a packet-up session has nobody to flush it: no POST *)
(* is the last one.                                                         *)
NeverFlushed(g) == transport[g[1]] = "packet-up" /\ g[2] = "up"

(* The relay of gate g is over.                                             *)
Ends(g) ==
  /\ running' = [running EXCEPT ![g] = FALSE]
  /\ IF NeverFlushed(g)
     THEN UNCHANGED <<links, transport, phase, uuid, ok, pending, batch_bytes, unbilled, late>>
     ELSE Flush(g)

(* Mutant: the relay's finally clause does not flush. *)
RelayEndNoFlush(g) ==
  /\ running[g]
  /\ running' = [running EXCEPT ![g] = FALSE]
  /\ pending' = [pending EXCEPT ![g] = 0]
  /\ UNCHANGED <<links, transport, phase, uuid, ok, batch_bytes, unbilled, late>>

(* End of stream, disconnect or an error of either side; of a session also  *)
(* an idle time or a failed POST.                                           *)
RelayEnd(g) == running[g] /\ Ends(g)

Other(d) == IF d = "up" THEN "down" ELSE "up"

(* Mutant: the handler waits for both relays (ALL_COMPLETED). *)
NeverCancel(g) == FALSE /\ UNCHANGED vars

(* Of a session _teardown cancels the pump only: a POST that waits for its  *)
(* client stays until the client sends or goes.                             *)
Cancellable(g) == transport[g[1]] = "tunnel" \/ g[2] = "down"

(* asyncio.wait(FIRST_COMPLETED) returned: the remaining relay is cancelled *)
(* (for native TCP, at the latest after the half-close timeout).            *)
CancelOther(g) ==
  /\ running[g] /\ phase[g[1]] = "relay" /\ Cancellable(g)
  /\ ~running[<<g[1], Other(g[2])>>]
  /\ Ends(g)

(* The tunnel's two gates are gone with its tasks. *)
CloseTunnel(c) ==
  /\ phase[c] \in Live
  /\ \A d \in Dirs : ~running[<<c, d>>]
  /\ phase' = [phase EXCEPT ![c] = "closed"]
  /\ ok' = [g \in Gates |-> IF g[1] = c THEN TRUE ELSE ok[g]]
  /\ pending' = [g \in Gates |-> IF g[1] = c THEN 0 ELSE pending[g]]
  /\ batch_bytes' = [g \in Gates |-> IF g[1] = c THEN QUOTA_START_BATCH ELSE batch_bytes[g]]
  /\ unbilled' = [g \in Gates |-> IF g[1] = c THEN 0 ELSE unbilled[g]]
  /\ late' = [g \in Gates |-> IF g[1] = c THEN 0 ELSE late[g]]
  /\ UNCHANGED <<links, transport, uuid, running>>
------------------------------------------------------------------------------
Next ==
  \/ \E l \in Links, m \in Limits : create_link(l, m)
  \/ \E l \in Links : update_link(l) \/ delete_link(l) \/ Expire(l)
  \/ backup_import
  \/ \E c \in Conns, l \in Links : Accept(c, l) \/ OpenSession(c, l)
  \/ \E c \in Conns, n \in 1..MaxChunk : FirstChunk(c, n)
  \/ \E c \in Conns : \/ SetupFails(c) \/ Connected(c) \/ CloseTunnel(c)
                      \/ SessionConnected(c) \/ PostEnds(c)
  \/ \E g \in Gates, n \in 1..MaxChunk : RelayFrame(g, n)
  \/ \E g \in Gates : RelayEnd(g) \/ CancelOther(g)

Spec == Init /\ [][Next]_vars

(* The event loop runs what is ready: a handler whose first relay is done   *)
(* is resumed, and so is the relay it cancelled.  Frames, clients (with     *)
(* their POSTs), servers and the admin owe nothing.                         *)
Fairness ==
  /\ \A g \in Gates : WF_vars(CancelOther(g))
  /\ \A c \in Conns : WF_vars(CloseTunnel(c))

FairSpec == Spec /\ Fairness
------------------------------------------------------------------------------
(* Billing is exact up to one batch: at any time, and whatever the admin or *)
(* the other tunnels do, a gate has let through at most QUOTA_MAX_BATCH - 1 *)
(* bytes it never charged, and it never charged a byte it did not relay     *)
(* (_QuotaGate.add / flush).                                                *)
UnbilledBounded == \A g \in Gates : unbilled[g] \in 0 .. QUOTA_MAX_BATCH - 1

(* A relay that ended without being refused has charged all it relayed: the *)
(* flush in its finally loses nothing (relay_ws_to_tcp, relay_tcp_to_ws,    *)
(* _pump_tcp_to_queue, stream_up_upload).  Only a packet-up session ends    *)
(* with less than a batch of its uplink uncharged (UnbilledBounded).        *)
EndedMeansBilled ==
  \A g \in Gates : ~running[g] /\ ok[g] /\ ~NeverFlushed(g) => unbilled[g] = 0

(* Once a link is disabled, expired, deleted or out of quota, each of its   *)
(* open relays lets less than one batch through before it is refused, also  *)
(* one that was still dialing (is_link_allowed is only consulted when a     *)
(* batch is settled).                                                       *)
LateTrafficBounded == \A g \in Gates : late[g] < QUOTA_MAX_BATCH

(* Concurrent tunnels cannot add up past the quota: whatever is charged to  *)
(* a limited link, its usage ends below the limit plus one batch and one    *)
(* frame, because each charge re-reads used_bytes (check_and_use).          *)
OvershootBounded ==
  [][\/ backup_import
     \/ \A l \in Links :
          links'[l].used_bytes > links[l].used_bytes /\ links[l].limit_bytes > 0
            => links'[l].used_bytes < links[l].limit_bytes + QUOTA_MAX_BATCH + MaxChunk - 1]_vars

(* When one direction of a tunnel ends or is refused, the other one is      *)
(* cancelled and the tunnel is released, even if its peer stays silent.  So *)
(* does an XHTTP session whose uplink ended release its pump; but a session *)
(* whose downlink ended keeps a silent POST as long as its client keeps it, *)
(* since _teardown cancels no POST.                                         *)
OneSideEndsBoth ==
  \A c \in Conns :
    (phase[c] = "relay" /\ \E d \in Dirs : ~running[<<c, d>>] /\ Cancellable(<<c, Other(d)>>))
      ~> phase[c] = "closed"

(* A tunnel or session that keeps passing frames for ever belongs to a link *)
(* that is allowed again and again: a disabled link's busy tunnel is cut.   *)
BusyTunnelIsAllowed ==
  \A g \in Gates :
    ([]<><<\E n \in 1..MaxChunk : RelayFrame(g, n)>>_vars)
      => []<>(is_link_allowed(links[uuid[g[1]]]) \/ phase[g[1]] = "closed")
==============================================================================
