---------------------------- MODULE Streams_proofs ----------------------------
(***************************************************************************)
(* Proofs about the chunk tunnels, for any number of them and streams of   *)
(* any length: replies outlive requests, nothing is lost before an end of  *)
(* stream, the decoder fails on split chunks only, and a refused link      *)
(* passes no VMess chunk.                                                  *)
(***************************************************************************)
EXTENDS Streams, TLAPS

Clients == [wire : Nat, term : BOOLEAN, end : {"open", "half", "gone"}]
Readers == [fed : Nat, taken : Nat, nonce : Nat, options : {"sound", "padding_only"}]
Targets == [got : Nat, eof : BOOLEAN, sent : Nat, read : Nat, open : BOOLEAN]

Types ==
  /\ link \in BOOLEAN
  /\ proto \in [Tunnels -> {"vmess-ws", "vmess-tcp", "ss-ws", "ss-tcp"}]
  /\ pc \in [Tunnels -> {"accepted", "handshake", "matched", "dialing",
                         "relay", "linger", "closed"}]
  /\ up \in [Tunnels -> {"none", "run"} \cup Outcomes]
  /\ down \in [Tunnels -> {"none", "run"} \cup Outcomes]
  /\ client \in [Tunnels -> Clients]
  /\ reader \in [Tunnels -> Readers]
  /\ target \in [Tunnels -> Targets]

(* A reader never has more than arrived.  VMess takes cell after cell, and  *)
(* what it took has reached the target.  The Shadowsocks decoder holds at   *)
(* most a length whose payload is missing, and its counter is past it.      *)
ReaderInv(t) ==
  /\ reader[t].fed <= client[t].wire
  /\ t \in Vmess =>
       /\ reader[t].taken = reader[t].fed
       /\ ~Live(t) /\ pc[t] # "closed" => target[t].got = 0 /\ reader[t].taken = 0
       /\ Live(t) /\ up[t] = "run" => target[t].got = reader[t].taken \div 2
  /\ t \in Ss /\ (pc[t] \in {"matched", "dialing"} \/ (Live(t) /\ up[t] = "run")) =>
       /\ reader[t].nonce = reader[t].fed /\ reader[t].taken % 2 = 0
       /\ reader[t].taken <= reader[t].fed /\ reader[t].fed <= reader[t].taken + 1

(* Only a TCP client half-closes, only a VMess client terminates; a task    *)
(* that was cancelled belongs to a tunnel that is closed.                   *)
EndInv(t) ==
  /\ client[t].end = "half" => t \in Tcp
  /\ client[t].term => t \in Vmess /\ client[t].wire % 2 = 1
  /\ up[t] # "expired"
  /\ up[t] = "cancelled" \/ down[t] = "cancelled" => pc[t] = "closed"
  /\ up[t] = "eof" /\ proto[t] = "ss-ws" => client[t].end = "gone"
  /\ pc[t] = "linger" => proto[t] = "ss-tcp" /\ Ended(up[t])
  /\ down[t] = "expired" /\ pc[t] # "closed" => t \in Vmess

ReplyInv(t) ==
  down[t] \in {"cancelled", "expired"} =>
    \/ up[t] \in {"quota", "reset", "error"}
    \/ client[t].end = "gone"
    \/ down[t] = "expired" /\ (t \in Vmess \/ (proto[t] = "ss-tcp" /\ up[t] = "eof"))

EofInv(t) ==
  target[t].eof /\ up[t] = "eof" /\ proto[t] # "vmess-ws" =>
    /\ client[t].term \/ client[t].end # "open"
    /\ target[t].got = client[t].wire \div 2

TunnelInv(t) == ReaderInv(t) /\ EndInv(t) /\ ReplyInv(t) /\ EofInv(t)

IInv == Types /\ \A t \in Tunnels : TunnelInv(t)

(* The tunnels beside t.                                                    *)
Same(s) ==
  /\ pc'[s] = pc[s] /\ up'[s] = up[s] /\ down'[s] = down[s]
  /\ client'[s] = client[s] /\ reader'[s] = reader[s] /\ target'[s] = target[s]

(* What a step of tunnel t is to the invariant.                             *)
StepOf(t) ==
  /\ Types' /\ proto' = proto /\ TunnelInv(t)'
  /\ \A s \in Tunnels \ {t} : Same(s)
------------------------------------------------------------------------------
LEMMA ProtoFacts ==
  ASSUME Types, NEW t \in Tunnels
  PROVE  /\ t \in Vmess \/ t \in Ss
         /\ ~(t \in Vmess /\ t \in Ss)
         /\ t \in Tcp <=> proto[t] \in {"vmess-tcp", "ss-tcp"}
         /\ t \in Ss <=> proto[t] \in {"ss-ws", "ss-tcp"}
         /\ t \in Vmess <=> proto[t] \in {"vmess-ws", "vmess-tcp"}
BY DEF Types, Clients, Readers, Targets, Vmess, Ss, Tcp

LEMMA ProtoKept ==
  ASSUME proto' = proto
  PROVE  Vmess' = Vmess /\ Ss' = Ss /\ Tcp' = Tcp
BY DEF Vmess, Ss, Tcp

LEMMA HalfFacts ==
  ASSUME NEW n \in Nat
  PROVE  /\ n \div 2 \in Nat
         /\ n % 2 = 0 => n = 2 * (n \div 2) /\ (n + 1) \div 2 = n \div 2 /\ (n + 1) % 2 = 1
         /\ n % 2 = 1 => n = 2 * (n \div 2) + 1 /\ (n + 1) \div 2 = (n \div 2) + 1 /\ (n + 1) % 2 = 0
         /\ n % 2 = 0 \/ n % 2 = 1
OBVIOUS

(* What one call of the decoder does to a reader that is sound before it.   *)
LEMMA DecoderFacts ==
  ASSUME NEW r \in Readers, r.taken % 2 = 0, r.taken <= r.fed, ~CannotOpen(r)
  PROVE  LET q == try_decrypt_chunks(r) IN
         /\ q \in Readers
         /\ q.fed = r.fed /\ q.nonce = r.fed /\ q.taken % 2 = 0
         /\ q.taken <= q.fed /\ q.fed <= q.taken + 1
<1>1. PICK d \in Nat : d = r.fed - r.taken
  BY DEF Readers
<1>2. /\ d \div 2 \in Nat /\ 2 * (d \div 2) <= d /\ d <= 2 * (d \div 2) + 1
  BY HalfFacts
<1>3. PICK k \in Nat : k = r.taken + 2 * (d \div 2)
  BY <1>2 DEF Readers
<1>4. k % 2 = 0 /\ k <= r.fed /\ r.fed <= k + 1
  BY <1>1, <1>2, <1>3, HalfFacts DEF Readers
<1>5. try_decrypt_chunks(r) = [r EXCEPT !.taken = k, !.nonce = r.fed]
  BY <1>1, <1>3 DEF try_decrypt_chunks
<1> QED
  BY <1>4, <1>5 DEF Readers

LEMMA FeedFacts ==
  ASSUME NEW r \in Readers,
         NEW m \in Nat
  PROVE  /\ feed(r, m) \in Readers
         /\ FreshReader(r) \in Readers
         /\ feed(r, m).fed = r.fed + m /\ feed(r, m).taken = r.taken /\ feed(r, m).nonce = r.nonce
         /\ FreshReader(r).fed = r.fed /\ FreshReader(r).taken = 0 /\ FreshReader(r).nonce = 0
<1>1. r.fed + m \in Nat
  BY DEF Readers
<1>2. /\ feed(r, m) \in Readers
      /\ feed(r, m).fed = r.fed + m /\ feed(r, m).taken = r.taken /\ feed(r, m).nonce = r.nonce
  BY <1>1 DEF feed, Readers
<1>3. /\ FreshReader(r) \in Readers
      /\ FreshReader(r).fed = r.fed /\ FreshReader(r).taken = 0 /\ FreshReader(r).nonce = 0
  BY DEF FreshReader, Readers
<1> QED
  BY <1>2, <1>3

LEMMA PieceFacts ==
  ASSUME IInv, NEW t \in Tunnels, NEW m \in Pieces(t)
  PROVE  m \in Nat /\ reader[t].fed + m <= client[t].wire
<1>1. reader[t].fed \in Nat /\ client[t].wire \in Nat /\ reader[t].fed <= client[t].wire
  BY DEF IInv, Types, Clients, Readers, Targets, TunnelInv, ReaderInv
<1> QED
  BY <1>1 DEF Pieces

(* The records a step writes: the value is of its kind, the rest is kept.   *)
LEMMA EofTold ==
  ASSUME NEW g \in Targets, NEW h, h = [g EXCEPT !.eof = TRUE]
  PROVE  h \in Targets /\ h.got = g.got
BY DEF Targets

LEMMA Shut ==
  ASSUME NEW g \in Targets, NEW h, h = [g EXCEPT !.open = FALSE]
  PROVE  h \in Targets /\ h.got = g.got /\ h.eof = g.eof
BY DEF Targets

LEMMA Forwarded ==
  ASSUME NEW g \in Targets, NEW n \in Nat, NEW h, h = [g EXCEPT !.got = n]
  PROVE  h \in Targets /\ h.got = n /\ h.eof = g.eof
BY DEF Targets

LEMMA Answered ==
  ASSUME NEW g \in Targets, NEW n \in Nat, NEW h,
         h = [g EXCEPT !.sent = n] \/ h = [g EXCEPT !.read = n]
  PROVE  h \in Targets /\ h.got = g.got /\ h.eof = g.eof
<1>1. CASE h = [g EXCEPT !.sent = n]
  BY <1>1 DEF Targets
<1>2. CASE h = [g EXCEPT !.read = n]
  BY <1>2 DEF Targets
<1> QED
  BY <1>1, <1>2

(* A step of one tunnel gives each variable its value at t, or leaves it:   *)
(* it keeps the types, and every other tunnel.                              *)
Puts(f, g, t, v) == g = [f EXCEPT ![t] = v] \/ (g = f /\ v = f[t])

Handlers == {"accepted", "handshake", "matched", "dialing", "relay", "linger", "closed"}
Tasks    == {"none", "run"} \cup Outcomes

Patch(t, p, u, d, c, r, g) ==
  /\ Puts(pc, pc', t, p) /\ Puts(up, up', t, u) /\ Puts(down, down', t, d)
  /\ Puts(client, client', t, c) /\ Puts(reader, reader', t, r) /\ Puts(target, target', t, g)
  /\ link' \in BOOLEAN /\ proto' = proto

(* The state after such a step.                                             *)
Landed(t, p, u, d, c, r, g) ==
  /\ Types' /\ proto' = proto /\ \A s \in Tunnels \ {t} : Same(s)
  /\ pc'[t] = p /\ up'[t] = u /\ down'[t] = d
  /\ client'[t] = c /\ reader'[t] = r /\ target'[t] = g
  /\ Vmess' = Vmess /\ Ss' = Ss /\ Tcp' = Tcp

LEMMA Patched ==
  ASSUME Types, NEW t \in Tunnels, NEW p \in Handlers, NEW u \in Tasks, NEW d \in Tasks,
         NEW c \in Clients, NEW r \in Readers, NEW g \in Targets, Patch(t, p, u, d, c, r, g)
  PROVE  Landed(t, p, u, d, c, r, g)
<1>1. /\ pc' \in [Tunnels -> Handlers] /\ pc'[t] = p
      /\ \A s \in Tunnels \ {t} : pc'[s] = pc[s]
  <2>1. pc \in [Tunnels -> Handlers] /\ Puts(pc, pc', t, p)
    BY DEF Types, Handlers, Patch
  <2> QED BY <2>1 DEF Puts
<1>2. /\ up' \in [Tunnels -> Tasks] /\ up'[t] = u
      /\ \A s \in Tunnels \ {t} : up'[s] = up[s]
  <2>1. up \in [Tunnels -> Tasks] /\ Puts(up, up', t, u)
    BY DEF Types, Tasks, Patch
  <2> QED BY <2>1 DEF Puts
<1>3. /\ down' \in [Tunnels -> Tasks] /\ down'[t] = d
      /\ \A s \in Tunnels \ {t} : down'[s] = down[s]
  <2>1. down \in [Tunnels -> Tasks] /\ Puts(down, down', t, d)
    BY DEF Types, Tasks, Patch
  <2> QED BY <2>1 DEF Puts
<1>4. /\ client' \in [Tunnels -> Clients] /\ client'[t] = c
      /\ \A s \in Tunnels \ {t} : client'[s] = client[s]
  <2>1. client \in [Tunnels -> Clients] /\ Puts(client, client', t, c)
    BY DEF Types, Patch
  <2> QED BY <2>1 DEF Puts
<1>5. /\ reader' \in [Tunnels -> Readers] /\ reader'[t] = r
      /\ \A s \in Tunnels \ {t} : reader'[s] = reader[s]
  <2>1. reader \in [Tunnels -> Readers] /\ Puts(reader, reader', t, r)
    BY DEF Types, Patch
  <2> QED BY <2>1 DEF Puts
<1>6. /\ target' \in [Tunnels -> Targets] /\ target'[t] = g
      /\ \A s \in Tunnels \ {t} : target'[s] = target[s]
  <2>1. target \in [Tunnels -> Targets] /\ Puts(target, target', t, g)
    BY DEF Types, Patch
  <2> QED BY <2>1 DEF Puts
<1>7. link' \in BOOLEAN /\ proto' = proto
  BY DEF Patch
<1>8. Types'
  BY <1>1, <1>2, <1>3, <1>4, <1>5, <1>6, <1>7 DEF Types, Handlers, Tasks
<1>9. \A s \in Tunnels \ {t} : Same(s)
  BY <1>1, <1>2, <1>3, <1>4, <1>5, <1>6 DEF Same
<1> QED
  BY <1>1, <1>2, <1>3, <1>4, <1>5, <1>6, <1>7, <1>8, <1>9, ProtoKept DEF Landed

(* The parts of the tunnel a step is at.                                    *)
LEMMA PartTypes ==
  ASSUME Types, NEW t \in Tunnels
  PROVE  /\ link \in BOOLEAN /\ pc[t] \in Handlers /\ up[t] \in Tasks /\ down[t] \in Tasks
         /\ client[t] \in Clients /\ reader[t] \in Readers /\ target[t] \in Targets
BY DEF Types, Handlers, Tasks

(* The client's end goes on: it never takes a cell back, adds none after it *)
(* ended its stream, and comes back from no end.                            *)
LEMMA ClientStep ==
  ASSUME IInv, NEW t \in Tunnels, NEW c \in Clients,
         client' = [client EXCEPT ![t] = c],
         UNCHANGED <<link, proto, pc, up, down, reader, target>>,
         client[t].wire <= c.wire,
         c.wire # client[t].wire => client[t].end = "open" /\ ~client[t].term,
         client[t].term => c.term,
         client[t].end # "open" => c.end # "open",
         client[t].end = "gone" => c.end = "gone",
         c.end = "half" => t \in Tcp,
         c.term => t \in Vmess /\ c.wire % 2 = 1
  PROVE  StepOf(t)
<1>1. Types /\ TunnelInv(t)
  BY DEF IInv
<1>2. Patch(t, pc[t], up[t], down[t], c, reader[t], target[t])
  BY <1>1 DEF Patch, Puts, Types
<1>3. /\ pc[t] \in Handlers /\ up[t] \in Tasks /\ down[t] \in Tasks
      /\ client[t] \in Clients /\ reader[t] \in Readers /\ target[t] \in Targets
  BY <1>1, PartTypes
<1>4. Landed(t, pc[t], up[t], down[t], c, reader[t], target[t])
  BY <1>1, <1>2, <1>3, Patched
<1>5. ReaderInv(t)'
  BY <1>1, <1>3, <1>4 DEF Landed, TunnelInv, ReaderInv, Live, Clients, Readers
<1>6. EndInv(t)'
  BY <1>1, <1>4 DEF Landed, TunnelInv, EndInv
<1>7. ReplyInv(t)' /\ EofInv(t)'
  BY <1>1, <1>4 DEF Landed, TunnelInv, ReplyInv, EofInv
<1> QED
  BY <1>4, <1>5, <1>6, <1>7 DEF Landed, StepOf, TunnelInv

(* The target's side goes on, and was told nothing.                         *)
LEMMA TargetStep ==
  ASSUME IInv, NEW t \in Tunnels, NEW g \in Targets,
         target' = [target EXCEPT ![t] = g],
         UNCHANGED <<link, proto, pc, up, down, client, reader>>,
         g.got = target[t].got, g.eof = target[t].eof
  PROVE  StepOf(t)
<1>1. Types /\ TunnelInv(t)
  BY DEF IInv
<1>2. Patch(t, pc[t], up[t], down[t], client[t], reader[t], g)
  BY <1>1 DEF Patch, Puts, Types
<1>3. Landed(t, pc[t], up[t], down[t], client[t], reader[t], g)
  BY <1>1, <1>2, Patched, PartTypes
<1>4. ReaderInv(t)'
  BY <1>1, <1>3 DEF Landed, TunnelInv, ReaderInv, Live
<1>5. EndInv(t)' /\ ReplyInv(t)'
  BY <1>1, <1>3 DEF Landed, TunnelInv, EndInv, ReplyInv
<1>6. EofInv(t)'
  BY <1>1, <1>3 DEF Landed, TunnelInv, EofInv
<1> QED
  BY <1>3, <1>4, <1>5, <1>6 DEF Landed, StepOf, TunnelInv

(* The relay towards the client ends by itself.                             *)
LEMMA DownEndsStep ==
  ASSUME IInv, NEW t \in Tunnels, NEW how \in Outcomes \ {"cancelled"}, DownEnds(t, how),
         how = "expired" => t \in Vmess
  PROVE  StepOf(t)
<1>1. Types /\ TunnelInv(t)
  BY DEF IInv
<1>2. Patch(t, pc[t], up[t], how, client[t], reader[t], target[t])
  BY <1>1 DEF DownEnds, Patch, Puts, Types
<1>3. Landed(t, pc[t], up[t], how, client[t], reader[t], target[t])
  <2>1. how \in Tasks
    BY DEF Tasks
  <2> QED BY <1>1, <1>2, <2>1, Patched, PartTypes
<1>4. ReaderInv(t)'
  BY <1>1, <1>3 DEF Landed, TunnelInv, ReaderInv, Live
<1>5. EndInv(t)'
  BY <1>1, <1>3 DEF Landed, TunnelInv, EndInv
<1>6. ReplyInv(t)'
  BY <1>3 DEF Landed, ReplyInv
<1>7. EofInv(t)'
  BY <1>1, <1>3 DEF Landed, TunnelInv, EofInv
<1> QED
  BY <1>3, <1>4, <1>5, <1>6, <1>7 DEF Landed, StepOf, TunnelInv

(* The relay towards the target ends while the tunnel lives: with "eof"     *)
(* only at the end of the client's stream.                                  *)
LEMMA UpEndsStep ==
  ASSUME IInv, NEW t \in Tunnels, Live(t), NEW how \in {"eof", "quota", "reset", "error"},
         UpEnds(t, how) \/ (UpStops(t, how) /\ how = "error"),
         how = "eof" /\ proto[t] # "vmess-ws" =>
           /\ client[t].term \/ client[t].end # "open"
           /\ target[t].got = client[t].wire \div 2,
         how = "eof" /\ proto[t] = "ss-ws" => client[t].end = "gone"
  PROVE  StepOf(t)
<1>1. Types /\ TunnelInv(t)
  BY DEF IInv
<1>2. PICK g \in Targets : /\ Patch(t, pc[t], how, down[t], client[t], reader[t], g)
                           /\ g.got = target[t].got
  <2>1. CASE UpEnds(t, how)
    <3>1. PICK g : g = [target[t] EXCEPT !.eof = TRUE]
      OBVIOUS
    <3>2. target' = [target EXCEPT ![t] = g] /\ g \in Targets /\ g.got = target[t].got
      BY <1>1, <2>1, <3>1, EofTold, PartTypes DEF UpEnds
    <3>3. Patch(t, pc[t], how, down[t], client[t], reader[t], g)
      BY <1>1, <2>1, <3>2 DEF UpEnds, Patch, Puts, Types
    <3> QED BY <3>2, <3>3
  <2>2. CASE UpStops(t, how)
    <3>1. Patch(t, pc[t], how, down[t], client[t], reader[t], target[t])
      BY <1>1, <2>2 DEF UpStops, Patch, Puts, Types
    <3> QED BY <1>1, <3>1, PartTypes
  <2> QED BY <2>1, <2>2
<1>3. Landed(t, pc[t], how, down[t], client[t], reader[t], g)
  <2>1. how \in Tasks
    BY DEF Tasks, Outcomes
  <2> QED BY <1>1, <1>2, <2>1, Patched, PartTypes
<1>4. /\ pc[t] # "closed" /\ down[t] # "cancelled" /\ (down[t] = "expired" => t \in Vmess)
  BY <1>1 DEF TunnelInv, EndInv, Live
<1>5. ReaderInv(t)'
  BY <1>1, <1>3, <1>4 DEF Landed, TunnelInv, ReaderInv, Live
<1>6. EndInv(t)'
  BY <1>1, <1>3, <1>4 DEF Landed, TunnelInv, EndInv, Ended, Outcomes
<1>7. ReplyInv(t)'
  BY <1>3, <1>4 DEF Landed, ReplyInv
<1>8. EofInv(t)'
  BY <1>2, <1>3 DEF Landed, EofInv
<1> QED
  BY <1>3, <1>5, <1>6, <1>7, <1>8 DEF Landed, StepOf, TunnelInv

(* A handler that never came to relay closes.                               *)
LEMMA ClosesStep ==
  ASSUME IInv, NEW t \in Tunnels, Closes(t)
  PROVE  StepOf(t)
<1>1. Types /\ TunnelInv(t)
  BY DEF IInv
<1>2. Patch(t, "closed", up[t], down[t], client[t], reader[t], target[t])
  BY <1>1 DEF Closes, Patch, Puts, Types
<1>3. Landed(t, "closed", up[t], down[t], client[t], reader[t], target[t])
  <2>1. "closed" \in Handlers
    BY DEF Handlers
  <2> QED BY <1>1, <1>2, <2>1, Patched, PartTypes
<1>4. ReaderInv(t)'
  BY <1>1, <1>3 DEF Landed, TunnelInv, ReaderInv, Live
<1>5. EndInv(t)' /\ ReplyInv(t)'
  BY <1>1, <1>3 DEF Landed, TunnelInv, EndInv, ReplyInv
<1>6. EofInv(t)'
  BY <1>1, <1>3 DEF Landed, TunnelInv, EofInv
<1> QED
  BY <1>3, <1>4, <1>5, <1>6 DEF Landed, StepOf, TunnelInv

(* A handler goes on from one place to the next, relays or waits: what its  *)
(* new place asks of the reader holds already.                              *)
LEMMA MovesStep ==
  ASSUME IInv, NEW t \in Tunnels, NEW p \in Handlers \ {"closed"},
         pc' = [pc EXCEPT ![t] = p],
         UNCHANGED <<link, proto, up, down, client, reader, target>>,
         \/ p = "linger" /\ pc[t] = "relay" /\ proto[t] = "ss-tcp" /\ Ended(up[t])
         \/ p = "handshake" /\ pc[t] = "accepted"
         \/ p = "dialing" /\ pc[t] = "matched"
  PROVE  StepOf(t)
<1>1. Types /\ TunnelInv(t)
  BY DEF IInv
<1>2. Patch(t, p, up[t], down[t], client[t], reader[t], target[t])
  BY <1>1 DEF Patch, Puts, Types
<1>3. Landed(t, p, up[t], down[t], client[t], reader[t], target[t])
  BY <1>1, <1>2, Patched, PartTypes
<1>4. ReaderInv(t)'
  BY <1>1, <1>3 DEF Landed, TunnelInv, ReaderInv, Live
<1>5. EndInv(t)'
  <2>1. pc[t] # "closed"
    OBVIOUS
  <2>2. /\ p # "closed" /\ up[t] # "cancelled" /\ down[t] # "cancelled"
        /\ p = "linger" => proto[t] = "ss-tcp" /\ Ended(up[t])
    BY <1>1, <2>1 DEF TunnelInv, EndInv
  <2> QED BY <1>1, <1>3, <2>1, <2>2 DEF Landed, TunnelInv, EndInv, Ended
<1>6. ReplyInv(t)'
  BY <1>1, <1>3 DEF Landed, TunnelInv, ReplyInv
<1>7. EofInv(t)'
  BY <1>1, <1>3 DEF Landed, TunnelInv, EofInv
<1> QED
  BY <1>3, <1>4, <1>5, <1>6, <1>7 DEF Landed, StepOf, TunnelInv

(* The relay starts, with the chunks that came with the handshake.          *)
LEMMA RelayStartsStep ==
  ASSUME IInv, NEW t \in Tunnels, pc[t] = "dialing", NEW n \in Nat, RelayStarts(t, n),
         t \in Vmess => n = 0
  PROVE  StepOf(t)
<1>1. Types /\ TunnelInv(t)
  BY DEF IInv
<1>2. PICK g : g = [target[t] EXCEPT !.got = n]
  OBVIOUS
<1>3. g \in Targets /\ g.got = n
  BY <1>1, <1>2, Forwarded, PartTypes
<1>4. Landed(t, "relay", "run", "run", client[t], reader[t], g)
  <2>1. Patch(t, "relay", "run", "run", client[t], reader[t], g)
    <3>1. target' = [target EXCEPT ![t] = g]
      BY <1>2 DEF RelayStarts
    <3> QED BY <1>1, <3>1 DEF RelayStarts, Patch, Puts, Types
  <2>2. "relay" \in Handlers /\ "run" \in Tasks
    BY DEF Handlers, Tasks
  <2> QED BY <1>1, <1>3, <2>1, <2>2, Patched, PartTypes
<1>5. ReaderInv(t)'
  BY <1>1, <1>3, <1>4, HalfFacts DEF Landed, TunnelInv, ReaderInv, Live
<1>6. EndInv(t)' /\ ReplyInv(t)' /\ EofInv(t)'
  BY <1>1, <1>4 DEF Landed, TunnelInv, EndInv, ReplyInv, EofInv
<1> QED
  BY <1>4, <1>5, <1>6 DEF Landed, StepOf, TunnelInv

(* The relay ends: the reply is cut for a reason, or it was over.           *)
LEMMA RelayClosesStep ==
  ASSUME IInv, NEW t \in Tunnels, Live(t), NEW why \in {"cancelled", "expired"},
         RelayCloses(t, why),
         why = "cancelled" /\ ~Ended(down[t]) =>
           up[t] \in {"quota", "reset", "error"} \/ client[t].end = "gone",
         why = "expired" => proto[t] = "ss-tcp" /\ Ended(up[t])
  PROVE  StepOf(t)
<1>1. Types /\ TunnelInv(t)
  BY DEF IInv
<1>2. PICK u, d : /\ u = IF Ended(up[t]) THEN up[t] ELSE "cancelled"
                  /\ d = IF Ended(down[t]) THEN down[t] ELSE why
  OBVIOUS
<1>3. u \in Tasks /\ d \in Tasks
  BY <1>1, <1>2, PartTypes DEF Tasks, Outcomes
<1>4. Landed(t, "closed", u, d, client[t], reader[t], target[t])
  <2>1. Patch(t, "closed", u, d, client[t], reader[t], target[t])
    BY <1>1, <1>2 DEF RelayCloses, Patch, Puts, Types
  <2>2. "closed" \in Handlers
    BY DEF Handlers
  <2> QED BY <1>1, <1>3, <2>1, <2>2, Patched, PartTypes
<1>5. /\ up[t] # "cancelled" /\ up[t] # "expired" /\ down[t] # "cancelled"
      /\ down[t] = "expired" => t \in Vmess
  BY <1>1 DEF TunnelInv, EndInv, Live
<1>6. ReaderInv(t)'
  BY <1>1, <1>4 DEF Landed, TunnelInv, ReaderInv, Live
<1>7. EndInv(t)'
  BY <1>1, <1>2, <1>4 DEF Landed, TunnelInv, EndInv
<1>8. ReplyInv(t)'
  <2>1. /\ up'[t] = u /\ down'[t] = d /\ client'[t] = client[t] /\ proto' = proto /\ Vmess' = Vmess
    BY <1>4 DEF Landed
  <2>2. CASE Ended(down[t])
    <3>1. d = down[t]
      BY <1>2, <2>2
    <3> QED BY <1>5, <2>1, <3>1 DEF ReplyInv
  <2>3. CASE ~Ended(down[t]) /\ why = "cancelled"
    <3>1. up[t] \in {"quota", "reset", "error"} => u = up[t]
      BY <1>2 DEF Ended, Outcomes
    <3> QED BY <1>2, <2>1, <2>3, <3>1 DEF ReplyInv
  <2>4. CASE ~Ended(down[t]) /\ why = "expired"
    <3>1. u = up[t] /\ d = "expired" /\ u \in {"eof", "quota", "reset", "error"}
      BY <1>2, <1>5, <2>4 DEF Ended, Outcomes
    <3> QED BY <2>1, <2>4, <3>1 DEF ReplyInv
  <2> QED BY <2>2, <2>3, <2>4
<1>9. EofInv(t)'
  BY <1>1, <1>2, <1>4 DEF Landed, TunnelInv, EofInv
<1> QED
  BY <1>4, <1>6, <1>7, <1>8, <1>9 DEF Landed, StepOf, TunnelInv

LEMMA Surrounded ==
  ASSUME IInv, NEW t \in Tunnels,
         \/ ClientSends(t) \/ ClientTerminates(t) \/ ClientHalfCloses(t) \/ ClientLeaves(t)
         \/ TargetSends(t) \/ TargetCloses(t)
  PROVE  StepOf(t)
<1>1. Types /\ TunnelInv(t) /\ client[t] \in Clients /\ target[t] \in Targets
  BY PartTypes DEF IInv
<1>2. /\ client[t].wire \in Nat /\ client[t].wire + 1 \in Nat
      /\ client[t].wire <= client[t].wire + 1
  BY <1>1 DEF Clients
<1>3. CASE ClientSends(t)
  <2>1. PICK c : c = [client[t] EXCEPT !.wire = client[t].wire + 1]
    OBVIOUS
  <2>2. c \in Clients /\ c.wire = client[t].wire + 1 /\ c.term = client[t].term /\ c.end = client[t].end
    BY <1>1, <1>2, <2>1 DEF Clients
  <2>3. /\ client' = [client EXCEPT ![t] = c] /\ client[t].end = "open" /\ ~client[t].term
        /\ UNCHANGED <<link, proto, pc, up, down, reader, target>>
    BY <1>3, <2>1 DEF ClientSends
  <2> QED BY <1>2, <2>2, <2>3, ClientStep
<1>4. CASE ClientTerminates(t)
  <2>1. PICK c : c = [client[t] EXCEPT !.wire = client[t].wire + 1, !.term = TRUE]
    OBVIOUS
  <2>2. c \in Clients /\ c.wire = client[t].wire + 1 /\ c.end = client[t].end
    BY <1>1, <1>2, <2>1 DEF Clients
  <2>3. /\ client' = [client EXCEPT ![t] = c] /\ t \in Vmess
        /\ client[t].end = "open" /\ ~client[t].term
        /\ UNCHANGED <<link, proto, pc, up, down, reader, target>>
    BY <1>4, <2>1 DEF ClientTerminates
  <2>4. c.wire % 2 = 1
    BY <1>2, <1>4, <2>2, HalfFacts DEF ClientTerminates
  <2> QED BY <1>2, <2>2, <2>3, <2>4, ClientStep
<1>5. CASE ClientHalfCloses(t)
  <2>1. PICK c : c = [client[t] EXCEPT !.end = "half"]
    OBVIOUS
  <2>2. c \in Clients /\ c.wire = client[t].wire /\ c.term = client[t].term /\ c.end = "half"
    BY <1>1, <2>1 DEF Clients
  <2>3. /\ client' = [client EXCEPT ![t] = c] /\ t \in Tcp /\ client[t].end = "open"
        /\ UNCHANGED <<link, proto, pc, up, down, reader, target>>
    BY <1>5, <2>1 DEF ClientHalfCloses
  <2>4. c.term => t \in Vmess /\ c.wire % 2 = 1
    BY <1>1, <2>2 DEF TunnelInv, EndInv
  <2>5. client[t].wire <= c.wire
    BY <1>2, <2>2
  <2> QED BY <2>2, <2>3, <2>4, <2>5, ClientStep
<1>6. CASE ClientLeaves(t)
  <2>1. PICK c : c = [client[t] EXCEPT !.end = "gone"]
    OBVIOUS
  <2>2. c \in Clients /\ c.wire = client[t].wire /\ c.term = client[t].term /\ c.end = "gone"
    BY <1>1, <2>1 DEF Clients
  <2>3. /\ client' = [client EXCEPT ![t] = c]
        /\ UNCHANGED <<link, proto, pc, up, down, reader, target>>
    BY <1>6, <2>1 DEF ClientLeaves
  <2>4. c.term => t \in Vmess /\ c.wire % 2 = 1
    BY <1>1, <2>2 DEF TunnelInv, EndInv
  <2>5. client[t].wire <= c.wire
    BY <1>2, <2>2
  <2> QED BY <2>2, <2>3, <2>4, <2>5, ClientStep
<1>7. CASE TargetSends(t)
  <2>1. PICK g : g = [target[t] EXCEPT !.sent = target[t].sent + 1]
    OBVIOUS
  <2>2. target[t].sent + 1 \in Nat
    BY <1>1 DEF Targets
  <2>3. g \in Targets /\ g.got = target[t].got /\ g.eof = target[t].eof
    BY <1>1, <2>1, <2>2, Answered
  <2>4. /\ target' = [target EXCEPT ![t] = g]
        /\ UNCHANGED <<link, proto, pc, up, down, client, reader>>
    BY <1>7, <2>1 DEF TargetSends
  <2> QED BY <2>3, <2>4, TargetStep
<1>8. CASE TargetCloses(t)
  <2>1. PICK g : g = [target[t] EXCEPT !.open = FALSE]
    OBVIOUS
  <2>2. g \in Targets /\ g.got = target[t].got /\ g.eof = target[t].eof
    BY <1>1, <2>1, Shut
  <2>3. /\ target' = [target EXCEPT ![t] = g]
        /\ UNCHANGED <<link, proto, pc, up, down, client, reader>>
    BY <1>8, <2>1 DEF TargetCloses
  <2> QED BY <2>2, <2>3, TargetStep
<1> QED
  BY <1>3, <1>4, <1>5, <1>6, <1>7, <1>8

LEMMA VmessHandlerStep ==
  ASSUME IInv, NEW t \in Tunnels,
         \/ VmessAccept(t) \/ VmessRequest(t) \/ VmessNoRequest(t) \/ VmessConnected(t)
         \/ VmessUnreachable(t)
  PROVE  StepOf(t)
<1>1. Types /\ TunnelInv(t) /\ reader[t] \in Readers
  BY PartTypes DEF IInv
<1>2. CASE VmessAccept(t)
  <2>1. CASE link
    <3>1. /\ pc' = [pc EXCEPT ![t] = "handshake"] /\ pc[t] = "accepted"
          /\ UNCHANGED <<link, proto, up, down, client, reader, target>>
      BY <1>2, <2>1 DEF VmessAccept
    <3> QED BY <3>1, MovesStep DEF Handlers
  <2>2. CASE ~link
    <3>1. Closes(t)
      BY <1>2, <2>2 DEF VmessAccept, Closes
    <3> QED BY <3>1, ClosesStep
  <2> QED BY <2>1, <2>2
<1>3. CASE VmessRequest(t)
  <2>1. PICK h \in Headers :
          IF decode_request(h) = "request" /\ link
          THEN /\ pc' = [pc EXCEPT ![t] = "dialing"]
               /\ reader' = [reader EXCEPT ![t].options = IF h = "good" THEN "sound" ELSE h]
          ELSE pc' = [pc EXCEPT ![t] = "closed"] /\ UNCHANGED reader
    BY <1>3 DEF VmessRequest
  <2>2. decode_request(h) = "request" => h \in {"good", "padding_only"}
    BY <2>1 DEF decode_request, Headers
  <2>3. /\ UNCHANGED <<link, proto, up, down, client, target>>
        /\ t \in Vmess /\ pc[t] = "handshake"
    BY <1>3 DEF VmessRequest
  <2>4. CASE decode_request(h) = "request" /\ link
    <3>1. PICK o \in {"sound", "padding_only"} : o = IF h = "good" THEN "sound" ELSE h
      BY <2>2, <2>4
    <3>2. PICK r : r = [reader[t] EXCEPT !.options = o]
      OBVIOUS
    <3>3. r \in Readers /\ r.fed = reader[t].fed /\ r.taken = reader[t].taken
      BY <1>1, <3>2 DEF Readers
    <3>4. Landed(t, "dialing", up[t], down[t], client[t], r, target[t])
      <4>1. Patch(t, "dialing", up[t], down[t], client[t], r, target[t])
        BY <1>1, <2>1, <2>3, <2>4, <3>1, <3>2 DEF Patch, Puts, Types
      <4>2. "dialing" \in Handlers
        BY DEF Handlers
      <4> QED BY <1>1, <3>3, <4>1, <4>2, Patched, PartTypes
    <3>5. t \in Vmess /\ t \notin Ss
      BY <1>1, <2>3, ProtoFacts
    <3>6. ReaderInv(t)'
      BY <1>1, <2>3, <3>3, <3>4, <3>5 DEF Landed, TunnelInv, ReaderInv, Live
    <3>7. EndInv(t)' /\ ReplyInv(t)' /\ EofInv(t)'
      BY <1>1, <2>3, <3>4 DEF Landed, TunnelInv, EndInv, ReplyInv, EofInv
    <3> QED BY <3>4, <3>6, <3>7 DEF Landed, StepOf, TunnelInv
  <2>5. CASE ~(decode_request(h) = "request" /\ link)
    <3>1. Closes(t)
      BY <2>1, <2>3, <2>5 DEF Closes
    <3> QED BY <3>1, ClosesStep
  <2> QED BY <2>4, <2>5
<1>4. CASE VmessNoRequest(t) \/ VmessUnreachable(t)
  BY <1>4, ClosesStep DEF VmessNoRequest, VmessUnreachable
<1>5. CASE VmessConnected(t)
  BY <1>5, RelayStartsStep DEF VmessConnected
<1> QED
  BY <1>2, <1>3, <1>4, <1>5

(* The reader takes one cell; a payload also reaches the target.            *)
LEMMA TakesStep ==
  ASSUME IInv, NEW t \in Tunnels, Arrived(t), Takes(t),
         UNCHANGED <<link, proto, pc, down, client>>,
         NEW u \in {"run", "quota"}, Puts(up, up', t, u),
         NEW g \in Targets, Puts(target, target', t, g),
         u = "run" => g.got = (reader[t].taken + 1) \div 2
  PROVE  StepOf(t)
<1>1. /\ Types /\ TunnelInv(t) /\ t \in Vmess /\ t \notin Ss
      /\ reader[t] \in Readers /\ client[t] \in Clients
  BY PartTypes, ProtoFacts DEF IInv, Arrived, VmessRuns
<1>2. PICK r : r = [reader[t] EXCEPT !.taken = reader[t].taken + 1, !.fed = reader[t].fed + 1]
  OBVIOUS
<1>3. r \in Readers /\ r.taken = reader[t].taken + 1 /\ r.fed = reader[t].fed + 1
  <2>1. reader[t].taken + 1 \in Nat /\ reader[t].fed + 1 \in Nat
    BY <1>1 DEF Readers
  <2> QED BY <1>1, <1>2, <2>1 DEF Readers
<1>4. reader[t].fed = reader[t].taken /\ reader[t].taken < client[t].wire
  BY <1>1 DEF Arrived, TunnelInv, ReaderInv
<1>5. r.fed <= client[t].wire /\ r.taken = r.fed
  BY <1>1, <1>3, <1>4 DEF Readers, Clients
<1>6. Landed(t, pc[t], u, down[t], client[t], r, g)
  <2>1. reader' = [reader EXCEPT ![t] = r]
    BY <1>2 DEF Takes
  <2>2. Patch(t, pc[t], u, down[t], client[t], r, g)
    BY <1>1, <2>1 DEF Patch, Puts, Types
  <2>3. u \in Tasks
    BY DEF Tasks, Outcomes
  <2> QED BY <1>1, <1>3, <2>2, <2>3, Patched, PartTypes
<1>7. Live(t) /\ pc[t] # "closed" /\ down[t] # "cancelled"
  BY <1>1 DEF TunnelInv, EndInv, Arrived, VmessRuns, Live
<1>8. ReaderInv(t)'
  BY <1>1, <1>3, <1>5, <1>6, <1>7 DEF Landed, ReaderInv, Live
<1>9. EndInv(t)'
  <2>1. pc[t] # "linger"
    BY <1>1, ProtoFacts DEF TunnelInv, EndInv
  <2> QED BY <1>1, <1>6, <1>7, <2>1 DEF Landed, TunnelInv, EndInv
<1>10. ReplyInv(t)'
  BY <1>1, <1>6, <1>7 DEF Landed, ReplyInv
<1>11. EofInv(t)'
  BY <1>6 DEF Landed, EofInv
<1> QED
  BY <1>6, <1>8, <1>9, <1>10, <1>11 DEF Landed, StepOf, TunnelInv

LEMMA VmessUpStep ==
  ASSUME IInv, NEW t \in Tunnels,
         \/ ReadLength(t) \/ ReadPayload(t) \/ ReadTermination(t) \/ NoMoreBytes(t)
         \/ UpReset(t)
  PROVE  StepOf(t)
<1>1. /\ Types /\ TunnelInv(t) /\ target[t] \in Targets /\ up \in [Tunnels -> Tasks]
      /\ client[t].wire \in Nat /\ reader[t].taken \in Nat /\ target[t].got \in Nat
  BY PartTypes DEF IInv, Types, Tasks, Clients, Readers, Targets
<1>2. /\ up[t] = "run" /\ t \in Vmess /\ Live(t)
      /\ target[t].got = reader[t].taken \div 2 /\ proto[t] # "ss-ws"
  BY <1>1, ProtoFacts DEF ReadLength, ReadPayload, ReadTermination, NoMoreBytes, UpReset, Arrived, Waiting,
     VmessRuns, TunnelInv, ReaderInv
<1>3. CASE ReadLength(t)
  <2>1. reader[t].taken % 2 = 0
    BY <1>1, <1>3, HalfFacts DEF ReadLength, AtPayload
  <2>2. target[t].got = (reader[t].taken + 1) \div 2
    BY <1>1, <1>2, <2>1, HalfFacts
  <2> QED BY <1>1, <1>2, <1>3, <2>2, TakesStep DEF ReadLength, Puts
<1>4. CASE ReadPayload(t)
  <2>1. (reader[t].taken + 1) \div 2 = target[t].got + 1
    BY <1>1, <1>2, <1>4, HalfFacts DEF ReadPayload, AtPayload
  <2>2. CASE link
    <3>1. PICK g : g = [target[t] EXCEPT !.got = target[t].got + 1]
      OBVIOUS
    <3>2. target[t].got + 1 \in Nat
      BY <1>1
    <3>3. g \in Targets /\ g.got = target[t].got + 1
      BY <1>1, <3>1, <3>2, Forwarded
    <3>4. target' = [target EXCEPT ![t] = g]
      BY <1>4, <2>2, <3>1 DEF ReadPayload
    <3> QED BY <1>2, <1>4, <2>1, <2>2, <3>3, <3>4, TakesStep DEF ReadPayload, Puts
  <2>3. CASE ~link
    BY <1>1, <1>4, <2>3, TakesStep DEF ReadPayload, Puts
  <2> QED BY <2>2, <2>3
<1>5. CASE ReadTermination(t)
  <2>1. client[t].wire = reader[t].taken + 1 /\ reader[t].taken % 2 = 0 /\ client[t].term
    BY <1>1, <1>5, HalfFacts DEF ReadTermination, AtPayload
  <2>2. target[t].got = client[t].wire \div 2
    BY <1>1, <1>2, <2>1, HalfFacts
  <2> QED BY <1>2, <1>5, <2>1, <2>2, UpEndsStep DEF ReadTermination
<1>6. CASE NoMoreBytes(t)
  <2>1. target[t].got = client[t].wire \div 2
    BY <1>2, <1>6 DEF NoMoreBytes, Waiting
  <2> QED BY <1>2, <1>6, <2>1, UpEndsStep DEF NoMoreBytes
<1>7. CASE UpReset(t)
  BY <1>2, <1>7, UpEndsStep DEF UpReset
<1> QED
  BY <1>3, <1>4, <1>5, <1>6, <1>7

LEMMA VmessDownStep ==
  ASSUME IInv, NEW t \in Tunnels,
         \/ ReplyRead(t) \/ ReplyUndelivered(t) \/ ReplyEof(t) \/ ReplyTimesOut(t)
         \/ WaitReturns(t)
  PROVE  StepOf(t)
<1>1. Types /\ target[t] \in Targets /\ target[t].sent \in Nat
  BY PartTypes DEF IInv, Targets
<1>2. CASE ReplyRead(t)
  <2>1. CASE link /\ ~write_chunk_fails(t)
    <3>1. PICK g : g = [target[t] EXCEPT !.read = target[t].sent]
      OBVIOUS
    <3>2. target' = [target EXCEPT ![t] = g] /\ UNCHANGED <<link, proto, pc, up, down, client, reader>>
      BY <1>2, <2>1, <3>1 DEF ReplyRead
    <3>3. g \in Targets /\ g.got = target[t].got /\ g.eof = target[t].eof
      BY <1>1, <3>1, Answered
    <3> QED BY <3>2, <3>3, TargetStep
  <2>2. CASE ~(link /\ ~write_chunk_fails(t))
    <3>1. DownEnds(t, "quota") \/ DownEnds(t, "error")
      BY <1>2, <2>2 DEF ReplyRead
    <3> QED BY <3>1, DownEndsStep DEF Outcomes
  <2> QED BY <2>1, <2>2
<1>3. CASE ReplyUndelivered(t) \/ ReplyEof(t) \/ ReplyTimesOut(t)
  <2>1. /\ DownEnds(t, "reset") \/ DownEnds(t, "error") \/ DownEnds(t, "eof") \/ DownEnds(t, "expired")
        /\ t \in Vmess
    BY <1>3 DEF ReplyUndelivered, ReplyEof, ReplyTimesOut, VmessRuns
  <2> QED BY <2>1, DownEndsStep DEF Outcomes
<1>4. CASE WaitReturns(t)
  BY <1>4, RelayClosesStep DEF WaitReturns, EndsTheWait, VmessRuns
<1> QED
  BY <1>2, <1>3, <1>4

LEMMA SsHandlerStep ==
  ASSUME IInv, NEW t \in Tunnels,
         \/ SsAccept(t) \/ SsPiece(t) \/ SsNoMatch(t) \/ SsCharged(t)
         \/ SsRefused(t) \/ SsConnected(t) \/ SsUnreachable(t)
  PROVE  StepOf(t)
<1>1. Types /\ TunnelInv(t) /\ reader[t] \in Readers
  BY PartTypes DEF IInv
<1>2. CASE SsAccept(t) \/ SsCharged(t)
  <2>1. CASE SsAccept(t)
    BY <2>1, MovesStep DEF SsAccept, Handlers
  <2>2. CASE SsCharged(t)
    BY <2>2, MovesStep DEF SsCharged, Handlers
  <2> QED BY <1>2, <2>1, <2>2
<1>3. CASE SsPiece(t)
  <2>1. PICK m \in Pieces(t) :
          LET raw   == feed(reader[t], m)
              tried == try_decrypt_chunks(FreshReader(raw))
          IN IF link /\ tried.taken > 0
             THEN /\ reader' = [reader EXCEPT ![t] = tried]
                  /\ pc' = [pc EXCEPT ![t] = "matched"]
             ELSE reader' = [reader EXCEPT ![t] = raw] /\ UNCHANGED pc
    BY <1>3 DEF SsPiece
  <2>2. PICK raw : raw = feed(reader[t], m)
    OBVIOUS
  <2>3. PICK tried : tried = try_decrypt_chunks(FreshReader(raw))
    OBVIOUS
  <2>4. m \in Nat /\ reader[t].fed + m <= client[t].wire
    BY PieceFacts
  <2>5. raw \in Readers /\ raw.fed = reader[t].fed + m
    BY <1>1, <2>2, <2>4, FeedFacts
  <2>6. FreshReader(raw) \in Readers /\ FreshReader(raw).fed = raw.fed /\ FreshReader(raw).taken = 0 /\ FreshReader(raw).nonce = 0
    BY <2>5, FeedFacts
  <2>7. /\ tried \in Readers /\ tried.fed = raw.fed /\ tried.nonce = raw.fed /\ tried.taken % 2 = 0
        /\ tried.taken <= tried.fed /\ tried.fed <= tried.taken + 1
    <3>1. ~CannotOpen(FreshReader(raw)) /\ FreshReader(raw).taken % 2 = 0 /\ FreshReader(raw).taken <= FreshReader(raw).fed
      BY <2>6 DEF CannotOpen, Readers
    <3> QED BY <2>3, <2>6, <3>1, DecoderFacts
  <2>8. PICK p \in {"matched", "handshake"}, r \in {tried, raw} :
          /\ Patch(t, p, up[t], down[t], client[t], r, target[t]) /\ (p = "matched" => r = tried)
    <3>1. \/ reader' = [reader EXCEPT ![t] = tried] /\ pc' = [pc EXCEPT ![t] = "matched"]
          \/ reader' = [reader EXCEPT ![t] = raw] /\ pc' = pc
      BY <2>1, <2>2, <2>3
    <3>2. UNCHANGED <<link, proto, up, down, client, target>> /\ pc[t] = "handshake"
      BY <1>3 DEF SsPiece
    <3>3. CASE reader' = [reader EXCEPT ![t] = tried] /\ pc' = [pc EXCEPT ![t] = "matched"]
      <4>1. Patch(t, "matched", up[t], down[t], client[t], tried, target[t])
        BY <1>1, <3>2, <3>3 DEF Patch, Puts, Types
      <4> QED BY <4>1
    <3>4. CASE reader' = [reader EXCEPT ![t] = raw] /\ pc' = pc
      <4>1. Patch(t, "handshake", up[t], down[t], client[t], raw, target[t])
        BY <1>1, <3>2, <3>4 DEF Patch, Puts, Types
      <4> QED BY <4>1
    <3> QED BY <3>1, <3>3, <3>4
  <2>9. Landed(t, p, up[t], down[t], client[t], r, target[t])
    <3>1. p \in Handlers /\ r \in Readers
      BY <2>5, <2>7, <2>8 DEF Handlers
    <3> QED BY <1>1, <2>8, <3>1, Patched, PartTypes
  <2>10. r.fed = reader[t].fed + m /\ t \in Ss /\ t \notin Vmess /\ pc[t] = "handshake"
    BY <1>1, <1>3, <2>5, <2>7, <2>8, ProtoFacts DEF SsPiece
  <2>11. ReaderInv(t)'
    BY <2>4, <2>7, <2>8, <2>9, <2>10 DEF Landed, ReaderInv, Live
  <2>12. EndInv(t)' /\ ReplyInv(t)' /\ EofInv(t)'
    BY <1>1, <2>9, <2>10 DEF Landed, TunnelInv, EndInv, ReplyInv, EofInv
  <2> QED BY <2>9, <2>11, <2>12 DEF Landed, StepOf, TunnelInv
<1>4. CASE SsNoMatch(t) \/ SsRefused(t) \/ SsUnreachable(t)
  BY <1>4, ClosesStep DEF SsNoMatch, SsRefused, SsUnreachable
<1>5. CASE SsConnected(t)
  <2>1. reader[t].taken \div 2 \in Nat
    BY <1>1, HalfFacts DEF Readers
  <2>2. t \notin Vmess /\ pc[t] = "dialing" /\ RelayStarts(t, reader[t].taken \div 2)
    BY <1>1, <1>5, ProtoFacts DEF SsConnected
  <2> QED BY <2>1, <2>2, RelayStartsStep
<1> QED
  BY <1>2, <1>3, <1>4, <1>5

LEMMA SsUpStep ==
  ASSUME IInv, NEW t \in Tunnels,
         \/ SsRead(t) \/ SsForward(t) \/ SsUpRefused(t) \/ SsUpEof(t)
  PROVE  StepOf(t)
<1>1. /\ Types /\ TunnelInv(t) /\ reader[t] \in Readers /\ target[t] \in Targets
      /\ client[t].wire \in Nat /\ reader[t].taken \in Nat /\ reader[t].fed \in Nat
      /\ target[t].got \in Nat
  BY PartTypes DEF IInv, Clients, Readers, Targets
<1>2. /\ up[t] = "run" /\ t \in Ss /\ t \notin Vmess /\ Live(t)
      /\ pc[t] # "closed" /\ down[t] # "cancelled"
      /\ reader[t].nonce = reader[t].fed /\ reader[t].taken % 2 = 0
      /\ reader[t].taken <= reader[t].fed /\ reader[t].fed <= reader[t].taken + 1
  BY <1>1, ProtoFacts DEF SsRead, SsForward, SsUpRefused, SsUpEof, Reading, Relaying, Live, TunnelInv,
     ReaderInv, EndInv
<1>3. CASE SsRead(t)
  <2>1. PICK m \in Pieces(t) :
          LET r == feed(reader[t], m) IN
          /\ reader' = [reader EXCEPT ![t] = try_decrypt_chunks(r)]
          /\ IF CannotOpen(r)
             THEN /\ up' = [up EXCEPT ![t] = "error"]
                  /\ target' = [target EXCEPT ![t].eof = TRUE]
             ELSE UNCHANGED <<up, target>>
    BY <1>3 DEF SsRead
  <2>2. PICK r : r = feed(reader[t], m)
    OBVIOUS
  <2>3. PICK q : q = try_decrypt_chunks(r)
    OBVIOUS
  <2>4. UNCHANGED <<link, proto, pc, down, client>> /\ reader' = [reader EXCEPT ![t] = q]
    BY <1>3, <2>1, <2>2, <2>3 DEF SsRead
  <2>5. m \in Nat /\ reader[t].fed + m <= client[t].wire
    BY PieceFacts
  <2>6. /\ r \in Readers /\ r.fed = reader[t].fed + m /\ r.taken = reader[t].taken
        /\ r.taken % 2 = 0 /\ r.taken <= r.fed
    <3>1. r \in Readers /\ r.fed = reader[t].fed + m /\ r.taken = reader[t].taken
      BY <1>1, <2>2, <2>5, FeedFacts
    <3> QED BY <1>1, <1>2, <2>5, <3>1
  <2>7. PICK u \in {"run", "error"}, g \in Targets :
          /\ Patch(t, pc[t], u, down[t], client[t], q, g) /\ q \in Readers /\ q.fed = r.fed
          /\ u = "run" => /\ q.nonce = r.fed /\ q.taken % 2 = 0
                          /\ q.taken <= q.fed /\ q.fed <= q.taken + 1
    <3>1. CASE CannotOpen(r)
      <4>1. PICK g \in Targets : g = [target[t] EXCEPT !.eof = TRUE]
        <5>1. [target[t] EXCEPT !.eof = TRUE] \in Targets
          BY <1>1, EofTold
        <5> QED BY <5>1
      <4>2. q = r /\ up' = [up EXCEPT ![t] = "error"] /\ target' = [target EXCEPT ![t] = g]
        BY <2>1, <2>2, <2>3, <3>1, <4>1 DEF try_decrypt_chunks
      <4>3. Patch(t, pc[t], "error", down[t], client[t], q, g)
        BY <1>1, <2>4, <4>2 DEF Patch, Puts, Types
      <4> QED BY <2>6, <4>2, <4>3
    <3>2. CASE ~CannotOpen(r)
      <4>1. /\ q \in Readers /\ q.fed = r.fed /\ q.nonce = r.fed /\ q.taken % 2 = 0
            /\ q.taken <= q.fed /\ q.fed <= q.taken + 1
        BY <2>3, <2>6, <3>2, DecoderFacts
      <4>2. Patch(t, pc[t], "run", down[t], client[t], q, target[t])
        BY <1>1, <1>2, <2>1, <2>2, <2>4, <3>2 DEF Patch, Puts, Types
      <4> QED BY <1>1, <4>1, <4>2
    <3> QED BY <3>1, <3>2
  <2>8. Landed(t, pc[t], u, down[t], client[t], q, g)
    <3>1. u \in Tasks
      BY <2>7 DEF Tasks, Outcomes
    <3> QED BY <1>1, <2>7, <3>1, Patched, PartTypes
  <2>9. ReaderInv(t)'
    BY <1>2, <2>5, <2>6, <2>7, <2>8 DEF Landed, ReaderInv, Live
  <2>10. EndInv(t)'
    BY <1>1, <1>2, <2>7, <2>8 DEF Landed, TunnelInv, EndInv, Ended, Outcomes
  <2>11. ReplyInv(t)'
    <3>1. down[t] # "cancelled" /\ down[t] # "expired"
      BY <1>1, <1>2, ProtoFacts DEF TunnelInv, EndInv, Live
    <3> QED BY <2>8, <3>1 DEF Landed, ReplyInv
  <2>12. EofInv(t)'
    BY <1>1, <1>2, <2>7, <2>8 DEF Landed, TunnelInv, EofInv
  <2> QED BY <2>8, <2>9, <2>10, <2>11, <2>12 DEF Landed, StepOf, TunnelInv
<1>4. CASE SsForward(t)
  <2>1. PICK g : g = [target[t] EXCEPT !.got = target[t].got + 1]
    OBVIOUS
  <2>2. target' = [target EXCEPT ![t] = g] /\ g \in Targets
    <3>1. target[t].got + 1 \in Nat
      BY <1>1
    <3>2. g \in Targets
      BY <1>1, <2>1, <3>1, Forwarded
    <3> QED BY <1>4, <2>1, <3>2 DEF SsForward
  <2>3. Patch(t, pc[t], up[t], down[t], client[t], reader[t], g)
    BY <1>1, <1>4, <2>2 DEF SsForward, Patch, Puts, Types
  <2>4. Landed(t, pc[t], up[t], down[t], client[t], reader[t], g)
    BY <1>1, <2>2, <2>3, Patched, PartTypes
  <2>5. ReaderInv(t)'
    BY <1>1, <1>2, <2>4 DEF Landed, TunnelInv, ReaderInv, Live
  <2>6. EndInv(t)' /\ ReplyInv(t)' /\ EofInv(t)'
    BY <1>1, <1>2, <2>4 DEF Landed, TunnelInv, EndInv, ReplyInv, EofInv
  <2> QED BY <2>4, <2>5, <2>6 DEF Landed, StepOf, TunnelInv
<1>5. CASE SsUpRefused(t)
  BY <1>2, <1>5, UpEndsStep DEF SsUpRefused
<1>6. CASE SsUpEof(t)
  <2>1. /\ client[t].end # "open" /\ reader[t].fed = client[t].wire
        /\ reader[t].taken \div 2 - target[t].got = 0
    BY <1>6 DEF SsUpEof, Reading, Decrypted
  <2>2. target[t].got = client[t].wire \div 2
    <3>1. PICK n \in Nat : n = reader[t].taken
      BY <1>1
    <3>2. n \div 2 \in Nat /\ (n + 1) \div 2 = n \div 2
      BY <1>2, <3>1, HalfFacts
    <3>3. target[t].got = n \div 2
      <4>1. n \div 2 - target[t].got = 0
        BY <2>1, <3>1
      <4>2. target[t].got \in Nat
        BY <1>1
      <4> QED BY <3>2, <4>1, <4>2
    <3>4. client[t].wire = n \/ client[t].wire = n + 1
      <4>1. /\ client[t].wire \in Nat /\ n \in Nat
            /\ n <= client[t].wire /\ client[t].wire <= n + 1
        BY <1>1, <1>2, <2>1, <3>1
      <4> QED BY ONLY <4>1
    <3> QED BY <3>2, <3>3, <3>4
  <2>3. proto[t] = "ss-ws" => client[t].end = "gone"
    <3>1. client[t].end \in {"open", "half", "gone"}
      BY <1>1, PartTypes DEF Clients
    <3> QED BY <1>1, <2>1, <3>1, ProtoFacts DEF TunnelInv, EndInv
  <2> QED BY <1>2, <1>6, <2>1, <2>2, <2>3, UpEndsStep DEF SsUpEof
<1> QED
  BY <1>3, <1>4, <1>5, <1>6

LEMMA SsDownStep ==
  ASSUME IInv, NEW t \in Tunnels,
         \/ SsReply(t) \/ SsDownRefused(t) \/ SsUndelivered(t) \/ SsReplyEof(t)
  PROVE  StepOf(t)
<1>1. Types /\ target[t] \in Targets /\ target[t].sent \in Nat /\ target[t].read \in Nat
  BY PartTypes DEF IInv, Targets
<1>2. CASE SsReply(t)
  <2>1. PICK n \in 1..Pending(t) :
          IF encrypt_chunk_fails(n) THEN DownEnds(t, "error")
          ELSE /\ target' = [target EXCEPT ![t].read = target[t].read + n]
               /\ UNCHANGED <<link, proto, pc, up, down, client, reader>>
    BY <1>2 DEF SsReply
  <2>2. CASE encrypt_chunk_fails(n)
    BY <2>1, <2>2, DownEndsStep DEF Outcomes
  <2>3. CASE ~encrypt_chunk_fails(n)
    <3>1. target[t].read + n \in Nat
      BY <1>1, <2>1 DEF Pending
    <3>2. PICK g : g = [target[t] EXCEPT !.read = target[t].read + n]
      OBVIOUS
    <3>3. target' = [target EXCEPT ![t] = g] /\ UNCHANGED <<link, proto, pc, up, down, client, reader>>
      BY <2>1, <2>3, <3>2
    <3>4. g \in Targets /\ g.got = target[t].got /\ g.eof = target[t].eof
      BY <1>1, <3>1, <3>2, Answered
    <3> QED BY <3>3, <3>4, TargetStep
  <2> QED BY <2>2, <2>3
<1>3. CASE SsDownRefused(t) \/ SsUndelivered(t) \/ SsReplyEof(t)
  <2>1. DownEnds(t, "quota") \/ DownEnds(t, "reset") \/ DownEnds(t, "eof")
    BY <1>3 DEF SsDownRefused, SsUndelivered, SsReplyEof
  <2> QED BY <2>1, DownEndsStep DEF Outcomes
<1> QED
  BY <1>2, <1>3

LEMMA SsEndStep ==
  ASSUME IInv, NEW t \in Tunnels,
         \/ SsFirstEnds(t) \/ SsLingers(t) \/ SsLingerEnds(t) \/ SsLingerExpires(t)
  PROVE  StepOf(t)
<1>1. CASE SsLingers(t)
  BY <1>1, MovesStep DEF SsLingers, Handlers
<1>2. CASE SsFirstEnds(t)
  <2>1. /\ Live(t) /\ RelayCloses(t, "cancelled") /\ TunnelInv(t) /\ pc[t] = "relay"
        /\ Ended(down[t]) \/ (proto[t] = "ss-ws" /\ Ended(up[t]))
    BY <1>2 DEF SsFirstEnds, Relaying, IInv
  <2>2. proto[t] = "ss-ws" /\ Ended(up[t]) =>
          up[t] \in {"quota", "reset", "error"} \/ client[t].end = "gone"
    BY <2>1 DEF TunnelInv, EndInv, Ended, Outcomes
  <2> QED BY <2>1, <2>2, RelayClosesStep
<1>3. CASE SsLingerEnds(t) \/ SsLingerExpires(t)
  <2>1. proto[t] = "ss-tcp" /\ Ended(up[t])
    BY <1>3 DEF SsLingerEnds, SsLingerExpires, IInv, TunnelInv, EndInv
  <2> QED
    BY <1>3, <2>1, RelayClosesStep DEF SsLingerEnds, SsLingerExpires, Relaying
<1> QED
  BY <1>1, <1>2, <1>3

LEMMA NextSteps ==
  ASSUME IInv, StreamsNext
  PROVE  LinkSwitched \/ \E t \in Tunnels : StepOf(t)
BY Surrounded, VmessHandlerStep, VmessUpStep, VmessDownStep,
   SsHandlerStep, SsUpStep, SsDownStep, SsEndStep
DEF StreamsNext, Surroundings, VmessNext, VmessHandler, VmessUp, VmessDown,
    SsNext, SsHandler, SsUp, SsDown, SsEnd

LEMMA Untouched ==
  ASSUME NEW s, TunnelInv(s), Same(s), proto' = proto
  PROVE  TunnelInv(s)'
<1>1. Vmess' = Vmess /\ Ss' = Ss /\ Tcp' = Tcp
  BY ProtoKept
<1>2. Live(s)' <=> Live(s)
  BY DEF Live, Same
<1>3. ReaderInv(s)'
  BY <1>1, <1>2 DEF TunnelInv, Same, ReaderInv
<1>4. EndInv(s)'
  BY <1>1 DEF TunnelInv, Same, EndInv
<1>5. ReplyInv(s)' /\ EofInv(s)'
  BY <1>1 DEF TunnelInv, Same, ReplyInv, EofInv
<1> QED
  BY <1>3, <1>4, <1>5 DEF TunnelInv

LEMMA Inductive == ASSUME IInv, [StreamsNext]_tvars PROVE IInv'
<1>1. ASSUME NEW t \in Tunnels, StepOf(t) PROVE IInv'
  BY <1>1, Untouched DEF IInv, StepOf
<1>2. CASE LinkSwitched \/ UNCHANGED tvars
  <2>1. /\ UNCHANGED <<proto, pc, up, down, client, reader, target>> /\ link' \in BOOLEAN
    BY <1>2 DEF LinkSwitched, tvars, IInv, Types
  <2>2. Types' /\ \A s \in Tunnels : Same(s)
    BY <2>1 DEF IInv, Types, Same
  <2> QED BY <2>1, <2>2, Untouched DEF IInv
<1> QED
  BY <1>1, <1>2, NextSteps

LEMMA Initially == StreamsInit => IInv
<1> SUFFICES ASSUME StreamsInit PROVE IInv
  OBVIOUS
<1>1. Types
  BY TunnelAssumption DEF TunnelAssumption, StreamsInit, Types, Clients, Readers, Targets, Outcomes
<1>2. ASSUME NEW t \in Tunnels PROVE TunnelInv(t)
  BY DEF StreamsInit, TunnelInv, ReaderInv, EndInv, ReplyInv, EofInv, Live
<1> QED
  BY <1>1, <1>2 DEF IInv

LEMMA Invariance == StreamsSpec => []IInv
<1>1. IInv /\ [StreamsNext]_tvars => IInv'
  BY Inductive
<1> QED
  BY <1>1, Initially, PTL DEF StreamsSpec

(* A relay towards the client is stopped only when the link was refused,    *)
(* the stream was damaged, the connection broke, the client went away, or   *)
(* one of the two timeouts passed.                                          *)
THEOREM RepliesOutliveRequests == StreamsSpec => []ReplyOutlivesRequest
<1>1. IInv => ReplyOutlivesRequest
  BY DEF IInv, TunnelInv, ReplyInv, ReplyOutlivesRequest
<1> QED
  BY <1>1, Invariance, PTL

(* A target that is told the end of a stream has all of its chunks.         *)
THEOREM StreamsArriveWhole == StreamsSpec => []NothingLostBeforeEof
<1>1. IInv => NothingLostBeforeEof
  BY DEF IInv, TunnelInv, EofInv, NothingLostBeforeEof
<1> QED
  BY <1>1, Invariance, PTL

LEMMA ErrorIsSplit ==
  ASSUME IInv, StreamsNext, NEW t \in Ss, up[t] = "run", up'[t] = "error"
  PROVE  reader[t].fed % 2 = 1
<1> USE DEF IInv
<1>1. t \in Tunnels /\ t \notin Vmess /\ reader[t] \in Readers
  BY DEF Ss, Vmess, Types
<1>2. SsRead(t)
  <2>1. ASSUME NEW s \in Tunnels, Same(s) PROVE s # t
    BY <2>1 DEF Same
  <2>2. ~LinkSwitched /\ ~(UNCHANGED up)
    BY DEF LinkSwitched
  <2>3. ASSUME NEW s \in Tunnels, StepOf(s) PROVE s = t
    BY <1>1, <2>3 DEF StepOf, Same
  <2>4. ~Surroundings
    BY <2>2 DEF Surroundings, ClientSends, ClientTerminates, ClientHalfCloses, ClientLeaves,
                TargetSends, TargetCloses
  <2>5. ASSUME VmessNext PROVE FALSE
    <3>1. PICK s \in Tunnels : s \in Vmess /\ StepOf(s)
      BY <2>5, VmessHandlerStep, VmessUpStep, VmessDownStep
      DEF VmessNext, VmessHandler, VmessUp, VmessDown, VmessAccept, VmessRequest, VmessNoRequest,
          VmessConnected, VmessUnreachable, ReadLength, ReadPayload, ReadTermination, NoMoreBytes,
          UpReset, ReplyRead, ReplyUndelivered, ReplyEof, ReplyTimesOut, WaitReturns, Arrived,
          Waiting, VmessRuns
    <3> QED BY <1>1, <2>3, <3>1
  <2>6. PICK s \in Tunnels : SsHandler(s) \/ SsUp(s) \/ SsDown(s) \/ SsEnd(s)
    BY <2>4, <2>5 DEF StreamsNext, SsNext
  <2>7. s = t
    BY <2>3, <2>6, SsHandlerStep, SsUpStep, SsDownStep, SsEndStep
    DEF SsHandler, SsUp, SsDown, SsEnd
  <2>8. ~SsHandler(t)
    BY DEF SsHandler, SsAccept, SsPiece, SsNoMatch, SsCharged, SsRefused, SsConnected,
           SsUnreachable, Closes, RelayStarts, Types
  <2>9. ~SsDown(t)
    BY DEF SsDown, SsReply, SsDownRefused, SsUndelivered, SsReplyEof, DownEnds
  <2>10. ~SsEnd(t)
    BY DEF SsEnd, SsFirstEnds, SsLingers, SsLingerEnds, SsLingerExpires, RelayCloses, Ended, Types
  <2>11. ~SsForward(t) /\ ~SsUpRefused(t) /\ ~SsUpEof(t)
    BY DEF SsForward, SsUpRefused, SsUpEof, UpEnds, Types
  <2> QED
    BY <2>6, <2>7, <2>8, <2>9, <2>10, <2>11 DEF SsUp
<1>3. /\ Live(t) /\ reader[t].nonce = reader[t].fed /\ reader[t].taken % 2 = 0
      /\ reader[t].taken <= reader[t].fed /\ reader[t].fed <= reader[t].taken + 1
  BY <1>1, <1>2 DEF SsRead, Reading, Relaying, TunnelInv, ReaderInv
<1>4. PICK m \in Pieces(t) : CannotOpen(feed(reader[t], m))
  BY <1>2 DEF SsRead
<1>5. reader[t].nonce # reader[t].taken
  BY <1>1, <1>4, PieceFacts, FeedFacts DEF CannotOpen
<1>6. reader[t].fed = reader[t].taken + 1
  BY <1>1, <1>3, <1>5 DEF Readers
<1> QED
  BY <1>1, <1>3, <1>6, HalfFacts DEF Readers

(* The Shadowsocks decoder fails an honest client only after a read that    *)
(* ended between a length and the end of its payload.                       *)
THEOREM DecoderFailsOnlyOnSplit == StreamsSpec => FailsOnlyOnSplit
<1>1. IInv /\ [StreamsNext]_tvars =>
        [\A t \in Ss : up[t] = "run" /\ up'[t] = "error" => reader[t].fed % 2 = 1]_tvars
  BY ErrorIsSplit
<1> QED
  BY <1>1, Invariance, PTL DEF StreamsSpec, FailsOnlyOnSplit

(* What a step does to a tunnel that is refused.                            *)
Refuses(t) ==
  /\ ~link \/ up[t] = "quota" => target'[t].got = target[t].got
  /\ ~link \/ down[t] = "quota" => target'[t].read = target[t].read

LEMMA RefusedStep ==
  ASSUME IInv, StreamsNext, NEW t \in Vmess
  PROVE  Refuses(t)
<1> USE DEF IInv
<1>1. t \in Tunnels /\ t \notin Ss
  BY DEF Ss, Vmess
<1>2. ASSUME NEW s \in Tunnels, StepOf(s), s # t
      PROVE  target'[t] = target[t]
  BY <1>1, <1>2 DEF StepOf, Same
<1>3. CASE Surroundings
  <2>1. ASSUME NEW s \in Tunnels, TargetSends(s) \/ TargetCloses(s)
        PROVE  target'[t].got = target[t].got /\ target'[t].read = target[t].read
    <3>1. target[s] \in Targets /\ target[t] \in Targets /\ target \in [Tunnels -> Targets]
      BY <1>1 DEF Types
    <3>2. CASE TargetSends(s)
      <4>1. target' = [target EXCEPT ![s].sent = target[s].sent + 1]
        BY <3>2 DEF TargetSends
      <4> QED BY <1>1, <3>1, <4>1 DEF Targets
    <3>3. CASE TargetCloses(s)
      <4>1. target' = [target EXCEPT ![s].open = FALSE]
        BY <3>3 DEF TargetCloses
      <4> QED BY <1>1, <3>1, <4>1 DEF Targets
    <3> QED BY <2>1, <3>2, <3>3
  <2>2. target' = target \/ \E s \in Tunnels : TargetSends(s) \/ TargetCloses(s)
    BY <1>3 DEF Surroundings, LinkSwitched, ClientSends, ClientTerminates, ClientHalfCloses,
                ClientLeaves
  <2> QED BY <2>1, <2>2 DEF Refuses
<1>4. CASE SsNext
  <2>1. PICK s \in Tunnels : s \in Ss /\ StepOf(s)
    BY <1>4, SsHandlerStep, SsUpStep, SsDownStep, SsEndStep
    DEF SsNext, SsHandler, SsUp, SsDown, SsEnd, SsAccept, SsPiece, SsNoMatch, SsCharged, SsRefused,
        SsConnected, SsUnreachable, SsRead, SsForward, SsUpRefused, SsUpEof, SsReply, SsDownRefused,
        SsUndelivered, SsReplyEof, SsFirstEnds, SsLingers, SsLingerEnds, SsLingerExpires,
        Reading, Relaying
  <2> QED BY <1>1, <1>2, <2>1 DEF Refuses
<1>5. CASE VmessNext
  <2>1. PICK s \in Tunnels : VmessHandler(s) \/ VmessUp(s) \/ VmessDown(s) \/ WaitReturns(s)
    BY <1>5 DEF VmessNext
  <2>2. StepOf(s)
    BY <2>1, VmessHandlerStep, VmessUpStep, VmessDownStep DEF VmessHandler, VmessUp, VmessDown
  <2>3. CASE s = t
    <3>1. CASE VmessHandler(t)
      <4>1. VmessConnected(t) => target[t].got = 0
        BY <1>1 DEF VmessConnected, TunnelInv, ReaderInv, Live
      <4> QED
        BY <1>1, <3>1, <4>1 DEF Refuses, VmessHandler, VmessAccept, VmessRequest, VmessNoRequest,
           VmessConnected, VmessUnreachable, Closes, RelayStarts, Types, Targets
    <3>2. CASE VmessUp(t)
      <4>1. target[t] \in Targets /\ target \in [Tunnels -> Targets] /\ up[t] # "quota"
        BY <1>1, <3>2 DEF Types, VmessUp, ReadLength, ReadPayload, ReadTermination, NoMoreBytes, UpReset,
                          Arrived, Waiting
      <4>2. UNCHANGED target \/ ReadPayload(t) \/ \E how \in Outcomes : UpEnds(t, how)
        BY <3>2 DEF VmessUp, ReadLength, ReadTermination, NoMoreBytes, UpReset, UpStops, Outcomes
      <4>3. ASSUME ReadPayload(t) PROVE target'[t].read = target[t].read /\ (~link => target' = target)
        BY <1>1, <4>1, <4>3 DEF ReadPayload, Targets
      <4>4. ASSUME NEW how, UpEnds(t, how)
            PROVE  target'[t].got = target[t].got /\ target'[t].read = target[t].read
        BY <1>1, <4>1, <4>4 DEF UpEnds, Targets
      <4> QED BY <4>1, <4>2, <4>3, <4>4 DEF Refuses
    <3>3. CASE VmessDown(t) \/ WaitReturns(t)
      <4>1. UNCHANGED target \/ ReplyRead(t)
        BY <3>3 DEF VmessDown, ReplyUndelivered, ReplyEof, ReplyTimesOut, DownEnds, WaitReturns, RelayCloses
      <4>2. ASSUME ReplyRead(t)
            PROVE  /\ target'[t].got = target[t].got /\ down[t] = "run"
                   /\ ~link => target' = target
        <5>1. target \in [Tunnels -> Targets]
          BY DEF Types
        <5> QED BY <1>1, <4>2, <5>1 DEF ReplyRead, DownEnds, Targets
      <4> QED BY <4>1, <4>2 DEF Refuses
    <3> QED BY <2>1, <2>3, <3>1, <3>2, <3>3
  <2> QED BY <1>2, <2>2, <2>3 DEF Refuses
<1> QED
  BY <1>3, <1>4, <1>5 DEF StreamsNext

(* While a link is refused, no VMess chunk of it passes in any tunnel, and  *)
(* a direction of a tunnel that was refused is over.                        *)
THEOREM RefusedLinksPassNothing == StreamsSpec => RefusedPassesNothing
<1>1. IInv /\ [StreamsNext]_tvars =>
        [\A t \in Vmess :
           /\ ~link \/ up[t] = "quota" => target'[t].got = target[t].got
           /\ ~link \/ down[t] = "quota" => target'[t].read = target[t].read]_tvars
  BY RefusedStep DEF Refuses
<1> QED
  BY <1>1, Invariance, PTL DEF StreamsSpec, RefusedPassesNothing
==============================================================================
