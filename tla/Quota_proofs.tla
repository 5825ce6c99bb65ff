---------------------------- MODULE Quota_proofs ----------------------------
(* Theorems about Quota, for every set of links and tunnels and every batch *)
(* and frame size.                                                          *)
EXTENDS Quota, TLAPS

(* The inductive invariant.  A gate's unbilled bytes are exactly the ones   *)
(* pending in it until it is refused, fewer than its current batch; what it *)
(* let through since its link stopped being allowed is part of those; only  *)
(* the gate that is never flushed ends with something pending; and a gate   *)
(* that was not used yet is as new.                                         *)
GateInv ==
  \A g \in Gates :
    /\ pending[g] < batch_bytes[g]
    /\ ok[g] => unbilled[g] = pending[g]
    /\ unbilled[g] \in 0 .. QUOTA_MAX_BATCH - 1
    /\ ~ok[g] \/ (~running[g] /\ ~NeverFlushed(g)) => pending[g] = 0
    /\ running[g] /\ ok[g] => late[g] <= pending[g]
    /\ late[g] < QUOTA_MAX_BATCH

Unused(g) == \/ phase[g[1]] \notin Live
             \/ phase[g[1]] = "session" /\ g[2] = "down"

New(g) == late[g] = 0 /\ unbilled[g] = 0 /\ pending[g] = 0 /\ ok[g] /\ ~running[g]

AllowedInv ==
  \A g \in Gates :
    /\ is_link_allowed(links[uuid[g[1]]]) /\ running[g] => late[g] = 0
    /\ Unused(g) => New(g)

IInv == TypeOK /\ GateInv /\ AllowedInv

LEMMA GateParts == ASSUME NEW g \in Gates PROVE g[1] \in Conns /\ g[2] \in Dirs
  BY DEF Gates

LEMMA BatchFacts ==
  /\ Batch \subseteq Nat
  /\ QUOTA_START_BATCH \in Batch
  /\ \A b \in Batch : b > 0 /\ b <= QUOTA_MAX_BATCH
  BY QuotaAssumption DEF Batch

LEMMA ChargedFacts ==
  ASSUME NEW link \in Link, NEW n \in Nat
  PROVE  /\ Charged(link, n) \in Link
         /\ Charged(link, n).used_bytes = link.used_bytes + n
         /\ Charged(link, n).limit_bytes = link.limit_bytes
         /\ is_link_allowed(Charged(link, n)) => is_link_allowed(link)
  BY DEF Charged, Link, is_link_allowed

(* What check_and_use does to the table: it keeps its type, raises one      *)
(* allowed link's usage by n, and allows nothing that was not allowed.      *)
LEMMA CheckAndUseFacts ==
  ASSUME links \in [Links -> Link], NEW l \in Links, NEW n \in Nat, check_and_use(l, n)
  PROVE  /\ links' \in [Links -> Link]
         /\ \A k \in Links : is_link_allowed(links'[k]) => is_link_allowed(links[k])
         /\ \A k \in Links : links'[k].limit_bytes = links[k].limit_bytes
         /\ \A k \in Links :
              \/ links'[k] = links[k]
              \/ is_link_allowed(links[k]) /\ links'[k].used_bytes = links[k].used_bytes + n
  <1>1. CASE is_link_allowed(links[l])
    <2>1. links' = [links EXCEPT ![l] = Charged(links[l], n)]
      BY <1>1 DEF check_and_use
    <2>2. /\ Charged(links[l], n) \in Link
          /\ Charged(links[l], n).used_bytes = links[l].used_bytes + n
          /\ Charged(links[l], n).limit_bytes = links[l].limit_bytes
          /\ is_link_allowed(Charged(links[l], n)) => is_link_allowed(links[l])
      BY ChargedFacts
    <2>3. links' \in [Links -> Link]
      BY <2>1, <2>2
    <2>4. \A k \in Links : links'[k] = IF k = l THEN Charged(links[l], n) ELSE links[k]
      BY <2>1
    <2>5. QED BY <1>1, <2>2, <2>3, <2>4
  <1>2. CASE ~is_link_allowed(links[l])
    BY <1>2 DEF check_and_use
  <1>3. QED BY <1>1, <1>2

LEMMA NoLinkFacts == NoLink \in Link /\ ~is_link_allowed(NoLink)
  BY DEF NoLink, Link, is_link_allowed

THEOREM InitInv == Init => IInv
  BY QuotaAssumption, BatchFacts, NoLinkFacts, GateParts
  DEF Init, IInv, TypeOK, GateInv, NeverFlushed, AllowedInv, Unused, New, Live, Phase

(* The handlers on a link leave the gates alone and forgive what is late on *)
(* a link they make allowed.                                                *)
LEMMA LinkStepInv ==
  ASSUME IInv, links' \in [Links -> Link], Forgive,
         UNCHANGED <<transport, phase, uuid, running, ok, pending, batch_bytes, unbilled>>
  PROVE  IInv'
  <1>1. \A g \in Gates : uuid[g[1]] \in Links
    BY GateParts DEF IInv, TypeOK
  <1>2. \A g \in Gates : late'[g] \in {0, late[g]}
    BY DEF Forgive
  <1>3. \A g \in Gates : is_link_allowed(links'[uuid[g[1]]]) => late'[g] = 0
    BY DEF Forgive
  <1>4. TypeOK'
    BY <1>2 DEF IInv, TypeOK, Forgive
  <1>5. GateInv'
    BY <1>2, QuotaAssumption DEF IInv, GateInv, NeverFlushed, TypeOK
  <1>6. AllowedInv'
    <2> SUFFICES ASSUME NEW g \in Gates
                 PROVE  /\ is_link_allowed(links'[uuid'[g[1]]]) /\ running'[g] => late'[g] = 0
                        /\ Unused(g)' => New(g)'
      BY DEF AllowedInv, Unused, New, Live, is_link_allowed
    <2>1. QED BY <1>2, <1>3 DEF IInv, AllowedInv, Unused, New, Live
  <1>7. QED BY <1>4, <1>5, <1>6 DEF IInv

(* A link that is deleted or expires only takes permission away. *)
LEMMA RevokeStepInv ==
  ASSUME IInv, links' \in [Links -> Link], UNCHANGED <<transport, phase, uuid, gateVars>>,
         \A l \in Links : is_link_allowed(links'[l]) => is_link_allowed(links[l])
  PROVE  IInv'
  <1>1. \A g \in Gates : uuid[g[1]] \in Links
    BY GateParts DEF IInv, TypeOK
  <1>2. TypeOK'
    BY DEF IInv, TypeOK, gateVars
  <1>3. GateInv'
    BY DEF IInv, GateInv, NeverFlushed, gateVars
  <1>4. AllowedInv'
    <2> SUFFICES ASSUME NEW g \in Gates
                 PROVE  /\ is_link_allowed(links'[uuid'[g[1]]]) /\ running'[g] => late'[g] = 0
                        /\ Unused(g)' => New(g)'
      BY DEF AllowedInv, Unused, New, Live, is_link_allowed
    <2>1. QED BY <1>1 DEF IInv, AllowedInv, Unused, New, Live, gateVars
  <1>5. QED BY <1>2, <1>3, <1>4 DEF IInv

LEMMA SetupInv ==
  ASSUME IInv, NEW c \in Conns
  PROVE  /\ \A l \in Links : Accept(c, l) => IInv'
         /\ \A n \in 1..MaxChunk : FirstChunk(c, n) => IInv'
         /\ SetupFails(c) => IInv'
         /\ Connected(c) => IInv'
         /\ CloseTunnel(c) => IInv'
         /\ \A l \in Links : OpenSession(c, l) => IInv'
         /\ SessionConnected(c) => IInv'
  <1> USE DEF IInv, gateVars
  <1>1. ASSUME NEW l \in Links, Accept(c, l) PROVE IInv'
    <2>1. TypeOK'
      BY <1>1 DEF TypeOK, Accept, Phase
    <2>2. GateInv'
      BY <1>1 DEF GateInv, NeverFlushed, Accept
    <2>3. AllowedInv'
      BY <1>1, GateParts DEF AllowedInv, Unused, New, Live, TypeOK, Accept, is_link_allowed
    <2>4. QED BY <2>1, <2>2, <2>3
  <1>2. ASSUME NEW n \in 1..MaxChunk, FirstChunk(c, n) PROVE IInv'
    <2>1. uuid[c] \in Links /\ n \in Nat
      BY QuotaAssumption DEF TypeOK
    <2>2. /\ links' \in [Links -> Link]
          /\ \A k \in Links : is_link_allowed(links'[k]) => is_link_allowed(links[k])
      BY <1>2, <2>1, CheckAndUseFacts DEF TypeOK, FirstChunk
    <2>3. TypeOK'
      BY <1>2, <2>2 DEF TypeOK, FirstChunk, Phase
    <2>4. GateInv'
      BY <1>2 DEF GateInv, NeverFlushed, FirstChunk
    <2>5. \A g \in Gates : Unused(g)' <=> Unused(g)
      BY <1>2, GateParts DEF FirstChunk, TypeOK, Unused, Live
    <2>6. \A g \in Gates : is_link_allowed(links'[uuid'[g[1]]]) => is_link_allowed(links[uuid[g[1]]])
      BY <1>2, <2>2, GateParts DEF FirstChunk, TypeOK
    <2>7. AllowedInv'
      <3> SUFFICES ASSUME NEW g \in Gates
                   PROVE  /\ is_link_allowed(links'[uuid'[g[1]]]) /\ running'[g] => late'[g] = 0
                          /\ Unused(g)' => New(g)'
        BY DEF AllowedInv, Unused, New, Live, is_link_allowed
      <3>1. QED BY <1>2, <2>5, <2>6 DEF AllowedInv, Unused, New, Live, FirstChunk
    <2>8. QED BY <2>3, <2>4, <2>7
  <1>3. ASSUME SetupFails(c) PROVE IInv'
    <2>1. TypeOK'
      BY <1>3 DEF TypeOK, SetupFails, Phase
    <2>2. GateInv'
      BY <1>3 DEF GateInv, NeverFlushed, SetupFails
    <2>3. AllowedInv'
      BY <1>3, GateParts DEF AllowedInv, Unused, New, Live, TypeOK, SetupFails, is_link_allowed
    <2>4. QED BY <2>1, <2>2, <2>3
  <1>4. ASSUME Connected(c) PROVE IInv'
    <2>1. TypeOK'
      BY <1>4 DEF TypeOK, Connected, Phase
    <2>2. GateInv'
      BY <1>4, GateParts DEF GateInv, NeverFlushed, AllowedInv, Unused, New, Live, TypeOK, Connected
    <2>3. AllowedInv'
      BY <1>4, GateParts DEF AllowedInv, Unused, New, Live, TypeOK, Connected, is_link_allowed
    <2>4. QED BY <2>1, <2>2, <2>3
  <1>5. ASSUME CloseTunnel(c) PROVE IInv'
    <2>1. TypeOK'
      <3>1. /\ unbilled' \in [Gates -> Int] /\ late' \in [Gates -> Nat]
            /\ batch_bytes' \in [Gates -> Batch]
        BY <1>5, BatchFacts DEF TypeOK, CloseTunnel
      <3>2. ok' \in [Gates -> BOOLEAN] /\ phase' \in [Conns -> Phase]
        BY <1>5 DEF TypeOK, CloseTunnel, Phase
      <3>3. QED BY <1>5, <3>1, <3>2 DEF TypeOK, CloseTunnel
    <2>2. \A g \in Gates : g[1] = c => ~running[g]
      BY <1>5, GateParts DEF CloseTunnel, Gates
    <2>3. GateInv'
      BY <1>5, <2>2, BatchFacts, QuotaAssumption DEF GateInv, NeverFlushed, TypeOK, CloseTunnel
    <2>4. AllowedInv'
      BY <1>5, <2>2, GateParts DEF AllowedInv, Unused, New, Live, TypeOK, CloseTunnel, is_link_allowed
    <2>5. QED BY <2>1, <2>3, <2>4
  <1>6. ASSUME NEW l \in Links, OpenSession(c, l) PROVE IInv'
    <2>1. TypeOK'
      BY <1>6 DEF TypeOK, OpenSession, Phase
    <2>2. <<c, "up">> \in Gates /\ New(<<c, "up">>)
      BY <1>6 DEF AllowedInv, OpenSession, Unused, Live, Gates, Dirs
    <2>3. \A g \in Gates : g # <<c, "up">> => running'[g] = running[g]
      BY <1>6 DEF OpenSession, TypeOK
    <2>4. GateInv'
      BY <1>6, <2>2, <2>3 DEF GateInv, OpenSession, NeverFlushed, New
    <2>5. \A g \in Gates : g[1] = c => New(g)
      BY <1>6 DEF AllowedInv, OpenSession, Unused, Live
    <2>6. \A g \in Gates : g # <<c, "up">> => (New(g)' <=> New(g))
      BY <1>6, <2>3 DEF OpenSession, New
    <2>7. \A g \in Gates : g[1] # c => (Unused(g)' <=> Unused(g)) /\ uuid'[g[1]] = uuid[g[1]]
      BY <1>6, GateParts DEF OpenSession, TypeOK, Unused
    <2>8. ~Unused(<<c, "up">>)'
      BY <1>6 DEF OpenSession, Unused, Live, TypeOK
    <2>9. AllowedInv'
      <3> SUFFICES ASSUME NEW g \in Gates
                   PROVE  /\ is_link_allowed(links'[uuid'[g[1]]]) /\ running'[g] => late'[g] = 0
                          /\ Unused(g)' => New(g)'
        BY DEF AllowedInv, is_link_allowed
      <3>1. CASE g[1] = c
        BY <1>6, <2>5, <2>6, <2>8, <3>1 DEF OpenSession, New
      <3>2. CASE g[1] # c
        <4>1. g # <<c, "up">>
          BY <3>2
        <4>2. QED BY <1>6, <2>3, <2>6, <2>7, <3>2, <4>1 DEF AllowedInv, OpenSession
      <3>3. QED BY <3>1, <3>2
    <2>10. QED BY <2>1, <2>4, <2>9
  <1>7. ASSUME SessionConnected(c) PROVE IInv'
    <2>1. TypeOK'
      BY <1>7 DEF TypeOK, SessionConnected, Phase
    <2>2. <<c, "down">> \in Gates /\ New(<<c, "down">>)
      BY <1>7 DEF AllowedInv, SessionConnected, Unused, Gates, Dirs
    <2>3. \A g \in Gates : g # <<c, "down">> => running'[g] = running[g]
      BY <1>7 DEF SessionConnected, TypeOK
    <2>4. GateInv'
      BY <1>7, <2>2, <2>3 DEF GateInv, SessionConnected, NeverFlushed, New
    <2>5. \A g \in Gates : Unused(g)' => Unused(g) /\ g # <<c, "down">>
      BY <1>7, GateParts DEF SessionConnected, TypeOK, Unused, Live
    <2>6. AllowedInv'
      <3> SUFFICES ASSUME NEW g \in Gates
                   PROVE  /\ is_link_allowed(links'[uuid'[g[1]]]) /\ running'[g] => late'[g] = 0
                          /\ Unused(g)' => New(g)'
        BY DEF AllowedInv, is_link_allowed
      <3>1. QED BY <1>7, <2>2, <2>3, <2>5 DEF AllowedInv, SessionConnected, New
    <2>7. QED BY <2>1, <2>4, <2>6
  <1>8. QED BY <1>1, <1>2, <1>3, <1>4, <1>5, <1>6, <1>7

(* A frame: batched, it joins the pending bytes and stays below the batch;  *)
(* settled, the gate is exact again or refused.                             *)
LEMMA RelayFrameInv ==
  ASSUME IInv, NEW g \in Gates, NEW n \in 1..MaxChunk, RelayFrame(g, n)
  PROVE  IInv'
  <1> DEFINE l == uuid[g[1]]
  <1>1. /\ l \in Links /\ n \in Nat /\ pending[g] \in Nat /\ late[g] \in Nat
        /\ batch_bytes[g] \in Batch /\ unbilled[g] = pending[g] /\ late[g] <= pending[g]
        /\ ~Unused(g)
    BY QuotaAssumption, GateParts DEF IInv, TypeOK, GateInv, NeverFlushed, AllowedInv, New, RelayFrame
  <1>2. CASE AddBatches(g, n)
    <2>1. TypeOK'
      BY <1>1, <1>2 DEF IInv, TypeOK, RelayFrame, AddBatches
    <2>2. /\ pending[g] + n < batch_bytes[g]
          /\ batch_bytes[g] <= QUOTA_MAX_BATCH /\ batch_bytes[g] \in Nat
          /\ QUOTA_MAX_BATCH \in Nat
      BY <1>1, <1>2, BatchFacts, QuotaAssumption DEF AddBatches
    <2>3. GateInv'
      <3> SUFFICES ASSUME NEW h \in Gates
                   PROVE  /\ pending'[h] < batch_bytes'[h]
                          /\ ok'[h] => unbilled'[h] = pending'[h]
                          /\ unbilled'[h] \in 0 .. QUOTA_MAX_BATCH - 1
                          /\ ~ok'[h] \/ (~running'[h] /\ ~NeverFlushed(h)') => pending'[h] = 0
                          /\ running'[h] /\ ok'[h] => late'[h] <= pending'[h]
                          /\ late'[h] < QUOTA_MAX_BATCH
        BY DEF GateInv, NeverFlushed
      <3>1. CASE h = g
        <4>1. /\ pending'[g] = pending[g] + n /\ unbilled'[g] = pending[g] + n
              /\ late'[g] = 0 \/ late'[g] = late[g] + n
              /\ batch_bytes'[g] = batch_bytes[g] /\ running'[g] /\ ok'[g]
          BY <1>1, <1>2 DEF IInv, TypeOK, RelayFrame, AddBatches
        <4>2. QED BY <1>1, <2>2, <3>1, <4>1
      <3>2. CASE h # g
        BY <1>2, <3>2 DEF IInv, TypeOK, GateInv, NeverFlushed, RelayFrame, AddBatches
      <3>3. QED BY <3>1, <3>2
    <2>4. AllowedInv'
      <3>1. \A h \in Gates : is_link_allowed(links[uuid[h[1]]]) /\ running[h] => late'[h] = 0
        BY <1>1, <1>2 DEF IInv, TypeOK, AllowedInv, Unused, New, Live, AddBatches
      <3>2. \A h \in Gates : Unused(h) => New(h)'
        BY <1>1, <1>2 DEF IInv, TypeOK, AllowedInv, New, AddBatches
      <3>3. \A h \in Gates : Unused(h)' => Unused(h)
        BY DEF RelayFrame, Unused, Live
      <3>4. QED BY <1>2, <3>1, <3>2, <3>3 DEF AllowedInv, RelayFrame, AddBatches, is_link_allowed
    <2>5. QED BY <2>1, <2>3, <2>4 DEF IInv
  <1>3. CASE AddSettles(g, n)
    <2>1. /\ links' \in [Links -> Link]
          /\ \A k \in Links : is_link_allowed(links'[k]) => is_link_allowed(links[k])
      BY <1>1, <1>3, CheckAndUseFacts DEF IInv, TypeOK, AddSettles, AddGranted, AddRefused
    <2>2. PICK b \in Batch : batch_bytes' = [batch_bytes EXCEPT ![g] = b]
      BY <1>3 DEF AddSettles
    <2>3. b \in Nat /\ b > 0 /\ b <= QUOTA_MAX_BATCH /\ QUOTA_MAX_BATCH \in Nat
      BY BatchFacts, QuotaAssumption
    <2>4. /\ transport' = transport /\ phase' = phase /\ uuid' = uuid /\ late' = late
          /\ pending' = [pending EXCEPT ![g] = 0]
      BY <1>3 DEF RelayFrame, AddSettles, AddGranted, AddRefused
    <2>5. \A h \in Gates : is_link_allowed(links'[uuid[h[1]]]) => is_link_allowed(links[uuid[h[1]]])
      BY <2>1, GateParts DEF IInv, TypeOK
    <2>6. CASE AddGranted(g, n)
      <3>1. /\ running' = running /\ ok' = ok /\ late[g] = 0
            /\ unbilled' = [unbilled EXCEPT ![g] = 0]
        <4>1. unbilled[g] - pending[g] = 0
          BY <1>1
        <4>2. unbilled' = [unbilled EXCEPT ![g] = unbilled[g] - pending[g]]
          BY <2>6 DEF AddGranted
        <4>3. running' = running /\ ok' = ok
          BY <2>6 DEF AddGranted
        <4>4. late[g] = 0
          BY <2>6 DEF AddGranted, RelayFrame, IInv, AllowedInv, Unused, New, Live
        <4>5. QED BY <4>1, <4>2, <4>3, <4>4
      <3>2. TypeOK'
        BY <2>1, <2>2, <2>4, <3>1 DEF IInv, TypeOK
      <3>3. GateInv'
        BY <2>2, <2>3, <2>4, <3>1 DEF IInv, TypeOK, GateInv, NeverFlushed
      <3>4. AllowedInv'
        <4> SUFFICES ASSUME NEW h \in Gates
                     PROVE  /\ is_link_allowed(links'[uuid'[h[1]]]) /\ running'[h] => late'[h] = 0
                            /\ Unused(h)' => New(h)'
          BY DEF AllowedInv, Unused, New, Live, is_link_allowed
        <4>1. QED BY <1>1, <2>4, <2>5, <3>1 DEF IInv, TypeOK, AllowedInv, Unused, New, Live
      <3>5. QED BY <3>2, <3>3, <3>4 DEF IInv
    <2>7. CASE AddRefused(g, n)
      <3>1. /\ running' = [running EXCEPT ![g] = FALSE] /\ ok' = [ok EXCEPT ![g] = FALSE]
            /\ unbilled' = unbilled
        BY <2>7 DEF AddRefused
      <3>2. TypeOK'
        BY <2>1, <2>2, <2>4, <3>1 DEF IInv, TypeOK
      <3>3. GateInv'
        BY <2>2, <2>3, <2>4, <3>1 DEF IInv, TypeOK, GateInv, NeverFlushed
      <3>4. AllowedInv'
        <4> SUFFICES ASSUME NEW h \in Gates
                     PROVE  /\ is_link_allowed(links'[uuid'[h[1]]]) /\ running'[h] => late'[h] = 0
                            /\ Unused(h)' => New(h)'
          BY DEF AllowedInv, Unused, New, Live, is_link_allowed
        <4>1. QED BY <1>1, <2>4, <2>5, <3>1 DEF IInv, TypeOK, AllowedInv, Unused, New, Live
      <3>5. QED BY <3>2, <3>3, <3>4 DEF IInv
    <2>8. QED BY <1>3, <2>6, <2>7 DEF AddSettles
  <1>4. QED BY <1>2, <1>3 DEF RelayFrame

(* The flush of a relay that ends, or of a POST that leaves its session     *)
(* open: granted, the gate is exact; refused, its unbilled bytes stay what  *)
(* was pending.                                                             *)
LEMMA FlushInv ==
  ASSUME IInv, NEW g \in Gates, running[g], Flush(g),
         NEW r \in BOOLEAN, running' = [running EXCEPT ![g] = r]
  PROVE  IInv'
  <1> DEFINE l == uuid[g[1]]
  <1>1. /\ l \in Links /\ pending[g] \in Nat /\ late[g] \in Nat
        /\ batch_bytes[g] \in Batch /\ ~Unused(g)
    BY GateParts DEF IInv, TypeOK, AllowedInv, New
  <1>2. /\ running' = [running EXCEPT ![g] = r]
        /\ pending' = [pending EXCEPT ![g] = 0]
        /\ UNCHANGED <<transport, phase, uuid, batch_bytes, late>>
    BY DEF Flush
  <1>3. \A h \in Gates : batch_bytes[h] \in Nat /\ 0 < batch_bytes[h]
    BY BatchFacts DEF IInv, TypeOK
  <1>4. \A h \in Gates : (Unused(h)' => Unused(h)) /\ (NeverFlushed(h)' <=> NeverFlushed(h))
    BY <1>2 DEF Unused, Live, NeverFlushed
  <1>5. CASE ok[g] /\ is_link_allowed(links[l])
    <2>1. /\ check_and_use(l, pending[g]) /\ ok' = ok
          /\ unbilled' = [unbilled EXCEPT ![g] = unbilled[g] - pending[g]]
      BY <1>5 DEF Flush
    <2>2. /\ links' \in [Links -> Link]
          /\ \A k \in Links : is_link_allowed(links'[k]) => is_link_allowed(links[k])
      BY <1>1, <2>1, CheckAndUseFacts DEF IInv, TypeOK
    <2>3. unbilled' = [unbilled EXCEPT ![g] = 0] /\ late[g] = 0
      <3>1. unbilled[g] = pending[g] /\ late[g] = 0
        BY <1>5 DEF IInv, GateInv, AllowedInv
      <3>2. unbilled[g] - pending[g] = 0
        BY <1>1, <3>1
      <3>3. QED BY <2>1, <3>1, <3>2
    <2>4. TypeOK'
      BY <1>2, <2>1, <2>2, <2>3 DEF IInv, TypeOK
    <2>5. GateInv'
      BY <1>2, <1>3, <1>4, <2>1, <2>3, QuotaAssumption DEF IInv, TypeOK, GateInv
    <2>6. \A h \in Gates : is_link_allowed(links'[uuid[h[1]]]) => is_link_allowed(links[uuid[h[1]]])
      BY <2>2, GateParts DEF IInv, TypeOK
    <2>7. AllowedInv'
      <3> SUFFICES ASSUME NEW h \in Gates
                   PROVE  /\ is_link_allowed(links'[uuid'[h[1]]]) /\ running'[h] => late'[h] = 0
                          /\ Unused(h)' => New(h)'
        BY DEF AllowedInv, is_link_allowed
      <3>1. is_link_allowed(links'[uuid'[h[1]]]) /\ running'[h] => late'[h] = 0
        BY <1>1, <1>2, <2>1, <2>3, <2>6 DEF IInv, TypeOK, AllowedInv
      <3>2. Unused(h)' => New(h)'
        BY <1>1, <1>2, <1>4, <2>1, <2>3 DEF IInv, TypeOK, AllowedInv, New
      <3>3. QED BY <3>1, <3>2
    <2>8. QED BY <2>4, <2>5, <2>7 DEF IInv
  <1>6. CASE ~(ok[g] /\ is_link_allowed(links[l]))
    <2>1. /\ links' = links /\ unbilled' = unbilled
          /\ ok' = [ok EXCEPT ![g] = ok[g] /\ pending[g] = 0]
      BY <1>6 DEF Flush
    <2>2. TypeOK'
      BY <1>2, <2>1 DEF IInv, TypeOK
    <2>3. GateInv'
      <3> SUFFICES ASSUME NEW h \in Gates
                   PROVE  /\ pending'[h] < batch_bytes'[h]
                          /\ ok'[h] => unbilled'[h] = pending'[h]
                          /\ unbilled'[h] \in 0 .. QUOTA_MAX_BATCH - 1
                          /\ ~ok'[h] \/ (~running'[h] /\ ~NeverFlushed(h)') => pending'[h] = 0
                          /\ running'[h] /\ ok'[h] => late'[h] <= pending'[h]
                          /\ late'[h] < QUOTA_MAX_BATCH
        BY DEF GateInv
      <3>1. CASE h = g
        <4>1. ok'[g] => ok[g] /\ pending[g] = 0
          BY <2>1 DEF IInv, TypeOK
        <4>2. pending'[g] = 0 /\ (ok'[g] => late[g] = 0)
          BY <1>1, <1>2, <4>1 DEF IInv, TypeOK, GateInv
        <4>3. QED BY <1>2, <1>3, <2>1, <3>1, <4>1, <4>2 DEF IInv, GateInv
      <3>2. CASE h # g
        BY <1>2, <1>4, <2>1, <3>2 DEF IInv, TypeOK, GateInv, NeverFlushed
      <3>3. QED BY <3>1, <3>2
    <2>4. AllowedInv'
      <3> SUFFICES ASSUME NEW h \in Gates
                   PROVE  /\ is_link_allowed(links'[uuid'[h[1]]]) /\ running'[h] => late'[h] = 0
                          /\ Unused(h)' => New(h)'
        BY DEF AllowedInv, is_link_allowed
      <3>1. is_link_allowed(links'[uuid'[h[1]]]) /\ running'[h] => late'[h] = 0
        BY <1>1, <1>2, <2>1 DEF IInv, TypeOK, AllowedInv
      <3>2. Unused(h)' => New(h)'
        BY <1>1, <1>2, <1>4, <2>1 DEF IInv, TypeOK, AllowedInv, New
      <3>3. QED BY <3>1, <3>2
    <2>5. QED BY <2>2, <2>3, <2>4 DEF IInv
  <1>7. QED BY <1>5, <1>6

(* The end of the gate that is never flushed: what is pending stays so.     *)
LEMMA EndsInv ==
  ASSUME IInv, NEW g \in Gates, running[g], Ends(g)
  PROVE  IInv'
  <1>1. CASE NeverFlushed(g)
    <2>1. /\ running' = [running EXCEPT ![g] = FALSE]
          /\ UNCHANGED <<links, transport, phase, uuid, ok, pending, batch_bytes, unbilled, late>>
      BY <1>1 DEF Ends
    <2>2. TypeOK'
      BY <2>1 DEF IInv, TypeOK
    <2>3. \A h \in Gates : (Unused(h)' => Unused(h)) /\ (NeverFlushed(h)' <=> NeverFlushed(h))
      BY <2>1 DEF Unused, Live, NeverFlushed
    <2>4. \A h \in Gates : (h # g => running'[h] = running[h]) /\ ~running'[g]
      BY <2>1 DEF IInv, TypeOK
    <2>5. GateInv'
      BY <1>1, <2>1, <2>3, <2>4 DEF IInv, GateInv
    <2>6. AllowedInv'
      <3> SUFFICES ASSUME NEW h \in Gates
                   PROVE  /\ is_link_allowed(links'[uuid'[h[1]]]) /\ running'[h] => late'[h] = 0
                          /\ Unused(h)' => New(h)'
        BY DEF AllowedInv, is_link_allowed
      <3>1. is_link_allowed(links'[uuid'[h[1]]]) /\ running'[h] => late'[h] = 0
        BY <2>1, <2>4 DEF IInv, AllowedInv
      <3>2. Unused(h)' => New(h)'
        BY <2>1, <2>3, <2>4 DEF IInv, AllowedInv, New
      <3>3. QED BY <3>1, <3>2
    <2>7. QED BY <2>2, <2>5, <2>6 DEF IInv
  <1>2. CASE ~NeverFlushed(g)
    BY <1>2, FlushInv DEF Ends
  <1>3. QED BY <1>1, <1>2

LEMMA TableUpdate ==
  ASSUME links \in [Links -> Link], NEW l \in Links, NEW r \in Link
  PROVE  [links EXCEPT ![l] = r] \in [Links -> Link]
  OBVIOUS

LEMMA StepInv == IInv /\ [Next]_vars => IInv'
  <1> SUFFICES ASSUME IInv, [Next]_vars PROVE IInv'
    OBVIOUS
  <1>1. ASSUME NEW l \in Links, NEW m \in Limits, create_link(l, m) PROVE IInv'
    <2>1. [NoLink EXCEPT !.present = TRUE, !.active = TRUE, !.limit_bytes = m] \in Link
      BY QuotaAssumption DEF NoLink, Link
    <2>2. links' \in [Links -> Link]
      BY <1>1, <2>1, TableUpdate DEF create_link, IInv, TypeOK
    <2>3. QED BY <1>1, <2>2, LinkStepInv DEF create_link
  <1>2. ASSUME NEW l \in Links, update_link(l) PROVE IInv'
    <2>1. links[l].used_bytes \in Nat /\ links[l].limit_bytes \in Nat
          /\ links[l].expired \in BOOLEAN
      BY DEF IInv, TypeOK, Link
    <2>2. PICK a \in BOOLEAN, u \in {links[l].used_bytes, 0},
               m \in {links[l].limit_bytes} \union Limits, e \in {links[l].expired, FALSE} :
            links' = [links EXCEPT ![l] = [present |-> TRUE, active |-> a, expired |-> e,
                                           limit_bytes |-> m, used_bytes |-> u]]
      BY <1>2 DEF update_link
    <2>3. u \in Nat /\ m \in Nat /\ e \in BOOLEAN
      <3>1. u \in Nat
        BY <2>1
      <3>2. m \in Nat
        BY <2>1, QuotaAssumption
      <3>3. e \in BOOLEAN
        BY <2>1, Zenon
      <3>4. QED BY <3>1, <3>2, <3>3
    <2>4. [present |-> TRUE, active |-> a, expired |-> e,
           limit_bytes |-> m, used_bytes |-> u] \in Link
      BY <2>3 DEF Link
    <2>5. links' \in [Links -> Link]
      BY <2>2, <2>4, TableUpdate DEF IInv, TypeOK
    <2>6. QED BY <1>2, <2>5, LinkStepInv DEF update_link
  <1>3. ASSUME NEW l \in Links, delete_link(l) PROVE IInv'
    <2>1. links' \in [Links -> Link]
      BY <1>3, NoLinkFacts DEF delete_link, IInv, TypeOK
    <2>2. \A k \in Links : is_link_allowed(links'[k]) => is_link_allowed(links[k])
      BY <1>3, NoLinkFacts DEF delete_link, IInv, TypeOK
    <2>3. QED BY <1>3, <2>1, <2>2, RevokeStepInv DEF delete_link
  <1>4. ASSUME NEW l \in Links, Expire(l) PROVE IInv'
    <2>1. links' \in [Links -> Link]
      BY <1>4 DEF Expire, IInv, TypeOK, Link
    <2>2. \A k \in Links : is_link_allowed(links'[k]) => is_link_allowed(links[k])
      BY <1>4 DEF Expire, IInv, TypeOK, Link, is_link_allowed
    <2>3. QED BY <1>4, <2>1, <2>2, RevokeStepInv DEF Expire
  <1>5. ASSUME backup_import PROVE IInv'
    BY <1>5, QuotaAssumption, LinkStepInv DEF backup_import
  <1>6. ASSUME NEW g \in Gates, NEW n \in 1..MaxChunk, RelayFrame(g, n) PROVE IInv'
    BY <1>6, RelayFrameInv
  <1>7. ASSUME NEW g \in Gates, RelayEnd(g) \/ CancelOther(g) PROVE IInv'
    BY <1>7, EndsInv DEF RelayEnd, CancelOther
  <1>8. ASSUME NEW c \in Conns, PostEnds(c) PROVE IInv'
    <2>1. <<c, "up">> \in Gates /\ running[<<c, "up">>] /\ Flush(<<c, "up">>)
      BY <1>8 DEF PostEnds, Gates, Dirs
    <2>2. running' = [running EXCEPT ![<<c, "up">>] = TRUE]
      BY <1>8, <2>1 DEF PostEnds, IInv, TypeOK
    <2>3. QED BY <2>1, <2>2, FlushInv
  <1>9. CASE UNCHANGED vars
    BY <1>9 DEF vars, IInv, TypeOK, GateInv, NeverFlushed, AllowedInv, Unused, New, Live, is_link_allowed
  <1>10. QED
    BY <1>1, <1>2, <1>3, <1>4, <1>5, <1>6, <1>7, <1>8, <1>9, SetupInv DEF Next

THEOREM Invariance == Spec => []IInv
  <1>1. QED BY InitInv, StepInv, PTL DEF Spec

(* Every reachable state is well typed. *)
THEOREM TypeCorrect == Spec => []TypeOK
  <1>1. IInv => TypeOK
    BY DEF IInv
  <1>2. QED BY <1>1, Invariance, PTL

(* No gate ever lets a whole QUOTA_MAX_BATCH of bytes through unbilled, nor *)
(* bills bytes it did not relay, for any number of tunnels and links.       *)
THEOREM BillingWithinOneBatch == Spec => []UnbilledBounded
  <1>1. IInv => UnbilledBounded
    BY DEF IInv, GateInv, UnbilledBounded
  <1>2. QED BY <1>1, Invariance, PTL

(* The flush at the end of a relay settles everything that was let through. *)
THEOREM EndedRelaysAreBilled == Spec => []EndedMeansBilled
  <1>1. IInv => EndedMeansBilled
    BY DEF IInv, GateInv, EndedMeansBilled
  <1>2. QED BY <1>1, Invariance, PTL

(* A revoked link's open relays let less than one batch each through. *)
THEOREM LateTrafficWithinOneBatch == Spec => []LateTrafficBounded
  <1>1. IInv => LateTrafficBounded
    BY DEF IInv, GateInv, LateTrafficBounded
  <1>2. QED BY <1>1, Invariance, PTL
------------------------------------------------------------------------------
(* One charge leaves a limited link below its limit plus one batch and one frame. *)
LEMMA ChargeOvershoot ==
  ASSUME links \in [Links -> Link], NEW k \in Links, NEW l \in Links, NEW n \in Nat,
         check_and_use(l, n), n < QUOTA_MAX_BATCH + MaxChunk,
         links'[k].used_bytes > links[k].used_bytes, links[k].limit_bytes > 0
  PROVE  links'[k].used_bytes < links[k].limit_bytes + QUOTA_MAX_BATCH + MaxChunk - 1
  <1>1. /\ links[k].used_bytes \in Nat /\ links[k].limit_bytes \in Nat
        /\ QUOTA_MAX_BATCH \in Nat /\ MaxChunk \in Nat
    BY QuotaAssumption DEF Link
  <1>2. links'[k] # links[k]
    BY <1>1
  <1>3. is_link_allowed(links[k]) /\ links'[k].used_bytes = links[k].used_bytes + n
    BY <1>2, CheckAndUseFacts
  <1>4. links[k].used_bytes < links[k].limit_bytes
    BY <1>3 DEF is_link_allowed
  <1>5. QED BY <1>1, <1>3, <1>4

(* However many tunnels of a link race, no charge takes its usage past the  *)
(* limit by a full batch and a frame.                                       *)
THEOREM OvershootWithinOneBatch == Spec => OvershootBounded
  <1> DEFINE Bounded ==
        \/ backup_import
        \/ \A l \in Links :
             links'[l].used_bytes > links[l].used_bytes /\ links[l].limit_bytes > 0
               => links'[l].used_bytes < links[l].limit_bytes + QUOTA_MAX_BATCH + MaxChunk - 1
  <1>1. IInv /\ [Next]_vars => [Bounded]_vars
    <2> SUFFICES ASSUME IInv, Next, NEW k \in Links,
                        links'[k].used_bytes > links[k].used_bytes, links[k].limit_bytes > 0
                 PROVE  \/ backup_import
                        \/ links'[k].used_bytes <
                             links[k].limit_bytes + QUOTA_MAX_BATCH + MaxChunk - 1
      OBVIOUS
    <2>1. /\ links[k].used_bytes \in Nat /\ links \in [Links -> Link]
          /\ QUOTA_MAX_BATCH \in Nat \ {0} /\ MaxChunk \in Nat
      BY QuotaAssumption DEF IInv, TypeOK, Link
    <2>2. links'[k] # links[k]
      BY <2>1
    <2>3. ASSUME NEW l \in Links, NEW m \in Limits, create_link(l, m) PROVE FALSE
      BY <2>1, <2>3 DEF create_link, NoLink
    <2>4. ASSUME NEW l \in Links, update_link(l) PROVE FALSE
      BY <2>1, <2>4 DEF update_link
    <2>5. ASSUME NEW l \in Links, delete_link(l) PROVE FALSE
      BY <2>1, <2>5 DEF delete_link, NoLink
    <2>6. ASSUME NEW l \in Links, Expire(l) PROVE FALSE
      BY <2>1, <2>6 DEF Expire, Link
    <2>7. ASSUME NEW c \in Conns, NEW l \in Links,
                 \/ Accept(c, l) \/ SetupFails(c) \/ Connected(c) \/ CloseTunnel(c)
                 \/ OpenSession(c, l) \/ SessionConnected(c)
          PROVE  FALSE
      BY <2>2, <2>7 DEF Accept, SetupFails, Connected, CloseTunnel, OpenSession, SessionConnected
    <2>8. ASSUME NEW c \in Conns, NEW n \in 1..MaxChunk, FirstChunk(c, n)
          PROVE  links'[k].used_bytes < links[k].limit_bytes + QUOTA_MAX_BATCH + MaxChunk - 1
      <3>1. uuid[c] \in Links /\ n \in Nat /\ n < QUOTA_MAX_BATCH + MaxChunk
        BY <2>1 DEF IInv, TypeOK
      <3>2. check_and_use(uuid[c], n)
        BY <2>8 DEF FirstChunk
      <3>3. QED BY <2>1, <3>1, <3>2, ChargeOvershoot
    <2>9. ASSUME NEW g \in Gates PROVE /\ uuid[g[1]] \in Links
                                      /\ pending[g] \in Nat
                                      /\ pending[g] < QUOTA_MAX_BATCH
      <3>1. /\ pending[g] \in Nat /\ pending[g] < batch_bytes[g]
            /\ batch_bytes[g] \in Nat /\ batch_bytes[g] <= QUOTA_MAX_BATCH
        BY BatchFacts DEF IInv, TypeOK, GateInv
      <3>2. QED BY <2>1, <3>1, GateParts DEF IInv, TypeOK
    <2>10. ASSUME NEW g \in Gates, NEW n \in 1..MaxChunk, RelayFrame(g, n)
           PROVE  links'[k].used_bytes < links[k].limit_bytes + QUOTA_MAX_BATCH + MaxChunk - 1
      <3>1. check_and_use(uuid[g[1]], pending[g] + n)
        BY <2>2, <2>10 DEF RelayFrame, AddBatches, AddSettles, AddGranted, AddRefused
      <3>2. pending[g] + n \in Nat /\ pending[g] + n < QUOTA_MAX_BATCH + MaxChunk
        BY <2>1, <2>9
      <3>3. QED BY <2>1, <2>9, <3>1, <3>2, ChargeOvershoot
    <2>11. ASSUME NEW g \in Gates, Flush(g)
           PROVE  links'[k].used_bytes < links[k].limit_bytes + QUOTA_MAX_BATCH + MaxChunk - 1
      <3>1. check_and_use(uuid[g[1]], pending[g])
        BY <2>2, <2>11 DEF Flush
      <3>2. pending[g] < QUOTA_MAX_BATCH + MaxChunk
        BY <2>1, <2>9
      <3>3. QED BY <2>1, <2>9, <3>1, <3>2, ChargeOvershoot
    <2>12. ASSUME NEW g \in Gates, RelayEnd(g) \/ CancelOther(g) PROVE Flush(g)
      BY <2>2, <2>12 DEF RelayEnd, CancelOther, Ends
    <2>13. ASSUME NEW c \in Conns, PostEnds(c) PROVE <<c, "up">> \in Gates /\ Flush(<<c, "up">>)
      BY <2>13 DEF PostEnds, Gates, Dirs
    <2>14. QED
      BY <2>3, <2>4, <2>5, <2>6, <2>7, <2>8, <2>10, <2>11, <2>12, <2>13 DEF Next
  <1>2. QED BY <1>1, Invariance, PTL DEF Spec, OvershootBounded
==============================================================================
