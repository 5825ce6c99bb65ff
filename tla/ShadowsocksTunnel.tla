------------------------- MODULE ShadowsocksTunnel -------------------------
(***************************************************************************)
(* The Shadowsocks tunnel, over a WebSocket and over TCP: the handshake    *)
(* that finds the link by trying its key, the AEAD stream, the two relays. *)
(* The first chunk carries the address; cell 1 stands for the salt too.    *)
(* The relays charge through _QuotaGate (module Quota), so between two     *)
(* settlements a frame of a refused link may pass.                         *)
(***************************************************************************)
EXTENDS Tunnel

Relaying(t) == t \in Ss /\ Live(t)

(***************************************************************************)
(* _AEADStream: try_decrypt_chunks on what is buffered, the cells taken+1  *)
(* to fed.  Cell number c opens under counter value c - 1 only.  The       *)
(* counter passes a length whose payload is still missing, and the length  *)
(* stays in the buffer.                                                    *)
(***************************************************************************)
CannotOpen(r) == r.fed > r.taken /\ r.nonce # r.taken

\* Mutant: the counter advances once a chunk.
DecryptCountsChunks(r) ==
  IF CannotOpen(r) THEN r
  ELSE LET k == (r.fed - r.taken) \div 2
       IN [r EXCEPT !.taken = @ + 2 * k, !.nonce = @ + k]

try_decrypt_chunks(r) ==
  IF CannotOpen(r) THEN r
  ELSE [r EXCEPT !.taken = @ + 2 * ((r.fed - @) \div 2), !.nonce = r.fed]

feed(r, n) == [r EXCEPT !.fed = @ + n]

\* What one read hands over: a WebSocket message is any piece of the stream,
\* a TCP read is all that arrived.  A piece may complete no cell.
Comes(t) == \/ client[t].wire > reader[t].fed
            \/ client[t].end = "open" /\ client[t].wire < 2 * MaxChunks
Pieces(t) == IF ~Comes(t) THEN {}
             ELSE IF proto[t] = "ss-ws" THEN 0..(client[t].wire - reader[t].fed)
             ELSE {client[t].wire - reader[t].fed}

(***************************************************************************)
(* The handshake: every piece is added to `raw`, and all of it is tried    *)
(* with a new stream of each allowed link.                                 *)
(***************************************************************************)
SsAccept(t) ==
  /\ t \in Ss /\ pc[t] = "accepted"
  /\ pc' = [pc EXCEPT ![t] = "handshake"]
  /\ UNCHANGED <<link, proto, up, down, client, reader, target>>

FreshReader(r) == [r EXCEPT !.taken = 0, !.nonce = 0]

SsPiece(t) ==
  /\ t \in Ss /\ pc[t] = "handshake"
  /\ \E n \in Pieces(t) :
       LET raw   == feed(reader[t], n)
           tried == try_decrypt_chunks(FreshReader(raw))
       IN IF link /\ tried.taken > 0
          THEN /\ reader' = [reader EXCEPT ![t] = tried]
               /\ pc' = [pc EXCEPT ![t] = "matched"]
          ELSE /\ reader' = [reader EXCEPT ![t] = raw]
               /\ UNCHANGED pc
  /\ UNCHANGED <<link, proto, up, down, client, target>>

\* 15 seconds, 64 KiB, or the client ended before a key matched.
SsNoMatch(t) == t \in Ss /\ pc[t] = "handshake" /\ Closes(t)

\* check_and_use for the bytes of the handshake; the address is parsed.
SsCharged(t) ==
  /\ t \in Ss /\ pc[t] = "matched" /\ link
  /\ pc' = [pc EXCEPT ![t] = "dialing"]
  /\ UNCHANGED <<link, proto, up, down, client, reader, target>>

SsRefused(t) == t \in Ss /\ pc[t] = "matched" /\ ~link /\ Closes(t)

\* The rest of the first chunk and the chunks behind it are written at once.
SsConnected(t) ==
  t \in Ss /\ pc[t] = "dialing" /\ RelayStarts(t, reader[t].taken \div 2)
SsUnreachable(t) == t \in Ss /\ pc[t] = "dialing" /\ Closes(t)

(***************************************************************************)
(* client -> target: read, decrypt, then each payload through the gate.    *)
(***************************************************************************)
Decrypted(t) == reader[t].taken \div 2 - target[t].got
Reading(t)   == Relaying(t) /\ up[t] = "run" /\ Decrypted(t) = 0

SsRead(t) ==
  /\ Reading(t)
  /\ \E n \in Pieces(t) :
       LET r == feed(reader[t], n) IN
       /\ reader' = [reader EXCEPT ![t] = try_decrypt_chunks(r)]
       /\ IF CannotOpen(r)
          THEN /\ up' = [up EXCEPT ![t] = "error"]
               /\ target' = [target EXCEPT ![t].eof = TRUE]
          ELSE UNCHANGED <<up, target>>
  /\ UNCHANGED <<link, proto, pc, down, client>>

SsForward(t) ==
  /\ Relaying(t) /\ up[t] = "run" /\ Decrypted(t) > 0
  /\ target' = [target EXCEPT ![t].got = @ + 1]
  /\ UNCHANGED <<link, proto, pc, up, down, client, reader>>

SsUpRefused(t) ==
  /\ Relaying(t) /\ up[t] = "run" /\ Decrypted(t) > 0 /\ ~link
  /\ UpEnds(t, "quota")

SsUpEof(t) ==
  /\ Reading(t) /\ client[t].end # "open" /\ reader[t].fed = client[t].wire
  /\ UpEnds(t, "eof")

(***************************************************************************)
(* target -> client: what was read at once becomes one chunk, whose length *)
(* must fit two bytes.                                                     *)
(***************************************************************************)
encrypt_chunk_fails(n) == n > PackMax

SsReply(t) ==
  /\ Relaying(t) /\ down[t] = "run"
  /\ \E n \in 1..Pending(t) :
       IF encrypt_chunk_fails(n) THEN DownEnds(t, "error")
       ELSE /\ target' = [target EXCEPT ![t].read = @ + n]
            /\ UNCHANGED <<link, proto, pc, up, down, client, reader>>

SsDownRefused(t) ==
  /\ Relaying(t) /\ down[t] = "run" /\ Pending(t) > 0 /\ ~link
  /\ DownEnds(t, "quota")

SsUndelivered(t) ==
  /\ Relaying(t) /\ down[t] = "run" /\ Pending(t) > 0 /\ client[t].end = "gone"
  /\ DownEnds(t, "reset")

SsReplyEof(t) ==
  /\ Relaying(t) /\ down[t] = "run" /\ Pending(t) = 0 /\ ~target[t].open
  /\ DownEnds(t, "eof")

(***************************************************************************)
(* The end: a WebSocket tunnel ends with its first relay; a TCP tunnel     *)
(* whose client ended gives the reply 300 seconds more.                    *)
(***************************************************************************)
SsFirstEnds(t) ==
  /\ Relaying(t) /\ pc[t] = "relay"
  /\ Ended(down[t]) \/ (proto[t] = "ss-ws" /\ Ended(up[t]))
  /\ RelayCloses(t, "cancelled")

SsLingers(t) ==
  /\ Relaying(t) /\ pc[t] = "relay" /\ proto[t] = "ss-tcp"
  /\ Ended(up[t]) /\ ~Ended(down[t])
  /\ pc' = [pc EXCEPT ![t] = "linger"]
  /\ UNCHANGED <<link, proto, up, down, client, reader, target>>

SsLingerEnds(t) ==
  /\ Relaying(t) /\ pc[t] = "linger" /\ Ended(down[t])
  /\ RelayCloses(t, "cancelled")

SsLingerExpires(t) ==
  /\ Relaying(t) /\ pc[t] = "linger" /\ ~Ended(down[t])
  /\ RelayCloses(t, "expired")

SsHandler(t) ==
  \/ SsAccept(t) \/ SsPiece(t) \/ SsNoMatch(t) \/ SsCharged(t)
  \/ SsRefused(t) \/ SsConnected(t) \/ SsUnreachable(t)

SsUp(t) == SsRead(t) \/ SsForward(t) \/ SsUpRefused(t) \/ SsUpEof(t)

SsDown(t) ==
  SsReply(t) \/ SsDownRefused(t) \/ SsUndelivered(t) \/ SsReplyEof(t)

SsEnd(t) ==
  SsFirstEnds(t) \/ SsLingers(t) \/ SsLingerEnds(t) \/ SsLingerExpires(t)

SsNext == \E t \in Tunnels : SsHandler(t) \/ SsUp(t) \/ SsDown(t) \/ SsEnd(t)
=============================================================================
