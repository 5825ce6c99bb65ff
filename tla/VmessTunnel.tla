---------------------------- MODULE VmessTunnel ----------------------------
(***************************************************************************)
(* The VMess tunnel, over a WebSocket and over TCP: the handler            *)
(* handle_vmess_stream, the chunk reader and writer it uses, and the ends  *)
(* of the two transports.  Every chunk is charged by itself: no gate.      *)
(***************************************************************************)
EXTENDS Tunnel

VmessRuns(t) == t \in Vmess /\ Live(t)

\* What arrives as a request: the right one, one of another user or damaged,
\* one that asks for what is not served, and one whose options ask for padding
\* without the masking that the writer takes the padding's length from.
Headers == {"good", "forged", "unserved", "padding_only"}
decode_request(h) ==
  CASE h = "forged"   -> "auth error"
    [] h = "unserved" -> "protocol error"
    [] OTHER          -> "request"

(***************************************************************************)
(* The handler up to the relay.                                            *)
(***************************************************************************)
VmessAccept(t) ==
  /\ t \in Vmess /\ pc[t] = "accepted"
  /\ pc' = [pc EXCEPT ![t] = IF link THEN "handshake" ELSE "closed"]
  /\ UNCHANGED <<link, proto, up, down, client, reader, target>>

\* The request is read without any timeout; check_and_use(uuid, 0) follows.
VmessRequest(t) ==
  /\ t \in Vmess /\ pc[t] = "handshake"
  /\ \E h \in Headers :
       IF decode_request(h) = "request" /\ link
       THEN /\ pc' = [pc EXCEPT ![t] = "dialing"]
            /\ reader' = [reader EXCEPT ![t].options = IF h = "good" THEN "sound" ELSE h]
       ELSE /\ pc' = [pc EXCEPT ![t] = "closed"]
            /\ UNCHANGED reader
  /\ UNCHANGED <<link, proto, up, down, client, target>>

\* The client ends before its request is complete.
VmessNoRequest(t) ==
  /\ t \in Vmess /\ pc[t] = "handshake" /\ client[t].end # "open"
  /\ Closes(t)

VmessConnected(t) == t \in Vmess /\ pc[t] = "dialing" /\ RelayStarts(t, 0)
VmessUnreachable(t) == t \in Vmess /\ pc[t] = "dialing" /\ Closes(t)

(***************************************************************************)
(* BodyReader.read in two halves: the length cell, then the payload cell.  *)
(* An odd reader.taken is a length whose payload is awaited.               *)
(***************************************************************************)
Waiting(t) == VmessRuns(t) /\ up[t] = "run" /\ reader[t].taken = client[t].wire
Arrived(t) == VmessRuns(t) /\ up[t] = "run" /\ reader[t].taken < client[t].wire
AtPayload(t) == reader[t].taken % 2 = 1

\* Cells are consumed one at a time, whatever pieces they arrived in.
Takes(t) == reader' = [reader EXCEPT ![t].taken = @ + 1, ![t].fed = @ + 1]

ReadLength(t) ==
  /\ Arrived(t) /\ ~AtPayload(t)
  /\ ~(client[t].term /\ reader[t].taken + 1 = client[t].wire)
  /\ Takes(t)
  /\ UNCHANGED <<link, proto, pc, up, down, client, target>>

\* Mutant: the payload is written before it is charged.
ReadPayloadFirst(t) ==
  /\ Arrived(t) /\ AtPayload(t)
  /\ Takes(t)
  /\ target' = [target EXCEPT ![t].got = @ + 1]
  /\ up' = [up EXCEPT ![t] = IF link THEN @ ELSE "quota"]
  /\ UNCHANGED <<link, proto, pc, down, client>>

\* The payload is opened, charged and written; a refusal closes the client.
ReadPayload(t) ==
  /\ Arrived(t) /\ AtPayload(t)
  /\ Takes(t)
  /\ IF link THEN /\ target' = [target EXCEPT ![t].got = @ + 1]
                  /\ UNCHANGED up
             ELSE /\ up' = [up EXCEPT ![t] = "quota"]
                  /\ UNCHANGED target
  /\ UNCHANGED <<link, proto, pc, down, client>>

\* Mutant: the size is compared without the padding's length, so the length of
\* an ordinary chunk can be taken for the end of the stream.
ReadTerminationUnpadded(t) ==
  /\ Arrived(t) /\ ~AtPayload(t)
  /\ UpEnds(t, "eof")

ReadTermination(t) ==
  /\ Arrived(t) /\ ~AtPayload(t)
  /\ client[t].term /\ reader[t].taken + 1 = client[t].wire
  /\ UpEnds(t, "eof")

\* fill answers b"": the stream is over, or a WebSocket message was empty.
\* Between chunks that is the clean end of the body, inside one an error.
NoMoreBytes(t) ==
  /\ Waiting(t)
  /\ client[t].end # "open" \/ proto[t] = "vmess-ws"
  /\ IF AtPayload(t) THEN UpStops(t, "error") ELSE UpEnds(t, "eof")

UpReset(t) ==
  /\ Waiting(t) /\ proto[t] = "vmess-tcp" /\ client[t].end = "gone"
  /\ UpEnds(t, "reset")

(***************************************************************************)
(* target_to_client: charge, seal, send.                                   *)
(***************************************************************************)
\* _seal asks the masking stream, which is None, for the padding's length.
write_chunk_fails(t) == reader[t].options = "padding_only"

ReplyRead(t) ==
  /\ VmessRuns(t) /\ down[t] = "run" /\ Pending(t) > 0
  /\ IF ~link THEN DownEnds(t, "quota")
     ELSE IF write_chunk_fails(t) THEN DownEnds(t, "error")
     ELSE /\ target' = [target EXCEPT ![t].read = target[t].sent]
          /\ UNCHANGED <<link, proto, pc, up, down, client, reader>>

\* A send to a client that left may fail instead.
ReplyUndelivered(t) ==
  /\ VmessRuns(t) /\ down[t] = "run" /\ client[t].end = "gone"
  /\ Pending(t) > 0 \/ ~target[t].open
  /\ DownEnds(t, "reset")

\* The target closed: the empty chunk, which padding without masking prevents.
ReplyEof(t) ==
  /\ VmessRuns(t) /\ down[t] = "run" /\ Pending(t) = 0 /\ ~target[t].open
  /\ DownEnds(t, IF write_chunk_fails(t) THEN "error" ELSE "eof")

\* 600 seconds without a byte from the target.
ReplyTimesOut(t) ==
  /\ VmessRuns(t) /\ down[t] = "run" /\ Pending(t) = 0 /\ target[t].open
  /\ DownEnds(t, "expired")

(***************************************************************************)
(* asyncio.wait in a loop: after a clean end of the client's stream it is  *)
(* entered again, and returns at once, until the reply is over.            *)
(***************************************************************************)
\* Mutant: the first task that is done ends the tunnel.
EndsAtFirst(t) == Ended(down[t]) \/ Ended(up[t])

\* Mutant: the tunnel waits for both tasks.
EndsAtLast(t) == Ended(down[t]) /\ Ended(up[t])

EndsTheWait(t) == Ended(down[t]) \/ up[t] \in {"quota", "reset", "error"}

WaitReturns(t) ==
  /\ VmessRuns(t) /\ EndsTheWait(t)
  /\ RelayCloses(t, "cancelled")

VmessHandler(t) ==
  \/ VmessAccept(t) \/ VmessRequest(t) \/ VmessNoRequest(t)
  \/ VmessConnected(t) \/ VmessUnreachable(t)

VmessUp(t) ==
  \/ ReadLength(t) \/ ReadPayload(t) \/ ReadTermination(t)
  \/ NoMoreBytes(t) \/ UpReset(t)

VmessDown(t) ==
  \/ ReplyRead(t) \/ ReplyUndelivered(t) \/ ReplyEof(t) \/ ReplyTimesOut(t)

VmessNext == \E t \in Tunnels : \/ VmessHandler(t) \/ VmessUp(t)
                                \/ VmessDown(t) \/ WaitReturns(t)
=============================================================================
