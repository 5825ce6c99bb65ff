------------------------------ MODULE Streams ------------------------------
(***************************************************************************)
(* The panel's chunk tunnels together: every connection of a link came to  *)
(* one of the four listeners, and is handled as that one does.             *)
(***************************************************************************)
EXTENDS VmessTunnel, ShadowsocksTunnel

StreamsNext == Surroundings \/ VmessNext \/ SsNext

StreamsSpec == StreamsInit /\ [][StreamsNext]_tvars

\* The event loop runs every task that can go on, and timers fire.  Peers and
\* the panel's user owe nothing.
StreamsFairness ==
  \A t \in Tunnels :
    /\ WF_tvars(VmessUp(t)) /\ WF_tvars(VmessDown(t)) /\ WF_tvars(WaitReturns(t))
    /\ WF_tvars(SsUp(t)) /\ WF_tvars(SsDown(t)) /\ WF_tvars(SsEnd(t))

StreamsFairSpec == StreamsSpec /\ StreamsFairness

(***************************************************************************)
(* Properties.                                                             *)
(***************************************************************************)
\* A reply is not cut because the client finished its request: a relay towards
\* the client that is stopped before its end is stopped because the link was
\* refused, the stream was damaged, the connection broke, the client went away,
\* or a timeout passed.  The timeouts are the 600 seconds of VMess without a
\* byte from the target, and the 300 that Shadowsocks over TCP grants a reply
\* after the end of the request (tcp_server.py:171-177), however lively it is.
\* The half-closed streams of VMess and of Shadowsocks over TCP depend on it.
ReplyOutlivesRequest ==
  \A t \in Tunnels :
    down[t] \in {"cancelled", "expired"} =>
      \/ up[t] \in {"quota", "reset", "error"}
      \/ client[t].end = "gone"
      \/ down[t] = "expired" /\ (t \in Vmess \/ (proto[t] = "ss-tcp" /\ up[t] = "eof"))

\* Whatever the pieces a stream arrives in, the target gets the client's
\* chunks whole, each once, and is told the end of the stream only when the
\* client ended it, a read was refused, or the stream could not be decrypted.
NothingLostBeforeEof ==
  \A t \in Tunnels :
    target[t].eof /\ up[t] = "eof" /\ proto[t] # "vmess-ws" =>
      /\ client[t].term \/ client[t].end # "open"
      /\ target[t].got = client[t].wire \div 2

\* The AEAD stream of Shadowsocks fails on an honest client only when some
\* read ended between the length of a chunk and the end of its payload.
FailsOnlyOnSplit ==
  [][\A t \in Ss :
       up[t] = "run" /\ up'[t] = "error" => reader[t].fed % 2 = 1]_tvars

\* VMess charges chunk by chunk: while the link is refused no chunk passes in
\* either direction, in any of the tunnels that were open before, and a direction
\* that was refused passes none any more, also if the link is allowed again.
RefusedPassesNothing ==
  [][\A t \in Vmess :
       /\ ~link \/ up[t] = "quota" => target'[t].got = target[t].got
       /\ ~link \/ down[t] = "quota" => target'[t].read = target[t].read]_tvars

\* A tunnel whose client ended its stream or whose target closed comes to its
\* end: no handler waits for ever on the other direction.
EndedStreamEndsTunnel ==
  \A t \in Tunnels :
    (Live(t) /\ (client[t].end # "open" \/ ~target[t].open)) ~> pc[t] = "closed"

\* The stream decoder takes a chunk however its bytes were split over reads.
SplitsAreHarmless == \A t \in Ss : up[t] # "error"
=============================================================================
