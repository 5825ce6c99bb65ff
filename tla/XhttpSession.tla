---------------------------- MODULE XhttpSession -----------------------------
(***************************************************************************)
(* The XHTTP transport of VLESS and of Trojan (two copies of one engine):  *)
(* a session id in the URL ties together the POSTs that carry the uplink   *)
(* (packet-up: numbered packets; stream-up: one long body), the GET that   *)
(* streams the downlink, the TCP connection opened by the first bytes, its *)
(* pump task, and a reaper of idle sessions.                               *)
(*                                                                         *)
(* The session table is keyed by id, but handlers and pumps keep the       *)
(* session object they once got, across their awaits, and tear down by id. *)
(***************************************************************************)
EXTENDS Naturals, Sequences

CONSTANTS
  Sids,      \* session ids
  Sess,      \* bound: session objects that somebody still refers to
  Conns,     \* bound: TCP connections
  Posts,     \* bound: POST handlers running at the same time
  Modes,     \* of the POSTs: "packet", "stream"
  Gets,      \* bound: the ids for which the client asks for the downlink
  MaxSeq,    \* bound: packets are numbered 0..MaxSeq
  QueueMax,  \* DOWNLINK_QUEUE_MAX
  Reaper, None

ASSUME XhttpAssumption ==
  /\ Modes \subseteq {"packet", "stream"} /\ Gets \subseteq Sids
  /\ MaxSeq \in Nat /\ QueueMax \in Nat \ {0}
  /\ None \notin Sids \union Sess \union Conns \union Posts \union {Reaper}
  /\ Posts \intersect Conns = {} /\ Reaper \notin Posts \union Conns

VARIABLES
  table,     \* xhttp_sessions
  sess,      \* the session objects
  conn,      \* the connections, each with its pump task
  post,      \* the POST handlers
  tear,      \* _teardown calls under way: the session, and the awaited step
  reaping    \* what is left of the reaper's list

vars == <<table, sess, conn, post, tear, reaping>>

Callers == Posts \union Conns \union {Reaper}
Seqs == 0..MaxSeq

NoSess == [sid |-> None, closed |-> FALSE, writer |-> None, task |-> None,
           next_seq |-> 0, seq_buf |-> {}, idle |-> FALSE,
           listed |-> FALSE,                      \* its conn_id is in connections
           down_q |-> << >>, dropped |-> FALSE, get |-> FALSE]
NoConn == [st |-> "none", sess |-> None, sent |-> << >>, pump |-> "none", cancelled |-> FALSE]
Idle   == [at |-> "idle", mode |-> "packet", sess |-> None, seq |-> 0, writer |-> None]
NoTear == [at |-> "none", sess |-> None, task |-> None]

TypeOK ==
  /\ table \in [Sids -> Sess \union {None}]
  /\ sess \in [Sess -> [sid : Sids \union {None}, closed : BOOLEAN,
                        writer : Conns \union {None}, task : Conns \union {None},
                        next_seq : 0..MaxSeq + 1, seq_buf : SUBSET Seqs, idle : BOOLEAN,
                        listed : BOOLEAN, down_q : Seq({"data", "end"}),
                        dropped : BOOLEAN, get : BOOLEAN]]
  /\ \A s \in Sess : Len(sess[s].down_q) <= QueueMax
  /\ conn \in [Conns -> [st : {"none", "open", "eof", "lost", "closed"}, sess : Sess \union {None},
                         sent : Seq(Seqs), pump : {"none", "read", "put", "ended"},
                         cancelled : BOOLEAN]]
  /\ post \in [Posts -> [at : {"idle", "body", "chunks", "opening", "drain"}, mode : {"packet", "stream"},
                         sess : Sess \union {None}, seq : Seqs, writer : Conns \union {None}]]
  /\ tear \in [Callers -> [at : {"none", "task", "closing"}, sess : Sess \union {None},
                           task : Conns \union {None}]]
  /\ reaping \subseteq Sids

Init ==
  /\ table = [i \in Sids |-> None]
  /\ sess = [s \in Sess |-> NoSess]
  /\ conn = [c \in Conns |-> NoConn]
  /\ post = [p \in Posts |-> Idle]
  /\ tear = [x \in Callers |-> NoTear]
  /\ reaping = {}

PumpEnded(c) == conn[c].pump = "ended" /\ tear[c] = NoTear

(* The program has no reference to the object any more. *)
FreeSess(s) ==
  /\ s \notin {table[i] : i \in Sids} /\ ~sess[s].get
  /\ \A p \in Posts : post[p].sess # s
  /\ \A c \in Conns : conn[c].sess = s => conn[c].pump = "ended"
  /\ \A x \in Callers : tear[x].sess # s

FreeConn(c) ==
  \/ conn[c].st = "none"
  \/ /\ conn[c].st \in {"lost", "closed"} /\ PumpEnded(c)
     /\ \A p \in Posts : post[p].writer # c
     /\ \A s \in Sess : sess[s].writer = c => FreeSess(s)
     /\ \A x \in Callers : tear[x].task # c
------------------------------------------------------------------------------
(* _get_or_create_session: s becomes, or is, the session of id i. *)

Getting(i, s) ==
  IF table[i] = None
  THEN FreeSess(s) /\ table' = [table EXCEPT ![i] = s]
  ELSE s = table[i] /\ UNCHANGED table

Got(i, s) ==
  IF table[i] = None THEN [NoSess EXCEPT !.sid = i, !.listed = TRUE]
                     ELSE [sess[s] EXCEPT !.idle = FALSE]

(* _teardown up to its first await, when the sessions are S and the         *)
(* connections C: x pops the session that has id i now.  Its pump is        *)
(* cancelled, and awaited; without one the writer is closed at once; and    *)
(* without a writer all is done.  A pump cannot wait for itself.            *)
Full(r) == Len(r.down_q) = QueueMax
Ended(r) ==
  [r EXCEPT !.closed = TRUE, !.listed = FALSE, !.dropped = Full(r),
            !.down_q = IF Full(r) THEN @ ELSE Append(@, "end")]

TeardownBegins(x, i, S, C) ==
  LET s == table[i]
      k == S[s].task
      live == k # None /\ C[k].pump # "ended"
      w == S[s].writer
  IN
  IF s = None THEN sess' = S /\ conn' = C /\ UNCHANGED <<table, tear>>
  ELSE
    /\ table' = [table EXCEPT ![i] = None]
    /\ sess' = [S EXCEPT ![s] = IF w = None THEN Ended(@) ELSE [@ EXCEPT !.closed = TRUE]]
    /\ IF w = None THEN UNCHANGED tear
       ELSE tear' = [tear EXCEPT ![x] =
                       IF live \/ k = x THEN [at |-> "task", sess |-> s, task |-> k]
                                        ELSE [at |-> "closing", sess |-> s, task |-> None]]
    /\ conn' = IF live THEN [C EXCEPT ![k].cancelled = TRUE]
               ELSE IF w = None \/ k = x THEN C
               ELSE [C EXCEPT ![w].st = "closed"]

(* The pump has ended: the writer that the session has by now is closed.    *)
TeardownCloses(x) ==
  /\ tear[x].at = "task"
  /\ tear[x].task # x => PumpEnded(tear[x].task)
  /\ conn' = [conn EXCEPT ![sess[tear[x].sess].writer].st = "closed"]
  /\ tear' = [tear EXCEPT ![x].at = "closing", ![x].task = None]
  /\ UNCHANGED <<table, sess, post, reaping>>

(* Mutant: the end of the downlink is not announced. *)
TeardownEndsSilently(x) ==
  /\ tear[x].at = "closing"
  /\ sess' = [sess EXCEPT ![tear[x].sess].listed = FALSE]
  /\ tear' = [tear EXCEPT ![x] = NoTear]
  /\ UNCHANGED <<table, conn, post, reaping>>

(* Mutant: the list is cleared only when the sentinel did not fit. *)
TeardownEndsListed(x) ==
  LET s == tear[x].sess IN
  /\ tear[x].at = "closing"
  /\ sess' = [sess EXCEPT ![s] = [Ended(@) EXCEPT !.listed = ~Full(sess[s])]]
  /\ tear' = [tear EXCEPT ![x] = NoTear]
  /\ UNCHANGED <<table, conn, post, reaping>>

(* The sentinel for the GET may not fit into the queue. *)
TeardownEnds(x) ==
  /\ tear[x].at = "closing"
  /\ sess' = [sess EXCEPT ![tear[x].sess] = Ended(@)]
  /\ tear' = [tear EXCEPT ![x] = NoTear]
  /\ UNCHANGED <<table, conn, post, reaping>>
------------------------------------------------------------------------------
(* POSTs.  A handler that has returned, or raised, is idle again. *)

Returns(p) == post' = [post EXCEPT ![p] = Idle]
Goes(p, at) == post' = [post EXCEPT ![p].at = at]

(* The except branches tear down by id, and then raise. *)
Fails(p, S) == TeardownBegins(p, sess[post[p].sess].sid, S, conn) /\ Returns(p)

packet_up(p, i, n) ==
  /\ "packet" \in Modes /\ post[p] = Idle /\ tear[p] = NoTear
  /\ \E s \in Sess :
       /\ Getting(i, s)
       /\ sess' = [sess EXCEPT ![s] = Got(i, s)]
       /\ post' = [post EXCEPT ![p] = [Idle EXCEPT !.at = "body", !.sess = s, !.seq = n]]
  /\ UNCHANGED <<conn, tear, reaping>>

IsClosing(c) == conn[c].st \in {"lost", "closed"}

(* The first number from n on that is not in buf; the packets below m. *)
Next0(n, buf) == CHOOSE m \in n..(MaxSeq + 1) : m \notin buf /\ n..(m - 1) \subseteq buf
Packets(n, m) == [k \in 1..(m - n) |-> n + k - 1]

(* Packet n goes out on c, and all that waited for it. *)
Writes(s, c, n) ==
  LET nxt == Next0(n + 1, sess[s].seq_buf) IN
  /\ sess' = [sess EXCEPT ![s].next_seq = nxt, ![s].seq_buf = @ \ n..(nxt - 1)]
  /\ conn' = [conn EXCEPT ![c].sent = @ \o Packets(n, nxt)]

(* Mutant: only the first packets wait for their turn. *)
BuffersNothing(s, n) ==
  LET w == sess[s].writer IN
  /\ sess' = [sess EXCEPT ![s].seq_buf = IF w = None THEN @ \union {n} ELSE @]
  /\ conn' = IF w = None THEN conn ELSE [conn EXCEPT ![w].sent = Append(@, n)]

Buffers(s, n) == sess' = [sess EXCEPT ![s].seq_buf = @ \union {n}] /\ UNCHANGED conn

(* packet_up_upload once it has its body.  The entry in connections, read   *)
(* outside the try, is gone if the session was torn down meanwhile.         *)
PacketArrives(p) ==
  LET s == post[p].sess
      n == post[p].seq
      w == sess[s].writer
      Listed == sess[s].listed
  IN
  /\ post[p].at = "body"
  /\ \/ Fails(p, sess)                                          \* gate.add
     \/ ~Listed /\ Returns(p) /\ UNCHANGED <<table, sess, conn, tear>>
     \/ /\ Listed /\ w = None /\ n = 0
        /\ Goes(p, "opening") /\ UNCHANGED <<table, sess, conn, tear>>
     \/ /\ Listed /\ w = None /\ n # 0
        /\ Buffers(s, n) /\ Returns(p) /\ UNCHANGED <<table, tear>>
     \/ /\ Listed /\ w # None /\ n # sess[s].next_seq
        /\ Buffers(s, n) /\ UNCHANGED <<table, tear>>
        /\ Returns(p) \/ Goes(p, "drain")
     \/ /\ Listed /\ w # None /\ n = sess[s].next_seq /\ ~IsClosing(w)
        /\ Writes(s, w, n) /\ UNCHANGED <<table, tear>>
        /\ Returns(p) \/ Goes(p, "drain")
     \/ Listed /\ w # None /\ n = sess[s].next_seq /\ IsClosing(w) /\ Fails(p, sess)
  /\ UNCHANGED reaping

(* The body was empty or the client left; a long body ended; a drain is done. *)
PostReturns(p) ==
  /\ \/ post[p].at \in {"body", "chunks"} /\ Returns(p)
     \/ post[p].at = "drain" /\ IF post[p].mode = "packet" THEN Returns(p) ELSE Goes(p, "chunks")
  /\ UNCHANGED <<table, sess, conn, tear, reaping>>

(* open_connection, a drain, or the reading of a long body raises. *)
PostRaises(p) ==
  /\ post[p].at \in {"opening", "drain", "chunks"}
  /\ Fails(p, sess)
  /\ UNCHANGED reaping

(* The end of _open_tcp_for_session, and what its caller does next.  A      *)
(* cancelled pump is resumed sooner than a connection is made.              *)
Opened(p) ==
  LET s == post[p].sess
      packets == post[p].mode = "packet"
      nxt == Next0(1, sess[s].seq_buf)
  IN
  /\ post[p].at = "opening"
  /\ \A c \in Conns : ~conn[c].cancelled
  /\ \E c \in Conns :
       /\ FreeConn(c)
       /\ conn' = [conn EXCEPT ![c] = [NoConn EXCEPT !.st = "open", !.sess = s, !.pump = "read",
                                         !.sent = IF packets THEN Packets(0, nxt) ELSE @]]
       /\ sess' = [sess EXCEPT ![s] =
                     [sess[s] EXCEPT !.writer = c, !.task = c,
                                     !.next_seq = IF packets THEN nxt ELSE @,
                                     !.seq_buf = IF packets THEN @ \ 1..(nxt - 1) ELSE @]]
       /\ IF packets THEN Returns(p)
                     ELSE post' = [post EXCEPT ![p].at = "chunks", ![p].writer = c]
  /\ UNCHANGED <<table, tear, reaping>>

stream_up(p, i) ==
  /\ "stream" \in Modes /\ post[p] = Idle /\ tear[p] = NoTear
  /\ \E s \in Sess :
       /\ Getting(i, s)
       /\ sess' = [sess EXCEPT ![s] = Got(i, s)]
       /\ post' = [post EXCEPT ![p] = [Idle EXCEPT !.at = "chunks", !.mode = "stream",
                                                   !.sess = s, !.writer = Got(i, s).writer]]
  /\ UNCHANGED <<conn, tear, reaping>>

(* A chunk of a long body, for the writer the handler got at its start. *)
ChunkArrives(p) ==
  LET w == post[p].writer
      Seen == [sess EXCEPT ![post[p].sess].idle = FALSE]
  IN
  /\ post[p].at = "chunks"
  /\ \/ Fails(p, Seen)                         \* gate.add, or the writer is closing
     \/ /\ w = None
        /\ Goes(p, "opening") /\ sess' = Seen /\ UNCHANGED <<table, conn, tear>>
     \/ /\ w # None /\ ~IsClosing(w)
        /\ UNCHANGED post \/ Goes(p, "drain")
        /\ sess' = Seen /\ UNCHANGED <<table, conn, tear>>
  /\ UNCHANGED reaping
------------------------------------------------------------------------------
(* The GET; one of a session at a time. *)

xhttp_downlink(i) ==
  /\ \E s \in Sess :
       /\ Getting(i, s) /\ ~Got(i, s).get
       /\ sess' = [sess EXCEPT ![s] = [Got(i, s) EXCEPT !.get = TRUE]]
  /\ UNCHANGED <<conn, post, tear, reaping>>

(* A chunk goes to the client, or the sentinel ends the response. *)
GetReads(s) ==
  /\ sess[s].get
  /\ sess[s].down_q # << >>
  /\ sess' = [sess EXCEPT ![s].down_q = Tail(@),
                          ![s].idle = @ /\ Head(sess[s].down_q) = "end",
                          ![s].get = Head(sess[s].down_q) # "end"]
  /\ UNCHANGED <<table, conn, post, tear, reaping>>

GetLeaves(s) ==
  /\ sess[s].get
  /\ sess' = [sess EXCEPT ![s].get = FALSE]
  /\ UNCHANGED <<table, conn, post, tear, reaping>>
------------------------------------------------------------------------------
(* _pump_tcp_to_queue *)

Queues(c, pump) ==
  /\ sess' = [sess EXCEPT ![conn[c].sess].down_q = Append(@, "data")]
  /\ conn' = [conn EXCEPT ![c].pump = pump]
  /\ UNCHANGED <<table, tear>>

(* Its finally: the session that has its id now is torn down. *)
PumpEnds(c) ==
  TeardownBegins(c, sess[conn[c].sess].sid, sess,
                 [conn EXCEPT ![c].pump = "ended", ![c].cancelled = FALSE])

PumpReads(c) ==
  LET full == Full(sess[conn[c].sess]) IN
  /\ conn[c].pump = "read" /\ ~conn[c].cancelled
  /\ \/ conn[c].st = "open" /\ ~full /\ Queues(c, "read")
     \/ /\ conn[c].st = "open" /\ full
        /\ conn' = [conn EXCEPT ![c].pump = "put"] /\ UNCHANGED <<table, sess, tear>>
     \/ PumpEnds(c)                            \* end of file, an error, or gate.add
  /\ UNCHANGED <<post, reaping>>

PumpPuts(c) ==
  /\ conn[c].pump = "put" /\ ~conn[c].cancelled
  /\ ~Full(sess[conn[c].sess])
  /\ Queues(c, "read")
  /\ UNCHANGED <<post, reaping>>

(* Mutant: the cancellation is taken for a read error, and retried. *)
PumpCancelledGoesOn(c) ==
  /\ conn[c].pump \in {"read", "put"} /\ conn[c].cancelled
  /\ conn' = [conn EXCEPT ![c].cancelled = FALSE]
  /\ UNCHANGED <<table, sess, tear, post, reaping>>

PumpCancelled(c) ==
  /\ conn[c].pump \in {"read", "put"} /\ conn[c].cancelled
  /\ PumpEnds(c)
  /\ UNCHANGED <<post, reaping>>

(* The destination ends its stream, or the connection breaks. *)
RemoteCloses(c) ==
  /\ \/ conn[c].st = "open" /\ conn' = [conn EXCEPT ![c].st = "eof"]
     \/ conn[c].st \in {"open", "eof"} /\ conn' = [conn EXCEPT ![c].st = "lost"]
  /\ UNCHANGED <<table, sess, post, tear, reaping>>
------------------------------------------------------------------------------
(* _reaper *)

(* SESSION_IDLE_TIMEOUT passes without news of the session. *)
BecomesIdle(i) ==
  /\ table[i] # None /\ ~sess[table[i]].idle
  /\ sess' = [sess EXCEPT ![table[i]].idle = TRUE]
  /\ UNCHANGED <<table, conn, post, tear, reaping>>

(* Mutant: only sessions without a connection are looked at. *)
StaleUnopened ==
  {i \in Sids : table[i] # None /\ sess[table[i]].idle /\ sess[table[i]].writer = None}

Stale == {i \in Sids : table[i] # None /\ sess[table[i]].idle}

(* The next of its list, made when the last one was through. *)
Reaps ==
  LET list == IF reaping = {} THEN Stale ELSE reaping IN
  /\ tear[Reaper] = NoTear
  /\ \E i \in list :
       /\ TeardownBegins(Reaper, i, sess, conn)
       /\ reaping' = list \ {i}
  /\ UNCHANGED post

(* The panel restarts: sessions are not persisted. *)
Restart ==
  /\ table' = [i \in Sids |-> None] /\ sess' = [s \in Sess |-> NoSess]
  /\ conn' = [c \in Conns |-> NoConn] /\ post' = [p \in Posts |-> Idle]
  /\ tear' = [x \in Callers |-> NoTear] /\ reaping' = {}
------------------------------------------------------------------------------
Tears(x) == TeardownCloses(x) \/ TeardownEnds(x)
Handles(p) == PacketArrives(p) \/ PostReturns(p) \/ PostRaises(p) \/ Opened(p) \/ ChunkArrives(p)
Pumps(c) == PumpReads(c) \/ PumpPuts(c) \/ PumpCancelled(c)

Client ==
  \/ \E p \in Posts, i \in Sids : (\E n \in Seqs : packet_up(p, i, n)) \/ stream_up(p, i)
  \/ \E i \in Gets : xhttp_downlink(i)
  \/ \E i \in Sids : BecomesIdle(i)
  \/ \E s \in Sess : GetReads(s) \/ GetLeaves(s)
  \/ \E c \in Conns : RemoteCloses(c)

(* From one id to the next the reaper awaits nothing but the teardown. *)
ReaperGoesOn == reaping # {} /\ tear[Reaper] = NoTear

Next ==
  \/ Reaps
  \/ /\ ~ReaperGoesOn
     /\ \/ Client \/ Restart
        \/ \E x \in Callers : Tears(x)
        \/ \E p \in Posts : Handles(p)
        \/ \E c \in Conns : Pumps(c)

Spec == Init /\ [][Next]_vars

(* The event loop resumes what is ready; the reaper wakes up every 10 s; a  *)
(* client that stays reads the response; and wait_closed of a closed        *)
(* connection returns.                                                      *)
Fairness ==
  /\ WF_vars(Reaps)
  /\ \A x \in Callers : WF_vars(Tears(x))
  /\ \A c \in Conns : WF_vars(PumpCancelled(c))
  /\ \A s \in Sess : WF_vars(GetReads(s))

FairSpec == Spec /\ Fairness
------------------------------------------------------------------------------
(* packet-up: whatever the order in which the POSTs arrive, are repeated,   *)
(* and finish their awaits, what went out on a connection is packet 0, 1,   *)
(* 2, ... without a gap, and nothing whose turn it is stays in the buffer.  *)
UplinkInOrder ==
  /\ \A c \in Conns : conn[c].sent = Packets(0, Len(conn[c].sent))
  /\ \A s \in Sess :
       sess[s].writer # None /\ ~FreeSess(s) =>
         /\ sess[s].next_seq = Len(conn[sess[s].writer].sent)
         /\ sess[s].next_seq \notin sess[s].seq_buf

(* The panel's list of connections holds no session that is gone: each is   *)
(* in the table or in one teardown, even if POSTs, the pump and the reaper  *)
(* tear down the same id at the same time.                                  *)
ListIsTrue ==
  /\ \A s \in Sess :
       sess[s].listed =>
         table[sess[s].sid] = s \/ \E x \in Callers : tear[x].sess = s
  /\ \A x, y \in Callers : tear[x] # NoTear /\ tear[x].sess = tear[y].sess => x = y

(* Teardowns wait for pumps, which tear down in turn: each of them ends.    *)
TeardownsEnd == \A x \in Callers : tear[x] # NoTear ~> tear[x] = NoTear

(* An idle session is reaped if nothing happens to it any more. *)
IdleIsReaped ==
  \A s \in Sess :
    (\E i \in Sids : table[i] = s /\ sess[s].idle)
      ~> (~sess[s].idle \/ \A i \in Sids : table[i] # s)

(* The GET of a session that is torn down ends, unless its queue was full.  *)
DownlinkEnds ==
  \A s \in Sess : sess[s].get /\ sess[s].closed ~> ~sess[s].get \/ sess[s].dropped
------------------------------------------------------------------------------
(* What comments say, and the code does not do. *)

(* SESSION_IDLE_TIMEOUT_ACTIVE: a session that opened its TCP connection    *)
(* can be reaped, so every open connection is that of a session in the      *)
(* table or in a teardown.                                                  *)
OpenIsReapable ==
  \A c \in Conns :
    conn[c].st = "open" =>
      LET s == conn[c].sess IN
      /\ sess[s].writer = c
      /\ (\E i \in Sids : table[i] = s) \/ \E x \in Callers : tear[x].sess = s

(* _pump_tcp_to_queue: a pump that ends closes the session because its TCP  *)
(* connection is dead, so never one that has another, living connection.    *)
PumpClosesDead ==
  [][\A c \in Conns :
       tear[c] = NoTear /\ tear'[c] # NoTear =>
         LET w == sess[tear'[c].sess].writer IN
         w \in {c, None} \/ conn[w].st # "open"]_vars
==============================================================================
