------------------------ MODULE XhttpSession_proofs -------------------------
(***************************************************************************)
(* Proofs about XhttpSession: the list of connections holds no session     *)
(* that is gone and no session is torn down twice at a time; and, of       *)
(* sessions in packet-up mode, what goes out is in order, for any ids,     *)
(* sessions, connections and handlers.                                     *)
(***************************************************************************)
EXTENDS XhttpSession, SequenceTheorems, WellFoundedInduction, TLAPS

Held(s) == ~FreeSess(s)

(* The table knows its sessions by their ids, and none that is torn down.   *)
TableOK ==
  \A i \in Sids : table[i] # None =>
    /\ sess[table[i]].sid = i
    /\ \A x \in Callers : tear[x].sess # table[i]

(* A teardown is of a session with a connection.  A pump that tears down    *)
(* has ended, and a POST is over.                                           *)
TearOK ==
  \A x \in Callers :
    /\ tear[x].at = "none" => tear[x] = NoTear
    /\ tear[x].at # "none" => tear[x].sess \in Sess /\ sess[tear[x].sess].writer \in Conns
    /\ tear[x].at = "task" => tear[x].task \in Conns
    /\ x \in Conns /\ tear[x].at # "none" => conn[x].pump = "ended"
    /\ x \in Posts /\ tear[x].at # "none" => post[x] = Idle

OneTear == \A x, y \in Callers : tear[x].at # "none" /\ tear[x].sess = tear[y].sess => x = y

PostOK ==
  \A p \in Posts :
    /\ post[p].at = "idle" => post[p] = Idle
    /\ post[p].at # "idle" => post[p].sess \in Sess

ConnOK ==
  \A c \in Conns :
    /\ conn[c].pump = "none" <=> conn[c].st = "none"
    /\ conn[c].pump # "none" => conn[c].sess \in Sess

(* A session that somebody refers to has an id, and its connection is its   *)
(* own; one in the list is in the table or in a teardown.                   *)
SessOK ==
  \A s \in Sess :
    /\ Held(s) => sess[s].sid \in Sids
    /\ Held(s) /\ sess[s].writer # None =>
         conn[sess[s].writer].sess = s /\ conn[sess[s].writer].st # "none"
    /\ sess[s].listed => /\ sess[s].sid \in Sids
                         /\ table[sess[s].sid] = s \/ \E x \in Callers : tear[x].sess = s

Refs == TableOK /\ TearOK /\ OneTear /\ PostOK /\ ConnOK /\ SessOK

IInv == TypeOK /\ Refs

SessT == [sid : Sids \union {None}, closed : BOOLEAN,
          writer : Conns \union {None}, task : Conns \union {None},
          next_seq : 0..MaxSeq + 1, seq_buf : SUBSET Seqs, idle : BOOLEAN,
          listed : BOOLEAN, down_q : Seq({"data", "end"}),
          dropped : BOOLEAN, get : BOOLEAN]
ConnT == [st : {"none", "open", "eof", "lost", "closed"}, sess : Sess \union {None},
          sent : Seq(Seqs), pump : {"none", "read", "put", "ended"}, cancelled : BOOLEAN]
PostT == [at : {"idle", "body", "chunks", "opening", "drain"}, mode : {"packet", "stream"},
          sess : Sess \union {None}, seq : Seqs, writer : Conns \union {None}]
TearT == [at : {"none", "task", "closing"}, sess : Sess \union {None}, task : Conns \union {None}]

LEMMA Types ==
  TypeOK <=> /\ table \in [Sids -> Sess \union {None}]
             /\ sess \in [Sess -> SessT] /\ \A s \in Sess : Len(sess[s].down_q) <= QueueMax
             /\ conn \in [Conns -> ConnT] /\ post \in [Posts -> PostT]
             /\ tear \in [Callers -> TearT] /\ reaping \subseteq Sids
  BY DEF TypeOK, SessT, ConnT, PostT, TearT

LEMMA TypesNext ==
  TypeOK' <=> /\ table' \in [Sids -> Sess \union {None}]
              /\ sess' \in [Sess -> SessT] /\ \A s \in Sess : Len(sess'[s].down_q) <= QueueMax
              /\ conn' \in [Conns -> ConnT] /\ post' \in [Posts -> PostT]
              /\ tear' \in [Callers -> TearT] /\ reaping' \subseteq Sids
  BY DEF TypeOK, SessT, ConnT, PostT, TearT

LEMMA Blanks == NoSess \in SessT /\ Len(NoSess.down_q) = 0 /\ NoConn \in ConnT /\ Idle \in PostT /\ NoTear \in TearT
  BY XhttpAssumption DEF NoSess, NoConn, Idle, NoTear, SessT, ConnT, PostT, TearT, Seqs

LEMMA Invariant == IInv => ListIsTrue
  <1> SUFFICES ASSUME IInv PROVE ListIsTrue
    OBVIOUS
  <1>1. ASSUME NEW s \in Sess, sess[s].listed
        PROVE  table[sess[s].sid] = s \/ \E x \in Callers : tear[x].sess = s
    BY <1>1 DEF IInv, Refs, SessOK
  <1>2. ASSUME NEW x \in Callers, NEW y \in Callers, tear[x] # NoTear, tear[x].sess = tear[y].sess
        PROVE  x = y
    BY <1>2 DEF IInv, Refs, TearOK, OneTear
  <1> QED BY <1>1, <1>2 DEF ListIsTrue

LEMMA InitOK == Init => IInv
  <1> SUFFICES ASSUME Init PROVE IInv
    OBVIOUS
  <1>1. TypeOK
    BY Blanks, Types, XhttpAssumption DEF Init
  <1>2. \A s \in Sess : FreeSess(s) /\ ~sess[s].listed
    BY XhttpAssumption DEF Init, FreeSess, NoSess, NoConn, Idle, NoTear
  <1>3. TableOK /\ TearOK /\ OneTear /\ PostOK /\ ConnOK
    BY DEF Init, TableOK, TearOK, OneTear, PostOK, ConnOK, NoConn, Idle, NoTear
  <1> QED BY <1>1, <1>2, <1>3 DEF IInv, Refs, SessOK, Held
------------------------------------------------------------------------------
(* The least number, and so the next packet that is missing.                *)
Less == {z \in Nat \X Nat : z[1] < z[2]}

LEMMA LessWF == IsWellFoundedOn(Less, Nat)
  BY NatLessThanWellFounded DEF OpToRel, Less

LEMMA Least == ASSUME NEW S \in SUBSET Nat, S # {} PROVE \E m \in S : \A k \in S : m <= k
  <1>1. PICK x \in S : \A y \in S : ~ (<<y, x>> \in Less)
    BY LessWF, WFMin
  <1>2. \A k \in S : k < x => <<k, x>> \in Less
    BY DEF Less
  <1>3. \A k \in S : ~ (k < x)
    BY <1>1, <1>2
  <1>4. \A k \in S : k \in Nat /\ x \in Nat
    OBVIOUS
  <1>5. \A k \in S : x <= k
    BY <1>3, <1>4
  <1> QED BY <1>5

LEMMA NextMissing ==
  ASSUME NEW n \in 0..MaxSeq + 1, NEW buf \in SUBSET Seqs
  PROVE  /\ Next0(n, buf) \in n..MaxSeq + 1
         /\ Next0(n, buf) \in 0..MaxSeq + 1
         /\ Next0(n, buf) \notin buf
  <1> DEFINE S == {m \in n..MaxSeq + 1 : m \notin buf}
  <1>0. MaxSeq \in Nat
    BY XhttpAssumption
  <1>1. S \in SUBSET Nat /\ MaxSeq + 1 \in S
    BY <1>0 DEF Seqs
  <1>2. PICK m \in S : \A k \in S : m <= k
    BY <1>1, Least
  <1>3. n..(m - 1) \subseteq buf
    <2> SUFFICES ASSUME NEW k \in n..(m - 1) PROVE k \in buf
      OBVIOUS
    <2>1. k \in n..MaxSeq + 1 /\ ~ (m <= k)
      BY <1>0, <1>1
    <2> QED BY <1>2, <2>1
  <1>4. \E r \in n..(MaxSeq + 1) : r \notin buf /\ n..(r - 1) \subseteq buf
    BY <1>2, <1>3
  <1>5. Next0(n, buf) \in n..(MaxSeq + 1) /\ Next0(n, buf) \notin buf
    BY <1>4 DEF Next0
  <1> QED BY <1>0, <1>5

LEMMA PacketsType ==
  ASSUME NEW n \in 0..MaxSeq + 1, NEW m \in n..MaxSeq + 1
  PROVE  Packets(n, m) \in Seq(Seqs) /\ Len(Packets(n, m)) = m - n
  <1>1. MaxSeq \in Nat /\ m - n \in Nat
    BY XhttpAssumption
  <1>2. Packets(n, m) \in [1..(m - n) -> Seqs]
    BY <1>1 DEF Packets, Seqs
  <1> QED BY <1>1, <1>2 DEF Packets
------------------------------------------------------------------------------
(* A step that begins and ends no teardown and gives nobody a session keeps *)
(* the references as they are.                                              *)
LEMMA SoftStep ==
  ASSUME IInv, TypeOK', table' = table, tear' = tear,
         \A s \in Sess : /\ sess'[s].sid = sess[s].sid /\ sess'[s].writer = sess[s].writer
                         /\ sess'[s].listed = sess[s].listed /\ (sess'[s].get => sess[s].get),
         \A c \in Conns : /\ conn'[c].sess = conn[c].sess
                          /\ conn'[c].pump = "none" <=> conn[c].pump = "none"
                          /\ conn'[c].pump = "ended" <=> conn[c].pump = "ended"
                          /\ conn'[c].st = "none" <=> conn[c].st = "none",
         \A p \in Posts : \/ post'[p] = post[p] \/ post'[p] = Idle
                          \/ /\ post[p].at # "idle" /\ post'[p].at # "idle"
                             /\ post'[p].sess = post[p].sess
  PROVE  Refs' /\ \A s \in Sess : Held(s)' => Held(s)
  <1> USE DEF IInv, Refs
  <1>1. ASSUME NEW s \in Sess, FreeSess(s) PROVE FreeSess(s)'
    <2>1. \A p \in Posts : post'[p].sess # s
      <3> SUFFICES ASSUME NEW p \in Posts PROVE post'[p].sess # s
        OBVIOUS
      <3>1. Idle.sess # s
        BY XhttpAssumption DEF Idle
      <3> QED BY <1>1, <3>1 DEF FreeSess
    <2> QED BY <1>1, <2>1 DEF FreeSess
  <1>2. \A s \in Sess : Held(s)' => Held(s)
    BY <1>1 DEF Held
  <1>3. TableOK'
    BY Types DEF TableOK
  <1>4. TearOK'
    <2> SUFFICES ASSUME NEW x \in Callers
                 PROVE  /\ tear[x].at = "none" => tear[x] = NoTear
                        /\ tear[x].at # "none" => tear[x].sess \in Sess /\ sess'[tear[x].sess].writer \in Conns
                        /\ tear[x].at = "task" => tear[x].task \in Conns
                        /\ x \in Conns /\ tear[x].at # "none" => conn'[x].pump = "ended"
                        /\ x \in Posts /\ tear[x].at # "none" => post'[x] = Idle
      BY DEF TearOK
    <2>1. x \in Posts /\ post[x] = Idle => post'[x] = Idle
      BY DEF Idle
    <2> QED BY <2>1 DEF TearOK
  <1>5. OneTear'
    BY DEF OneTear
  <1>6. PostOK'
    BY DEF PostOK, Idle
  <1>7. ConnOK'
    BY DEF ConnOK
  <1>8. SessOK'
    <2> SUFFICES ASSUME NEW s \in Sess
                 PROVE  /\ Held(s)' => sess[s].sid \in Sids
                        /\ Held(s)' /\ sess[s].writer # None =>
                             conn'[sess[s].writer].sess = s /\ conn'[sess[s].writer].st # "none"
                        /\ sess[s].listed =>
                             /\ sess[s].sid \in Sids
                             /\ table[sess[s].sid] = s \/ \E x \in Callers : tear[x].sess = s
      BY DEF SessOK
    <2>1. sess[s].writer \in Conns \union {None}
      BY Types DEF SessT
    <2> QED BY <1>2, <2>1 DEF SessOK
  <1> QED BY <1>2, <1>3, <1>4, <1>5, <1>6, <1>7, <1>8

(* A teardown begins: the session leaves the table for the teardown, or, if *)
(* it has no connection, for good.                                          *)
LEMMA TeardownStep ==
  ASSUME IInv, NEW x \in Callers, NEW i \in Sids, NEW S \in [Sess -> SessT], NEW C \in [Conns -> ConnT],
         TeardownBegins(x, i, S, C), tear[x].at = "none", reaping' \subseteq Sids,
         \A s \in Sess : /\ Len(S[s].down_q) <= QueueMax
                         /\ S[s].sid = sess[s].sid /\ S[s].writer = sess[s].writer
                         /\ S[s].listed = sess[s].listed /\ S[s].get = sess[s].get,
         \A c \in Conns : /\ C[c].sess = conn[c].sess /\ C[c].st = conn[c].st
                          /\ C[c].pump = conn[c].pump \/ (C[c].pump = "ended" /\ conn[c].pump # "none"),
         x \in Conns => C[x].pump = "ended",
         post' \in [Posts -> PostT], \A p \in Posts : post'[p] = post[p] \/ post'[p] = Idle,
         x \in Posts => post'[x] = Idle
  PROVE  IInv' /\ \A s \in Sess : Held(s)' => Held(s)
  <1> USE DEF IInv, Refs
  <1> DEFINE s == table[i]
             k == S[s].task
             w == S[s].writer
             live == k # None /\ C[k].pump # "ended"
  <1>0. \A p \in Posts, t \in Sess : post[p].sess # t => post'[p].sess # t
    BY XhttpAssumption DEF Idle
  <1>t. /\ table \in [Sids -> Sess \union {None}] /\ sess \in [Sess -> SessT]
        /\ conn \in [Conns -> ConnT] /\ tear \in [Callers -> TearT] /\ reaping \subseteq Sids
    BY Types
  <1>p. PostOK'
    BY DEF PostOK, Idle
  <1>1. CASE s = None
    <2>1. sess' = S /\ conn' = C /\ table' = table /\ tear' = tear
      BY <1>1 DEF TeardownBegins
    <2>2. TypeOK'
      BY <2>1, <1>t, TypesNext
    <2>3. \A t \in Sess : Held(t)' => Held(t)
      BY <2>1, <1>0 DEF Held, FreeSess
    <2>4. TableOK' /\ OneTear'
      BY <2>1, <1>t DEF TableOK, OneTear
    <2>5. TearOK'
      BY <2>1 DEF TearOK
    <2>6. ConnOK'
      BY <2>1 DEF ConnOK
    <2>7. SessOK'
      <3> SUFFICES ASSUME NEW t \in Sess
                   PROVE  /\ Held(t)' => S[t].sid \in Sids
                          /\ Held(t)' /\ S[t].writer # None =>
                               C[S[t].writer].sess = t /\ C[S[t].writer].st # "none"
                          /\ S[t].listed => /\ S[t].sid \in Sids
                                            /\ table[S[t].sid] = t \/ \E y \in Callers : tear[y].sess = t
        BY <2>1 DEF SessOK
      <3>1. S[t].sid = sess[t].sid /\ S[t].writer = sess[t].writer /\ S[t].listed = sess[t].listed
        OBVIOUS
      <3>2. S[t].writer \in Conns \union {None}
        BY DEF SessT
      <3> QED BY <2>3, <3>1, <3>2 DEF SessOK
    <2> QED BY <1>p, <2>2, <2>3, <2>4, <2>5, <2>6, <2>7
  <1>2. CASE s # None
    <2> DEFINE fate == IF w = None THEN Ended(S[s]) ELSE [S[s] EXCEPT !.closed = TRUE]
               step == IF live \/ k = x THEN [at |-> "task", sess |-> s, task |-> k]
                                        ELSE [at |-> "closing", sess |-> s, task |-> None]
    <2>1. /\ s \in Sess /\ S[s] \in SessT
          /\ table' = [table EXCEPT ![i] = None]
          /\ sess' = [S EXCEPT ![s] = fate]
          /\ IF w = None THEN tear' = tear ELSE tear' = [tear EXCEPT ![x] = step]
          /\ conn' = IF live THEN [C EXCEPT ![k].cancelled = TRUE]
                     ELSE IF w = None \/ k = x THEN C ELSE [C EXCEPT ![w].st = "closed"]
      BY <1>2, <1>t DEF TeardownBegins
    <2>2. /\ fate \in SessT /\ Len(fate.down_q) <= QueueMax
          /\ fate.sid = S[s].sid /\ fate.writer = w /\ fate.get = S[s].get
          /\ w # None => fate.listed = S[s].listed
          /\ w = None => ~fate.listed
      <3> DEFINE r == S[s]
                 q == IF Len(r.down_q) = QueueMax THEN r.down_q ELSE Append(r.down_q, "end")
                 e == [r EXCEPT !.closed = TRUE, !.listed = FALSE, !.dropped = Full(r), !.down_q = q]
      <3>1. r \in SessT /\ Len(r.down_q) <= QueueMax /\ Len(r.down_q) \in Nat /\ QueueMax \in Nat
        BY <2>1, XhttpAssumption DEF SessT
      <3>2. q \in Seq({"data", "end"}) /\ Len(q) <= QueueMax
        BY <3>1 DEF SessT
      <3>3. e = Ended(r)
        BY <3>1 DEF Ended, Full
      <3>4. Full(r) \in BOOLEAN
        BY DEF Full
      <3> HIDE DEF q
      <3>5. /\ e \in SessT /\ e.down_q = q /\ e.sid = r.sid /\ e.writer = r.writer /\ e.get = r.get
            /\ ~e.listed
        BY <3>1, <3>2, <3>4 DEF SessT
      <3>6. /\ [r EXCEPT !.closed = TRUE] \in SessT
            /\ [r EXCEPT !.closed = TRUE].down_q = r.down_q
            /\ [r EXCEPT !.closed = TRUE].sid = r.sid
            /\ [r EXCEPT !.closed = TRUE].writer = r.writer
            /\ [r EXCEPT !.closed = TRUE].get = r.get
            /\ [r EXCEPT !.closed = TRUE].listed = r.listed
        BY <3>1 DEF SessT
      <3> QED BY <3>1, <3>2, <3>3, <3>5, <3>6
    <2>3. k \in Conns \union {None} /\ w \in Conns \union {None} /\ x # None
      BY <2>1, XhttpAssumption DEF SessT, Callers
    <2>4. step \in TearT /\ step.at # "none" /\ step.sess = s /\ (step.at = "task" => step.task \in Conns)
      BY <2>1, <2>3 DEF TearT
    <2>5. /\ sess' \in [Sess -> SessT]
          /\ \A t \in Sess : /\ Len(sess'[t].down_q) <= QueueMax
                             /\ sess'[t].sid = sess[t].sid /\ sess'[t].writer = sess[t].writer
                             /\ sess'[t].get = sess[t].get
                             /\ sess'[t].listed = IF t = s /\ w = None THEN FALSE ELSE sess[t].listed
      <3>1. w = S[s].writer
        OBVIOUS
      <3> HIDE DEF fate, s, w
      <3>2. sess' \in [Sess -> SessT] /\ sess'[s] = fate /\ \A t \in Sess \ {s} : sess'[t] = S[t]
        BY <2>1, <2>2
      <3>3. \A t \in Sess \ {s} : /\ Len(sess'[t].down_q) <= QueueMax
                                  /\ sess'[t].sid = sess[t].sid /\ sess'[t].writer = sess[t].writer
                                  /\ sess'[t].get = sess[t].get /\ sess'[t].listed = sess[t].listed
        BY <3>2
      <3>4. fate.listed \in BOOLEAN /\ S[s].listed \in BOOLEAN
        BY <2>1, <2>2 DEF SessT
      <3>5. /\ Len(sess'[s].down_q) <= QueueMax
            /\ sess'[s].sid = sess[s].sid /\ sess'[s].writer = sess[s].writer
            /\ sess'[s].get = sess[s].get
        BY <3>1, <3>2, <2>2, <2>1
      <3>6. CASE w = None
        BY <3>2, <3>3, <3>5, <3>6, <3>4, <2>2
      <3>7. CASE w # None
        BY <3>2, <3>3, <3>5, <3>7, <2>1, <2>2
      <3> QED BY <3>6, <3>7
    <2>6. /\ conn' \in [Conns -> ConnT]
          /\ \A c \in Conns : /\ conn'[c].sess = conn[c].sess /\ conn'[c].pump = C[c].pump
                              /\ conn'[c].st = conn[c].st \/ (c = w /\ conn'[c].st = "closed")
      <3> HIDE DEF k, w
      <3>1. ASSUME NEW c \in Conns
            PROVE  /\ [C[c] EXCEPT !.cancelled = TRUE] \in ConnT
                   /\ [C[c] EXCEPT !.st = "closed"] \in ConnT
                   /\ [C[c] EXCEPT !.cancelled = TRUE].sess = C[c].sess
                   /\ [C[c] EXCEPT !.cancelled = TRUE].pump = C[c].pump
                   /\ [C[c] EXCEPT !.cancelled = TRUE].st = C[c].st
                   /\ [C[c] EXCEPT !.st = "closed"].sess = C[c].sess
                   /\ [C[c] EXCEPT !.st = "closed"].pump = C[c].pump
                   /\ [C[c] EXCEPT !.st = "closed"].st = "closed"
        BY DEF ConnT
      <3>2. CASE live
        <4>1. conn' = [C EXCEPT ![k] = [C[k] EXCEPT !.cancelled = TRUE]] /\ k \in Conns
          BY <2>1, <2>3, <3>2
        <4>2. PICK e : e = [C[k] EXCEPT !.cancelled = TRUE]
          OBVIOUS
        <4>3. e \in ConnT /\ e.sess = conn[k].sess /\ e.pump = C[k].pump /\ e.st = conn[k].st
          BY <3>1, <4>1, <4>2
        <4>4. conn' = [C EXCEPT ![k] = e] /\ C \in [Conns -> ConnT]
          BY <4>1, <4>2
        <4> QED BY <4>1, <4>3, <4>4
      <3>3. CASE ~live /\ (w = None \/ k = x)
        BY <2>1, <3>3
      <3>4. CASE ~live /\ w # None /\ k # x
        <4>1. conn' = [C EXCEPT ![w] = [C[w] EXCEPT !.st = "closed"]] /\ w \in Conns
          BY <2>1, <2>3, <3>4
        <4>2. PICK e : e = [C[w] EXCEPT !.st = "closed"]
          OBVIOUS
        <4>3. e \in ConnT /\ e.sess = conn[w].sess /\ e.pump = C[w].pump /\ e.st = "closed"
          BY <3>1, <4>1, <4>2
        <4>4. conn' = [C EXCEPT ![w] = e] /\ C \in [Conns -> ConnT]
          BY <4>1, <4>2
        <4> QED BY <4>1, <4>3, <4>4
      <3> QED BY <3>2, <3>3, <3>4
    <2>7. /\ tear' \in [Callers -> TearT]
          /\ tear'[x] = IF w = None THEN tear[x] ELSE step
          /\ \A y \in Callers \ {x} : tear'[y] = tear[y]
      BY <2>1, <2>4, <1>t
    <2>8. table' \in [Sids -> Sess \union {None}] /\ table'[i] = None
          /\ \A j \in Sids \ {i} : table'[j] = table[j]
      BY <2>1, <1>t
    <2>9. TypeOK'
      BY <2>5, <2>6, <2>7, <2>8, TypesNext
    <2>10. Held(s) /\ sess[s].sid = i /\ \A y \in Callers : tear[y].sess # s
      <3>1. s \in {table[j] : j \in Sids}
        OBVIOUS
      <3> QED BY <3>1, <2>1, <1>2 DEF Held, FreeSess, TableOK
    <2>11. \A t \in Sess : Held(t)' => Held(t)
      <3> SUFFICES ASSUME NEW t \in Sess, FreeSess(t), t # s PROVE FreeSess(t)'
        BY <2>10 DEF Held
      <3>1. t \notin {table'[j] : j \in Sids}
        BY <2>8, XhttpAssumption DEF FreeSess
      <3>2. \A y \in Callers : tear'[y].sess # t
        BY <2>7, <2>4 DEF FreeSess
      <3>3. \A p \in Posts : post'[p].sess # t
        BY <1>0 DEF FreeSess
      <3>4. \A c \in Conns : conn'[c].sess = t => conn'[c].pump = "ended"
        BY <2>6 DEF FreeSess
      <3> QED BY <2>5, <3>1, <3>2, <3>3, <3>4 DEF FreeSess
    <2>12. TableOK'
      <3> SUFFICES ASSUME NEW j \in Sids, table'[j] # None
                   PROVE  sess'[table'[j]].sid = j /\ \A y \in Callers : tear'[y].sess # table'[j]
        BY DEF TableOK
      <3>1. j # i /\ table'[j] = table[j] /\ table[j] \in Sess
        BY <2>8
      <3>2. sess[table[j]].sid = j /\ \A y \in Callers : tear[y].sess # table[j]
        BY <3>1 DEF TableOK
      <3>3. table[j] # s
        BY <3>1, <3>2, <2>10
      <3>4. \A y \in Callers : tear'[y].sess # table[j]
        BY <3>2, <3>3, <2>7, <2>4
      <3> QED BY <3>1, <3>2, <3>4, <2>5
    <2>13. TearOK'
      <3> SUFFICES ASSUME NEW y \in Callers
                   PROVE  /\ tear'[y].at = "none" => tear'[y] = NoTear
                          /\ tear'[y].at # "none" => tear'[y].sess \in Sess /\ sess'[tear'[y].sess].writer \in Conns
                          /\ tear'[y].at = "task" => tear'[y].task \in Conns
                          /\ y \in Conns /\ tear'[y].at # "none" => conn'[y].pump = "ended"
                          /\ y \in Posts /\ tear'[y].at # "none" => post'[y] = Idle
        BY DEF TearOK
      <3>1. CASE y # x \/ w = None
        <4>1. tear'[y] = tear[y]
          BY <3>1, <2>7
        <4>2. y \in Conns /\ conn[y].pump = "ended" => conn'[y].pump = "ended"
          BY <2>6
        <4>3. y \in Posts /\ post[y] = Idle => post'[y] = Idle
          OBVIOUS
        <4> HIDE DEF s, k, w
        <4>4. /\ tear[y].at = "none" => tear[y] = NoTear
              /\ tear[y].at # "none" => tear[y].sess \in Sess /\ sess[tear[y].sess].writer \in Conns
              /\ tear[y].at = "task" => tear[y].task \in Conns
              /\ y \in Conns /\ tear[y].at # "none" => conn[y].pump = "ended"
              /\ y \in Posts /\ tear[y].at # "none" => post[y] = Idle
          BY DEF TearOK
        <4>5. tear[y].sess \in Sess => sess'[tear[y].sess].writer = sess[tear[y].sess].writer
          BY <2>5
        <4> QED BY <4>1, <4>2, <4>3, <4>4, <4>5
      <3>2. CASE y = x /\ w # None
        <4>1. tear'[y] = step
          BY <3>2, <2>7
        <4>2. sess'[s].writer \in Conns
          BY <3>2, <2>1, <2>3, <2>5
        <4>3. y \in Conns => conn'[y].pump = "ended"
          BY <3>2, <2>6
        <4> HIDE DEF step
        <4> QED BY <4>1, <4>2, <4>3, <3>2, <2>1, <2>4
      <3> QED BY <3>1, <3>2
    <2>14. OneTear'
      BY <2>4, <2>7, <2>10 DEF OneTear
    <2>15. ConnOK'
      <3>1. w # None => conn[w].st # "none"
        BY <2>1, <2>3, <2>10 DEF SessOK
      <3>2. SUFFICES ASSUME NEW c \in Conns
                     PROVE  /\ conn'[c].pump = "none" <=> conn'[c].st = "none"
                            /\ conn'[c].pump # "none" => conn'[c].sess \in Sess
        BY DEF ConnOK
      <3> HIDE DEF s, w
      <3>3. /\ conn[c].pump = "none" <=> conn[c].st = "none"
            /\ conn[c].pump # "none" => conn[c].sess \in Sess
        BY DEF ConnOK
      <3>4. C[c].pump = "none" <=> conn[c].pump = "none"
        OBVIOUS
      <3>5. conn'[c].st = "none" <=> conn[c].st = "none"
        BY <3>1, <2>3, <2>6, XhttpAssumption
      <3> QED BY <3>3, <3>4, <3>5, <2>6
    <2>16. SessOK'
      <3> SUFFICES ASSUME NEW t \in Sess
                   PROVE  /\ Held(t)' => sess'[t].sid \in Sids
                          /\ Held(t)' /\ sess'[t].writer # None =>
                               conn'[sess'[t].writer].sess = t /\ conn'[sess'[t].writer].st # "none"
                          /\ sess'[t].listed =>
                               /\ sess'[t].sid \in Sids
                               /\ table'[sess'[t].sid] = t \/ \E y \in Callers : tear'[y].sess = t
        BY DEF SessOK
      <3>1. Held(t)' => sess'[t].sid \in Sids
        BY <2>5, <2>11 DEF SessOK
      <3>2. ASSUME Held(t)', sess'[t].writer # None
            PROVE  conn'[sess'[t].writer].sess = t /\ conn'[sess'[t].writer].st # "none"
        <4>1. sess[t].writer \in Conns /\ sess'[t].writer = sess[t].writer
          BY <3>2, <2>5, <1>t DEF SessT
        <4>2. conn[sess[t].writer].sess = t /\ conn[sess[t].writer].st # "none"
          BY <3>2, <4>1, <2>11, XhttpAssumption DEF SessOK
        <4> QED BY <4>1, <4>2, <2>6
      <3>3. ASSUME sess'[t].listed
            PROVE  /\ sess'[t].sid \in Sids
                   /\ table'[sess'[t].sid] = t \/ \E y \in Callers : tear'[y].sess = t
        <4>1. sess[t].listed /\ (t = s => w # None)
          BY <3>3, <2>5
        <4>2. CASE t = s
          BY <4>1, <4>2, <2>4, <2>5, <2>7, <2>10
        <4>3. CASE t # s /\ table[sess[t].sid] = t
          <5>1. sess[t].sid \in Sids /\ sess'[t].sid = sess[t].sid
            BY <4>1, <2>5 DEF SessOK
          <5>2. sess[t].sid # i
            BY <4>3
          <5> QED BY <5>1, <5>2, <4>3, <2>8
        <4>4. CASE t # s /\ \E y \in Callers : tear[y].sess = t
          <5>1. PICK y \in Callers : tear[y].sess = t
            BY <4>4
          <5>2. y # x
            BY <5>1, XhttpAssumption DEF TearOK, NoTear
          <5> QED BY <5>1, <5>2, <2>5, <2>7, <4>1 DEF SessOK
        <4> QED BY <4>1, <4>2, <4>3, <4>4 DEF SessOK
      <3> QED BY <3>1, <3>2, <3>3
    <2> QED BY <1>p, <2>9, <2>11, <2>12, <2>13, <2>14, <2>15, <2>16
  <1> QED BY <1>1, <1>2
------------------------------------------------------------------------------
(* A handler gets the session of an id, an old one or a blank one.          *)
LEMMA GotType ==
  ASSUME IInv, NEW i \in Sids, NEW s \in Sess, Getting(i, s),
         NEW r, r = Got(i, s) \/ r = [Got(i, s) EXCEPT !.get = TRUE]
  PROVE  /\ r \in SessT /\ Len(r.down_q) <= QueueMax /\ r.sid = i
         /\ table[i] = None => r.writer = None
         /\ table[i] # None => /\ r.writer = sess[s].writer /\ r.listed = sess[s].listed
                               /\ r.next_seq = sess[s].next_seq /\ r.seq_buf = sess[s].seq_buf
  <1>0. QueueMax \in Nat /\ sess[s] \in SessT /\ Len(sess[s].down_q) <= QueueMax
    BY Types, XhttpAssumption DEF IInv
  <1>1. CASE table[i] = None
    <2>1. Got(i, s) = [NoSess EXCEPT !.sid = i, !.listed = TRUE]
      BY <1>1 DEF Got
    <2>2. Got(i, s) \in SessT /\ Len(Got(i, s).down_q) = 0 /\ Got(i, s).sid = i /\ Got(i, s).writer = None
      <3>1. NoSess \in SessT /\ NoSess.down_q = << >> /\ NoSess.writer = None
        BY Blanks DEF NoSess
      <3>2. Got(i, s) \in SessT /\ Got(i, s).down_q = << >> /\ Got(i, s).sid = i /\ Got(i, s).writer = None
        BY <2>1, <3>1 DEF SessT
      <3> QED BY <3>2
    <2>3. r \in SessT /\ r.down_q = Got(i, s).down_q /\ r.sid = i /\ r.writer = None
      BY <2>2 DEF SessT
    <2> QED BY <1>0, <1>1, <2>2, <2>3
  <1>2. CASE table[i] # None
    <2>1. Got(i, s) = [sess[s] EXCEPT !.idle = FALSE] /\ table[i] = s
      BY <1>2 DEF Got, Getting
    <2>2. sess[s].sid = i
      BY <1>2, <2>1 DEF IInv, Refs, TableOK
    <2>3. /\ Got(i, s) \in SessT /\ Got(i, s).down_q = sess[s].down_q /\ Got(i, s).sid = i
          /\ Got(i, s).writer = sess[s].writer /\ Got(i, s).listed = sess[s].listed
          /\ Got(i, s).next_seq = sess[s].next_seq /\ Got(i, s).seq_buf = sess[s].seq_buf
      BY <1>0, <2>1, <2>2 DEF SessT
    <2>4. /\ r \in SessT /\ r.down_q = Got(i, s).down_q /\ r.sid = Got(i, s).sid
          /\ r.writer = Got(i, s).writer /\ r.listed = Got(i, s).listed
          /\ r.next_seq = Got(i, s).next_seq /\ r.seq_buf = Got(i, s).seq_buf
      BY <2>3 DEF SessT
    <2> QED BY <1>0, <1>2, <2>3, <2>4
  <1> QED BY <1>1, <1>2

LEMMA GetStep ==
  ASSUME IInv, NEW i \in Sids, NEW s \in Sess, Getting(i, s),
         NEW r, r = Got(i, s) \/ r = [Got(i, s) EXCEPT !.get = TRUE],
         sess' = [sess EXCEPT ![s] = r], conn' = conn, tear' = tear, reaping' = reaping,
         post' \in [Posts -> PostT],
         \A p \in Posts : \/ post'[p] = post[p]
                          \/ (tear[p] = NoTear /\ post'[p].at # "idle" /\ post'[p].sess = s)
  PROVE  IInv' /\ \A t \in Sess : Held(t)' => Held(t) \/ (t = s /\ table[i] = None)
  <1> USE DEF IInv, Refs
  <1>1. /\ r \in SessT /\ Len(r.down_q) <= QueueMax /\ r.sid = i
        /\ table[i] = None => r.writer = None
        /\ table[i] # None => r.writer = sess[s].writer /\ r.listed = sess[s].listed
    BY GotType
  <1>t. /\ table \in [Sids -> Sess \union {None}] /\ sess \in [Sess -> SessT]
        /\ conn \in [Conns -> ConnT] /\ tear \in [Callers -> TearT] /\ reaping \subseteq Sids
        /\ \A t \in Sess : Len(sess[t].down_q) <= QueueMax
    BY Types
  <1>2. /\ table' \in [Sids -> Sess \union {None}] /\ table'[i] = s
        /\ \A j \in Sids \ {i} : table'[j] = table[j]
    BY <1>t DEF Getting
  <1>3. /\ sess' \in [Sess -> SessT] /\ sess'[s] = r
        /\ \A t \in Sess \ {s} : sess'[t] = sess[t]
    BY <1>1, <1>t
  <1>4. TypeOK'
    <2>1. \A t \in Sess : Len(sess'[t].down_q) <= QueueMax
      BY <1>1, <1>3, <1>t
    <2> QED BY <1>2, <1>3, <2>1, <1>t, TypesNext
  <1>5. \A x \in Callers : tear[x].sess # s
    <2>1. CASE table[i] = None
      BY <2>1 DEF Getting, FreeSess
    <2>2. CASE table[i] # None
      BY <2>2 DEF Getting, TableOK
    <2> QED BY <2>1, <2>2
  <1>6. \A j \in Sids \ {i} : table[j] # s
    <2>1. CASE table[i] = None
      <3>1. s \notin {table[j] : j \in Sids}
        BY <2>1 DEF Getting, FreeSess
      <3> QED BY <3>1
    <2>2. CASE table[i] # None
      BY <2>2, XhttpAssumption DEF Getting, TableOK
    <2> QED BY <2>1, <2>2
  <1>7. \A t \in Sess : Held(t)' => Held(t) \/ t = s
    <2> SUFFICES ASSUME NEW t \in Sess, t # s, FreeSess(t) PROVE FreeSess(t)'
      BY DEF Held
    <2>1. t \notin {table'[j] : j \in Sids}
      BY <1>2 DEF FreeSess
    <2>2. \A p \in Posts : post'[p].sess # t
      BY DEF FreeSess
    <2> QED BY <1>3, <2>1, <2>2 DEF FreeSess
  <1>8. table[i] # None => Held(s)
    <2> SUFFICES ASSUME table[i] # None PROVE s \in {table[j] : j \in Sids}
      BY DEF Held, FreeSess
    <2> QED BY DEF Getting
  <1>9. TableOK'
    <2> SUFFICES ASSUME NEW j \in Sids, table'[j] # None
                 PROVE  sess'[table'[j]].sid = j /\ \A x \in Callers : tear[x].sess # table'[j]
      BY DEF TableOK
    <2>1. CASE j = i
      BY <2>1, <1>1, <1>2, <1>3, <1>5
    <2>2. CASE j # i
      BY <2>2, <1>2, <1>3, <1>6 DEF TableOK
    <2> QED BY <2>1, <2>2
  <1>10. TearOK'
    <2> SUFFICES ASSUME NEW x \in Callers
                 PROVE  /\ tear[x].at = "none" => tear[x] = NoTear
                        /\ tear[x].at # "none" => tear[x].sess \in Sess /\ sess'[tear[x].sess].writer \in Conns
                        /\ tear[x].at = "task" => tear[x].task \in Conns
                        /\ x \in Conns /\ tear[x].at # "none" => conn[x].pump = "ended"
                        /\ x \in Posts /\ tear[x].at # "none" => post'[x] = Idle
      BY DEF TearOK
    <2>1. NoTear.at = "none"
      BY DEF NoTear
    <2> QED BY <2>1, <1>3, <1>5 DEF TearOK
  <1>11. PostOK'
    BY DEF PostOK
  <1>12. OneTear' /\ ConnOK'
    BY DEF OneTear, ConnOK
  <1>13. SessOK'
    <2> SUFFICES ASSUME NEW t \in Sess
                 PROVE  /\ Held(t)' => sess'[t].sid \in Sids
                        /\ Held(t)' /\ sess'[t].writer # None =>
                             conn[sess'[t].writer].sess = t /\ conn[sess'[t].writer].st # "none"
                        /\ sess'[t].listed =>
                             /\ sess'[t].sid \in Sids
                             /\ table'[sess'[t].sid] = t \/ \E x \in Callers : tear[x].sess = t
      BY DEF SessOK
    <2>1. CASE t = s
      BY <2>1, <1>1, <1>2, <1>3, <1>8 DEF SessOK
    <2>2. CASE t # s
      <3>1. ASSUME table[sess[t].sid] = t, sess[t].listed PROVE table'[sess[t].sid] = t
        <4>1. sess[t].sid \in Sids
          BY <3>1 DEF SessOK
        <4>2. sess[t].sid # i
          BY <3>1, <2>2, XhttpAssumption DEF Getting, FreeSess
        <4> QED BY <4>1, <4>2, <3>1, <1>2
      <3> QED BY <2>2, <3>1, <1>3, <1>7 DEF SessOK
    <2> QED BY <2>1, <2>2
  <1>14. \A t \in Sess : Held(t)' => Held(t) \/ (t = s /\ table[i] = None)
    BY <1>7, <1>8
  <1> QED BY <1>4, <1>9, <1>10, <1>11, <1>12, <1>13, <1>14
------------------------------------------------------------------------------
(* A teardown goes on, and ends. *)
LEMMA ClosesStep ==
  ASSUME IInv, NEW x \in Callers, TeardownCloses(x)
  PROVE  IInv' /\ \A t \in Sess : Held(t)' => Held(t)
  <1> USE DEF IInv, Refs
  <1> DEFINE s == tear[x].sess
             w == sess[s].writer
  <1>t. /\ conn \in [Conns -> ConnT] /\ tear \in [Callers -> TearT] /\ post \in [Posts -> PostT]
        /\ UNCHANGED <<table, sess, post, reaping>>
    BY Types DEF TeardownCloses
  <1>1. tear[x].at = "task" /\ s \in Sess /\ w \in Conns
    BY DEF TeardownCloses, TearOK
  <1>2. conn[w].st # "none"
    <2>1. Held(s)
      BY <1>1 DEF Held, FreeSess
    <2> QED BY <1>1, <2>1, XhttpAssumption DEF SessOK
  <1>3. /\ conn' \in [Conns -> ConnT]
        /\ \A c \in Conns : /\ conn'[c].sess = conn[c].sess /\ conn'[c].pump = conn[c].pump
                            /\ conn'[c].st = "none" <=> conn[c].st = "none"
    <2>1. conn' = [conn EXCEPT ![w].st = "closed"] /\ conn[w] \in ConnT
      BY <1>1, <1>t DEF TeardownCloses
    <2> HIDE DEF w
    <2>2. [conn[w] EXCEPT !.st = "closed"] \in ConnT
      BY <2>1 DEF ConnT
    <2> QED BY <1>1, <1>2, <1>t, <2>1, <2>2 DEF ConnT
  <1>4. /\ tear' \in [Callers -> TearT] /\ tear'[x].at = "closing" /\ tear'[x].sess = s
        /\ \A y \in Callers \ {x} : tear'[y] = tear[y]
    <2>1. tear' = [tear EXCEPT ![x] = [@ EXCEPT !.at = "closing", !.task = None]] /\ tear[x] \in TearT
      BY <1>t DEF TeardownCloses, TearT
    <2>2. [tear[x] EXCEPT !.at = "closing", !.task = None] \in TearT
      BY <2>1 DEF TearT
    <2> QED BY <1>t, <2>1, <2>2 DEF TearT
  <1>5. TypeOK'
    BY <1>t, <1>3, <1>4, Types, TypesNext
  <1>6. \A t \in Sess : Held(t)' => Held(t)
    <2> SUFFICES ASSUME NEW t \in Sess, FreeSess(t) PROVE FreeSess(t)'
      BY DEF Held
    <2> QED BY <1>t, <1>3, <1>4 DEF FreeSess
  <1>7. \A y \in Callers : tear'[y].sess = tear[y].sess /\ (tear'[y].at = "none" <=> tear[y].at = "none")
    BY <1>1, <1>4
  <1>8. TableOK' /\ OneTear' /\ PostOK'
    BY <1>t, <1>7 DEF TableOK, OneTear, PostOK
  <1>9. TearOK'
    <2> SUFFICES ASSUME NEW y \in Callers
                 PROVE  /\ tear'[y].at = "none" => tear'[y] = NoTear
                        /\ tear'[y].at # "none" => tear'[y].sess \in Sess /\ sess[tear'[y].sess].writer \in Conns
                        /\ tear'[y].at = "task" => tear'[y].task \in Conns
                        /\ y \in Conns /\ tear'[y].at # "none" => conn'[y].pump = "ended"
                        /\ y \in Posts /\ tear'[y].at # "none" => post[y] = Idle
      BY <1>t DEF TearOK
    <2>1. CASE y = x
      BY <2>1, <1>1, <1>3, <1>4 DEF TearOK
    <2>2. CASE y # x
      BY <2>2, <1>3, <1>4 DEF TearOK
    <2> QED BY <2>1, <2>2
  <1>10. ConnOK'
    BY <1>3 DEF ConnOK
  <1>11. SessOK'
    <2> SUFFICES ASSUME NEW t \in Sess
                 PROVE  /\ Held(t)' => sess[t].sid \in Sids
                        /\ Held(t)' /\ sess[t].writer # None =>
                             conn'[sess[t].writer].sess = t /\ conn'[sess[t].writer].st # "none"
                        /\ sess[t].listed =>
                             /\ sess[t].sid \in Sids
                             /\ table[sess[t].sid] = t \/ \E y \in Callers : tear'[y].sess = t
      BY <1>t DEF SessOK
    <2>1. sess[t].writer \in Conns \union {None}
      BY Types DEF SessT
    <2> QED BY <2>1, <1>3, <1>6, <1>7 DEF SessOK
  <1> QED BY <1>5, <1>6, <1>8, <1>9, <1>10, <1>11

LEMMA EndsStep ==
  ASSUME IInv, NEW x \in Callers, TeardownEnds(x)
  PROVE  IInv' /\ \A t \in Sess : Held(t)' => Held(t)
  <1> USE DEF IInv, Refs
  <1> DEFINE s == tear[x].sess
  <1>t. /\ conn \in [Conns -> ConnT] /\ tear \in [Callers -> TearT] /\ sess \in [Sess -> SessT]
        /\ UNCHANGED <<table, conn, post, reaping>>
    BY Types DEF TeardownEnds
  <1>1. /\ tear[x].at = "closing" /\ s \in Sess /\ Held(s)
        /\ \A y \in Callers \ {x} : tear[y].sess # s
        /\ \A i \in Sids : table[i] # s
    BY XhttpAssumption DEF TeardownEnds, TearOK, OneTear, TableOK, Held, FreeSess
  <1>2. /\ sess' \in [Sess -> SessT]
        /\ \A t \in Sess : /\ Len(sess'[t].down_q) <= QueueMax
                           /\ sess'[t].sid = sess[t].sid /\ sess'[t].writer = sess[t].writer
                           /\ sess'[t].get = sess[t].get
                           /\ sess'[t].listed = IF t = s THEN FALSE ELSE sess[t].listed
    <2> DEFINE r == sess[s]
               q == IF Len(r.down_q) = QueueMax THEN r.down_q ELSE Append(r.down_q, "end")
               e == [r EXCEPT !.closed = TRUE, !.listed = FALSE, !.dropped = Full(r), !.down_q = q]
    <2>1. r \in SessT /\ Len(r.down_q) <= QueueMax /\ Len(r.down_q) \in Nat /\ QueueMax \in Nat
      BY <1>1, Types, XhttpAssumption DEF SessT
    <2>2. q \in Seq({"data", "end"}) /\ Len(q) <= QueueMax
      BY <2>1 DEF SessT
    <2>3. e = Ended(r) /\ Full(r) \in BOOLEAN
      BY <2>1 DEF Ended, Full
    <2>4. sess' = [sess EXCEPT ![s] = Ended(r)]
      BY DEF TeardownEnds
    <2> HIDE DEF q
    <2>5. /\ e \in SessT /\ e.down_q = q /\ e.sid = r.sid /\ e.writer = r.writer /\ e.get = r.get
          /\ ~e.listed
      BY <2>1, <2>2, <2>3 DEF SessT
    <2> HIDE DEF e, s
    <2>6. \A t \in Sess : Len(sess[t].down_q) <= QueueMax
      BY Types
    <2>7. e.listed = FALSE
      BY <2>5 DEF SessT
    <2>8. sess' \in [Sess -> SessT] /\ sess'[s] = e /\ \A t \in Sess \ {s} : sess'[t] = sess[t]
      BY <2>3, <2>4, <2>5, <1>t, <1>1
    <2> QED BY <2>2, <2>5, <2>6, <2>7, <2>8
  <1>3. /\ tear' \in [Callers -> TearT] /\ tear'[x] = NoTear
        /\ \A y \in Callers \ {x} : tear'[y] = tear[y]
    BY <1>t, Blanks DEF TeardownEnds
  <1>4. NoTear.at = "none" /\ NoTear.sess = None /\ None \notin Sess
    BY XhttpAssumption DEF NoTear
  <1>5. TypeOK'
    BY <1>t, <1>2, <1>3, Types, TypesNext
  <1>6. \A t \in Sess : Held(t)' => Held(t)
    <2> SUFFICES ASSUME NEW t \in Sess, FreeSess(t) PROVE FreeSess(t)'
      BY DEF Held
    <2>1. \A y \in Callers : tear'[y].sess # t
      <3> SUFFICES ASSUME NEW y \in Callers PROVE tear'[y].sess # t
        OBVIOUS
      <3>1. CASE y = x
        BY <3>1, <1>3, <1>4
      <3>2. CASE y # x
        BY <3>2, <1>3 DEF FreeSess
      <3> QED BY <3>1, <3>2
    <2>2. sess'[t].get = sess[t].get
      BY <1>2
    <2> QED BY <2>1, <2>2, <1>t DEF FreeSess
  <1>7. TableOK'
    <2> SUFFICES ASSUME NEW i \in Sids, table[i] # None
                 PROVE  sess'[table[i]].sid = i /\ \A y \in Callers : tear'[y].sess # table[i]
      BY <1>t DEF TableOK
    <2>1. table[i] \in Sess
      BY Types
    <2>2. \A y \in Callers : tear'[y].sess # table[i]
      <3> SUFFICES ASSUME NEW y \in Callers PROVE tear'[y].sess # table[i]
        OBVIOUS
      <3>1. CASE y = x
        BY <3>1, <1>3, <1>4
      <3>2. CASE y # x
        BY <3>2, <1>3 DEF TableOK
      <3> QED BY <3>1, <3>2
    <2> QED BY <2>1, <2>2, <1>2 DEF TableOK
  <1>8. TearOK'
    <2> SUFFICES ASSUME NEW y \in Callers
                 PROVE  /\ tear'[y].at = "none" => tear'[y] = NoTear
                        /\ tear'[y].at # "none" => tear'[y].sess \in Sess /\ sess'[tear'[y].sess].writer \in Conns
                        /\ tear'[y].at = "task" => tear'[y].task \in Conns
                        /\ y \in Conns /\ tear'[y].at # "none" => conn[y].pump = "ended"
                        /\ y \in Posts /\ tear'[y].at # "none" => post[y] = Idle
      BY <1>t DEF TearOK
    <2>1. CASE y = x
      BY <2>1, <1>3, <1>4 DEF NoTear
    <2>2. CASE y # x
      <3>1. tear'[y] = tear[y]
        BY <2>2, <1>3
      <3>2. tear[y].at # "none" => sess'[tear[y].sess].writer = sess[tear[y].sess].writer
        BY <1>2 DEF TearOK
      <3> HIDE DEF s
      <3> QED BY <3>1, <3>2 DEF TearOK
    <2> QED BY <2>1, <2>2
  <1>9. OneTear' /\ PostOK' /\ ConnOK'
    <2>1. OneTear'
      <3> SUFFICES ASSUME NEW y \in Callers, NEW z \in Callers, tear'[y].at # "none", tear'[y].sess = tear'[z].sess
                   PROVE  y = z
        BY DEF OneTear
      <3>1. y # x /\ tear'[y] = tear[y] /\ tear[y].sess \in Sess
        BY <1>3, <1>4 DEF TearOK
      <3>2. z # x
        BY <3>1, <1>3, <1>4
      <3> QED BY <3>1, <3>2, <1>3 DEF OneTear
    <2> QED BY <2>1, <1>t DEF PostOK, ConnOK
  <1>10. SessOK'
    <2> SUFFICES ASSUME NEW t \in Sess
                 PROVE  /\ Held(t)' => sess'[t].sid \in Sids
                        /\ Held(t)' /\ sess'[t].writer # None =>
                             conn[sess'[t].writer].sess = t /\ conn[sess'[t].writer].st # "none"
                        /\ sess'[t].listed =>
                             /\ sess'[t].sid \in Sids
                             /\ table[sess'[t].sid] = t \/ \E y \in Callers : tear'[y].sess = t
      BY <1>t DEF SessOK
    <2>a. /\ Held(t)' => Held(t)
          /\ sess'[t].sid = sess[t].sid /\ sess'[t].writer = sess[t].writer
          /\ sess'[t].listed = IF t = s THEN FALSE ELSE sess[t].listed
      BY <1>2, <1>6
    <2>b. /\ Held(t) => sess[t].sid \in Sids
          /\ Held(t) /\ sess[t].writer # None =>
               conn[sess[t].writer].sess = t /\ conn[sess[t].writer].st # "none"
          /\ sess[t].listed =>
               /\ sess[t].sid \in Sids
               /\ table[sess[t].sid] = t \/ \E y \in Callers : tear[y].sess = t
      BY DEF SessOK
    <2>c. t # s => \A y \in Callers : tear[y].sess = t => tear'[y].sess = t
      BY <1>3
    <2> HIDE DEF s
    <2>1. CASE t = s
      BY <2>1, <2>a, <2>b
    <2>2. CASE t # s
      BY <2>2, <2>a, <2>b, <2>c
    <2> QED BY <2>1, <2>2
  <1> QED BY <1>5, <1>6, <1>7, <1>8, <1>9, <1>10
------------------------------------------------------------------------------
(* A handler has opened connection c, which is nobody else's.               *)
OpensConn(p, c) ==
  LET s == post[p].sess
      packets == post[p].mode = "packet"
      nxt == Next0(1, sess[s].seq_buf)
  IN
  /\ FreeConn(c)
  /\ conn' = [conn EXCEPT ![c] = [NoConn EXCEPT !.st = "open", !.sess = s, !.pump = "read",
                                    !.sent = IF packets THEN Packets(0, nxt) ELSE @]]
  /\ sess' = [sess EXCEPT ![s] =
                [sess[s] EXCEPT !.writer = c, !.task = c,
                                !.next_seq = IF packets THEN nxt ELSE @,
                                !.seq_buf = IF packets THEN @ \ 1..(nxt - 1) ELSE @]]

LEMMA OpenedTypes ==
  ASSUME IInv, NEW p \in Posts, NEW c \in Conns, post[p].at = "opening", OpensConn(p, c)
  PROVE  LET s == post[p].sess
             nxt == Next0(1, sess[s].seq_buf)
         IN
         /\ s \in Sess /\ Held(s)
         /\ conn' \in [Conns -> ConnT] /\ sess' \in [Sess -> SessT]
         /\ conn'[c].st = "open" /\ conn'[c].sess = s /\ conn'[c].pump = "read"
         /\ \A d \in Conns \ {c} : conn'[d] = conn[d]
         /\ sess'[s].sid = sess[s].sid /\ sess'[s].writer = c /\ sess'[s].get = sess[s].get
         /\ sess'[s].listed = sess[s].listed /\ sess'[s].down_q = sess[s].down_q
         /\ \A t \in Sess \ {s} : sess'[t] = sess[t]
         /\ post[p].mode = "packet" =>
              /\ nxt \in 0..MaxSeq + 1 /\ nxt \notin sess[s].seq_buf
              /\ conn'[c].sent = Packets(0, nxt) /\ Len(conn'[c].sent) = nxt
              /\ sess'[s].next_seq = nxt /\ sess'[s].seq_buf \subseteq sess[s].seq_buf
  <1> DEFINE s == post[p].sess
             packets == post[p].mode = "packet"
             buf == sess[s].seq_buf
             nxt == Next0(1, buf)
             out == IF packets THEN Packets(0, nxt) ELSE << >>
             rest == IF packets THEN buf \ 1..(nxt - 1) ELSE buf
             num == IF packets THEN nxt ELSE sess[s].next_seq
             k == [NoConn EXCEPT !.st = "open", !.sess = s, !.pump = "read", !.sent = out]
             r == [sess[s] EXCEPT !.writer = c, !.task = c,
                                  !.next_seq = IF packets THEN nxt ELSE @,
                                  !.seq_buf = IF packets THEN @ \ 1..(nxt - 1) ELSE @]
  <1>1. s \in Sess /\ sess \in [Sess -> SessT] /\ conn \in [Conns -> ConnT]
    BY Types DEF IInv, Refs, PostOK
  <1>2. Held(s)
    BY <1>1 DEF Held, FreeSess
  <1>3. buf \in SUBSET Seqs /\ sess[s].next_seq \in 0..MaxSeq + 1 /\ MaxSeq \in Nat
    BY <1>1, XhttpAssumption DEF SessT
  <1>4. nxt \in 0..MaxSeq + 1 /\ nxt \notin buf
    <2>1. 1 \in 0..MaxSeq + 1
      BY <1>3
    <2> QED BY <1>3, <2>1, NextMissing
  <1>5. Packets(0, nxt) \in Seq(Seqs) /\ Len(Packets(0, nxt)) = nxt
    <2>1. 0 \in 0..MaxSeq + 1
      BY <1>3
    <2> HIDE DEF nxt
    <2>2. Packets(0, nxt) \in Seq(Seqs) /\ Len(Packets(0, nxt)) = nxt - 0
      BY <1>4, <2>1, PacketsType
    <2> QED BY <1>3, <1>4, <2>2
  <1>6. conn' = [conn EXCEPT ![c] = k] /\ sess' = [sess EXCEPT ![s] = r]
    <2>1. conn' = [conn EXCEPT ![c] = k]
      <3>1. NoConn.sent = << >>
        BY DEF NoConn
      <3> QED BY <3>1 DEF OpensConn
    <2>2. sess' = [sess EXCEPT ![s] = r]
      BY <1>1 DEF OpensConn
    <2> QED BY <2>1, <2>2
  <1>7. num \in 0..MaxSeq + 1 /\ rest \in SUBSET Seqs /\ out \in Seq(Seqs) /\ rest \subseteq buf
    BY <1>3, <1>4, <1>5
  <1>9. packets => out = Packets(0, nxt) /\ num = nxt
    OBVIOUS
  <1>r. /\ r \in SessT /\ r.sid = sess[s].sid /\ r.writer = c /\ r.get = sess[s].get
        /\ r.listed = sess[s].listed /\ r.down_q = sess[s].down_q /\ r.next_seq = num /\ r.seq_buf = rest
    <2>1. sess[s] \in SessT
      BY <1>1
    <2> DEFINE o == sess[s]
    <2>2. CASE packets
      <3>1. /\ nxt \in 0..MaxSeq + 1 /\ buf \ 1..(nxt - 1) \in SUBSET Seqs
            /\ num = nxt /\ rest = buf \ 1..(nxt - 1) /\ buf = o.seq_buf
        BY <2>2, <1>3, <1>4
      <3> HIDE DEF o, s, num, rest, buf, nxt
      <3>2. r = [o EXCEPT !.writer = c, !.task = c, !.next_seq = nxt, !.seq_buf = @ \ 1..(nxt - 1)]
        BY <2>2 DEF o
      <3>3. o \in SessT
        BY <2>1 DEF o
      <3> HIDE DEF r
      <3>4. /\ r \in SessT /\ r.sid = o.sid /\ r.writer = c /\ r.get = o.get
            /\ r.listed = o.listed /\ r.down_q = o.down_q /\ r.next_seq = nxt
            /\ r.seq_buf = o.seq_buf \ 1..(nxt - 1)
        BY <3>1, <3>2, <3>3 DEF SessT
      <3> QED BY <3>1, <3>4 DEF o
    <2>3. CASE ~packets
      <3>1. num = o.next_seq /\ rest = o.seq_buf
        BY <2>3
      <3> HIDE DEF o, s, num, rest, buf, nxt
      <3>2. r = [o EXCEPT !.writer = c, !.task = c, !.next_seq = @, !.seq_buf = @]
        BY <2>3 DEF o
      <3>3. o \in SessT
        BY <2>1 DEF o
      <3> HIDE DEF r
      <3>4. /\ r \in SessT /\ r.sid = o.sid /\ r.writer = c /\ r.get = o.get
            /\ r.listed = o.listed /\ r.down_q = o.down_q /\ r.next_seq = o.next_seq
            /\ r.seq_buf = o.seq_buf
        BY <3>2, <3>3 DEF SessT
      <3> QED BY <3>1, <3>4 DEF o
    <2> QED BY <2>2, <2>3
  <1> HIDE DEF num, rest, out, nxt, buf
  <1>8. /\ k \in ConnT /\ k.st = "open" /\ k.sess = s /\ k.pump = "read" /\ k.sent = out
        /\ r \in SessT /\ r.sid = sess[s].sid /\ r.writer = c /\ r.get = sess[s].get
        /\ r.listed = sess[s].listed /\ r.down_q = sess[s].down_q /\ r.next_seq = num /\ r.seq_buf = rest
    <2>1. NoConn \in ConnT
      BY Blanks
    <2>2. k \in ConnT /\ k.st = "open" /\ k.sess = s /\ k.pump = "read" /\ k.sent = out
      BY <1>1, <1>7, <2>1 DEF ConnT
    <2> QED BY <2>2, <1>r
  <1> HIDE DEF k, r
  <1>10. /\ conn' \in [Conns -> ConnT] /\ conn'[c] = k /\ \A d \in Conns \ {c} : conn'[d] = conn[d]
         /\ sess' \in [Sess -> SessT] /\ sess'[s] = r /\ \A t \in Sess \ {s} : sess'[t] = sess[t]
    BY <1>1, <1>6, <1>8
  <1> QED BY <1>1, <1>2, <1>4, <1>5, <1>7, <1>8, <1>9, <1>10 DEF nxt, buf

LEMMA OpenedStep ==
  ASSUME IInv, NEW p \in Posts, NEW c \in Conns, post[p].at = "opening", OpensConn(p, c),
         UNCHANGED <<table, tear, reaping>>, post' \in [Posts -> PostT],
         \A q \in Posts : \/ post'[q] = post[q] \/ post'[q] = Idle
                          \/ /\ post[q].at # "idle" /\ post'[q].at # "idle"
                             /\ post'[q].sess = post[q].sess
  PROVE  IInv' /\ \A t \in Sess : /\ Held(t)' => Held(t)
                                  /\ Held(t) /\ sess[t].writer # None => sess[t].writer # c
  <1> USE DEF IInv, Refs
  <1> DEFINE s == post[p].sess
  <1>1. /\ s \in Sess /\ Held(s)
        /\ conn' \in [Conns -> ConnT] /\ sess' \in [Sess -> SessT]
        /\ conn'[c].st = "open" /\ conn'[c].sess = s /\ conn'[c].pump = "read"
        /\ \A d \in Conns \ {c} : conn'[d] = conn[d]
        /\ sess'[s].sid = sess[s].sid /\ sess'[s].writer = c /\ sess'[s].get = sess[s].get
        /\ sess'[s].listed = sess[s].listed /\ sess'[s].down_q = sess[s].down_q
        /\ \A t \in Sess \ {s} : sess'[t] = sess[t]
    BY OpenedTypes
  <1> HIDE DEF s
  <1>2. \A t \in Sess : /\ sess'[t].sid = sess[t].sid /\ sess'[t].get = sess[t].get
                        /\ sess'[t].listed = sess[t].listed /\ sess'[t].down_q = sess[t].down_q
                        /\ sess'[t].writer = IF t = s THEN c ELSE sess[t].writer
    BY <1>1
  <1>3. TypeOK'
    BY <1>1, <1>2, Types, TypesNext
  <1>4. tear[c].at = "none"
    BY DEF OpensConn, FreeConn, PumpEnded, ConnOK, TearOK, Callers, NoTear
  <1>5. \A t \in Sess : Held(t)' => Held(t)
    <2> SUFFICES ASSUME NEW t \in Sess, FreeSess(t), t # s PROVE FreeSess(t)'
      BY <1>1 DEF Held
    <2>1. \A q \in Posts : post'[q].sess # t
      <3>1. Idle.sess # t
        BY XhttpAssumption DEF Idle
      <3> QED BY <3>1 DEF FreeSess
    <2>2. \A d \in Conns : conn'[d].sess = t => conn'[d].pump = "ended"
      BY <1>1 DEF FreeSess
    <2> QED BY <1>2, <2>1, <2>2 DEF FreeSess
  <1>6. \A t \in Sess : Held(t) /\ sess[t].writer # None => sess[t].writer # c
    <2> SUFFICES ASSUME NEW t \in Sess, Held(t), sess[t].writer = c PROVE FALSE
      OBVIOUS
    <2>1. conn[c].st # "none"
      BY XhttpAssumption DEF SessOK
    <2> QED BY <2>1 DEF OpensConn, FreeConn, Held
  <1>7. TableOK' /\ OneTear'
    BY <1>2, Types DEF TableOK, OneTear
  <1>8. TearOK'
    <2> SUFFICES ASSUME NEW x \in Callers
                 PROVE  /\ tear[x].at = "none" => tear[x] = NoTear
                        /\ tear[x].at # "none" => tear[x].sess \in Sess /\ sess'[tear[x].sess].writer \in Conns
                        /\ tear[x].at = "task" => tear[x].task \in Conns
                        /\ x \in Conns /\ tear[x].at # "none" => conn'[x].pump = "ended"
                        /\ x \in Posts /\ tear[x].at # "none" => post'[x] = Idle
      BY DEF TearOK
    <2>1. x \in Posts /\ post[x] = Idle => post'[x] = Idle
      BY DEF Idle
    <2>2. tear[x].at # "none" => tear[x].sess \in Sess /\ sess'[tear[x].sess].writer \in Conns
      BY <1>2 DEF TearOK
    <2>3. x \in Conns /\ tear[x].at # "none" => conn'[x].pump = "ended"
      BY <1>1, <1>4 DEF TearOK
    <2> QED BY <2>1, <2>2, <2>3 DEF TearOK
  <1>9. PostOK' /\ ConnOK'
    <2>1. PostOK'
      BY DEF PostOK, Idle
    <2>2. ConnOK'
      BY <1>1 DEF ConnOK
    <2> QED BY <2>1, <2>2
  <1>10. SessOK'
    <2> SUFFICES ASSUME NEW t \in Sess
                 PROVE  /\ Held(t)' => sess'[t].sid \in Sids
                        /\ Held(t)' /\ sess'[t].writer # None =>
                             conn'[sess'[t].writer].sess = t /\ conn'[sess'[t].writer].st # "none"
                        /\ sess'[t].listed =>
                             /\ sess'[t].sid \in Sids
                             /\ table[sess'[t].sid] = t \/ \E x \in Callers : tear[x].sess = t
      BY DEF SessOK
    <2>1. ASSUME Held(t)', sess'[t].writer # None
          PROVE  conn'[sess'[t].writer].sess = t /\ conn'[sess'[t].writer].st # "none"
      <3>1. CASE t = s
        BY <3>1, <1>1
      <3>2. CASE t # s
        <4>1. sess[t].writer \in Conns \union {None}
          BY Types DEF SessT
        <4>2. sess'[t].writer = sess[t].writer /\ sess[t].writer # c /\ sess[t].writer \in Conns
          BY <3>2, <4>1, <2>1, <1>1, <1>5, <1>6
        <4> QED BY <4>2, <2>1, <1>1, <1>5 DEF SessOK
      <3> QED BY <3>1, <3>2
    <2> QED BY <2>1, <1>2, <1>5 DEF SessOK
  <1> QED BY <1>3, <1>5, <1>6, <1>7, <1>8, <1>9, <1>10
------------------------------------------------------------------------------
(* What went out is in order; the invariant that implies UplinkInOrder.     *)
Uplink ==
  /\ \A c \in Conns : conn[c].sent = Packets(0, Len(conn[c].sent))
  /\ \A p \in Posts : post[p].mode = "packet"
  /\ \A s \in Sess :
       Held(s) /\ sess[s].writer # None =>
         /\ sess[s].next_seq = Len(conn[sess[s].writer].sent)
         /\ sess[s].next_seq \notin sess[s].seq_buf

PacketsOnly == Modes = {"packet"}

Good == IInv' /\ (PacketsOnly /\ Uplink => Uplink')

LEMMA KeepsUplink ==
  ASSUME IInv, IInv',
         \A c \in Conns : conn'[c].sent = conn[c].sent,
         \A p \in Posts : post'[p].mode \in Modes \union {post[p].mode, "packet"},
         \A s \in Sess : Held(s)' /\ sess'[s].writer # None =>
           /\ Held(s) /\ sess'[s].writer = sess[s].writer
           /\ sess'[s].next_seq = sess[s].next_seq /\ sess'[s].seq_buf = sess[s].seq_buf
  PROVE  Good
  <1> SUFFICES ASSUME PacketsOnly, Uplink PROVE Uplink'
    BY DEF Good
  <1>1. \A c \in Conns : conn'[c].sent = Packets(0, Len(conn'[c].sent))
    BY DEF Uplink
  <1>2. \A p \in Posts : post'[p].mode = "packet"
    BY DEF Uplink, PacketsOnly
  <1>3. ASSUME NEW s \in Sess, Held(s)', sess'[s].writer # None
        PROVE  /\ sess'[s].next_seq = Len(conn'[sess'[s].writer].sent)
               /\ sess'[s].next_seq \notin sess'[s].seq_buf
    <2>1. sess[s].writer \in Conns
      BY <1>3, Types DEF IInv, SessT
    <2> QED BY <1>3, <2>1 DEF Uplink
  <1> QED BY <1>1, <1>2, <1>3 DEF Uplink

LEMMA InitUplink == Init => Uplink
  <1> SUFFICES ASSUME Init PROVE Uplink
    OBVIOUS
  <1>1. \A s \in Sess : FreeSess(s)
    BY XhttpAssumption DEF Init, FreeSess, NoSess, NoConn, Idle, NoTear
  <1>2. \A c \in Conns : conn[c].sent = Packets(0, Len(conn[c].sent))
    <2>1. Packets(0, 0) = << >>
      BY DEF Packets
    <2> QED BY <2>1 DEF Init, NoConn
  <1> QED BY <1>1, <1>2 DEF Uplink, Held, Init, Idle

LEMMA UplinkImplies == Uplink => UplinkInOrder
  BY DEF Uplink, UplinkInOrder, Held
------------------------------------------------------------------------------
(* The requests that get a session. *)
LEMMA GetGood ==
  ASSUME IInv, NEW i \in Sids, NEW s \in Sess, Getting(i, s),
         NEW r, r = Got(i, s) \/ r = [Got(i, s) EXCEPT !.get = TRUE],
         sess' = [sess EXCEPT ![s] = r], conn' = conn, tear' = tear, reaping' = reaping,
         post' \in [Posts -> PostT],
         \A p \in Posts : \/ post'[p] = post[p]
                          \/ /\ tear[p] = NoTear /\ post'[p].at # "idle" /\ post'[p].sess = s
                             /\ post'[p].mode \in Modes
  PROVE  Good
  <1>1. IInv' /\ \A t \in Sess : Held(t)' => Held(t) \/ (t = s /\ table[i] = None)
    BY GetStep
  <1>2. /\ table[i] = None => r.writer = None
        /\ table[i] # None => /\ r.writer = sess[s].writer /\ r.listed = sess[s].listed
                              /\ r.next_seq = sess[s].next_seq /\ r.seq_buf = sess[s].seq_buf
    BY GotType
  <1>3. sess'[s] = r /\ \A t \in Sess \ {s} : sess'[t] = sess[t]
    BY Types DEF IInv
  <1>4. \A t \in Sess : Held(t)' /\ sess'[t].writer # None =>
           /\ Held(t) /\ sess'[t].writer = sess[t].writer
           /\ sess'[t].next_seq = sess[t].next_seq /\ sess'[t].seq_buf = sess[t].seq_buf
    BY <1>1, <1>2, <1>3
  <1>5. \A p \in Posts : post'[p].mode \in Modes \union {post[p].mode, "packet"}
    OBVIOUS
  <1> QED BY <1>1, <1>4, <1>5, KeepsUplink

LEMMA PacketUp ==
  ASSUME IInv, NEW p \in Posts, NEW i \in Sids, NEW n \in Seqs, packet_up(p, i, n)
  PROVE  Good
  <1>1. PICK s \in Sess :
          /\ Getting(i, s)
          /\ sess' = [sess EXCEPT ![s] = Got(i, s)]
          /\ post' = [post EXCEPT ![p] = [Idle EXCEPT !.at = "body", !.sess = s, !.seq = n]]
    BY DEF packet_up
  <1> DEFINE h == [Idle EXCEPT !.at = "body", !.sess = s, !.seq = n]
  <1>2. h \in PostT /\ h.at = "body" /\ h.sess = s /\ h.mode = "packet"
    BY Blanks DEF Idle, PostT
  <1>3. post \in [Posts -> PostT]
    BY Types DEF IInv
  <1> HIDE DEF h
  <1>4. post' \in [Posts -> PostT] /\ post'[p] = h /\ \A q \in Posts \ {p} : post'[q] = post[q]
    BY <1>1, <1>2, <1>3 DEF h
  <1>5. /\ tear[p] = NoTear /\ "packet" \in Modes
        /\ conn' = conn /\ tear' = tear /\ reaping' = reaping
    BY DEF packet_up
  <1>6. \A q \in Posts : \/ post'[q] = post[q]
                         \/ /\ tear[q] = NoTear /\ post'[q].at # "idle" /\ post'[q].sess = s
                            /\ post'[q].mode \in Modes
    BY <1>2, <1>4, <1>5
  <1> DEFINE r == Got(i, s)
  <1>7. sess' = [sess EXCEPT ![s] = r] /\ r = Got(i, s)
    BY <1>1
  <1> HIDE DEF r
  <1>8. Getting(i, s) /\ conn' = conn /\ tear' = tear /\ reaping' = reaping /\ post' \in [Posts -> PostT]
    BY <1>1, <1>4, <1>5
  <1> QED BY <1>6, <1>7, <1>8, GetGood

LEMMA StreamUp ==
  ASSUME IInv, NEW p \in Posts, NEW i \in Sids, stream_up(p, i)
  PROVE  Good
  <1>1. PICK s \in Sess :
          /\ Getting(i, s)
          /\ sess' = [sess EXCEPT ![s] = Got(i, s)]
          /\ post' = [post EXCEPT ![p] = [Idle EXCEPT !.at = "chunks", !.mode = "stream",
                                                      !.sess = s, !.writer = Got(i, s).writer]]
    BY DEF stream_up
  <1> DEFINE h == [Idle EXCEPT !.at = "chunks", !.mode = "stream",
                               !.sess = s, !.writer = Got(i, s).writer]
  <1>2. h \in PostT /\ h.at = "chunks" /\ h.sess = s /\ h.mode = "stream"
    <2>1. Got(i, s).writer \in Conns \union {None}
      BY <1>1, GotType DEF SessT
    <2> QED BY <2>1, Blanks DEF Idle, PostT
  <1>3. post \in [Posts -> PostT]
    BY Types DEF IInv
  <1> HIDE DEF h
  <1>4. post' \in [Posts -> PostT] /\ post'[p] = h /\ \A q \in Posts \ {p} : post'[q] = post[q]
    BY <1>1, <1>2, <1>3 DEF h
  <1>5. /\ tear[p] = NoTear /\ "stream" \in Modes
        /\ conn' = conn /\ tear' = tear /\ reaping' = reaping
    BY DEF stream_up
  <1>6. \A q \in Posts : \/ post'[q] = post[q]
                         \/ /\ tear[q] = NoTear /\ post'[q].at # "idle" /\ post'[q].sess = s
                            /\ post'[q].mode \in Modes
    BY <1>2, <1>4, <1>5
  <1> DEFINE r == Got(i, s)
  <1>7. sess' = [sess EXCEPT ![s] = r] /\ r = Got(i, s)
    BY <1>1
  <1> HIDE DEF r
  <1>8. Getting(i, s) /\ conn' = conn /\ tear' = tear /\ reaping' = reaping /\ post' \in [Posts -> PostT]
    BY <1>1, <1>4, <1>5
  <1> QED BY <1>6, <1>7, <1>8, GetGood

LEMMA Downlink == ASSUME IInv, NEW i \in Sids, xhttp_downlink(i) PROVE Good
  <1>1. PICK s \in Sess :
          Getting(i, s) /\ sess' = [sess EXCEPT ![s] = [Got(i, s) EXCEPT !.get = TRUE]]
    BY DEF xhttp_downlink
  <1>2. post \in [Posts -> PostT]
    BY Types DEF IInv
  <1> QED BY <1>1, <1>2, GetGood DEF xhttp_downlink
------------------------------------------------------------------------------
(* A step that leaves alone what the invariants speak of. *)
LEMMA EasyStep ==
  ASSUME IInv, table' = table, tear' = tear, reaping' = reaping,
         sess' \in [Sess -> SessT], conn' \in [Conns -> ConnT], post' \in [Posts -> PostT],
         \A s \in Sess : /\ Len(sess'[s].down_q) <= QueueMax
                         /\ sess'[s].sid = sess[s].sid /\ sess'[s].writer = sess[s].writer
                         /\ sess'[s].listed = sess[s].listed /\ (sess'[s].get => sess[s].get)
                         /\ sess'[s].next_seq = sess[s].next_seq /\ sess'[s].seq_buf = sess[s].seq_buf,
         \A c \in Conns : /\ conn'[c].sess = conn[c].sess /\ conn'[c].sent = conn[c].sent
                          /\ conn'[c].pump = "none" <=> conn[c].pump = "none"
                          /\ conn'[c].pump = "ended" <=> conn[c].pump = "ended"
                          /\ conn'[c].st = "none" <=> conn[c].st = "none",
         \A p \in Posts : \/ post'[p] = post[p] \/ post'[p] = Idle
                          \/ /\ post[p].at # "idle" /\ post'[p].at # "idle"
                             /\ post'[p].sess = post[p].sess /\ post'[p].mode = post[p].mode
  PROVE  Good
  <1>1. TypeOK'
    BY Types, TypesNext DEF IInv
  <1>2. Refs' /\ \A s \in Sess : Held(s)' => Held(s)
    BY <1>1, SoftStep
  <1>3. \A p \in Posts : post'[p].mode \in Modes \union {post[p].mode, "packet"}
    BY DEF Idle
  <1>4. IInv'
    BY <1>1, <1>2 DEF IInv
  <1> QED BY <1>2, <1>3, <1>4, KeepsUplink

(* A handler at work returns or goes on.                                    *)
LEMMA PostMoves ==
  ASSUME IInv, NEW p \in Posts, post[p].at # "idle",
         \/ Returns(p) \/ post' = post
         \/ \E at \in {"body", "chunks", "opening", "drain"} : Goes(p, at)
  PROVE  /\ post' \in [Posts -> PostT]
         /\ \A q \in Posts : \/ post'[q] = post[q] \/ post'[q] = Idle
                             \/ /\ post[q].at # "idle" /\ post'[q].at # "idle"
                                /\ post'[q].sess = post[q].sess /\ post'[q].mode = post[q].mode
  <1>1. post \in [Posts -> PostT] /\ Idle \in PostT
    BY Types, Blanks DEF IInv
  <1>2. CASE Returns(p)
    BY <1>1, <1>2 DEF Returns
  <1>3. CASE post' = post
    BY <1>1, <1>3
  <1>4. ASSUME NEW at \in {"body", "chunks", "opening", "drain"}, Goes(p, at)
        PROVE  /\ post' \in [Posts -> PostT]
               /\ \A q \in Posts : \/ post'[q] = post[q] \/ post'[q] = Idle
                                   \/ /\ post[q].at # "idle" /\ post'[q].at # "idle"
                                      /\ post'[q].sess = post[q].sess /\ post'[q].mode = post[q].mode
    <2>1. [post[p] EXCEPT !.at = at] \in PostT
      BY <1>1 DEF PostT
    <2>2. post' = [post EXCEPT ![p] = [post[p] EXCEPT !.at = at]]
      BY <1>4 DEF Goes
    <2>3. /\ [post[p] EXCEPT !.at = at].at = at /\ [post[p] EXCEPT !.at = at].sess = post[p].sess
          /\ [post[p] EXCEPT !.at = at].mode = post[p].mode
      BY <1>1 DEF PostT
    <2> QED BY <1>1, <2>1, <2>2, <2>3
  <1> QED BY <1>2, <1>3, <1>4

(* What a session may look like after a step of its own.                    *)
Mild(s, r) ==
  /\ r \in SessT /\ Len(r.down_q) <= QueueMax
  /\ r.sid = sess[s].sid /\ r.writer = sess[s].writer
  /\ r.listed = sess[s].listed /\ (r.get => sess[s].get)
  /\ r.next_seq = sess[s].next_seq /\ r.seq_buf = sess[s].seq_buf

LEMMA MildStep ==
  ASSUME IInv, NEW s \in Sess, NEW r, Mild(s, r), sess' = [sess EXCEPT ![s] = r]
  PROVE  /\ sess' \in [Sess -> SessT]
         /\ \A t \in Sess : /\ Len(sess'[t].down_q) <= QueueMax
                            /\ sess'[t].sid = sess[t].sid /\ sess'[t].writer = sess[t].writer
                            /\ sess'[t].listed = sess[t].listed /\ (sess'[t].get => sess[t].get)
                            /\ sess'[t].next_seq = sess[t].next_seq /\ sess'[t].seq_buf = sess[t].seq_buf
  <1>1. sess \in [Sess -> SessT] /\ \A t \in Sess : Len(sess[t].down_q) <= QueueMax
    BY Types DEF IInv
  <1>2. sess'[s] = r /\ \A t \in Sess \ {s} : sess'[t] = sess[t]
    BY <1>1
  <1> QED BY <1>1, <1>2 DEF Mild

LEMMA IdleMild == ASSUME IInv, NEW s \in Sess, NEW b \in BOOLEAN PROVE Mild(s, [sess[s] EXCEPT !.idle = b])
  BY Types DEF IInv, Mild, SessT

LEMMA SessRest ==
  ASSUME IInv
  PROVE  /\ sess \in [Sess -> SessT] /\ conn \in [Conns -> ConnT] /\ post \in [Posts -> PostT]
         /\ \A s \in Sess : Len(sess[s].down_q) <= QueueMax
  BY Types DEF IInv
------------------------------------------------------------------------------
(* The GET, time, the destination, the pump at work. *)
LEMMA BecomesIdleGood == ASSUME IInv, NEW i \in Sids, BecomesIdle(i) PROVE Good
  <1> DEFINE s == table[i]
             r == [sess[s] EXCEPT !.idle = TRUE]
  <1>1. s \in Sess
    BY Types DEF IInv, BecomesIdle
  <1>2. sess' = [sess EXCEPT ![s] = r] /\ UNCHANGED <<table, conn, post, tear, reaping>>
    BY DEF BecomesIdle
  <1>3. Mild(s, r)
    BY <1>1, IdleMild
  <1> HIDE DEF r, s
  <1> QED BY <1>1, <1>2, <1>3, MildStep, SessRest, EasyStep

LEMMA GetReadsGood == ASSUME IInv, NEW s \in Sess, GetReads(s) PROVE Good
  <1> DEFINE o == sess[s]
             r == [o EXCEPT !.down_q = Tail(@), !.idle = @ /\ Head(o.down_q) = "end",
                            !.get = Head(o.down_q) # "end"]
  <1>1. o \in SessT /\ Len(o.down_q) <= QueueMax /\ o.get /\ o.down_q # << >> /\ QueueMax \in Nat
    BY Types, XhttpAssumption DEF IInv, GetReads
  <1>2. sess' = [sess EXCEPT ![s] = r] /\ UNCHANGED <<table, conn, post, tear, reaping>>
    BY <1>1 DEF GetReads, SessT
  <1>3. Tail(o.down_q) \in Seq({"data", "end"}) /\ Len(Tail(o.down_q)) <= QueueMax
    BY <1>1 DEF SessT
  <1>4. Mild(s, r)
    BY <1>1, <1>3 DEF Mild, SessT
  <1> HIDE DEF r
  <1> QED BY <1>2, <1>4, MildStep, SessRest, EasyStep

LEMMA GetLeavesGood == ASSUME IInv, NEW s \in Sess, GetLeaves(s) PROVE Good
  <1> DEFINE r == [sess[s] EXCEPT !.get = FALSE]
  <1>1. sess' = [sess EXCEPT ![s] = r] /\ UNCHANGED <<table, conn, post, tear, reaping>>
    BY DEF GetLeaves
  <1>2. Mild(s, r)
    BY Types DEF IInv, Mild, SessT
  <1> HIDE DEF r
  <1> QED BY <1>1, <1>2, MildStep, SessRest, EasyStep

LEMMA RemoteClosesGood == ASSUME IInv, NEW c \in Conns, RemoteCloses(c) PROVE Good
  <1>1. PICK st \in {"eof", "lost"} : conn' = [conn EXCEPT ![c].st = st] /\ conn[c].st # "none"
    BY DEF RemoteCloses
  <1>2. UNCHANGED <<table, sess, post, tear, reaping>>
    BY DEF RemoteCloses
  <1>3. /\ conn' \in [Conns -> ConnT]
        /\ \A d \in Conns : /\ conn'[d].sess = conn[d].sess /\ conn'[d].sent = conn[d].sent
                            /\ conn'[d].pump = conn[d].pump
                            /\ conn'[d].st = "none" <=> conn[d].st = "none"
    <2>1. [conn[c] EXCEPT !.st = st] \in ConnT
      BY SessRest DEF ConnT
    <2> QED BY <1>1, <2>1, SessRest DEF ConnT
  <1> QED BY <1>2, <1>3, SessRest, EasyStep

LEMMA QueuesGood ==
  ASSUME IInv, NEW c \in Conns, conn[c].pump \in {"read", "put"}, ~Full(sess[conn[c].sess]),
         Queues(c, "read"), UNCHANGED <<post, reaping>>
  PROVE  Good
  <1> DEFINE s == conn[c].sess
             o == sess[s]
             r == [o EXCEPT !.down_q = Append(@, "data")]
  <1>1. s \in Sess
    BY DEF IInv, Refs, ConnOK
  <1>2. o \in SessT /\ Len(o.down_q) <= QueueMax /\ Len(o.down_q) # QueueMax /\ QueueMax \in Nat
    BY <1>1, SessRest, XhttpAssumption DEF Full
  <1>3. Append(o.down_q, "data") \in Seq({"data", "end"}) /\ Len(Append(o.down_q, "data")) <= QueueMax
    BY <1>2 DEF SessT
  <1>4. Mild(s, r)
    BY <1>2, <1>3 DEF Mild, SessT
  <1>5. /\ sess' = [sess EXCEPT ![s] = r] /\ UNCHANGED <<table, tear, post, reaping>>
        /\ conn' = [conn EXCEPT ![c].pump = "read"]
    BY DEF Queues
  <1> HIDE DEF r, o, s
  <1>6. /\ conn' \in [Conns -> ConnT]
        /\ \A d \in Conns : /\ conn'[d].sess = conn[d].sess /\ conn'[d].sent = conn[d].sent
                            /\ conn'[d].pump = "none" <=> conn[d].pump = "none"
                            /\ conn'[d].pump = "ended" <=> conn[d].pump = "ended"
                            /\ conn'[d].st = conn[d].st
    <2>1. [conn[c] EXCEPT !.pump = "read"] \in ConnT
      BY SessRest DEF ConnT
    <2> QED BY <1>5, <2>1, SessRest DEF ConnT
  <1> QED BY <1>1, <1>4, <1>5, <1>6, MildStep, SessRest, EasyStep
------------------------------------------------------------------------------
(* The teardowns. *)
LEMMA TeardownGood ==
  ASSUME IInv, NEW x \in Callers, NEW i \in Sids, NEW S \in [Sess -> SessT], NEW C \in [Conns -> ConnT],
         TeardownBegins(x, i, S, C), tear[x].at = "none", reaping' \subseteq Sids,
         \A s \in Sess : /\ Len(S[s].down_q) <= QueueMax
                         /\ S[s].sid = sess[s].sid /\ S[s].writer = sess[s].writer
                         /\ S[s].listed = sess[s].listed /\ S[s].get = sess[s].get
                         /\ S[s].next_seq = sess[s].next_seq /\ S[s].seq_buf = sess[s].seq_buf,
         \A c \in Conns : /\ C[c].sess = conn[c].sess /\ C[c].st = conn[c].st /\ C[c].sent = conn[c].sent
                          /\ C[c].pump = conn[c].pump \/ (C[c].pump = "ended" /\ conn[c].pump # "none"),
         x \in Conns => C[x].pump = "ended",
         post' \in [Posts -> PostT], \A p \in Posts : post'[p] = post[p] \/ post'[p] = Idle,
         x \in Posts => post'[x] = Idle
  PROVE  Good
  <1>1. IInv' /\ \A t \in Sess : Held(t)' => Held(t)
    BY TeardownStep
  <1>2. \A p \in Posts : post'[p].mode \in Modes \union {post[p].mode, "packet"}
    BY DEF Idle
  <1>3. \A c \in Conns : conn'[c].sent = C[c].sent
    <2>1. \A c \in Conns : /\ [C[c] EXCEPT !.cancelled = TRUE].sent = C[c].sent
                           /\ [C[c] EXCEPT !.st = "closed"].sent = C[c].sent
      BY DEF ConnT
    <2>c. C \in [Conns -> ConnT]
      OBVIOUS
    <2>2. \/ conn' = C
          \/ \E k \in Conns : conn' = [C EXCEPT ![k] = [C[k] EXCEPT !.cancelled = TRUE]]
          \/ \E k \in Conns : conn' = [C EXCEPT ![k] = [C[k] EXCEPT !.st = "closed"]]
      <3> DEFINE s == table[i]
                 k == S[s].task
                 w == S[s].writer
                 live == k # None /\ C[k].pump # "ended"
      <3>1. CASE s = None
        BY <3>1 DEF TeardownBegins
      <3>2. CASE s # None
        <4>1. s \in Sess /\ k \in Conns \union {None} /\ w \in Conns \union {None}
          BY <3>2, Types DEF IInv, SessT
        <4>2. conn' = IF live THEN [C EXCEPT ![k].cancelled = TRUE]
                      ELSE IF w = None \/ k = x THEN C ELSE [C EXCEPT ![w].st = "closed"]
          BY <3>2 DEF TeardownBegins
        <4> HIDE DEF k, w
        <4> QED BY <4>1, <4>2
      <3> QED BY <3>1, <3>2
    <2>3. ASSUME NEW k \in Conns, NEW e, conn' = [C EXCEPT ![k] = e], e.sent = C[k].sent
          PROVE  \A c \in Conns : conn'[c].sent = C[c].sent
      BY <2>c, <2>3
    <2>4. CASE conn' = C
      BY <2>4
    <2>5. ASSUME NEW k \in Conns, conn' = [C EXCEPT ![k] = [C[k] EXCEPT !.cancelled = TRUE]]
          PROVE  \A c \in Conns : conn'[c].sent = C[c].sent
      BY <2>1, <2>3, <2>5
    <2>6. ASSUME NEW k \in Conns, conn' = [C EXCEPT ![k] = [C[k] EXCEPT !.st = "closed"]]
          PROVE  \A c \in Conns : conn'[c].sent = C[c].sent
      BY <2>1, <2>3, <2>6
    <2> QED BY <2>2, <2>4, <2>5, <2>6
  <1>4. \A t \in Sess : sess'[t].writer = S[t].writer /\ sess'[t].next_seq = S[t].next_seq
                        /\ sess'[t].seq_buf = S[t].seq_buf
    <2> DEFINE s == table[i]
               fate == IF S[s].writer = None THEN Ended(S[s]) ELSE [S[s] EXCEPT !.closed = TRUE]
    <2>1. CASE s = None
      BY <2>1 DEF TeardownBegins
    <2>2. CASE s # None
      <3>1. s \in Sess /\ sess' = [S EXCEPT ![s] = fate]
        BY <2>2, Types DEF IInv, TeardownBegins
      <3>2. /\ fate.writer = S[s].writer /\ fate.next_seq = S[s].next_seq
            /\ fate.seq_buf = S[s].seq_buf
        BY <3>1 DEF Ended, SessT
      <3> HIDE DEF fate, s
      <3> QED BY <3>1, <3>2
    <2> QED BY <2>1, <2>2
  <1> QED BY <1>1, <1>2, <1>3, <1>4, KeepsUplink

LEMMA HeldByPost ==
  ASSUME IInv, NEW p \in Posts, post[p].at # "idle"
  PROVE  /\ post[p].sess \in Sess /\ Held(post[p].sess)
         /\ sess[post[p].sess].sid \in Sids /\ tear[p].at = "none"
  <1>1. post[p].sess \in Sess
    BY DEF IInv, Refs, PostOK
  <1>2. Held(post[p].sess)
    BY <1>1 DEF Held, FreeSess
  <1>3. tear[p].at = "none"
    BY DEF IInv, Refs, TearOK, Callers, Idle
  <1> QED BY <1>1, <1>2, <1>3 DEF IInv, Refs, SessOK

LEMMA FailsGood ==
  ASSUME IInv, NEW p \in Posts, post[p].at # "idle", NEW S, UNCHANGED reaping,
         S = sess \/ S = [sess EXCEPT ![post[p].sess].idle = FALSE],
         Fails(p, S)
  PROVE  Good
  <1> DEFINE s == post[p].sess
             i == sess[s].sid
  <1>1. s \in Sess /\ i \in Sids /\ tear[p].at = "none" /\ p \in Callers
    BY HeldByPost DEF Callers
  <1>2. /\ S \in [Sess -> SessT]
        /\ \A t \in Sess : /\ Len(S[t].down_q) <= QueueMax
                           /\ S[t].sid = sess[t].sid /\ S[t].writer = sess[t].writer
                           /\ S[t].listed = sess[t].listed /\ S[t].get = sess[t].get
                           /\ S[t].next_seq = sess[t].next_seq /\ S[t].seq_buf = sess[t].seq_buf
    <2>1. CASE S = sess
      BY <2>1, SessRest
    <2>2. CASE S = [sess EXCEPT ![s].idle = FALSE]
      <3> DEFINE r == [sess[s] EXCEPT !.idle = FALSE]
      <3>1. /\ r \in SessT /\ r.down_q = sess[s].down_q /\ r.sid = sess[s].sid /\ r.writer = sess[s].writer
            /\ r.listed = sess[s].listed /\ r.get = sess[s].get
            /\ r.next_seq = sess[s].next_seq /\ r.seq_buf = sess[s].seq_buf
        <4>1. sess[s] \in SessT
          BY <1>1, SessRest
        <4> HIDE DEF s
        <4> QED BY <4>1 DEF SessT
      <3>2. S = [sess EXCEPT ![s] = r]
        BY <2>2
      <3> HIDE DEF r, s
      <3> QED BY <1>1, <3>1, <3>2, SessRest
    <2> QED BY <2>1, <2>2
  <1>3. TeardownBegins(p, i, S, conn) /\ Returns(p)
    BY DEF Fails
  <1>4. /\ post' \in [Posts -> PostT] /\ post'[p] = Idle
        /\ \A q \in Posts : post'[q] = post[q] \/ post'[q] = Idle
    BY <1>3, SessRest, Blanks DEF Returns
  <1>5. p \notin Conns /\ reaping' \subseteq Sids
    BY XhttpAssumption, Types DEF IInv
  <1> HIDE DEF i, s
  <1> QED BY <1>1, <1>2, <1>3, <1>4, <1>5, SessRest, TeardownGood

LEMMA PumpEndsGood ==
  ASSUME IInv, NEW c \in Conns, conn[c].pump \in {"read", "put"}, PumpEnds(c), UNCHANGED <<post, reaping>>
  PROVE  Good
  <1> DEFINE s == conn[c].sess
             i == sess[s].sid
             C == [conn EXCEPT ![c].pump = "ended", ![c].cancelled = FALSE]
             k == [conn[c] EXCEPT !.pump = "ended", !.cancelled = FALSE]
  <1>1. s \in Sess /\ i \in Sids
    <2>1. s \in Sess
      BY DEF IInv, Refs, ConnOK
    <2>2. Held(s)
      BY <2>1 DEF Held, FreeSess
    <2> QED BY <2>1, <2>2 DEF IInv, Refs, SessOK
  <1>2. tear[c].at = "none" /\ c \in Callers /\ c \notin Posts
    BY XhttpAssumption DEF IInv, Refs, TearOK, Callers
  <1>3. /\ k \in ConnT /\ k.sess = conn[c].sess /\ k.st = conn[c].st /\ k.sent = conn[c].sent /\ k.pump = "ended"
    BY SessRest DEF ConnT
  <1>4. C = [conn EXCEPT ![c] = k]
    BY SessRest DEF ConnT
  <1>5. TeardownBegins(c, i, sess, C)
    BY DEF PumpEnds
  <1> HIDE DEF C, k, i, s
  <1>6. /\ C \in [Conns -> ConnT] /\ C[c].pump = "ended"
        /\ \A d \in Conns : /\ C[d].sess = conn[d].sess /\ C[d].st = conn[d].st /\ C[d].sent = conn[d].sent
                            /\ C[d].pump = conn[d].pump \/ (C[d].pump = "ended" /\ conn[d].pump # "none")
    BY <1>3, <1>4, SessRest
  <1>7. reaping' \subseteq Sids
    BY Types DEF IInv
  <1> QED BY <1>1, <1>2, <1>5, <1>6, <1>7, SessRest, TeardownGood

LEMMA PumpsGood == ASSUME IInv, NEW c \in Conns, Pumps(c) PROVE Good
  <1>1. CASE PumpReads(c)
    <2>1. conn[c].pump = "read" /\ UNCHANGED <<post, reaping>>
      BY <1>1 DEF PumpReads
    <2>2. CASE ~Full(sess[conn[c].sess]) /\ Queues(c, "read")
      BY <2>1, <2>2, QueuesGood
    <2>3. CASE conn' = [conn EXCEPT ![c].pump = "put"] /\ UNCHANGED <<table, sess, tear>>
      <3>1. /\ conn' \in [Conns -> ConnT]
            /\ \A d \in Conns : /\ conn'[d].sess = conn[d].sess /\ conn'[d].sent = conn[d].sent
                                /\ conn'[d].pump = "none" <=> conn[d].pump = "none"
                                /\ conn'[d].pump = "ended" <=> conn[d].pump = "ended"
                                /\ conn'[d].st = conn[d].st
        <4>1. [conn[c] EXCEPT !.pump = "put"] \in ConnT
          BY SessRest DEF ConnT
        <4> QED BY <2>1, <2>3, <4>1, SessRest DEF ConnT
      <3> QED BY <2>1, <2>3, <3>1, SessRest, EasyStep
    <2>4. CASE PumpEnds(c)
      BY <2>1, <2>4, PumpEndsGood
    <2> QED BY <1>1, <2>2, <2>3, <2>4 DEF PumpReads
  <1>2. CASE PumpPuts(c)
    BY <1>2, QueuesGood DEF PumpPuts
  <1>3. CASE PumpCancelled(c)
    BY <1>3, PumpEndsGood DEF PumpCancelled
  <1> QED BY <1>1, <1>2, <1>3 DEF Pumps

LEMMA ReapsGood == ASSUME IInv, Reaps PROVE Good
  <1> DEFINE list == IF reaping = {} THEN Stale ELSE reaping
  <1>1. list \subseteq Sids
    BY Types DEF IInv, Stale
  <1>2. PICK i \in list : TeardownBegins(Reaper, i, sess, conn) /\ reaping' = list \ {i}
    BY DEF Reaps
  <1>3. tear[Reaper].at = "none" /\ Reaper \in Callers /\ Reaper \notin Posts \union Conns /\ post' = post
    BY XhttpAssumption DEF Reaps, NoTear, Callers
  <1> HIDE DEF list
  <1>4. i \in Sids /\ reaping' \subseteq Sids
    BY <1>1, <1>2
  <1> QED BY <1>2, <1>3, <1>4, SessRest, TeardownGood

LEMMA TearsGood == ASSUME IInv, NEW x \in Callers, Tears(x) PROVE Good
  <1>1. IInv' /\ \A t \in Sess : Held(t)' => Held(t)
    BY ClosesStep, EndsStep DEF Tears
  <1>2. post' = post
    BY DEF Tears, TeardownCloses, TeardownEnds
  <1>3. \A c \in Conns : conn'[c].sent = conn[c].sent
    BY SessRest DEF Tears, TeardownCloses, TeardownEnds, ConnT
  <1>4. \A t \in Sess : /\ sess'[t].writer = sess[t].writer /\ sess'[t].next_seq = sess[t].next_seq
                        /\ sess'[t].seq_buf = sess[t].seq_buf
    <2>1. CASE TeardownCloses(x)
      BY <2>1 DEF TeardownCloses
    <2>2. CASE TeardownEnds(x)
      <3> DEFINE s == tear[x].sess
                 e == Ended(sess[s])
      <3>1. sess' = [sess EXCEPT ![s] = e] /\ s \in Sess
        BY <2>2 DEF TeardownEnds, IInv, Refs, TearOK
      <3>2. e.writer = sess[s].writer /\ e.next_seq = sess[s].next_seq /\ e.seq_buf = sess[s].seq_buf
        BY <3>1, SessRest DEF Ended, SessT
      <3> HIDE DEF e, s
      <3> QED BY <3>1, <3>2, SessRest
    <2> QED BY <2>1, <2>2 DEF Tears
  <1> QED BY <1>1, <1>2, <1>3, <1>4, KeepsUplink
------------------------------------------------------------------------------
(* The POST handlers. *)
LEMMA PostReturnsGood == ASSUME IInv, NEW p \in Posts, PostReturns(p) PROVE Good
  <1>1. post[p].at # "idle" /\ (Returns(p) \/ Goes(p, "chunks"))
    BY DEF PostReturns
  <1>2. UNCHANGED <<table, sess, conn, tear, reaping>>
    BY DEF PostReturns
  <1> QED BY <1>1, <1>2, PostMoves, SessRest, EasyStep

LEMMA PostRaisesGood == ASSUME IInv, NEW p \in Posts, PostRaises(p) PROVE Good
  <1>1. post[p].at # "idle" /\ Fails(p, sess) /\ UNCHANGED reaping
    BY DEF PostRaises
  <1> QED BY <1>1, FailsGood

LEMMA ChunkArrivesGood == ASSUME IInv, NEW p \in Posts, ChunkArrives(p) PROVE Good
  <1> DEFINE s == post[p].sess
             r == [sess[s] EXCEPT !.idle = FALSE]
             Seen == [sess EXCEPT ![s].idle = FALSE]
  <1>1. post[p].at # "idle" /\ UNCHANGED reaping
    BY DEF ChunkArrives
  <1>2. CASE Fails(p, Seen)
    <2>1. \E S : Fails(p, S) /\ S = [sess EXCEPT ![post[p].sess].idle = FALSE]
      BY <1>2
    <2> QED BY <1>1, <2>1, FailsGood
  <1>3. CASE /\ sess' = Seen /\ UNCHANGED <<table, conn, tear>>
             /\ UNCHANGED post \/ Goes(p, "opening") \/ Goes(p, "drain")
    <2>1. sess' = [sess EXCEPT ![s] = r]
      BY <1>3
    <2>2. s \in Sess /\ Mild(s, r)
      BY <1>1, HeldByPost, IdleMild
    <2>3. post' = post \/ \E at \in {"body", "chunks", "opening", "drain"} : Goes(p, at)
      BY <1>3
    <2> HIDE DEF s, r
    <2> QED BY <1>1, <1>3, <2>1, <2>2, <2>3, MildStep, PostMoves, SessRest, EasyStep
  <1> QED BY <1>2, <1>3 DEF ChunkArrives

(* A packet that has to wait; it is not the one whose turn it is. *)
LEMMA BuffersGood ==
  ASSUME IInv, NEW p \in Posts, post[p].at # "idle", Returns(p) \/ Goes(p, "drain"),
         Buffers(post[p].sess, post[p].seq), UNCHANGED <<table, tear, reaping>>,
         sess[post[p].sess].writer # None => post[p].seq # sess[post[p].sess].next_seq
  PROVE  Good
  <1> DEFINE s == post[p].sess
             n == post[p].seq
             o == sess[s]
             r == [o EXCEPT !.seq_buf = @ \union {n}]
  <1>1. s \in Sess /\ n \in Seqs /\ o \in SessT /\ Len(o.down_q) <= QueueMax
    BY HeldByPost, SessRest DEF PostT
  <1>2. sess' = [sess EXCEPT ![s] = r] /\ conn' = conn
    BY DEF Buffers
  <1>3. /\ r \in SessT /\ r.down_q = o.down_q /\ r.sid = o.sid /\ r.writer = o.writer
        /\ r.listed = o.listed /\ r.get = o.get
        /\ r.next_seq = o.next_seq /\ r.seq_buf = o.seq_buf \union {n}
    <2> HIDE DEF o, n
    <2> QED BY <1>1 DEF SessT
  <1> HIDE DEF r
  <1>4. sess' \in [Sess -> SessT] /\ sess'[s] = r /\ \A t \in Sess \ {s} : sess'[t] = sess[t]
    BY <1>1, <1>2, <1>3, SessRest
  <1>5. \A t \in Sess : /\ sess'[t].sid = sess[t].sid /\ sess'[t].writer = sess[t].writer
                        /\ sess'[t].listed = sess[t].listed /\ sess'[t].get = sess[t].get
                        /\ sess'[t].down_q = sess[t].down_q /\ sess'[t].next_seq = sess[t].next_seq
                        /\ t # s => sess'[t].seq_buf = sess[t].seq_buf
    BY <1>3, <1>4
  <1>6. /\ post' \in [Posts -> PostT]
        /\ \A q \in Posts : \/ post'[q] = post[q] \/ post'[q] = Idle
                            \/ /\ post[q].at # "idle" /\ post'[q].at # "idle"
                               /\ post'[q].sess = post[q].sess /\ post'[q].mode = post[q].mode
    BY PostMoves
  <1>7. TypeOK'
    BY <1>2, <1>4, <1>5, <1>6, Types, TypesNext DEF IInv
  <1>8. Refs' /\ \A t \in Sess : Held(t)' => Held(t)
    BY <1>2, <1>5, <1>6, <1>7, SoftStep
  <1>9. ASSUME Uplink PROVE Uplink'
    <2>1. \A q \in Posts : post'[q].mode = "packet"
      BY <1>6, <1>9 DEF Uplink, Idle
    <2>2. ASSUME NEW t \in Sess, Held(t)', sess'[t].writer # None
          PROVE  /\ sess'[t].next_seq = Len(conn[sess'[t].writer].sent)
                 /\ sess'[t].next_seq \notin sess'[t].seq_buf
      <3>1. /\ sess[t].next_seq = Len(conn[sess[t].writer].sent)
            /\ sess[t].next_seq \notin sess[t].seq_buf
        BY <1>5, <1>8, <1>9, <2>2 DEF Uplink
      <3>2. t = s => sess'[t].next_seq \notin sess'[t].seq_buf
        BY <1>3, <1>4, <2>2, <3>1
      <3> QED BY <1>5, <3>1, <3>2
    <2> QED BY <1>2, <1>9, <2>1, <2>2 DEF Uplink
  <1> QED BY <1>7, <1>8, <1>9 DEF Good, IInv

LEMMA PacketsJoin ==
  ASSUME NEW n \in Nat, NEW m \in Nat, n <= m
  PROVE  Packets(0, n) \o Packets(n, m) = Packets(0, m)
  <1>1. Packets(0, n) \in Seq(Nat) /\ Len(Packets(0, n)) = n /\ \A k \in 1..n : Packets(0, n)[k] = k - 1
    <2>1. Packets(0, n) \in [1..n -> Nat]
      BY DEF Packets
    <2> QED BY <2>1 DEF Packets
  <1>2. /\ Packets(n, m) \in Seq(Nat) /\ Len(Packets(n, m)) = m - n
        /\ \A k \in 1..(m - n) : Packets(n, m)[k] = n + k - 1
    <2>1. Packets(n, m) \in [1..(m - n) -> Nat] /\ m - n \in Nat
      BY DEF Packets
    <2> QED BY <2>1 DEF Packets
  <1>3. /\ Packets(0, m) \in Seq(Nat) /\ Len(Packets(0, m)) = m /\ \A k \in 1..m : Packets(0, m)[k] = k - 1
    <2>1. Packets(0, m) \in [1..m -> Nat]
      BY DEF Packets
    <2> QED BY <2>1 DEF Packets
  <1> DEFINE a == Packets(0, n)
             b == Packets(n, m)
             d == Packets(0, m)
  <1> HIDE DEF a, b, d
  <1>4. /\ a \in Seq(Nat) /\ b \in Seq(Nat) /\ d \in Seq(Nat)
        /\ Len(a) = n /\ Len(b) = m - n /\ Len(d) = m
    BY <1>1, <1>2, <1>3 DEF a, b, d
  <1>5. a \o b \in Seq(Nat) /\ Len(a \o b) = m
    BY <1>4
  <1>6. ASSUME NEW k \in 1..m PROVE (a \o b)[k] = d[k]
    <2>1. d[k] = k - 1
      BY <1>3 DEF d
    <2>2. CASE k <= n
      <3>1. (a \o b)[k] = a[k]
        BY <2>2, <1>4
      <3>2. a[k] = k - 1
        BY <2>2, <1>1 DEF a
      <3> QED BY <2>1, <3>1, <3>2
    <2>3. CASE ~(k <= n)
      <3>1. (a \o b)[k] = b[k - n] /\ k - n \in 1..(m - n)
        BY <2>3, <1>4
      <3>2. b[k - n] = n + (k - n) - 1
        BY <3>1, <1>2 DEF b
      <3> QED BY <2>1, <3>1, <3>2
    <2> QED BY <2>2, <2>3
  <1>7. a \o b = d
    BY <1>4, <1>5, <1>6, SeqEqual
  <1> QED BY <1>7 DEF a, b, d

(* The stream of packets written to a connection, and nothing else.         *)
LEMMA SentPut ==
  ASSUME NEW c \in ConnT, NEW q \in Seq(Seqs)
  PROVE  LET k == [c EXCEPT !.sent = q] IN
         k \in ConnT /\ k.sess = c.sess /\ k.pump = c.pump /\ k.st = c.st /\ k.sent = q
BY DEF ConnT

(* The packet whose turn it is, and those that waited for it, go out.       *)
LEMMA WritesGood ==
  ASSUME IInv, NEW p \in Posts, post[p].at # "idle", Returns(p) \/ Goes(p, "drain"),
         sess[post[p].sess].writer # None, post[p].seq = sess[post[p].sess].next_seq,
         Writes(post[p].sess, sess[post[p].sess].writer, post[p].seq), UNCHANGED <<table, tear, reaping>>
  PROVE  Good
  <1> DEFINE s == post[p].sess
             n == post[p].seq
             o == sess[s]
             w == o.writer
             nxt == Next0(n + 1, o.seq_buf)
             r == [o EXCEPT !.next_seq = nxt, !.seq_buf = @ \ n..(nxt - 1)]
             out == conn[w].sent \o Packets(n, nxt)
             k == [conn[w] EXCEPT !.sent = out]
  <1>1. /\ s \in Sess /\ Held(s) /\ n \in Seqs /\ o \in SessT /\ Len(o.down_q) <= QueueMax
        /\ w \in Conns /\ conn[w] \in ConnT /\ MaxSeq \in Nat
    BY HeldByPost, SessRest, XhttpAssumption DEF PostT, SessT
  <1>w. /\ o = sess[s] /\ w = o.writer /\ w # None /\ n = o.next_seq /\ Writes(s, w, n)
        /\ s = post[p].sess /\ n = post[p].seq
    OBVIOUS
  <1> HIDE DEF s, n, o, w
  <1>2. nxt \in (n + 1)..(MaxSeq + 1) /\ nxt \in 0..MaxSeq + 1 /\ nxt \notin o.seq_buf
    <2>1. n + 1 \in 0..MaxSeq + 1 /\ o.seq_buf \in SUBSET Seqs
      BY <1>1 DEF Seqs, SessT
    <2> QED BY <2>1, NextMissing
  <1>3. n \in 0..MaxSeq + 1 /\ nxt \in n..MaxSeq + 1 /\ n \in Nat /\ nxt \in Nat /\ n <= nxt
    BY <1>1, <1>2 DEF Seqs
  <1>4. Packets(n, nxt) \in Seq(Seqs) /\ Len(Packets(n, nxt)) = nxt - n
    BY <1>3, PacketsType
  <1>5. out \in Seq(Seqs)
    BY <1>1, <1>4 DEF ConnT
  <1>6. /\ r \in SessT /\ r.down_q = o.down_q /\ r.sid = o.sid /\ r.writer = o.writer
        /\ r.listed = o.listed /\ r.get = o.get /\ r.next_seq = nxt /\ r.seq_buf \subseteq o.seq_buf
    <2> HIDE DEF o, n, nxt
    <2> QED BY <1>1, <1>2 DEF SessT
  <1>7. k \in ConnT /\ k.sess = conn[w].sess /\ k.pump = conn[w].pump /\ k.st = conn[w].st /\ k.sent = out
    <2> HIDE DEF out
    <2>1. conn[w] \in ConnT
      BY <1>1
    <2> QED BY <1>5, <2>1, SentPut
  <1>8. sess' = [sess EXCEPT ![s] = r] /\ conn' = [conn EXCEPT ![w] = k]
    <2>1. nxt = Next0(n + 1, sess[s].seq_buf)
      BY <1>w
    <2> HIDE DEF nxt
    <2>2. /\ conn' = [conn EXCEPT ![w].sent = @ \o Packets(n, nxt)]
          /\ sess' = [sess EXCEPT ![s].next_seq = nxt, ![s].seq_buf = @ \ n..(nxt - 1)]
      <3>1. Writes(s, w, n)
        BY <1>w
      <3> QED BY ONLY <2>1, <3>1 DEF Writes
    <2>s. sess \in [Sess -> SessT]
      BY Types DEF IInv
    <2>3. sess' = [sess EXCEPT ![s] = r]
      <3>1. s \in Sess /\ o \in SessT
        BY <1>1
      <3>2. o = sess[s]
        BY <1>w
      <3> QED BY ONLY <2>2, <2>s, <3>1, <3>2 DEF SessT
    <2>4. conn' = [conn EXCEPT ![w] = k]
      BY <2>2
    <2> QED BY <2>3, <2>4
  <1> HIDE DEF r, k, out
  <1>9. /\ sess' \in [Sess -> SessT] /\ sess'[s] = r /\ \A t \in Sess \ {s} : sess'[t] = sess[t]
        /\ conn' \in [Conns -> ConnT] /\ conn'[w] = k /\ \A c \in Conns \ {w} : conn'[c] = conn[c]
    <2>1. sess \in [Sess -> SessT] /\ conn \in [Conns -> ConnT]
      BY Types DEF IInv
    <2>2. sess' \in [Sess -> SessT] /\ sess'[s] = r /\ \A t \in Sess \ {s} : sess'[t] = sess[t]
      BY <1>1, <1>6, <1>8, <2>1
    <2>3. conn' \in [Conns -> ConnT] /\ conn'[w] = k /\ \A c \in Conns \ {w} : conn'[c] = conn[c]
      BY <1>1, <1>7, <1>8, <2>1
    <2> QED BY <2>2, <2>3
  <1>10. /\ \A t \in Sess : /\ sess'[t].sid = sess[t].sid /\ sess'[t].writer = sess[t].writer
                            /\ sess'[t].listed = sess[t].listed /\ sess'[t].get = sess[t].get
                            /\ sess'[t].down_q = sess[t].down_q
         /\ \A c \in Conns : /\ conn'[c].sess = conn[c].sess /\ conn'[c].pump = conn[c].pump
                             /\ conn'[c].st = conn[c].st
    BY <1>w, <1>6, <1>7, <1>9
  <1>11. /\ post' \in [Posts -> PostT]
         /\ \A q \in Posts : \/ post'[q] = post[q] \/ post'[q] = Idle
                             \/ /\ post[q].at # "idle" /\ post'[q].at # "idle"
                                /\ post'[q].sess = post[q].sess /\ post'[q].mode = post[q].mode
    BY PostMoves
  <1>12. TypeOK'
    BY <1>9, <1>10, <1>11, Types, TypesNext DEF IInv
  <1>13. Refs' /\ \A t \in Sess : Held(t)' => Held(t)
    BY <1>10, <1>11, <1>12, SoftStep
  <1>14. ASSUME Uplink PROVE Uplink'
    <2>1. \A q \in Posts : post'[q].mode = "packet"
      BY <1>11, <1>14 DEF Uplink, Idle
    <2>2. conn[w].sent = Packets(0, n) /\ conn[w].sess = s
      <3>1. o.next_seq = n /\ o.next_seq = Len(conn[w].sent)
        BY <1>1, <1>w, <1>14 DEF Uplink
      <3>2. conn[w].sess = s
        BY <1>1, <1>w DEF IInv, Refs, SessOK
      <3> QED BY <1>1, <1>14, <3>1, <3>2 DEF Uplink
    <2>3. conn'[w].sent = Packets(0, nxt) /\ Len(conn'[w].sent) = nxt
      <3>1. out = Packets(0, nxt)
        BY <1>3, <2>2, PacketsJoin DEF out
      <3>2. Len(Packets(0, nxt)) = nxt
        <4>1. 0 \in 0..MaxSeq + 1 /\ nxt - 0 = nxt
          BY <1>1, <1>3
        <4> HIDE DEF nxt
        <4>2. Len(Packets(0, nxt)) = nxt - 0
          BY <4>1, <1>2, PacketsType
        <4> QED BY <4>1, <4>2
      <3> QED BY <1>7, <1>9, <3>1, <3>2
    <2>4. ASSUME NEW t \in Sess, Held(t)', sess'[t].writer # None
          PROVE  /\ sess'[t].next_seq = Len(conn'[sess'[t].writer].sent)
                 /\ sess'[t].next_seq \notin sess'[t].seq_buf
      <3>1. CASE t = s
        BY <3>1, <1>w, <1>2, <1>6, <1>9, <2>3
      <3>2. CASE t # s
        <4>1. Held(t) /\ sess'[t] = sess[t] /\ sess[t].writer # None /\ sess[t].writer \in Conns
          BY <3>2, <2>4, <1>9, <1>13, SessRest DEF SessT
        <4>2. sess[t].writer # w
          BY <3>2, <4>1, <2>2 DEF IInv, Refs, SessOK
        <4> QED BY <4>1, <4>2, <1>9, <1>14 DEF Uplink
      <3> QED BY <3>1, <3>2
    <2>5. ASSUME NEW c \in Conns PROVE conn'[c].sent = Packets(0, Len(conn'[c].sent))
      BY <1>9, <1>14, <2>3 DEF Uplink
    <2> QED BY <2>1, <2>4, <2>5 DEF Uplink
  <1> QED BY <1>12, <1>13, <1>14 DEF Good, IInv

LEMMA PacketArrivesGood == ASSUME IInv, NEW p \in Posts, PacketArrives(p) PROVE Good
  <1> DEFINE s == post[p].sess
             n == post[p].seq
             w == sess[s].writer
  <1>1. post[p].at # "idle" /\ UNCHANGED reaping
    BY DEF PacketArrives
  <1>2. CASE Fails(p, sess)
    BY <1>1, <1>2, FailsGood
  <1>3. CASE (Returns(p) \/ Goes(p, "opening")) /\ UNCHANGED <<table, sess, conn, tear>>
    BY <1>1, <1>3, PostMoves, SessRest, EasyStep
  <1>4. CASE /\ w = None \/ n # sess[s].next_seq
             /\ Buffers(s, n) /\ UNCHANGED <<table, tear>>
             /\ Returns(p) \/ Goes(p, "drain")
    BY <1>1, <1>4, BuffersGood
  <1>5. CASE /\ w # None /\ n = sess[s].next_seq
             /\ Writes(s, w, n) /\ UNCHANGED <<table, tear>>
             /\ Returns(p) \/ Goes(p, "drain")
    BY <1>1, <1>5, WritesGood
  <1> QED BY <1>2, <1>3, <1>4, <1>5 DEF PacketArrives

LEMMA OpenedGood == ASSUME IInv, NEW p \in Posts, Opened(p) PROVE Good
  <1> DEFINE s == post[p].sess
             nxt == Next0(1, sess[s].seq_buf)
  <1>1. PICK c \in Conns :
          /\ OpensConn(p, c)
          /\ IF post[p].mode = "packet" THEN Returns(p)
             ELSE post' = [post EXCEPT ![p].at = "chunks", ![p].writer = c]
    BY DEF Opened, OpensConn
  <1>2. post[p].at = "opening" /\ UNCHANGED <<table, tear, reaping>>
    BY DEF Opened
  <1>3. /\ post' \in [Posts -> PostT]
        /\ \A q \in Posts : \/ post'[q] = post[q] \/ post'[q] = Idle
                            \/ /\ post[q].at # "idle" /\ post'[q].at # "idle"
                               /\ post'[q].sess = post[q].sess /\ post'[q].mode = post[q].mode
    <2>1. CASE post[p].mode = "packet"
      BY <1>1, <1>2, <2>1, PostMoves
    <2>2. CASE post[p].mode # "packet"
      <3> DEFINE h == [post[p] EXCEPT !.at = "chunks", !.writer = c]
      <3>1. h \in PostT /\ h.at = "chunks" /\ h.sess = post[p].sess /\ h.mode = post[p].mode
        BY SessRest DEF PostT
      <3>2. post' = [post EXCEPT ![p] = h]
        BY <1>1, <2>2, SessRest DEF PostT
      <3> HIDE DEF h
      <3> QED BY <1>2, <3>1, <3>2, SessRest
    <2> QED BY <2>1, <2>2
  <1>4. IInv' /\ \A t \in Sess : /\ Held(t)' => Held(t)
                                 /\ Held(t) /\ sess[t].writer # None => sess[t].writer # c
    BY <1>1, <1>2, <1>3, OpenedStep
  <1>5. /\ s \in Sess /\ sess'[s].writer = c
        /\ \A d \in Conns \ {c} : conn'[d] = conn[d]
        /\ \A t \in Sess \ {s} : sess'[t] = sess[t]
        /\ post[p].mode = "packet" =>
             /\ nxt \in 0..MaxSeq + 1 /\ nxt \notin sess[s].seq_buf
             /\ conn'[c].sent = Packets(0, nxt) /\ Len(conn'[c].sent) = nxt
             /\ sess'[s].next_seq = nxt /\ sess'[s].seq_buf \subseteq sess[s].seq_buf
    BY <1>1, <1>2, OpenedTypes
  <1> HIDE DEF s, nxt
  <1>6. ASSUME Uplink PROVE Uplink'
    <2>1. \A q \in Posts : post'[q].mode = "packet"
      BY <1>3, <1>6 DEF Uplink, Idle
    <2>2. post[p].mode = "packet"
      BY <1>6 DEF Uplink
    <2>3. ASSUME NEW d \in Conns PROVE conn'[d].sent = Packets(0, Len(conn'[d].sent))
      BY <1>5, <1>6, <2>2 DEF Uplink
    <2>4. ASSUME NEW t \in Sess, Held(t)', sess'[t].writer # None
          PROVE  /\ sess'[t].next_seq = Len(conn'[sess'[t].writer].sent)
                 /\ sess'[t].next_seq \notin sess'[t].seq_buf
      <3>1. CASE t = s
        BY <3>1, <1>5, <2>2
      <3>2. CASE t # s
        <4>1. /\ Held(t) /\ sess'[t] = sess[t] /\ sess[t].writer # c
              /\ sess[t].writer # None /\ sess[t].writer \in Conns
          BY <3>2, <2>4, <1>4, <1>5, SessRest DEF SessT
        <4> QED BY <4>1, <1>5, <1>6 DEF Uplink
      <3> QED BY <3>1, <3>2
    <2> QED BY <2>1, <2>3, <2>4 DEF Uplink
  <1> QED BY <1>4, <1>6 DEF Good
------------------------------------------------------------------------------
(* Every step, and the theorems. *)
LEMMA RestartGood == ASSUME Restart PROVE IInv' /\ Uplink'
  <1>1. \A s \in Sess : FreeSess(s)' /\ ~sess'[s].listed
    BY XhttpAssumption DEF Restart, FreeSess, NoSess, NoConn, Idle, NoTear
  <1>2. TypeOK'
    BY Blanks, TypesNext, XhttpAssumption DEF Restart
  <1>3. TableOK' /\ TearOK' /\ OneTear' /\ PostOK' /\ ConnOK'
    BY DEF Restart, TableOK, TearOK, OneTear, PostOK, ConnOK, NoConn, Idle, NoTear
  <1>4. SessOK'
    BY <1>1 DEF SessOK, Held
  <1>5. Uplink'
    <2>1. Packets(0, 0) = << >>
      BY DEF Packets
    <2> QED BY <2>1, <1>1 DEF Uplink, Held, Restart, Idle, NoConn
  <1> QED BY <1>2, <1>3, <1>4, <1>5 DEF IInv, Refs

LEMMA NextGood == ASSUME IInv, [Next]_vars PROVE Good
  <1>1. CASE Reaps
    BY <1>1, ReapsGood
  <1>2. CASE Client
    <2>1. ASSUME NEW p \in Posts, NEW i \in Sids, (\E n \in Seqs : packet_up(p, i, n)) \/ stream_up(p, i)
          PROVE  Good
      BY <2>1, PacketUp, StreamUp
    <2>2. ASSUME NEW i \in Gets, xhttp_downlink(i) PROVE Good
      BY <2>2, Downlink, XhttpAssumption
    <2>3. ASSUME NEW i \in Sids, BecomesIdle(i) PROVE Good
      BY <2>3, BecomesIdleGood
    <2>4. ASSUME NEW s \in Sess, GetReads(s) \/ GetLeaves(s) PROVE Good
      BY <2>4, GetReadsGood, GetLeavesGood
    <2>5. ASSUME NEW c \in Conns, RemoteCloses(c) PROVE Good
      BY <2>5, RemoteClosesGood
    <2> QED BY <1>2, <2>1, <2>2, <2>3, <2>4, <2>5 DEF Client
  <1>3. CASE Restart
    BY <1>3, RestartGood DEF Good
  <1>4. ASSUME NEW x \in Callers, Tears(x) PROVE Good
    BY <1>4, TearsGood
  <1>5. ASSUME NEW p \in Posts, Handles(p) PROVE Good
    BY <1>5, PacketArrivesGood, PostReturnsGood, PostRaisesGood, OpenedGood, ChunkArrivesGood DEF Handles
  <1>6. ASSUME NEW c \in Conns, Pumps(c) PROVE Good
    BY <1>6, PumpsGood
  <1>7. CASE UNCHANGED vars
    BY <1>7, SessRest, EasyStep DEF vars
  <1> QED BY <1>1, <1>2, <1>3, <1>4, <1>5, <1>6, <1>7 DEF Next

LEMMA Inductive == Spec => []IInv
  <1>1. IInv /\ [Next]_vars => IInv'
    BY NextGood DEF Good
  <1> QED BY <1>1, InitOK, PTL DEF Spec

(* Sessions, connections, handlers and teardowns are well formed: in        *)
(* particular no queue of the downlink grows past DOWNLINK_QUEUE_MAX.       *)
THEOREM TypeCorrect == Spec => []TypeOK
  <1>1. IInv => TypeOK
    BY DEF IInv
  <1> QED BY <1>1, Inductive, PTL

(* The list of connections holds no session that is gone, and no session is *)
(* torn down by two at a time, however POSTs, pumps and the reaper overlap. *)
THEOREM ListAlwaysTrue == Spec => []ListIsTrue
  BY Invariant, Inductive, PTL

(* If all uploads are packet-up, each connection carries packets 0, 1, 2,   *)
(* ... without a gap, and none whose turn it is stays in the buffer.        *)
THEOREM UplinkAlwaysInOrder == ASSUME Modes = {"packet"} PROVE Spec => []UplinkInOrder
  <1>1. IInv /\ Uplink /\ [Next]_vars => IInv' /\ Uplink'
    BY NextGood DEF Good, PacketsOnly
  <1>2. Init => IInv /\ Uplink
    BY InitOK, InitUplink
  <1>3. Uplink => UplinkInOrder
    BY UplinkImplies
  <1> QED BY <1>1, <1>2, <1>3, PTL DEF Spec
==============================================================================
