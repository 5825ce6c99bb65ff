--------------------------- MODULE Services_proofs ---------------------------
(***************************************************************************)
(* Proofs about the services beside the tunnels, one part for each:        *)
(*   PortManager  the listener registries and the sockets underneath;      *)
(*   Zeus         the SOCKS5 proxy: one server, its address counts and its *)
(*                traffic;                                                 *)
(*   Updater      version.txt never runs ahead of the files.               *)
(* Each part defines its inductive invariant, shows that the first states  *)
(* have it and that every step keeps it, and derives the properties.       *)
(***************************************************************************)
EXTENDS PortManager, Zeus, Updater, FiniteSetTheorems, SequenceTheorems, TLAPS

(***************************************************************************)
(* PortManager: listeners, for any links, ports and queues.                *)
(***************************************************************************)
(* A TCP listener is started for a link.                                    *)
TcpJob == {j \in Job : j.op = "start" => j.uid # NoUid}

(* Who is inside _start_uvicorn_port: its port is registered, and bound by  *)
(* the server's own task or not.                                            *)
UviHolder ==
  uvi_at \in {"await", "bound", "died"} =>
    /\ Holds(uvi_lock, "start")
    /\ Head(uvi_lock).port \in uvicorn_servers
    /\ sock[Head(uvi_lock).port] = "http" <=> uvi_at = "bound"
    /\ late[Head(uvi_lock).port] = "no"

(* A server that outlived its start's wait is registered and not bound.     *)
SlowServers == \A p \in Ports : late[p] # "no" => p \in uvicorn_servers /\ sock[p] # "http"

SyncStarts == sync.at = "start_tcp" => \A p \in sync.todo : sync.tcp[p] # NoUid

PortsInv ==
  /\ TypeOK /\ tcp_lock \in Seq(TcpJob) /\ SyncStarts
  /\ UviHolder /\ SlowServers /\ RegistryMatchesSockets

(* A lock's queue gets one coroutine more, or none.                         *)
Grows(a, b, S) == b = a \/ \E j \in S : b = Append(a, j)

SyncRec == [at : SyncAt, tcp : [Ports -> Uids \union {NoUid}], http : SUBSET Ports,
            todo : SUBSET Ports, busy : BOOLEAN]
------------------------------------------------------------------------------
(* A step of the operating system or of a server's own task, beside the     *)
(* locks.                                                                   *)
SocketStep(p) == SlowServer(p) \/ StoppedServer(p) \/ UvicornExits(p) \/ OtherProgram(p)

(* Queues, and the records made by the actions.                             *)
LEMMA Queues ==
  ASSUME NEW S, NEW s \in Seq(S), NEW x \in S
  PROVE  /\ Append(s, x) \in Seq(S) /\ Append(s, x) # << >>
         /\ s # << >> => /\ Head(s) \in S /\ Tail(s) \in Seq(S)
                         /\ Head(Append(s, x)) = Head(s)
BY AppendProperties, HeadTailProperties, HeadTailAppend

LEMMA QueueHead ==
  ASSUME NEW S, NEW s \in Seq(S), s # << >>
  PROVE  Head(s) \in S /\ Tail(s) \in Seq(S)
OBVIOUS

LEMMA GrowsTypes ==
  ASSUME NEW S, NEW T, T \subseteq S, NEW a \in Seq(S), NEW b, Grows(a, b, T)
  PROVE  b \in Seq(S) /\ (a # << >> => b # << >> /\ Head(b) = Head(a))
BY Queues DEF Grows

LEMMA Jobs ==
  ASSUME NEW p \in Ports, NEW u \in Uids \union {NoUid}, NEW w \in {"link", "release", "sync"}
  PROVE  /\ StartJob(p, u, w) \in Job /\ StopJob(p, w) \in TcpJob /\ StopJob(p, w) \in Job
         /\ u # NoUid => StartJob(p, u, w) \in TcpJob
BY DEF StartJob, StopJob, Job, TcpJob

LEMMA JobParts ==
  ASSUME NEW j \in Job
  PROVE  j.port \in Ports /\ j.uid \in Uids \union {NoUid}
BY DEF Job

LEMMA SyncRecs ==
  ASSUME NEW s \in SyncRec, NEW b \in BOOLEAN, NEW a \in SyncAt, NEW T \in SUBSET Ports
  PROVE  /\ [s EXCEPT !.busy = b] \in SyncRec
         /\ [s EXCEPT !.at = a, !.todo = T] \in SyncRec
         /\ [s EXCEPT !.todo = T, !.busy = b] \in SyncRec
<1> DEFINE B == BOOLEAN
           H == SUBSET Ports
           N == [Ports -> Uids \union {NoUid}]
<1>1. SyncRec = [at : SyncAt, tcp : N, http : H, todo : H, busy : B] /\ b \in B /\ T \in H
  BY DEF SyncRec
<1> HIDE DEF B, H, N
<1>2. [s EXCEPT !.busy = b] \in SyncRec
  BY <1>1
<1>3. [s EXCEPT !.at = a, !.todo = T] \in SyncRec
  BY <1>1
<1>4. [s EXCEPT !.todo = T, !.busy = b] \in SyncRec
  BY <1>1
<1> QED
  BY <1>2, <1>3, <1>4

LEMMA LinkRecs ==
  ASSUME NEW d \in Link, NEW b \in BOOLEAN, NEW p \in Ports \union {Panel}
  PROVE  /\ [d EXCEPT !.active = b] \in Link
         /\ [d EXCEPT !.port = p] \in Link /\ [d EXCEPT !.port = p].port = p
<1> DEFINE B == BOOLEAN
           X == Ports \union {Panel}
<1>1. Link = [present : B, active : B, kind : Kinds, port : X] /\ b \in B /\ p \in X
  BY DEF Link
<1> HIDE DEF B, X
<1> QED
  BY <1>1

LEMMA PortsInitially == ASSUME Init, Panel \notin Ports PROVE PortsInv
<1>1. NoLink \in Link
  BY DEF NoLink, Link, Kinds
<1>2. NoSync \in SyncRec /\ NoSync.at = "idle"
  BY DEF NoSync, SyncRec, SyncAt
<1>3. TypeOK
  <2>1. << >> \in Seq(Job) /\ << >> \in Seq(TcpJob)
    BY EmptySeq
  <2>2. links \in [Uids -> Link] /\ tcp_servers \in [Ports -> Uids \union {NoUid}]
        /\ sock \in [Ports -> {"free", "tcp", "http", "dying", "other"}]
        /\ late \in [Ports -> {"no", "starting", "failed"}] /\ stopping \subseteq Ports
    BY <1>1 DEF Init
  <2>3. sync \in SyncRec
    BY <1>2 DEF Init
  <2> QED BY <2>1, <2>2, <2>3 DEF Init, TypeOK, SyncRec
<1> QED
  BY <1>2, <1>3 DEF Init, PortsInv, SyncStarts, UviHolder, SlowServers,
                         RegistryMatchesSockets

(* A step that starts or stops no listener.                                 *)
LEMMA RegistriesStay ==
  ASSUME PortsInv, UNCHANGED <<tcp_servers, uvicorn_servers, sock, late, uvi_at>>,
         Grows(uvi_lock, uvi_lock', Job)
  PROVE  UviHolder' /\ SlowServers' /\ RegistryMatchesSockets' /\ uvi_lock' \in Seq(Job)
<1>1. /\ uvi_lock' \in Seq(Job)
      /\ uvi_lock # << >> => uvi_lock' # << >> /\ Head(uvi_lock') = Head(uvi_lock)
  BY GrowsTypes DEF PortsInv, TypeOK
<1>2. Holds(uvi_lock, "start") => Holds(uvi_lock, "start")' /\ Head(uvi_lock') = Head(uvi_lock)
  BY <1>1 DEF Holds
<1>3. UviHolder'
  BY <1>2 DEF PortsInv, UviHolder
<1>4. RegistryMatchesSockets'
  BY <1>2 DEF PortsInv, RegistryMatchesSockets
<1>5. SlowServers'
  BY DEF PortsInv, SlowServers
<1> QED
  BY <1>1, <1>3, <1>4, <1>5

LEMMA PortTypes ==
  PortsInv => /\ tcp_lock \in Seq(TcpJob) /\ tcp_lock \in Seq(Job) /\ uvi_lock \in Seq(Job)
              /\ sync \in SyncRec /\ TypeOK
BY DEF PortsInv, TypeOK, SyncRec

(* Steps that only put coroutines into the queues.                          *)
LEMMA OnlyQueues ==
  ASSUME PortsInv, UNCHANGED <<netVars, tcp_at, uvi_at>>,
         Grows(tcp_lock, tcp_lock', TcpJob), Grows(uvi_lock, uvi_lock', Job),
         links' \in [Uids -> Link], sync' \in SyncRec, SyncStarts',
         booting' \in BOOLEAN, calm' \in BOOLEAN
  PROVE  PortsInv'
<1>1. UNCHANGED <<tcp_servers, uvicorn_servers, port_errors, sock, late, stopping, tcp_at, uvi_at>>
  BY DEF netVars, lateVars
<1>2. UviHolder' /\ SlowServers' /\ RegistryMatchesSockets' /\ uvi_lock' \in Seq(Job)
  BY <1>1, RegistriesStay
<1>3. tcp_lock' \in Seq(TcpJob) /\ tcp_lock' \in Seq(Job)
  <2>1. TcpJob \subseteq Job
    BY DEF TcpJob
  <2> QED BY <2>1, PortTypes, GrowsTypes
<1>4. TypeOK'
  BY <1>1, <1>2, <1>3, PortTypes DEF TypeOK, SyncRec
<1> QED
  BY <1>2, <1>3, <1>4 DEF PortsInv

LEMMA SyncLinkQueues ==
  ASSUME NEW u \in Uids, NoUid \notin Uids, NEW d \in Link, sync_link(u, d)
  PROVE  Grows(tcp_lock, tcp_lock', TcpJob) /\ Grows(uvi_lock, uvi_lock', Job)
<1>1. d.port \in Ports \union {Panel} /\ d.kind \in {"tcp", "http", "core"}
  BY DEF Link, Kinds
<1>2. CASE d.port = Panel \/ d.kind = "core"
  BY <1>2 DEF sync_link, QueueNone, Grows
<1>3. CASE d.port # Panel /\ d.kind = "tcp"
  <2>1. QueueTcp(IF d.active THEN StartJob(d.port, u, "link") ELSE StopJob(d.port, "link"))
    BY <1>3 DEF sync_link
  <2>2. (IF d.active THEN StartJob(d.port, u, "link") ELSE StopJob(d.port, "link")) \in TcpJob
    BY <1>1, <1>3, Jobs
  <2> QED BY <2>1, <2>2 DEF QueueTcp, Grows
<1>4. CASE d.port # Panel /\ d.kind = "http"
  <2>1. QueueUvi(StartJob(d.port, u, "link")) \/ QueueNone
    BY <1>4 DEF sync_link
  <2>2. StartJob(d.port, u, "link") \in Job
    BY <1>1, <1>4, Jobs
  <2> QED BY <2>1, <2>2 DEF QueueUvi, QueueNone, Grows
<1> QED
  BY <1>1, <1>2, <1>3, <1>4

LEMMA HandlersQueue ==
  ASSUME PortsAssumption, PortsInv, Handlers
  PROVE  /\ UNCHANGED <<netVars, tcp_at, uvi_at, sync, booting>> /\ calm' = FALSE
         /\ Grows(tcp_lock, tcp_lock', TcpJob) /\ Grows(uvi_lock, uvi_lock', Job)
         /\ links' \in [Uids -> Link]
<1>1. /\ UNCHANGED <<netVars, tcp_at, uvi_at, sync, booting>> /\ calm' = FALSE
  BY DEF Handlers, create_link, update_link, delete_link, backup_import, Request
<1>2. links \in [Uids -> Link] /\ NoUid \notin Uids
  BY PortTypes DEF TypeOK, PortsAssumption
<1> DEFINE Goal == /\ Grows(tcp_lock, tcp_lock', TcpJob) /\ Grows(uvi_lock, uvi_lock', Job)
                   /\ links' \in [Uids -> Link]
<1>3. ASSUME NEW u \in Uids, NEW k \in Kinds, create_link(u, k) PROVE Goal
  <2>1. PICK p \in allocate_listen_port(k) :
          LET d == [present |-> TRUE, active |-> TRUE, kind |-> k, port |-> p]
          IN  links' = [links EXCEPT ![u] = d] /\ sync_link(u, d)
    BY <1>3 DEF create_link
  <2>2. [present |-> TRUE, active |-> TRUE, kind |-> k, port |-> p] \in Link
    BY DEF allocate_listen_port, Link
  <2> QED BY <1>2, <2>1, <2>2, SyncLinkQueues
<1>4. ASSUME NEW u \in Uids, NEW a \in BOOLEAN, NEW p \in Ports \union {Panel}, update_link(u, a, p)
      PROVE  Goal
  <2>1. PICK d : d = [links[u] EXCEPT !.active = a]
    OBVIOUS
  <2>2. d \in Link /\ [d EXCEPT !.port = p] \in Link
    BY <1>2, <2>1, LinkRecs
  <2>3. \/ links' = [links EXCEPT ![u] = d] /\ QueueNone
        \/ /\ links' = [links EXCEPT ![u] = [d EXCEPT !.port = p]]
           /\ sync_link(u, [d EXCEPT !.port = p])
    BY <1>4, <2>1 DEF update_link
  <2>4. CASE links' = [links EXCEPT ![u] = d] /\ QueueNone
    BY <1>2, <2>2, <2>4 DEF QueueNone, Grows
  <2>5. CASE /\ links' = [links EXCEPT ![u] = [d EXCEPT !.port = p]]
             /\ sync_link(u, [d EXCEPT !.port = p])
    BY <1>2, <2>2, <2>5, SyncLinkQueues
  <2> QED BY <2>3, <2>4, <2>5
<1>5. ASSUME NEW u \in Uids, delete_link(u) PROVE Goal
  <2>1. links' = [links EXCEPT ![u] = NoLink] /\ NoLink \in Link
    BY <1>5 DEF delete_link, NoLink, Link, Kinds
  <2>2. links[u].port \in Ports \union {Panel}
    BY <1>2 DEF Link
  <2>3. \/ QueueNone
        \/ links[u].port # Panel /\ QueueTcp(StopJob(links[u].port, "release"))
    BY <1>5 DEF delete_link
  <2>4. CASE QueueNone
    BY <1>2, <2>1, <2>4 DEF QueueNone, Grows
  <2>5. CASE links[u].port # Panel /\ QueueTcp(StopJob(links[u].port, "release"))
    <3>1. StopJob(links[u].port, "release") \in TcpJob
      BY <2>2, <2>5, Jobs
    <3> QED BY <1>2, <2>1, <2>5, <3>1 DEF QueueTcp, Grows
  <2> QED BY <2>3, <2>4, <2>5
<1>6. ASSUME backup_import PROVE Goal
  <2>1. Backups \subseteq [Uids -> Link]
    BY DEF PortsAssumption
  <2>2. links' \in Backups /\ UNCHANGED <<tcp_lock, uvi_lock>>
    BY <1>6 DEF backup_import, QueueNone
  <2>3. links' \in [Uids -> Link]
    BY <2>1, <2>2
  <2> QED BY <2>2, <2>3 DEF Grows
<1> HIDE DEF Goal
<1>7. Goal
  <2>1. CASE \E u \in Uids, k \in Kinds : create_link(u, k)
    BY <1>3, <2>1
  <2>2. CASE \E u \in Uids, a \in BOOLEAN, p \in Ports \union {Panel} : update_link(u, a, p)
    BY <1>4, <2>2
  <2>3. CASE \E u \in Uids : delete_link(u)
    BY <1>5, <2>3
  <2> QED BY <1>6, <2>1, <2>2, <2>3 DEF Handlers
<1> QED
  BY <1>1, <1>7 DEF Goal

LEMMA HandlersKeep == ASSUME PortsAssumption, PortsInv, Handlers PROVE PortsInv'
<1>1. SyncStarts' /\ sync' \in SyncRec /\ booting' \in BOOLEAN /\ calm' \in BOOLEAN
  BY HandlersQueue, PortTypes DEF PortsInv, SyncStarts, TypeOK
<1> QED
  BY <1>1, HandlersQueue, OnlyQueues

(* The holder of a lock leaves it.                                          *)
LEMMA SyncResumesTypes ==
  ASSUME PortsInv, NEW j, SyncResumes(j)
  PROVE  sync' \in SyncRec /\ SyncStarts'
<1>1. [sync EXCEPT !.busy = FALSE] \in SyncRec
  <2>1. sync \in SyncRec /\ FALSE \in BOOLEAN /\ "idle" \in SyncAt /\ {} \in SUBSET Ports
    BY PortTypes DEF SyncAt
  <2> QED BY <2>1, SyncRecs
<1>2. sync' \in SyncRec
  BY <1>1, PortTypes DEF SyncResumes
<1>3. sync'.at = sync.at /\ sync'.tcp = sync.tcp /\ sync'.todo = sync.todo
  BY PortTypes DEF SyncResumes, SyncRec
<1> QED
  BY <1>2, <1>3 DEF PortsInv, SyncStarts

LEMMA TcpLeft ==
  ASSUME PortsInv, tcp_lock # << >>, TcpDone
  PROVE  /\ tcp_lock' \in Seq(TcpJob) /\ tcp_lock' \in Seq(Job)
         /\ tcp_at' \in {"begin", "woken", "await"}
         /\ Grows(uvi_lock, uvi_lock', Job)
         /\ sync' \in SyncRec /\ SyncStarts' /\ UNCHANGED uvi_at
<1>1. Head(tcp_lock) \in Job /\ Tail(tcp_lock) \in Seq(Job) /\ Tail(tcp_lock) \in Seq(TcpJob)
  BY PortTypes, QueueHead
<1>2. Grows(uvi_lock, uvi_lock', Job)
  BY <1>1 DEF TcpDone, Grows
<1>3. SyncResumes(Head(tcp_lock))
  BY DEF TcpDone
<1> QED
  BY <1>1, <1>2, <1>3, SyncResumesTypes DEF TcpDone

LEMMA UviLeft ==
  ASSUME PortsInv, uvi_lock # << >>, UviDone
  PROVE  /\ uvi_lock' \in Seq(Job) /\ uvi_at' \in {"begin", "woken"}
         /\ sync' \in SyncRec /\ SyncStarts' /\ UNCHANGED <<tcp_lock, tcp_at>>
<1>1. Tail(uvi_lock) \in Seq(Job)
  BY PortTypes, QueueHead
<1>2. SyncResumes(Head(uvi_lock))
  BY DEF UviDone
<1> QED
  BY <1>1, <1>2, SyncResumesTypes DEF UviDone

(* What is left to show of a step of a listener.                            *)
LEMMA ListenerStep ==
  ASSUME PortsInv, UNCHANGED <<links, booting, calm>>,
         tcp_lock' \in Seq(TcpJob), tcp_lock' \in Seq(Job), uvi_lock' \in Seq(Job),
         tcp_at' \in {"begin", "woken", "await"},
         uvi_at' \in {"begin", "woken", "await", "bound", "died"},
         sync' \in SyncRec, SyncStarts', port_errors' \subseteq Ports, uvicorn_servers' \subseteq Ports,
         tcp_servers' \in [Ports -> Uids \union {NoUid}],
         sock' \in [Ports -> {"free", "tcp", "http", "dying", "other"}],
         late' \in [Ports -> {"no", "starting", "failed"}], stopping' \subseteq Ports,
         UviHolder', SlowServers', RegistryMatchesSockets'
  PROVE  PortsInv'
BY PortTypes DEF PortsInv, TypeOK, SyncRec

LEMMA TcpKeeps == ASSUME PortsInv, Tcp PROVE PortsInv'
<1> DEFINE j == Head(tcp_lock)
           p == Head(tcp_lock).port
<1>1. /\ tcp_lock # << >> /\ j \in TcpJob /\ j \in Job /\ p \in Ports /\ j.uid \in Uids \union {NoUid}
      /\ UNCHANGED <<links, uvicorn_servers, late, stopping, booting, calm>>
  <2>1. tcp_lock # << >> /\ UNCHANGED <<links, uvicorn_servers, late, stopping, booting, calm>>
    BY DEF Tcp, StartTcp, StartTcpEnds, StopTcp, StopTcpEnds, Holds, netVars, lateVars
  <2> QED BY <2>1, PortTypes, QueueHead, JobParts
<1>2. TcpDone \/ TcpAwait
  BY DEF Tcp, StartTcp, StartTcpEnds, StopTcp, StopTcpEnds
<1>3. /\ tcp_lock' \in Seq(TcpJob) /\ tcp_lock' \in Seq(Job)
      /\ tcp_at' \in {"begin", "woken", "await"}
      /\ Grows(uvi_lock, uvi_lock', Job)
      /\ sync' \in SyncRec /\ SyncStarts' /\ UNCHANGED uvi_at
  <2>1. CASE TcpDone
    BY <1>1, <2>1, TcpLeft
  <2>2. CASE TcpAwait
    BY <2>2, PortTypes DEF TcpAwait, Grows, PortsInv, SyncStarts
  <2> QED BY <1>2, <2>1, <2>2
<1>4. /\ uvi_lock' \in Seq(Job)
      /\ uvi_lock # << >> => uvi_lock' # << >> /\ Head(uvi_lock') = Head(uvi_lock)
  BY <1>3, PortTypes, GrowsTypes
<1>5. uvi_at' \in {"begin", "woken", "await", "bound", "died"}
  BY <1>3, PortTypes DEF TypeOK
<1>6. /\ port_errors' \subseteq Ports /\ uvicorn_servers' \subseteq Ports
      /\ late' \in [Ports -> {"no", "starting", "failed"}] /\ stopping' \subseteq Ports
  BY <1>1, PortTypes DEF Tcp, StartTcp, StartTcpEnds, StopTcp, StopTcpEnds, netVars, TypeOK
<1>7. CASE UNCHANGED <<sock, tcp_servers>>
  <2>1. UviHolder' /\ SlowServers' /\ RegistryMatchesSockets'
    BY <1>1, <1>3, <1>7, RegistriesStay
  <2> QED BY <1>1, <1>3, <1>4, <1>5, <1>6, <1>7, <2>1, PortTypes, ListenerStep DEF TypeOK
<1> HIDE DEF j, p
(* The socket of one port changes, and its registration with it. *)
<1>8. ASSUME NEW s \in {"tcp", "free"}, NEW u \in Uids \union {NoUid}, u # NoUid <=> s = "tcp",
             sock[p] # "http", sock' = [sock EXCEPT ![p] = s],
             tcp_servers' = [tcp_servers EXCEPT ![p] = u]
      PROVE  PortsInv'
  <2>1. /\ sock' \in [Ports -> {"free", "tcp", "http", "dying", "other"}]
        /\ tcp_servers' \in [Ports -> Uids \union {NoUid}]
    BY <1>1, <1>8, PortTypes DEF TypeOK
  <2>2. /\ sock'[p] = s /\ tcp_servers'[p] = u /\ s # "http"
        /\ \A q \in Ports \ {p} : sock'[q] = sock[q] /\ tcp_servers'[q] = tcp_servers[q]
    BY <1>1, <1>8, PortTypes DEF TypeOK
  <2>3. Holds(uvi_lock, "start") => Holds(uvi_lock, "start")' /\ Head(uvi_lock') = Head(uvi_lock)
    BY <1>4 DEF Holds
  <2>4. \A q \in Ports : sock'[q] = "http" <=> sock[q] = "http"
    BY <1>8, <2>2
  <2>5. UviHolder'
    <3>1. uvi_at \in {"await", "bound", "died"} => Head(uvi_lock).port \in Ports
      BY PortTypes DEF PortsInv, UviHolder, TypeOK
    <3> QED BY <1>1, <1>3, <2>3, <2>4, <3>1 DEF PortsInv, UviHolder
  <2>6. RegistryMatchesSockets'
    <3>1. ASSUME NEW q \in Ports
          PROVE  /\ tcp_servers'[q] # NoUid <=> sock'[q] = "tcp"
                 /\ sock'[q] = "http" => q \in uvicorn_servers'
                 /\ q \in uvicorn_servers' /\ sock'[q] # "http"
                      => \/ /\ Holds(uvi_lock, "start")' /\ Head(uvi_lock').port = q
                            /\ uvi_at' \in {"await", "died"}
                         \/ late'[q] # "no"
      BY <1>1, <1>3, <1>8, <2>2, <2>3, <2>4 DEF PortsInv, RegistryMatchesSockets
    <3> QED BY <3>1 DEF RegistryMatchesSockets
  <2>7. SlowServers'
    BY <1>1, <2>4 DEF PortsInv, SlowServers
  <2> QED BY <1>1, <1>3, <1>4, <1>5, <1>6, <2>1, <2>5, <2>6, <2>7, ListenerStep
<1>9. CASE StartTcpEnds
  <2>1. \/ UNCHANGED <<sock, tcp_servers>>
        \/ /\ sock[p] = "free" /\ sock' = [sock EXCEPT ![p] = "tcp"]
           /\ tcp_servers' = [tcp_servers EXCEPT ![p] = j.uid]
    BY <1>9 DEF StartTcpEnds, j, p
  <2>2. j.uid # NoUid
    BY <1>1, <1>9 DEF StartTcpEnds, Holds, TcpJob, j
  <2> QED BY <1>1, <1>7, <1>8, <2>1, <2>2
<1>10. CASE StopTcp
  <2>1. \/ UNCHANGED <<sock, tcp_servers>>
        \/ /\ tcp_servers[p] # NoUid /\ sock' = [sock EXCEPT ![p] = "free"]
           /\ tcp_servers' = [tcp_servers EXCEPT ![p] = NoUid]
    BY <1>10 DEF StopTcp, p
  <2>2. tcp_servers[p] # NoUid => sock[p] = "tcp"
    BY <1>1 DEF PortsInv, RegistryMatchesSockets
  <2> QED BY <1>7, <1>8, <2>1, <2>2
<1> QED
  BY <1>7, <1>9, <1>10 DEF Tcp, StartTcp, StopTcpEnds, netVars

LEMMA UviKeeps == ASSUME PortsInv, Uvicorn PROVE PortsInv'
<1> DEFINE p == Head(uvi_lock).port
<1>1. /\ uvi_lock # << >> /\ p \in Ports
      /\ UNCHANGED <<links, tcp_servers, booting, calm, tcp_lock, tcp_at>>
  <2>1. uvi_lock # << >> /\ UNCHANGED <<links, tcp_servers, booting, calm, tcp_lock, tcp_at>>
    BY DEF Uvicorn, StartUvicorn, ServeBinds, StartUvicornEnds, StopUvicorn, Holds, UviDone, UviAwait
  <2> QED BY <2>1, PortTypes, QueueHead, JobParts
<1>2. \/ UviDone
      \/ UviAwait("await") \/ UviAwait("bound") \/ UviAwait("died")
  BY DEF Uvicorn, StartUvicorn, ServeBinds, StartUvicornEnds, StopUvicorn
<1>3. /\ uvi_lock' \in Seq(Job) /\ uvi_at' \in {"begin", "woken", "await", "bound", "died"}
      /\ sync' \in SyncRec /\ SyncStarts'
  <2>1. CASE UviDone
    BY <1>1, <2>1, UviLeft
  <2>2. CASE UviAwait("await") \/ UviAwait("bound") \/ UviAwait("died")
    BY <2>2, PortTypes DEF UviAwait, PortsInv, SyncStarts
  <2> QED BY <1>2, <2>1, <2>2
<1>4. /\ uvicorn_servers \subseteq Ports /\ port_errors \subseteq Ports
      /\ sock \in [Ports -> {"free", "tcp", "http", "dying", "other"}]
      /\ tcp_servers \in [Ports -> Uids \union {NoUid}]
      /\ uvi_at \in {"begin", "woken", "await", "bound", "died"}
      /\ late \in [Ports -> {"no", "starting", "failed"}] /\ stopping \subseteq Ports
  BY PortTypes DEF TypeOK
<1> HIDE DEF p
<1>5. /\ port_errors' \subseteq Ports /\ uvicorn_servers' \subseteq Ports
      /\ sock' \in [Ports -> {"free", "tcp", "http", "dying", "other"}]
      /\ late' \in [Ports -> {"no", "starting", "failed"}] /\ stopping' \subseteq Ports
  BY <1>1, <1>4 DEF Uvicorn, StartUvicorn, ServeBinds, StartUvicornEnds, StopUvicorn, lateVars, p
<1>6. /\ tcp_lock' \in Seq(TcpJob) /\ tcp_lock' \in Seq(Job) /\ tcp_at' \in {"begin", "woken", "await"}
      /\ tcp_servers' \in [Ports -> Uids \union {NoUid}]
  BY <1>1, <1>4, PortTypes DEF TypeOK
<1>7. SUFFICES UviHolder' /\ SlowServers' /\ RegistryMatchesSockets'
  BY <1>1, <1>3, <1>5, <1>6, ListenerStep
(* A holder that leaves the lock has every registered port bound, or late. *)
<1>8. ASSUME UviDone, SlowServers', \A q \in uvicorn_servers' : sock'[q] = "http" \/ late'[q] # "no",
             \A q \in Ports : /\ sock'[q] = "http" => q \in uvicorn_servers'
                              /\ tcp_servers'[q] # NoUid <=> sock'[q] = "tcp"
      PROVE  UviHolder' /\ SlowServers' /\ RegistryMatchesSockets'
  <2>1. uvi_at' \in {"begin", "woken"}
    BY <1>1, <1>8, UviLeft
  <2> QED BY <1>8, <2>1 DEF UviHolder, RegistryMatchesSockets
<1>9. uvi_at \in {"begin", "woken"} => \A q \in uvicorn_servers : sock[q] = "http" \/ late[q] # "no"
  BY <1>4 DEF PortsInv, RegistryMatchesSockets
<1>10. \A q \in Ports : /\ sock[q] = "http" => q \in uvicorn_servers
                        /\ tcp_servers[q] # NoUid <=> sock[q] = "tcp"
                        /\ q \in uvicorn_servers /\ sock[q] # "http"
                             => (q = p /\ uvi_at \in {"await", "died"}) \/ late[q] # "no"
                        /\ late[q] # "no" => q \in uvicorn_servers /\ sock[q] # "http"
  BY DEF PortsInv, RegistryMatchesSockets, SlowServers, p
<1>11. CASE StartUvicorn
  <2>1. uvi_at \in {"begin", "woken"} /\ Holds(uvi_lock, "start") /\ UNCHANGED <<sock, late>>
    BY <1>11 DEF StartUvicorn, lateVars
  <2>2. CASE UviDone /\ UNCHANGED uvicorn_servers
    <3>1. SlowServers'
      BY <1>10, <2>1, <2>2 DEF SlowServers
    <3> QED BY <1>1, <1>4, <1>8, <1>9, <1>10, <2>1, <2>2, <3>1
  <2>3. CASE /\ p \notin uvicorn_servers /\ sock[p] = "free" /\ UviAwait("await")
             /\ uvicorn_servers' = uvicorn_servers \union {p}
    <3>1. /\ uvi_at' = "await" /\ uvi_lock' = uvi_lock /\ sock'[p] # "http"
          /\ \A q \in uvicorn_servers' : sock'[q] # "http" => q = p \/ late'[q] # "no"
          /\ late'[p] = "no"
      BY <1>1, <1>9, <1>10, <2>1, <2>3 DEF UviAwait
    <3>2. UviHolder'
      BY <2>1, <2>3, <3>1 DEF UviHolder, Holds, p
    <3>3. RegistryMatchesSockets'
      BY <1>1, <1>10, <2>1, <2>3, <3>1 DEF RegistryMatchesSockets, Holds, p
    <3>4. SlowServers'
      BY <1>10, <2>1, <2>3 DEF SlowServers
    <3> QED BY <3>2, <3>3, <3>4
  <2> QED BY <1>11, <2>2, <2>3 DEF StartUvicorn, p
<1>12. CASE ServeBinds
  <2>1. /\ uvi_at = "await" /\ Holds(uvi_lock, "start") /\ UNCHANGED <<uvicorn_servers, uvi_lock>>
        /\ uvi_at' \in {"bound", "died"} /\ UNCHANGED late
    BY <1>12 DEF ServeBinds, UviAwait, lateVars
  <2>2. p \in uvicorn_servers /\ sock[p] # "http" /\ late[p] = "no"
    BY <2>1 DEF PortsInv, UviHolder, p
  <2>3. CASE sock[p] = "free" /\ sock' = [sock EXCEPT ![p] = "http"] /\ UviAwait("bound")
    <3>1. /\ sock'[p] = "http" /\ uvi_at' = "bound"
          /\ \A q \in Ports \ {p} : sock'[q] = sock[q]
      BY <1>1, <1>4, <2>3 DEF UviAwait
    <3>2. UviHolder'
      BY <2>1, <2>2, <3>1 DEF UviHolder, Holds, p
    <3>3. ASSUME NEW q \in Ports
          PROVE  /\ tcp_servers'[q] # NoUid <=> sock'[q] = "tcp"
                 /\ sock'[q] = "http" => q \in uvicorn_servers'
                 /\ q \in uvicorn_servers' => sock'[q] = "http" \/ late'[q] # "no"
                 /\ late'[q] # "no" => q \in uvicorn_servers' /\ sock'[q] # "http"
      BY <1>1, <1>10, <2>1, <2>2, <2>3, <3>1
    <3> QED BY <3>2, <3>3 DEF RegistryMatchesSockets, SlowServers
  <2>4. CASE UviAwait("died") /\ UNCHANGED sock
    <3>1. UviHolder'
      BY <2>1, <2>2, <2>4 DEF UviHolder, Holds, UviAwait, p
    <3>2. RegistryMatchesSockets'
      BY <1>1, <1>10, <2>1, <2>4 DEF RegistryMatchesSockets, UviAwait, Holds, p
    <3>3. SlowServers'
      BY <1>10, <2>1, <2>4 DEF SlowServers
    <3> QED BY <3>1, <3>2, <3>3
  <2> QED BY <1>12, <2>3, <2>4 DEF ServeBinds, p
<1>13. CASE StartUvicornEnds
  <2>1. UviDone /\ UNCHANGED sock /\ uvi_at \in {"await", "bound", "died"}
    BY <1>13 DEF StartUvicornEnds
  <2>2. p \in uvicorn_servers /\ (sock[p] = "http" <=> uvi_at = "bound")
    BY <2>1 DEF PortsInv, UviHolder, p
  <2>3. /\ uvicorn_servers' = IF uvi_at = "died" THEN uvicorn_servers \ {p} ELSE uvicorn_servers
        /\ late' = [late EXCEPT ![p] = IF uvi_at = "await" THEN "starting" ELSE "no"]
    BY <1>13 DEF StartUvicornEnds, p
  <2>4. /\ late'[p] # "no" <=> uvi_at = "await"
        /\ \A q \in Ports \ {p} : late'[q] = late[q]
    BY <1>1, <1>4, <2>3
  <2>5. SlowServers'
    BY <1>10, <2>1, <2>2, <2>3, <2>4 DEF SlowServers
  <2>6. \A q \in uvicorn_servers' : sock'[q] = "http" \/ late'[q] # "no"
    BY <1>4, <1>10, <2>1, <2>2, <2>3, <2>4
  <2> QED BY <1>1, <1>8, <1>10, <2>1, <2>2, <2>3, <2>5, <2>6
<1>14. CASE StopUvicorn
  <2>1. /\ UviDone /\ uvi_at \in {"begin", "woken"} /\ uvicorn_servers' = uvicorn_servers \ {p}
        /\ sock' = IF p \in uvicorn_servers /\ late[p] = "no" THEN [sock EXCEPT ![p] = "dying"]
                   ELSE sock
        /\ late' = [late EXCEPT ![p] = "no"]
    BY <1>14 DEF StopUvicorn, p
  <2>2. \A q \in Ports : /\ q # p => sock'[q] = sock[q] /\ late'[q] = late[q]
                         /\ p \in uvicorn_servers /\ late[p] = "no" => sock'[p] = "dying"
                         /\ ~(p \in uvicorn_servers /\ late[p] = "no") => sock'[p] = sock[p]
                         /\ late'[p] = "no"
    BY <1>1, <1>4, <2>1
  <2>3. p \in uvicorn_servers => sock[p] = "http" \/ late[p] # "no"
    BY <1>9, <2>1
  <2>4. \A q \in uvicorn_servers' : sock'[q] = "http" \/ late'[q] # "no"
    BY <1>4, <1>9, <2>1, <2>2
  <2>5. \A q \in Ports : /\ sock'[q] = "http" => q \in uvicorn_servers'
                         /\ tcp_servers'[q] # NoUid <=> sock'[q] = "tcp"
    BY <1>1, <1>10, <2>1, <2>2, <2>3
  <2>6. SlowServers'
    BY <1>10, <2>1, <2>2 DEF SlowServers
  <2> QED BY <1>8, <2>1, <2>4, <2>5, <2>6
<1> QED
  BY <1>11, <1>12, <1>13, <1>14 DEF Uvicorn

(* The coroutine that sync_all waits for next.                              *)
LEMMA SyncPortQueues ==
  ASSUME PortsInv, NoUid \notin Uids, NEW p \in Ports, SyncPort(p)
  PROVE  /\ \/ sync.at \in {"stop_tcp", "stop_http"}
            \/ sync.at = "start_tcp" /\ sync.tcp[p] # NoUid
            \/ sync.at = "start_http"
         /\ sync.at = "stop_tcp" => QueueTcp(StopJob(p, "sync"))
         /\ sync.at = "stop_http" => QueueUvi(StopJob(p, "sync"))
         /\ sync.at = "start_tcp" => QueueTcp(StartJob(p, sync.tcp[p], "sync"))
         /\ sync.at = "start_http" => QueueUvi(StartJob(p, NoUid, "sync"))
         /\ Grows(tcp_lock, tcp_lock', TcpJob) /\ Grows(uvi_lock, uvi_lock', Job)
<1>1. sync.at \in {"stop_tcp", "stop_http", "start_tcp", "start_http"} /\ p \in sync.todo
      /\ sync.tcp \in [Ports -> Uids \union {NoUid}]
  BY PortTypes DEF SyncPort, SyncRec, SyncAt
<1>2. sync.at = "start_tcp" => sync.tcp[p] # NoUid
  BY <1>1 DEF PortsInv, SyncStarts
<1>3. /\ StopJob(p, "sync") \in TcpJob /\ StopJob(p, "sync") \in Job
      /\ StartJob(p, NoUid, "sync") \in Job
      /\ sync.at = "start_tcp" => StartJob(p, sync.tcp[p], "sync") \in TcpJob
  BY <1>1, <1>2, Jobs
<1>4. /\ sync.at = "stop_tcp" => QueueTcp(StopJob(p, "sync"))
      /\ sync.at = "stop_http" => QueueUvi(StopJob(p, "sync"))
      /\ sync.at = "start_tcp" => QueueTcp(StartJob(p, sync.tcp[p], "sync"))
      /\ sync.at = "start_http" => QueueUvi(StartJob(p, NoUid, "sync"))
  BY DEF SyncPort
<1>5. Grows(tcp_lock, tcp_lock', TcpJob) /\ Grows(uvi_lock, uvi_lock', Job)
  BY <1>1, <1>3, <1>4 DEF QueueTcp, QueueUvi, Grows
<1> QED
  BY <1>1, <1>2, <1>4, <1>5

(* What sync_all needs, and the port it goes on to.                         *)
LEMMA SyncKeeps ==
  ASSUME PortsInv, NoUid \notin Uids, api_ports_resync \/ Sync PROVE PortsInv'
<1>1. links \in [Uids -> Link] /\ booting \in BOOLEAN /\ calm \in BOOLEAN
      /\ sync.todo \subseteq Ports /\ sync.tcp \in [Ports -> Uids \union {NoUid}]
      /\ sync \in SyncRec /\ sync.http \subseteq Ports
  BY PortTypes DEF TypeOK, SyncRec
<1>2. CASE api_ports_resync
  <2>1. sync' \in SyncRec /\ sync'.at = "stop_tcp"
    BY <1>2 DEF api_ports_resync, SyncBegins, SyncRec, SyncAt, NeededHttp
  <2>2. UNCHANGED <<links, netVars, lockVars, booting>> /\ calm' \in BOOLEAN
    BY <1>2 DEF api_ports_resync
  <2> QED BY <1>1, <2>1, <2>2, OnlyQueues DEF SyncStarts, Grows, lockVars
<1>3. CASE SyncNextPhase
  <2>1. UNCHANGED <<links, netVars, lockVars, calm>> /\ booting' \in BOOLEAN
    BY <1>1, <1>3 DEF SyncNextPhase
  <2>2. /\ sync.at = "stop_tcp" =>
             sync' = [sync EXCEPT !.at = "stop_http", !.todo = uvicorn_servers \ sync.http]
        /\ sync.at = "stop_http" =>
             sync' = [sync EXCEPT !.at = "start_tcp", !.todo = {p \in Ports : sync.tcp[p] # NoUid}]
        /\ sync.at = "start_tcp" => sync' = [sync EXCEPT !.at = "start_http", !.todo = sync.http]
        /\ sync.at = "start_http" => sync' = NoSync
        /\ sync.at \in {"stop_tcp", "stop_http", "start_tcp", "start_http"}
    BY <1>1, <1>3 DEF SyncNextPhase, SyncRec, SyncAt
  <2>3. sync' \in SyncRec /\ SyncStarts'
    <3>1. CASE sync.at = "stop_tcp"
      <4>1. PICK T : T = uvicorn_servers \ sync.http
        OBVIOUS
      <4>2. T \in SUBSET Ports /\ "stop_http" \in SyncAt /\ FALSE \in BOOLEAN
        BY <4>1, PortTypes DEF TypeOK, SyncAt
      <4>3. sync' = [sync EXCEPT !.at = "stop_http", !.todo = T]
        BY <2>2, <3>1, <4>1
      <4>4. sync' \in SyncRec
        BY <1>1, <4>2, <4>3, SyncRecs
      <4>5. sync'.at = "stop_http"
        BY <1>1, <4>3 DEF SyncRec
      <4> QED BY <4>4, <4>5 DEF SyncStarts
    <3>2. CASE sync.at = "stop_http"
      <4>1. PICK T : T = {p \in Ports : sync.tcp[p] # NoUid}
        OBVIOUS
      <4>2. T \in SUBSET Ports /\ "start_tcp" \in SyncAt /\ FALSE \in BOOLEAN
        BY <4>1 DEF SyncAt
      <4>3. sync' = [sync EXCEPT !.at = "start_tcp", !.todo = T]
        BY <2>2, <3>2, <4>1
      <4>4. sync' \in SyncRec
        BY <1>1, <4>2, <4>3, SyncRecs
      <4>5. sync'.todo = T /\ sync'.tcp = sync.tcp
        BY <1>1, <4>3 DEF SyncRec
      <4> QED BY <4>1, <4>4, <4>5 DEF SyncStarts
    <3>3. CASE sync.at = "start_tcp"
      <4>1. PICK T : T = sync.http
        OBVIOUS
      <4>2. T \in SUBSET Ports /\ "start_http" \in SyncAt /\ FALSE \in BOOLEAN
        BY <1>1, <4>1 DEF SyncAt
      <4>3. sync' = [sync EXCEPT !.at = "start_http", !.todo = T]
        BY <2>2, <3>3, <4>1
      <4>4. sync' \in SyncRec
        BY <1>1, <4>2, <4>3, SyncRecs
      <4>5. sync'.at = "start_http"
        BY <1>1, <4>3 DEF SyncRec
      <4> QED BY <4>4, <4>5 DEF SyncStarts
    <3>4. CASE sync.at = "start_http"
      <4>1. NoSync \in SyncRec /\ NoSync.at = "idle"
        BY DEF NoSync, SyncRec, SyncAt
      <4> QED BY <2>2, <3>4, <4>1 DEF SyncStarts
    <3> QED BY <2>2, <3>1, <3>2, <3>3, <3>4
  <2> QED BY <1>1, <2>1, <2>3, OnlyQueues DEF Grows, lockVars
<1>4. ASSUME NEW p \in Ports, SyncPort(p) PROVE PortsInv'
  <2>1. /\ sync' = [sync EXCEPT !.todo = @ \ {p}, !.busy = TRUE] /\ p \in sync.todo
        /\ UNCHANGED <<links, netVars, tcp_at, uvi_at, booting, calm>>
    BY <1>4 DEF SyncPort
  <2>2. sync' \in SyncRec
    <3>1. sync.todo \ {p} \in SUBSET Ports /\ TRUE \in BOOLEAN /\ "idle" \in SyncAt
      BY <1>1 DEF SyncAt
    <3> QED BY <1>1, <2>1, <3>1, SyncRecs
  <2>3. sync'.at = sync.at /\ sync'.tcp = sync.tcp /\ sync'.todo \subseteq sync.todo
    BY <1>1, <2>1 DEF SyncRec
  <2>4. SyncStarts'
    BY <2>3 DEF PortsInv, SyncStarts
  <2> QED BY <1>1, <1>4, <2>1, <2>2, <2>4, SyncPortQueues, OnlyQueues
<1> QED
  BY <1>2, <1>3, <1>4 DEF Sync

(* A socket that is neither of a server changes hands.                      *)
LEMMA OthersKeep ==
  ASSUME PortsInv, NEW p \in Ports, UvicornExits(p) \/ OtherProgram(p) \/ StoppedServer(p)
  PROVE  PortsInv'
<1>1. /\ UNCHANGED <<links, tcp_servers, uvicorn_servers, port_errors, late,
                     tcp_lock, tcp_at, uvi_lock, uvi_at, sync, booting>>
      /\ calm' \in BOOLEAN /\ stopping' \subseteq Ports
  BY PortTypes DEF UvicornExits, OtherProgram, StoppedServer, lockVars, lateVars, TypeOK
<1>2. \/ UNCHANGED sock
      \/ /\ sock[p] \in {"dying", "free", "other"}
         /\ \E s \in {"free", "other", "dying"} : sock' = [sock EXCEPT ![p] = s]
  BY DEF UvicornExits, OtherProgram, StoppedServer
<1>4. /\ sock' \in [Ports -> {"free", "tcp", "http", "dying", "other"}]
      /\ \A q \in Ports : /\ sock'[q] = "http" <=> sock[q] = "http"
                          /\ sock'[q] = "tcp" <=> sock[q] = "tcp"
  BY <1>2, PortTypes DEF TypeOK
<1>5. UviHolder' /\ SlowServers'
  <2>1. uvi_at \in {"await", "bound", "died"} => Head(uvi_lock).port \in Ports
    BY PortTypes DEF PortsInv, UviHolder, TypeOK
  <2>2. UviHolder'
    BY <1>1, <1>4, <2>1 DEF PortsInv, UviHolder, Holds
  <2> QED BY <1>1, <1>4, <2>2 DEF PortsInv, SlowServers
<1>6. RegistryMatchesSockets'
  BY <1>1, <1>4 DEF PortsInv, RegistryMatchesSockets, Holds
<1>7. TypeOK' /\ tcp_lock' \in Seq(TcpJob) /\ SyncStarts'
  BY <1>1, <1>4, PortTypes DEF PortsInv, TypeOK, SyncStarts
<1> QED
  BY <1>5, <1>6, <1>7 DEF PortsInv

(* A late server binds, or fails: no holder of the lock is at its port.     *)
LEMMA SlowServerKeeps ==
  ASSUME PortsInv, NEW p \in Ports, SlowServer(p) PROVE PortsInv'
<1>1. /\ UNCHANGED <<links, tcp_servers, uvicorn_servers, port_errors, stopping, calm,
                     tcp_lock, tcp_at, uvi_lock, uvi_at, sync, booting>>
      /\ late[p] = "starting"
  BY DEF SlowServer, lockVars
<1>2. p \in uvicorn_servers /\ sock[p] # "http"
  BY <1>1 DEF PortsInv, SlowServers
<1>3. \/ sock[p] = "free" /\ sock' = [sock EXCEPT ![p] = "http"] /\ late' = [late EXCEPT ![p] = "no"]
      \/ UNCHANGED sock /\ late' = [late EXCEPT ![p] = "failed"]
  BY DEF SlowServer
<1>4. /\ sock' \in [Ports -> {"free", "tcp", "http", "dying", "other"}]
      /\ late' \in [Ports -> {"no", "starting", "failed"}]
      /\ sock'[p] = "http" <=> late'[p] = "no"
      /\ sock'[p] = "tcp" <=> sock[p] = "tcp"
      /\ \A q \in Ports \ {p} : sock'[q] = sock[q] /\ late'[q] = late[q]
  <2>1. /\ sock \in [Ports -> {"free", "tcp", "http", "dying", "other"}]
        /\ late \in [Ports -> {"no", "starting", "failed"}]
    BY PortTypes DEF TypeOK
  <2>2. CASE sock[p] = "free" /\ sock' = [sock EXCEPT ![p] = "http"] /\ late' = [late EXCEPT ![p] = "no"]
    BY <2>1, <2>2
  <2>3. CASE UNCHANGED sock /\ late' = [late EXCEPT ![p] = "failed"]
    BY <1>2, <2>1, <2>3
  <2> QED BY <1>3, <2>2, <2>3
<1>5. UviHolder'
  <2>1. uvi_at \in {"await", "bound", "died"} => Head(uvi_lock).port \in Ports \ {p}
    BY <1>1, PortTypes DEF PortsInv, UviHolder, TypeOK
  <2> QED BY <1>1, <1>4, <2>1 DEF PortsInv, UviHolder, Holds
<1>6. SlowServers'
  BY <1>1, <1>2, <1>4 DEF PortsInv, SlowServers
<1>7. RegistryMatchesSockets'
  BY <1>1, <1>2, <1>4 DEF PortsInv, RegistryMatchesSockets, Holds
<1>8. TypeOK' /\ tcp_lock' \in Seq(TcpJob) /\ SyncStarts'
  BY <1>1, <1>4, PortTypes DEF PortsInv, TypeOK, SyncStarts
<1> QED
  BY <1>5, <1>6, <1>7, <1>8 DEF PortsInv

(* A new process has no listener and no coroutine.                          *)
LEMMA RestartKeeps == ASSUME PortsInv, Restart PROVE PortsInv'
<1>1. << >> \in Seq(Job) /\ << >> \in Seq(TcpJob)
  BY EmptySeq
<1>2. sync' \in SyncRec /\ sync'.at = "stop_tcp"
  BY DEF Restart, SyncBegins, SyncRec, SyncAt, NeededHttp
<1>3. /\ tcp_lock' = << >> /\ uvi_lock' = << >> /\ tcp_at' = "begin" /\ uvi_at' = "begin"
      /\ uvicorn_servers' = {} /\ port_errors' = {} /\ booting' = TRUE /\ calm' = TRUE
      /\ links' = links
      /\ tcp_servers' = [p \in Ports |-> NoUid]
      /\ sock' = [p \in Ports |-> IF sock[p] = "other" THEN "other" ELSE "free"]
      /\ late' = [p \in Ports |-> "no"] /\ stopping' = {}
  BY DEF Restart
<1>4. /\ late' \in [Ports -> {"no", "starting", "failed"}] /\ \A p \in Ports : late'[p] = "no"
      /\ tcp_servers' \in [Ports -> Uids \union {NoUid}]
      /\ sock' \in [Ports -> {"free", "tcp", "http", "dying", "other"}]
      /\ \A p \in Ports : tcp_servers'[p] = NoUid /\ sock'[p] \in {"other", "free"}
  BY <1>3
<1>5. TypeOK'
  BY <1>1, <1>2, <1>3, <1>4, PortTypes DEF TypeOK, SyncRec
<1>6. SyncStarts' /\ UviHolder' /\ SlowServers' /\ RegistryMatchesSockets'
  BY <1>2, <1>3, <1>4 DEF SyncStarts, UviHolder, SlowServers, RegistryMatchesSockets
<1> QED
  BY <1>1, <1>3, <1>5, <1>6 DEF PortsInv

LEMMA PortsInductive == ASSUME PortsAssumption, PortsInv, [Next]_vars PROVE PortsInv'
<1>1. CASE UNCHANGED vars
  BY <1>1 DEF vars, netVars, lateVars, lockVars, PortsInv, TypeOK, SyncStarts, UviHolder, SlowServers,
              RegistryMatchesSockets, Holds
<1>2. NoUid \notin Uids
  BY DEF PortsAssumption
<1> QED
  BY <1>1, <1>2, HandlersKeep, TcpKeeps, UviKeeps, SyncKeeps, OthersKeep, SlowServerKeeps,
     RestartKeeps DEF Next

(* For all tables, ports and queues: outside of a listener's own start a    *)
(* port is registered exactly when this process listens on it, in the       *)
(* registry of the right kind (listeners_status, port_in_use_by_us); only a *)
(* uvicorn server that was slower than its start's wait may be registered   *)
(* without listening.                                                       *)
THEOREM RegistriesTellTheTruth ==
  ASSUME PortsAssumption PROVE Spec => []RegistryMatchesSockets
<1>1. Init => PortsInv
  BY PortsInitially DEF PortsAssumption
<1>2. PortsInv /\ [Next]_vars => PortsInv'
  BY PortsInductive
<1>3. PortsInv => RegistryMatchesSockets
  BY DEF PortsInv
<1> QED
  BY <1>1, <1>2, <1>3, PTL DEF Spec
------------------------------------------------------------------------------
(* A lock that nobody holds is at its beginning.                            *)
FreeLocks == (tcp_lock = << >> => tcp_at = "begin") /\ (uvi_lock = << >> => uvi_at = "begin")

(* Beside a sync_all that nothing overlaps there is no coroutine but its    *)
(* own, one at a time, for a port of its phase.                             *)
SyncAlone ==
  IF sync.busy
  THEN \E p \in Ports :
         \/ /\ sync.at = "stop_tcp"
            /\ tcp_lock = <<StopJob(p, "sync")>> /\ uvi_lock = << >>
         \/ /\ sync.at = "stop_http"
            /\ tcp_lock = << >> /\ uvi_lock = <<StopJob(p, "sync")>>
         \/ /\ sync.at = "start_tcp" /\ sync.tcp[p] # NoUid
            /\ tcp_lock = <<StartJob(p, sync.tcp[p], "sync")>> /\ uvi_lock = << >>
         \/ /\ sync.at = "start_http" /\ p \in sync.http
            /\ tcp_lock = << >> /\ uvi_lock = <<StartJob(p, NoUid, "sync")>>
  ELSE tcp_lock = << >> /\ uvi_lock = << >>

(* The port a coroutine is at, and the ports the phase has still to see to. *)
AtWork(lock) == IF lock = << >> THEN {} ELSE {Head(lock).port}
Pending == sync.todo \union AtWork(tcp_lock) \union AtWork(uvi_lock)

TcpTried(p) == tcp_servers[p] # NoUid \/ p \in port_errors

(* What the phases of such a sync_all have done, and still have to do.      *)
SyncWants == NeededTcp(sync.tcp) /\ sync.http = NeededHttp

TcpStopped ==
  IF sync.at = "stop_tcp"
  THEN \A p \in Ports : tcp_servers[p] # NoUid /\ sync.tcp[p] = NoUid
                          => p \in sync.todo \/ (p \in AtWork(tcp_lock) /\ tcp_at # "await")
  ELSE \A p \in Ports : tcp_servers[p] # NoUid => sync.tcp[p] # NoUid

HttpStopped ==
  /\ sync.at = "stop_http" => uvicorn_servers \ sync.http \subseteq Pending
  /\ sync.at \in {"start_tcp", "start_http"} => uvicorn_servers \subseteq sync.http

TcpStarted ==
  /\ sync.at = "start_tcp" =>
       \A p \in Ports : sync.tcp[p] # NoUid => p \in Pending \/ TcpTried(p)
  /\ sync.at = "start_http" => \A p \in Ports : sync.tcp[p] # NoUid => TcpTried(p)

HttpStarted ==
  sync.at = "start_http" =>
    /\ sync.todo \subseteq sync.http
    /\ sync.http \subseteq Pending \union uvicorn_servers \union port_errors

Booted == booting => \A p \in Ports : tcp_servers[p] \in {NoUid, sync.tcp[p]}

SyncDone == SyncWants /\ TcpStopped /\ HttpStopped /\ TcpStarted /\ HttpStarted /\ Booted

CalmInv ==
  /\ DistinctPorts(links) /\ FreeLocks
  /\ calm /\ sync.at # "idle" => SyncAlone /\ SyncDone
------------------------------------------------------------------------------
(* No two links have one dedicated port.                                    *)
LEMMA DistinctKept ==
  ASSUME PortsAssumption, PortsInv, DistinctPorts(links), [Next]_vars
  PROVE  DistinctPorts(links')
<1>1. links \in [Uids -> Link]
  BY PortTypes DEF TypeOK
(* One link gets a port that no other link of the table has. *)
<1>2. ASSUME NEW u \in Uids, NEW d, links' = [links EXCEPT ![u] = d],
             \/ ~d.present \/ d.port = Panel
             \/ links[u].present /\ d.port = links[u].port
             \/ \A v \in Uids \ {u} : links[v].present => links[v].port # d.port
      PROVE  DistinctPorts(links')
  <2>1. links'[u] = d /\ \A v \in Uids \ {u} : links'[v] = links[v]
    BY <1>1, <1>2
  <2>2. ASSUME NEW v \in Uids \ {u}, d.present, links[v].present, d.port = links[v].port, d.port # Panel
        PROVE  FALSE
    BY <1>2, <2>2 DEF DistinctPorts
  <2>3. ASSUME NEW v \in Uids, NEW w \in Uids, links'[v].present, links'[w].present,
               links'[v].port = links'[w].port, links'[v].port # Panel
        PROVE  v = w
    BY <2>1, <2>2, <2>3 DEF DistinctPorts
  <2> QED BY <2>3 DEF DistinctPorts
<1>3. ASSUME NEW u \in Uids, NEW k \in Kinds, create_link(u, k) PROVE DistinctPorts(links')
  <2>1. PICK p \in allocate_listen_port(k) :
          links' = [links EXCEPT ![u] = [present |-> TRUE, active |-> TRUE, kind |-> k, port |-> p]]
    BY <1>3 DEF create_link
  <2>2. p = Panel \/ \A v \in Uids : links[v].present => links[v].port # p
    BY DEF allocate_listen_port, LinkPorts
  <2>3. PICK d : d = [present |-> TRUE, active |-> TRUE, kind |-> k, port |-> p]
    OBVIOUS
  <2>4. d.port = p
    BY <2>3
  <2> QED BY <1>2, <2>1, <2>2, <2>3, <2>4
<1>4. ASSUME NEW u \in Uids, NEW a \in BOOLEAN, NEW p \in Ports \union {Panel}, update_link(u, a, p)
      PROVE  DistinctPorts(links')
  <2>1. PICK d : d = [links[u] EXCEPT !.active = a]
    OBVIOUS
  <2>2. d \in Link /\ [d EXCEPT !.port = p].port = p
    <3>1. links[u] \in Link
      BY <1>1
    <3>2. d \in Link
      BY <2>1, <3>1, LinkRecs
    <3> QED BY <3>2, LinkRecs
  <2>3. d.port = links[u].port /\ links[u].present
    BY <1>1, <1>4, <2>1 DEF update_link, Link
  <2>4. \/ links' = [links EXCEPT ![u] = d]
        \/ /\ links' = [links EXCEPT ![u] = [d EXCEPT !.port = p]]
           /\ p = Panel \/ p \notin LinkPorts(Uids \ {u})
    BY <1>4, <2>1 DEF update_link
  <2>5. p \notin LinkPorts(Uids \ {u}) => \A v \in Uids \ {u} : links[v].present => links[v].port # p
    BY DEF LinkPorts
  <2>6. CASE links' = [links EXCEPT ![u] = d]
    BY <1>2, <2>3, <2>6
  <2>7. CASE /\ links' = [links EXCEPT ![u] = [d EXCEPT !.port = p]]
             /\ p = Panel \/ p \notin LinkPorts(Uids \ {u})
    BY <1>2, <2>2, <2>5, <2>7
  <2> QED BY <2>4, <2>6, <2>7
<1>5. ASSUME NEW u \in Uids, delete_link(u) PROVE DistinctPorts(links')
  <2>1. links' = [links EXCEPT ![u] = NoLink] /\ ~NoLink.present
    BY <1>5 DEF delete_link, NoLink
  <2> QED BY <1>2, <2>1
<1>6. CASE backup_import
  BY <1>6 DEF backup_import, PortsAssumption
<1>7. CASE UNCHANGED links
  BY <1>7
<1>8. Handlers \/ UNCHANGED links
  <2>1. Tcp \/ Uvicorn => UNCHANGED links
    BY DEF Tcp, StartTcp, StartTcpEnds, StopTcp, StopTcpEnds, Uvicorn, StartUvicorn, ServeBinds,
           StartUvicornEnds, StopUvicorn
  <2>2. api_ports_resync \/ Sync \/ Restart => UNCHANGED links
    BY DEF api_ports_resync, Sync, SyncNextPhase, SyncPort, Restart
  <2>3. \A p \in Ports : SocketStep(p) => UNCHANGED links
    BY DEF SocketStep, SlowServer, StoppedServer, UvicornExits, OtherProgram
  <2> QED BY <2>1, <2>2, <2>3 DEF Next, SocketStep, vars
<1>9. CASE Handlers
  <2>1. CASE \E u \in Uids, k \in Kinds : create_link(u, k)
    BY <1>3, <2>1
  <2>2. CASE \E u \in Uids, a \in BOOLEAN, p \in Ports \union {Panel} : update_link(u, a, p)
    BY <1>4, <2>2
  <2>3. CASE \E u \in Uids : delete_link(u)
    BY <1>5, <2>3
  <2> QED BY <1>6, <1>9, <2>1, <2>2, <2>3 DEF Handlers
<1> QED
  BY <1>7, <1>8, <1>9

LEMMA GrowsEmpty ==
  ASSUME NEW S, NEW T, T \subseteq S, NEW a \in Seq(S), NEW b, Grows(a, b, T), b = << >>
  PROVE  a = << >>
BY GrowsTypes

LEMMA LastOne ==
  ASSUME NEW S, NEW s \in Seq(S), s # << >>, Tail(s) = << >>
  PROVE  Len(s) = 1
<1>1. Len(Tail(s)) = Len(s) - 1 /\ Len(s) \in Nat
  BY HeadTailProperties, LenProperties
<1>2. Len(<< >>) = 0
  OBVIOUS
<1>3. Len(Tail(s)) = 0
  BY <1>2, Zenon
<1> QED
  BY <1>1, <1>3

LEMMA FreeLocksKept ==
  ASSUME PortsAssumption, PortsInv, FreeLocks, [Next]_vars PROVE FreeLocks'
<1>1. tcp_lock \in Seq(Job) /\ uvi_lock \in Seq(Job) /\ TcpJob \subseteq Job
  BY PortTypes DEF TcpJob
<1>2. NoUid \notin Uids
  BY DEF PortsAssumption
<1>3. ASSUME UNCHANGED <<tcp_at, uvi_at>>, Grows(tcp_lock, tcp_lock', TcpJob),
             Grows(uvi_lock, uvi_lock', Job)
      PROVE  FreeLocks'
  <2>1. tcp_lock' = << >> => tcp_lock = << >>
    BY <1>1, <1>3, GrowsEmpty
  <2>2. uvi_lock' = << >> => uvi_lock = << >>
    BY <1>1, <1>3, GrowsEmpty
  <2> QED BY <1>3, <2>1, <2>2 DEF FreeLocks
<1>4. ASSUME tcp_lock # << >>, TcpDone \/ TcpAwait PROVE FreeLocks'
  <2>1. CASE TcpAwait
    BY <1>4, <2>1 DEF TcpAwait, FreeLocks
  <2>2. CASE TcpDone
    <3>1. uvi_at' = uvi_at /\ (uvi_lock' = << >> => uvi_lock = << >>)
      BY <1>1, <1>4, <2>2, TcpLeft, GrowsEmpty
    <3>2. tcp_lock' = << >> => tcp_at' = "begin"
      BY <1>1, <1>4, <2>2, LastOne DEF TcpDone
    <3> QED BY <3>1, <3>2 DEF FreeLocks
  <2> QED BY <1>4, <2>1, <2>2
<1>5. ASSUME uvi_lock # << >>, UviDone \/ \E at : UviAwait(at) PROVE FreeLocks'
  <2>1. CASE \E at : UviAwait(at)
    BY <1>5, <2>1 DEF UviAwait, FreeLocks
  <2>2. CASE UviDone
    BY <1>1, <1>5, <2>2, LastOne DEF UviDone, FreeLocks
  <2> QED BY <1>5, <2>1, <2>2
<1>6. CASE Handlers
  BY <1>3, <1>6, HandlersQueue
<1>7. CASE Tcp
  BY <1>4, <1>7 DEF Tcp, StartTcp, StartTcpEnds, StopTcp, StopTcpEnds, Holds
<1>8. CASE Uvicorn
  BY <1>5, <1>8 DEF Uvicorn, StartUvicorn, ServeBinds, StartUvicornEnds, StopUvicorn, Holds
<1>9. ASSUME NEW p \in Ports, SyncPort(p) PROVE FreeLocks'
  BY <1>2, <1>3, <1>9, SyncPortQueues DEF SyncPort
<1>10. CASE UNCHANGED lockVars
  BY <1>10 DEF lockVars, FreeLocks
<1>11. CASE Restart
  BY <1>11 DEF Restart, FreeLocks
<1>12. CASE api_ports_resync \/ SyncNextPhase \/ UNCHANGED vars
            \/ \E p \in Ports : SocketStep(p)
  BY <1>10, <1>12 DEF api_ports_resync, SyncNextPhase, vars, SocketStep, SlowServer, StoppedServer,
                      UvicornExits, OtherProgram
<1> QED
  BY <1>6, <1>7, <1>8, <1>9, <1>11, <1>12 DEF Next, Sync, SocketStep

------------------------------------------------------------------------------
(* A sync_all that nothing overlaps: whose coroutine is at a lock.          *)
LEMMA OneJob ==
  ASSUME NEW j
  PROVE  /\ <<j>> # << >> /\ Head(<<j>>) = j /\ Tail(<<j>>) = << >> /\ Len(<<j>>) = 1
OBVIOUS

LEMMA JobFields ==
  ASSUME NEW p, NEW u, NEW w
  PROVE  /\ StartJob(p, u, w).op = "start" /\ StartJob(p, u, w).port = p
         /\ StartJob(p, u, w).uid = u /\ StartJob(p, u, w).by = w
         /\ StopJob(p, w).op = "stop" /\ StopJob(p, w).port = p /\ StopJob(p, w).by = w
BY DEF StartJob, StopJob

LEMMA BusyFields ==
  ASSUME NEW s \in SyncRec, NEW b \in BOOLEAN, NEW r, r = [s EXCEPT !.busy = b]
  PROVE  /\ r.busy = b /\ r.at = s.at /\ r.tcp = s.tcp /\ r.http = s.http /\ r.todo = s.todo
BY DEF SyncRec

LEMMA TcpAlone ==
  ASSUME SyncAlone, tcp_lock # << >>
  PROVE  /\ sync.busy /\ uvi_lock = << >>
         /\ Tail(tcp_lock) = << >> /\ Len(tcp_lock) = 1
         /\ Head(tcp_lock).by = "sync" /\ Head(tcp_lock).port \in Ports
         /\ \/ sync.at = "stop_tcp" /\ Head(tcp_lock).op = "stop"
            \/ /\ sync.at = "start_tcp" /\ Head(tcp_lock).op = "start"
               /\ Head(tcp_lock).uid = sync.tcp[Head(tcp_lock).port]
               /\ sync.tcp[Head(tcp_lock).port] # NoUid
<1>1. sync.busy
  BY DEF SyncAlone
<1>2. PICK p \in Ports :
        \/ sync.at = "stop_tcp" /\ tcp_lock = <<StopJob(p, "sync")>> /\ uvi_lock = << >>
        \/ /\ sync.at = "start_tcp" /\ sync.tcp[p] # NoUid
           /\ tcp_lock = <<StartJob(p, sync.tcp[p], "sync")>> /\ uvi_lock = << >>
  BY <1>1 DEF SyncAlone
<1>3. PICK j : /\ tcp_lock = <<j>>
               /\ \/ sync.at = "stop_tcp" /\ j = StopJob(p, "sync")
                  \/ sync.at = "start_tcp" /\ j = StartJob(p, sync.tcp[p], "sync")
  BY <1>2
<1>4. tcp_lock # << >> /\ Head(tcp_lock) = j /\ Tail(tcp_lock) = << >> /\ Len(tcp_lock) = 1
  BY <1>3, OneJob
<1>5. /\ j.by = "sync" /\ j.port = p
      /\ \/ sync.at = "stop_tcp" /\ j.op = "stop"
         \/ sync.at = "start_tcp" /\ j.op = "start" /\ j.uid = sync.tcp[p]
  BY <1>3, JobFields
<1>6. uvi_lock = << >> /\ (sync.at = "start_tcp" => sync.tcp[p] # NoUid)
  BY <1>2
<1> QED
  BY <1>1, <1>4, <1>5, <1>6

LEMMA UviAlone ==
  ASSUME SyncAlone, uvi_lock # << >>
  PROVE  /\ sync.busy /\ tcp_lock = << >>
         /\ Tail(uvi_lock) = << >> /\ Len(uvi_lock) = 1
         /\ Head(uvi_lock).by = "sync" /\ Head(uvi_lock).port \in Ports
         /\ \/ sync.at = "stop_http" /\ Head(uvi_lock).op = "stop"
            \/ /\ sync.at = "start_http" /\ Head(uvi_lock).op = "start"
               /\ Head(uvi_lock).port \in sync.http
<1>1. sync.busy
  BY DEF SyncAlone
<1>2. PICK p \in Ports :
        \/ sync.at = "stop_http" /\ uvi_lock = <<StopJob(p, "sync")>> /\ tcp_lock = << >>
        \/ /\ sync.at = "start_http" /\ p \in sync.http
           /\ uvi_lock = <<StartJob(p, NoUid, "sync")>> /\ tcp_lock = << >>
  BY <1>1 DEF SyncAlone
<1>3. PICK j : /\ uvi_lock = <<j>>
               /\ \/ sync.at = "stop_http" /\ j = StopJob(p, "sync")
                  \/ sync.at = "start_http" /\ j = StartJob(p, NoUid, "sync")
  BY <1>2
<1>4. uvi_lock # << >> /\ Head(uvi_lock) = j /\ Tail(uvi_lock) = << >> /\ Len(uvi_lock) = 1
  BY <1>3, OneJob
<1>5. /\ j.by = "sync" /\ j.port = p
      /\ \/ sync.at = "stop_http" /\ j.op = "stop"
         \/ sync.at = "start_http" /\ j.op = "start"
  BY <1>3, JobFields
<1>6. tcp_lock = << >> /\ (sync.at = "start_http" => p \in sync.http)
  BY <1>2
<1> QED
  BY <1>1, <1>4, <1>5, <1>6

(* Its coroutine waits with the lock, or leaves it.                         *)
SyncSame ==
  /\ sync'.at = sync.at /\ sync'.tcp = sync.tcp /\ sync'.http = sync.http /\ sync'.todo = sync.todo

LEMMA TcpAloneStep ==
  ASSUME PortsInv, SyncAlone, tcp_lock # << >>, TcpDone \/ TcpAwait
  PROVE  /\ SyncAlone' /\ SyncSame
         /\ AtWork(tcp_lock) = {Head(tcp_lock).port} /\ AtWork(uvi_lock) = {}
         /\ AtWork(uvi_lock)' = {}
         /\ TcpDone => AtWork(tcp_lock)' = {}
         /\ TcpAwait => AtWork(tcp_lock)' = {Head(tcp_lock).port} /\ tcp_at' = "await"
<1>1. CASE TcpAwait
  BY <1>1, TcpAlone DEF TcpAwait, TcpDone, SyncAlone, SyncSame, AtWork
<1>2. CASE TcpDone
  <2>1. tcp_lock' = << >> /\ uvi_lock' = << >> /\ tcp_at' = "begin"
        /\ sync' = [sync EXCEPT !.busy = FALSE]
    BY <1>2, TcpAlone DEF TcpDone, SyncResumes
  <2>2. SyncSame /\ sync'.busy = FALSE
    BY <2>1, PortTypes, BusyFields DEF SyncSame
  <2> QED BY <2>1, <2>2, TcpAlone DEF SyncAlone, AtWork, TcpAwait
<1> QED
  BY <1>1, <1>2

LEMMA UviAloneStep ==
  ASSUME PortsInv, SyncAlone, uvi_lock # << >>, UviDone \/ \E at : UviAwait(at)
  PROVE  /\ SyncAlone' /\ SyncSame
         /\ AtWork(uvi_lock) = {Head(uvi_lock).port} /\ AtWork(tcp_lock) = {}
         /\ AtWork(tcp_lock)' = {}
         /\ UviDone => AtWork(uvi_lock)' = {}
         /\ (\E at : UviAwait(at)) => AtWork(uvi_lock)' = {Head(uvi_lock).port}
<1>1. CASE \E at : UviAwait(at)
  <2>1. UNCHANGED <<tcp_lock, uvi_lock, sync>>
    BY <1>1 DEF UviAwait
  <2>2. ~UviDone
    BY <2>1, UviAlone DEF UviDone
  <2> QED BY <1>1, <2>1, <2>2, UviAlone DEF SyncAlone, SyncSame, AtWork
<1>2. CASE UviDone
  <2>1. tcp_lock' = << >> /\ uvi_lock' = << >> /\ sync' = [sync EXCEPT !.busy = FALSE]
    BY <1>2, UviAlone DEF UviDone, SyncResumes
  <2>2. SyncSame /\ sync'.busy = FALSE
    BY <2>1, PortTypes, BusyFields DEF SyncSame
  <2>3. ~ \E at : UviAwait(at)
    BY <2>1, UviAlone DEF UviAwait
  <2> QED BY <2>1, <2>2, <2>3, UviAlone DEF SyncAlone, AtWork
<1> QED
  BY <1>1, <1>2

(* Two links want one port for the panel's transports and for raw TCP never. *)
LEMMA OneWant ==
  ASSUME DistinctPorts(links), Panel \notin Ports, SyncWants, NEW p \in sync.http
  PROVE  p \in Ports /\ sync.tcp[p] = NoUid
<1>1. PICK u \in Uids : Wants(links, u, "http", p) /\ p \in Ports
  BY DEF SyncWants, NeededHttp
<1>2. {v \in Uids : Wants(links, v, "tcp", p)} = {}
  BY <1>1 DEF Wants, DistinctPorts
<1> QED
  BY <1>1, <1>2 DEF SyncWants, NeededTcp

LEMMA SyncWantsSame ==
  ASSUME SyncWants, UNCHANGED links, sync'.tcp = sync.tcp, sync'.http = sync.http
  PROVE  SyncWants'
BY DEF SyncWants, NeededTcp, NeededHttp, Wants

------------------------------------------------------------------------------
(* A step of the coroutine that sync_all waits for.                         *)
LEMMA TcpDoes ==
  ASSUME PortsInv, CalmInv, calm, sync.at # "idle", Tcp PROVE SyncAlone' /\ SyncDone'
<1> DEFINE p == Head(tcp_lock).port
<1>1. /\ tcp_lock # << >> /\ (TcpDone \/ TcpAwait)
      /\ UNCHANGED <<links, uvicorn_servers, booting, calm>>
  BY DEF Tcp, StartTcp, StartTcpEnds, StopTcp, StopTcpEnds, Holds, netVars
<1>2. SyncAlone /\ SyncDone
  BY DEF CalmInv
<1>3. /\ SyncAlone' /\ SyncSame
      /\ AtWork(tcp_lock) = {p} /\ AtWork(uvi_lock) = {} /\ AtWork(uvi_lock)' = {}
      /\ TcpDone => AtWork(tcp_lock)' = {}
      /\ TcpAwait => AtWork(tcp_lock)' = {p} /\ tcp_at' = "await"
  BY <1>1, <1>2, TcpAloneStep
<1>4. /\ p \in Ports
      /\ \/ sync.at = "stop_tcp" /\ Head(tcp_lock).op = "stop"
         \/ /\ sync.at = "start_tcp" /\ Head(tcp_lock).op = "start"
            /\ Head(tcp_lock).uid = sync.tcp[p] /\ sync.tcp[p] # NoUid
  BY <1>1, <1>2, TcpAlone
<1>5. tcp_servers \in [Ports -> Uids \union {NoUid}]
  BY PortTypes DEF TypeOK
<1>6. SyncWants'
  BY <1>1, <1>2, <1>3, SyncWantsSame DEF SyncDone, SyncSame
<1> HIDE DEF p
<1>7. CASE sync.at = "stop_tcp"
  <2>1. Head(tcp_lock).op = "stop"
    BY <1>4, <1>7
  <2>2. \/ StopTcp
        \/ StopTcpEnds
    BY <2>1 DEF Tcp, StartTcp, StartTcpEnds, Holds
  <2>3. \A q \in Ports : /\ tcp_servers'[q] \in {NoUid, tcp_servers[q]}
                         /\ q = p /\ StopTcp => tcp_servers'[q] = NoUid
    BY <1>4, <1>5, <2>2 DEF StopTcp, StopTcpEnds, netVars, p
  <2>4. StopTcpEnds => tcp_at = "await"
    BY DEF StopTcpEnds
  <2>5. TcpStopped'
    <3>1. ASSUME NEW q \in Ports, tcp_servers'[q] # NoUid, sync.tcp[q] = NoUid PROVE q \in sync.todo
      <4>1. q \in sync.todo \/ (q = p /\ tcp_at # "await")
        BY <1>2, <1>3, <1>7, <2>3, <3>1 DEF SyncDone, TcpStopped
      <4> QED BY <2>2, <2>3, <2>4, <3>1, <4>1
    <3> QED BY <1>3, <1>7, <3>1 DEF TcpStopped, SyncSame
  <2>6. Booted'
    BY <1>1, <1>2, <1>3, <2>3 DEF SyncDone, Booted, SyncSame
  <2>7. HttpStopped' /\ TcpStarted' /\ HttpStarted'
    BY <1>3, <1>7 DEF HttpStopped, TcpStarted, HttpStarted, SyncSame
  <2> QED BY <1>3, <1>6, <2>5, <2>6, <2>7 DEF SyncDone
<1>8. CASE sync.at = "start_tcp"
  <2>1. Head(tcp_lock).op = "start" /\ Head(tcp_lock).uid = sync.tcp[p] /\ sync.tcp[p] # NoUid
    BY <1>4, <1>8
  <2>2. \/ StartTcp
        \/ StartTcpEnds
    BY <2>1 DEF Tcp, StopTcp, StopTcpEnds, Holds
  <2>3. \/ UNCHANGED <<tcp_servers, port_errors>> /\ (tcp_servers[p] # NoUid \/ TcpAwait)
        \/ tcp_servers' = tcp_servers /\ port_errors' = port_errors \union {p}
        \/ /\ tcp_servers' = [tcp_servers EXCEPT ![p] = sync.tcp[p]]
           /\ port_errors' = port_errors \ {p}
    BY <2>1, <2>2 DEF StartTcp, StartTcpEnds, p
  <2>4. \A q \in Ports : \/ tcp_servers'[q] = tcp_servers[q]
                         \/ q = p /\ tcp_servers'[q] = sync.tcp[p]
    BY <1>4, <1>5, <2>3
  <2>5. TcpAwait \/ tcp_servers'[p] # NoUid \/ p \in port_errors'
    BY <1>4, <1>5, <2>1, <2>3
  <2>6. ASSUME NEW q \in Ports, TcpTried(q) PROVE TcpTried(q)'
    <3>1. CASE q = p
      <4>1. CASE UNCHANGED <<tcp_servers, port_errors>>
        BY <2>6, <4>1 DEF TcpTried
      <4>2. CASE tcp_servers' = tcp_servers /\ port_errors' = port_errors \union {p}
        BY <3>1, <4>2 DEF TcpTried
      <4>3. CASE tcp_servers' = [tcp_servers EXCEPT ![p] = sync.tcp[p]]
        BY <1>4, <1>5, <2>1, <3>1, <4>3 DEF TcpTried
      <4> QED BY <2>3, <4>1, <4>2, <4>3
    <3>2. CASE q # p
      <4>1. q \in port_errors => q \in port_errors'
        BY <2>3, <3>2
      <4> QED BY <2>4, <2>6, <3>2, <4>1 DEF TcpTried
    <3> QED BY <3>1, <3>2
  <2>7. TcpStarted'
    <3>1. ASSUME NEW q \in Ports, sync.tcp[q] # NoUid PROVE q \in Pending' \/ TcpTried(q)'
      <4>1. q \in sync.todo \union {p} \/ TcpTried(q)
        BY <1>2, <1>3, <1>8, <3>1 DEF SyncDone, TcpStarted, Pending
      <4>2. q \in sync.todo => q \in Pending'
        BY <1>3 DEF Pending, SyncSame
      <4>3. TcpAwait => p \in Pending'
        BY <1>3 DEF Pending
      <4>4. CASE q = p
        BY <2>5, <4>3, <4>4 DEF TcpTried
      <4>5. CASE TcpTried(q)
        BY <2>6, <4>5
      <4> QED BY <4>1, <4>2, <4>4, <4>5
    <3> QED BY <1>3, <1>8, <3>1 DEF TcpStarted, SyncSame
  <2>8. TcpStopped' /\ Booted'
    <3>1. \A q \in Ports : tcp_servers'[q] # NoUid => sync.tcp[q] # NoUid
      BY <1>2, <1>8, <2>1, <2>4 DEF SyncDone, TcpStopped
    <3>2. booting => \A q \in Ports : tcp_servers'[q] \in {NoUid, sync.tcp[q]}
      BY <1>2, <2>4 DEF SyncDone, Booted
    <3> QED BY <1>1, <1>3, <1>8, <3>1, <3>2 DEF TcpStopped, Booted, SyncSame
  <2>9. HttpStopped' /\ HttpStarted'
    BY <1>1, <1>2, <1>3, <1>8 DEF SyncDone, HttpStopped, HttpStarted, SyncSame
  <2> QED BY <1>3, <1>6, <2>7, <2>8, <2>9 DEF SyncDone
<1> QED
  BY <1>4, <1>7, <1>8

LEMMA UvicornDoes ==
  ASSUME PortsInv, Panel \notin Ports, CalmInv, calm, sync.at # "idle", Uvicorn
  PROVE  SyncAlone' /\ SyncDone'
<1> DEFINE p == Head(uvi_lock).port
<1>1. /\ uvi_lock # << >> /\ (UviDone \/ \E at : UviAwait(at))
      /\ UNCHANGED <<links, tcp_servers, booting, calm>>
  BY DEF Uvicorn, StartUvicorn, ServeBinds, StartUvicornEnds, StopUvicorn, Holds
<1>2. SyncAlone /\ SyncDone
  BY DEF CalmInv
<1>3. /\ SyncAlone' /\ SyncSame
      /\ AtWork(uvi_lock) = {p} /\ AtWork(tcp_lock) = {} /\ AtWork(tcp_lock)' = {}
      /\ UviDone => AtWork(uvi_lock)' = {}
      /\ (\E at : UviAwait(at)) => AtWork(uvi_lock)' = {p}
  BY <1>1, <1>2, UviAloneStep
<1>4. /\ p \in Ports
      /\ \/ sync.at = "stop_http" /\ Head(uvi_lock).op = "stop"
         \/ sync.at = "start_http" /\ Head(uvi_lock).op = "start" /\ p \in sync.http
  BY <1>1, <1>2, UviAlone
<1>5. /\ SyncWants'
      /\ Booted' /\ TcpStopped'
  <2>1. SyncWants'
    BY <1>1, <1>2, <1>3, SyncWantsSame DEF SyncDone, SyncSame
  <2>2. TcpStopped' /\ Booted'
    BY <1>1, <1>2, <1>3, <1>4 DEF SyncDone, TcpStopped, Booted, SyncSame
  <2> QED BY <2>1, <2>2
<1> HIDE DEF p
<1>6. CASE sync.at = "stop_http"
  <2>1. StopUvicorn
    BY <1>4, <1>6 DEF Uvicorn, StartUvicorn, ServeBinds, StartUvicornEnds, Holds
  <2>2. uvicorn_servers' = uvicorn_servers \ {p}
    BY <2>1 DEF StopUvicorn, p
  <2>3. uvicorn_servers \ sync.http \subseteq sync.todo \union {p}
    BY <1>2, <1>3, <1>6 DEF SyncDone, HttpStopped, Pending
  <2>4. HttpStopped'
    BY <1>3, <1>6, <2>2, <2>3 DEF HttpStopped, Pending, SyncSame
  <2>5. TcpStarted' /\ HttpStarted'
    BY <1>3, <1>6 DEF TcpStarted, HttpStarted, SyncSame
  <2> QED BY <1>3, <1>5, <2>4, <2>5 DEF SyncDone
<1>7. CASE sync.at = "start_http"
  <2>1. p \in sync.http /\ Head(uvi_lock).op = "start"
    BY <1>4, <1>7
  <2>2. StartUvicorn \/ ServeBinds \/ StartUvicornEnds
    BY <2>1 DEF Uvicorn, StopUvicorn, Holds
  <2>3. uvi_at \in {"await", "bound", "died"} => p \in uvicorn_servers
    BY DEF PortsInv, UviHolder, p
  <2>4. /\ uvicorn_servers' \subseteq uvicorn_servers \union {p}
        /\ uvicorn_servers \ {p} \subseteq uvicorn_servers'
        /\ port_errors \ {p} \subseteq port_errors'
    BY <2>2, <2>3 DEF StartUvicorn, ServeBinds, StartUvicornEnds, p
  <2>5. p \in uvicorn_servers' \union port_errors' \/ (\E at : UviAwait(at))
    BY <2>2, <2>3 DEF StartUvicorn, ServeBinds, StartUvicornEnds, p
  <2>6. HttpStarted'
    <3>1. sync.http \subseteq sync.todo \union {p} \union uvicorn_servers \union port_errors
      BY <1>2, <1>3, <1>7 DEF SyncDone, HttpStarted, Pending
    <3>2. sync.http \subseteq Pending' \union uvicorn_servers' \union port_errors'
      BY <1>3, <2>4, <2>5, <3>1 DEF Pending, SyncSame
    <3> QED BY <1>2, <1>3, <1>7, <3>2 DEF SyncDone, HttpStarted, SyncSame
  <2>7. HttpStopped'
    BY <1>2, <1>3, <1>7, <2>1, <2>4 DEF SyncDone, HttpStopped, SyncSame
  <2>8. TcpStarted'
    <3>1. sync.tcp[p] = NoUid
      BY <1>2, <2>1, OneWant DEF CalmInv, SyncDone
    <3>2. \A q \in Ports : sync.tcp[q] # NoUid => TcpTried(q)'
      BY <1>1, <1>2, <1>7, <2>4, <3>1 DEF SyncDone, TcpStarted, TcpTried
    <3> QED BY <1>3, <1>7, <3>2 DEF TcpStarted, SyncSame
  <2> QED BY <1>3, <1>5, <2>6, <2>7, <2>8 DEF SyncDone
<1> QED
  BY <1>4, <1>6, <1>7

(* What sync_all itself does between two ports.                             *)
LEMMA PhaseDoes ==
  ASSUME PortsInv, CalmInv, calm, SyncNextPhase, sync'.at # "idle"
  PROVE  SyncAlone' /\ SyncDone'
<1>1. /\ sync.at # "idle" /\ ~sync.busy /\ sync.todo = {}
      /\ UNCHANGED <<links, tcp_servers, uvicorn_servers, port_errors, tcp_lock, tcp_at, uvi_lock>>
      /\ booting' => booting
  BY DEF SyncNextPhase, netVars, lockVars
<1>2. SyncAlone /\ SyncDone
  BY <1>1 DEF CalmInv
<1>3. tcp_lock = << >> /\ uvi_lock = << >>
  BY <1>1, <1>2 DEF SyncAlone
<1>4. Pending = {} /\ AtWork(tcp_lock) = {} /\ AtWork(tcp_lock)' = {} /\ AtWork(uvi_lock)' = {}
  BY <1>1, <1>3 DEF Pending, AtWork
<1>5. sync \in SyncRec /\ uvicorn_servers \subseteq Ports /\ sync.http \subseteq Ports
  BY PortTypes DEF TypeOK, SyncRec
<1>6. /\ sync.at = "stop_tcp" =>
           sync' = [sync EXCEPT !.at = "stop_http", !.todo = uvicorn_servers \ sync.http]
      /\ sync.at = "stop_http" =>
           sync' = [sync EXCEPT !.at = "start_tcp", !.todo = {p \in Ports : sync.tcp[p] # NoUid}]
      /\ sync.at = "start_tcp" => sync' = [sync EXCEPT !.at = "start_http", !.todo = sync.http]
      /\ sync.at \in {"stop_tcp", "stop_http", "start_tcp"}
  <2>1. sync.at = "start_http" => sync'.at = "idle"
    BY DEF SyncNextPhase, NoSync
  <2> QED BY <1>5, <2>1 DEF SyncNextPhase, SyncRec, SyncAt
<1>7. /\ sync'.busy = sync.busy /\ sync'.tcp = sync.tcp /\ sync'.http = sync.http
      /\ sync.at = "stop_tcp" => sync'.at = "stop_http" /\ sync'.todo = uvicorn_servers \ sync.http
      /\ sync.at = "stop_http" =>
           sync'.at = "start_tcp" /\ sync'.todo = {p \in Ports : sync.tcp[p] # NoUid}
      /\ sync.at = "start_tcp" => sync'.at = "start_http" /\ sync'.todo = sync.http
  BY <1>5, <1>6 DEF SyncRec
<1>8. SyncAlone'
  BY <1>1, <1>3, <1>7 DEF SyncAlone
<1>9. SyncWants' /\ Booted'
  <2>1. SyncWants'
    BY <1>1, <1>2, <1>7, SyncWantsSame DEF SyncDone
  <2>2. Booted'
    BY <1>1, <1>2, <1>7 DEF SyncDone, Booted
  <2> QED BY <2>1, <2>2
<1>10. TcpStopped'
  <2>1. \A q \in Ports : tcp_servers[q] # NoUid => sync.tcp[q] # NoUid
    BY <1>1, <1>2, <1>4 DEF SyncDone, TcpStopped
  <2> QED BY <1>1, <1>6, <1>7, <2>1 DEF TcpStopped
<1>11. HttpStopped'
  BY <1>1, <1>2, <1>4, <1>6, <1>7 DEF SyncDone, HttpStopped, Pending
<1>12. TcpStarted'
  BY <1>1, <1>2, <1>4, <1>6, <1>7 DEF SyncDone, TcpStarted, Pending, TcpTried
<1>13. HttpStarted'
  BY <1>1, <1>4, <1>6, <1>7 DEF HttpStarted, Pending
<1> QED
  BY <1>8, <1>9, <1>10, <1>11, <1>12, <1>13 DEF SyncDone

LEMMA PortDoes ==
  ASSUME PortsInv, NoUid \notin Uids, CalmInv, calm, NEW p \in Ports, SyncPort(p)
  PROVE  SyncAlone' /\ SyncDone'
<1>1. /\ sync.at # "idle" /\ ~sync.busy /\ p \in sync.todo
      /\ sync' = [sync EXCEPT !.todo = @ \ {p}, !.busy = TRUE]
      /\ UNCHANGED <<links, tcp_servers, uvicorn_servers, port_errors, tcp_at, booting>>
  BY DEF SyncPort, netVars
<1>2. SyncAlone /\ SyncDone
  BY <1>1 DEF CalmInv
<1>3. tcp_lock = << >> /\ uvi_lock = << >> /\ tcp_at = "begin"
  BY <1>1, <1>2 DEF SyncAlone, CalmInv, FreeLocks
<1>4. /\ sync'.busy = TRUE /\ sync'.at = sync.at /\ sync'.tcp = sync.tcp /\ sync'.http = sync.http
      /\ sync'.todo = sync.todo \ {p}
  BY <1>1, PortTypes DEF SyncRec
<1>5. sync.at = "start_http" => p \in sync.http
  BY <1>1, <1>2 DEF SyncDone, HttpStarted
<1>6. /\ sync.at = "stop_tcp" => tcp_lock' = <<StopJob(p, "sync")>> /\ uvi_lock' = << >>
      /\ sync.at = "stop_http" => uvi_lock' = <<StopJob(p, "sync")>> /\ tcp_lock' = << >>
      /\ sync.at = "start_tcp" => tcp_lock' = <<StartJob(p, sync.tcp[p], "sync")>> /\ uvi_lock' = << >>
      /\ sync.at = "start_http" => uvi_lock' = <<StartJob(p, NoUid, "sync")>> /\ tcp_lock' = << >>
      /\ \/ sync.at \in {"stop_tcp", "stop_http"}
         \/ sync.at = "start_tcp" /\ sync.tcp[p] # NoUid
         \/ sync.at = "start_http"
  <2>1. ASSUME NEW j PROVE Append(<< >>, j) = <<j>>
    OBVIOUS
  <2> QED BY <1>3, <2>1, SyncPortQueues DEF QueueTcp, QueueUvi
<1>7. SyncAlone'
  BY <1>4, <1>5, <1>6 DEF SyncAlone
<1>8. /\ Pending' = Pending
      /\ sync.at = "stop_tcp" => AtWork(tcp_lock)' = {p}
  <2>1. \/ AtWork(tcp_lock)' = {p} /\ AtWork(uvi_lock)' = {} /\ sync.at \in {"stop_tcp", "start_tcp"}
        \/ AtWork(uvi_lock)' = {p} /\ AtWork(tcp_lock)' = {} /\ sync.at \in {"stop_http", "start_http"}
    <3>1. ASSUME NEW j PROVE <<j>> # << >> /\ Head(<<j>>) = j
      OBVIOUS
    <3>2. StopJob(p, "sync").port = p /\ StartJob(p, NoUid, "sync").port = p
          /\ StartJob(p, sync.tcp[p], "sync").port = p
      BY JobFields
    <3> QED BY <1>6, <3>1, <3>2 DEF AtWork
  <2> QED BY <1>1, <1>3, <1>4, <2>1 DEF Pending, AtWork
<1>9. SyncWants' /\ Booted'
  <2>1. SyncWants'
    BY <1>1, <1>2, <1>4, SyncWantsSame DEF SyncDone
  <2> QED BY <1>1, <1>2, <1>4, <2>1 DEF SyncDone, Booted
<1>10. TcpStopped'
  BY <1>1, <1>2, <1>3, <1>4, <1>8 DEF SyncDone, TcpStopped, AtWork
<1>11. HttpStopped' /\ TcpStarted' /\ HttpStarted'
  BY <1>1, <1>2, <1>4, <1>8 DEF SyncDone, HttpStopped, TcpStarted, HttpStarted, TcpTried
<1> QED
  BY <1>7, <1>9, <1>10, <1>11 DEF SyncDone

(* A sync_all begins, at boot or on request, with nothing beside it.        *)
LEMMA BeginDoes ==
  ASSUME PortsInv, api_ports_resync \/ Restart, calm'
  PROVE  SyncAlone' /\ SyncDone'
<1>1. /\ tcp_lock' = << >> /\ uvi_lock' = << >> /\ links' = links
      /\ SyncBegins(tcp_servers')
      /\ booting' => \A p \in Ports : tcp_servers'[p] = NoUid
  <2>1. CASE api_ports_resync
    BY <1>1, <2>1 DEF api_ports_resync, netVars, lockVars
  <2>2. CASE Restart
    BY <2>2 DEF Restart
  <2> QED BY <2>1, <2>2
<1>2. /\ sync'.at = "stop_tcp" /\ sync'.busy = FALSE
      /\ sync'.todo = {p \in Ports : tcp_servers'[p] # NoUid /\ sync'.tcp[p] = NoUid}
      /\ NeededTcp(sync'.tcp) /\ sync'.http = NeededHttp
  BY <1>1 DEF SyncBegins
<1>3. SyncWants'
  BY <1>1, <1>2 DEF SyncWants, NeededTcp, NeededHttp, Wants
<1>4. SyncAlone' /\ TcpStopped' /\ HttpStopped' /\ TcpStarted' /\ HttpStarted' /\ Booted'
  BY <1>1, <1>2 DEF SyncAlone, TcpStopped, HttpStopped, TcpStarted, HttpStarted, Booted
<1> QED
  BY <1>3, <1>4 DEF SyncDone

(* A phase ends by SyncNextPhase only.                                      *)
LEMMA PhaseEnds ==
  ASSUME PortsAssumption, PortsInv, [Next]_vars, sync.at # "idle", sync'.at # sync.at
  PROVE  SyncNextPhase \/ Restart
<1>1. ASSUME NEW j, SyncResumes(j) PROVE sync'.at = sync.at
  BY <1>1, PortTypes DEF SyncResumes, SyncRec
<1>2. TcpDone \/ UviDone => sync'.at = sync.at
  BY <1>1 DEF TcpDone, UviDone
<1>3. CASE Tcp \/ Uvicorn
  <2>1. TcpDone \/ TcpAwait \/ UviDone \/ \E at : UviAwait(at)
    BY <1>3 DEF Tcp, StartTcp, StartTcpEnds, StopTcp, StopTcpEnds, Uvicorn, StartUvicorn,
                ServeBinds, StartUvicornEnds, StopUvicorn
  <2> QED BY <1>2, <2>1 DEF TcpAwait, UviAwait
<1>4. ASSUME NEW p \in Ports, SyncPort(p) PROVE sync'.at = sync.at
  BY <1>4, PortTypes DEF SyncPort, SyncRec
<1>5. Handlers => sync' = sync
  BY HandlersQueue
<1>6. ~api_ports_resync
  BY DEF api_ports_resync
<1>7. UNCHANGED vars \/ (\E p \in Ports : SocketStep(p)) => sync' = sync
  BY DEF vars, SocketStep, SlowServer, StoppedServer, UvicornExits, OtherProgram
<1> QED
  BY <1>3, <1>4, <1>5, <1>6, <1>7 DEF Next, Sync, SocketStep

LEMMA CalmInductive ==
  ASSUME PortsAssumption, PortsInv, CalmInv, [Next]_vars PROVE CalmInv'
<1>1. DistinctPorts(links') /\ FreeLocks'
  BY DistinctKept, FreeLocksKept DEF CalmInv
<1>2. Panel \notin Ports /\ NoUid \notin Uids
  BY DEF PortsAssumption
<1>3. SUFFICES ASSUME calm', sync'.at # "idle" PROVE SyncAlone' /\ SyncDone'
  BY <1>1 DEF CalmInv
<1>4. CASE Handlers
  BY <1>3, <1>4, HandlersQueue
<1>5. CASE api_ports_resync \/ Restart
  BY <1>3, <1>5, BeginDoes
<1>6. CASE Tcp \/ Uvicorn
  <2>1. calm /\ sync.at # "idle"
    <3>1. calm' = calm
      BY <1>6 DEF Tcp, StartTcp, StartTcpEnds, StopTcp, StopTcpEnds, Uvicorn, StartUvicorn,
                  ServeBinds, StartUvicornEnds, StopUvicorn
    <3>2. ASSUME NEW j, SyncResumes(j) PROVE sync'.at = sync.at
      BY <3>2, PortTypes DEF SyncResumes, SyncRec
    <3>3. TcpDone \/ TcpAwait \/ UviDone \/ \E at : UviAwait(at)
      BY <1>6 DEF Tcp, StartTcp, StartTcpEnds, StopTcp, StopTcpEnds, Uvicorn, StartUvicorn,
                  ServeBinds, StartUvicornEnds, StopUvicorn
    <3> QED BY <1>3, <3>1, <3>2, <3>3 DEF TcpDone, TcpAwait, UviDone, UviAwait
  <2> QED BY <1>2, <1>6, <2>1, TcpDoes, UvicornDoes
<1>7. CASE SyncNextPhase
  BY <1>3, <1>7, PhaseDoes DEF SyncNextPhase
<1>8. ASSUME NEW p \in Ports, SyncPort(p) PROVE SyncAlone' /\ SyncDone'
  <2>1. calm
    BY <1>3, <1>8 DEF SyncPort
  <2> QED BY <1>2, <1>8, <2>1, PortDoes
<1>9. ASSUME NEW p \in Ports, SocketStep(p) PROVE SyncAlone' /\ SyncDone'
  <2>1. /\ UNCHANGED <<links, tcp_servers, uvicorn_servers, port_errors, lockVars, sync, booting>>
        /\ calm
    BY <1>3, <1>9 DEF SocketStep, SlowServer, StoppedServer, UvicornExits, OtherProgram
  <2>2. SyncAlone /\ SyncDone
    BY <1>3, <2>1 DEF CalmInv
  <2>3. SyncWants'
    BY <2>1, <2>2, SyncWantsSame DEF SyncDone
  <2> QED BY <2>1, <2>2, <2>3 DEF lockVars, SyncDone, SyncAlone, TcpStopped, HttpStopped, TcpStarted,
                                  HttpStarted, Booted, Pending, AtWork, TcpTried
<1>10. CASE UNCHANGED vars
  <2>1. /\ UNCHANGED <<links, tcp_servers, uvicorn_servers, port_errors, lockVars, sync, booting>>
        /\ calm
    BY <1>3, <1>10 DEF vars, netVars
  <2>2. SyncAlone /\ SyncDone
    BY <1>3, <2>1 DEF CalmInv
  <2>3. SyncWants'
    BY <2>1, <2>2, SyncWantsSame DEF SyncDone
  <2> QED BY <2>1, <2>2, <2>3 DEF lockVars, SyncDone, SyncAlone, TcpStopped, HttpStopped, TcpStarted,
                                  HttpStarted, Booted, Pending, AtWork, TcpTried
<1> QED
  BY <1>4, <1>5, <1>6, <1>7, <1>8, <1>9, <1>10 DEF Next, Sync, SocketStep

(* What the phases have done when the last one ends is what was wanted.     *)
LEMMA SyncEnds ==
  ASSUME PortsAssumption, PortsInv, CalmInv, [Next]_vars,
         calm, sync.at = "start_http", sync'.at = "idle"
  PROVE  Rebuilt' /\ (booting => ServersMatchOwners')
<1>1. SyncNextPhase
  <2>1. ~Restart
    BY DEF Restart, SyncBegins
  <2> QED BY <2>1, PhaseEnds
<1>2. /\ ~sync.busy /\ sync.todo = {} /\ UNCHANGED <<links, tcp_servers, uvicorn_servers, port_errors>>
  BY <1>1 DEF SyncNextPhase, netVars
<1>3. SyncAlone /\ SyncDone
  BY DEF CalmInv
<1>4. Pending = {}
  BY <1>2, <1>3 DEF SyncAlone, Pending, AtWork
<1>5. \A p \in Ports : sync.tcp[p] # NoUid <=> \E u \in Uids : Wants(links, u, "tcp", p)
  BY <1>3 DEF SyncDone, SyncWants, NeededTcp, PortsAssumption
<1>6. \A p \in Ports : sync.tcp[p] # NoUid => Wants(links, sync.tcp[p], "tcp", p)
  BY <1>3 DEF SyncDone, SyncWants, NeededTcp
<1>7. \A p \in Ports : p \in sync.http <=> \E u \in Uids : Wants(links, u, "http", p)
  BY <1>3 DEF SyncDone, SyncWants, NeededHttp
<1>8. \A p \in Ports : /\ tcp_servers[p] # NoUid => sync.tcp[p] # NoUid
                       /\ sync.tcp[p] # NoUid => tcp_servers[p] # NoUid \/ p \in port_errors
                       /\ p \in uvicorn_servers => p \in sync.http
                       /\ p \in sync.http => p \in uvicorn_servers \/ p \in port_errors
                       /\ booting => tcp_servers[p] \in {NoUid, sync.tcp[p]}
  BY <1>3, <1>4 DEF SyncDone, TcpStopped, TcpStarted, TcpTried, HttpStopped, HttpStarted, Booted
<1>9. Rebuilt
  BY <1>5, <1>7, <1>8 DEF Rebuilt
<1>10. booting => ServersMatchOwners
  BY <1>6, <1>8 DEF ServersMatchOwners
<1> QED
  BY <1>2, <1>9, <1>10 DEF Rebuilt, ServersMatchOwners, Wants

(* For all tables, ports and queues: a sync_all that nothing overlaps       *)
(* leaves no listener that no active link wants, and every listener that    *)
(* one wants is registered or its failure is on record; at boot each TCP    *)
(* server is also the one of the link that has the port.                    *)
THEOREM SyncAlwaysRebuilds == ASSUME PortsAssumption PROVE Spec => SyncRebuilds
<1>1. Init => PortsInv /\ CalmInv
  <2>1. ASSUME Init PROVE CalmInv
    BY <2>1 DEF Init, CalmInv, DistinctPorts, FreeLocks, NoLink
  <2> QED BY <2>1, PortsInitially DEF PortsAssumption
<1>2. PortsInv /\ CalmInv /\ [Next]_vars => PortsInv' /\ CalmInv'
  BY PortsInductive, CalmInductive
<1>3. PortsInv /\ CalmInv /\ [Next]_vars
        => [calm /\ sync.at = "start_http" /\ sync'.at = "idle" /\ UNCHANGED links
              => Rebuilt' /\ (booting => ServersMatchOwners')]_vars
  BY SyncEnds
<1> QED
  BY <1>1, <1>2, <1>3, PTL DEF Spec, SyncRebuilds

(***************************************************************************)
(* Zeus: any number of clients, addresses and operations.                  *)
(***************************************************************************)
States  == [running : BOOLEAN, phase : {"idle", "starting", "done", "error"},
            result : {None} \cup {<<n>> : n \in Nat \cup {None}}, used : Nat]
TaskRec == [what : {"none", "create", "delete", "auto"},
            pc : {"idle", "spawned", "waiting", "binding", "bound"}, srv : Nat \cup {None}]
PipeAt  == {"read", "written", "done"}
ClientRec == [pc : {"none", "hello", "relay"}, srv : Nat \cup {None},
              pipes : [1..2 -> PipeAt]]

ZeusTypes ==
  /\ state \in States /\ cfg \in Configs
  /\ counts \in [Ips -> Nat]
  /\ creds \in Nat \cup {None} /\ server \in Nat \cup {None}
  /\ listening \subseteq (Nat \cup {None}) /\ started \in Nat
  /\ waits \in BOOLEAN /\ overlapped \in BOOLEAN /\ outlived \in BOOLEAN /\ allowance \in Nat
  /\ task \in [Tasks -> TaskRec] /\ client \in [Clients -> ClientRec]

(* Who is between two awaits of a creation, or waits in a deletion.         *)
Creates(p) == task[p].what = "create"
Makes(p)   == Creates(p) /\ task[p].pc \in {"binding", "bound"}
Deletes(p) == task[p].what \in {"delete", "auto"} /\ task[p].pc = "waiting"
Making     == \E p \in Tasks : Makes(p)

(* A creation that nothing runs beside: it is alone, what it waits for is   *)
(* the server there is, and there is none while it makes its own.           *)
CreationFits(p) ==
  Creates(p) =>
    /\ \A q \in Tasks \ {p} : ~Creates(q) /\ ~Deletes(q)
    /\ task[p].pc = "waiting" => task[p].srv = server /\ server # None /\ listening = {}
    /\ Makes(p) => /\ server = None /\ state.result = None
                   /\ creds = task[p].srv /\ task[p].srv # None
    /\ task[p].pc = "binding" => listening = {}
    /\ task[p].pc = "bound" => listening = {task[p].srv}
    /\ task[p].pc \in {"waiting", "binding", "bound"}

(* The server of a deletion that waits may be gone by another one.          *)
DeletionFits(p) ==
  Deletes(p) => listening = {} /\ server \in {None, task[p].srv}

(* State, server and credentials, where no proxy is being made.             *)
Linked ==
  /\ state.result = IF server = None THEN None ELSE <<creds>>
  /\ server # None => creds = server
  /\ Replaces <=> server # None
  /\ listening \subseteq (IF server = None THEN {} ELSE {server})
  /\ (\A p \in Tasks : ~Creates(p) /\ ~Deletes(p)) /\ server # None => server \in listening

Orderly ==
  ~overlapped =>
    /\ \A p \in Tasks : CreationFits(p) /\ DeletionFits(p)
    /\ ~Making => Linked

(* The clients whose transport is not gone: every one of them is at the     *)
(* server there is, or at the one being made.                               *)
Attached == {c \in Live : client[c].srv # None}

ClientsAtServer ==
  waits /\ ~overlapped =>
    \A c \in Attached :
      /\ ~Making => client[c].srv = server /\ server # None
      /\ \A p \in Tasks : Makes(p) => task[p].pc = "bound" /\ client[c].srv = task[p].srv

(* The automatic deletion of a client's slot starts when the client leaves.  *)
LiveAreIdle == \A c \in Live : ~Busy(c)

ZeusInv == ZeusTypes /\ LiveAreIdle /\ Orderly /\ ClientsAtServer

USE ZeusAssumption
------------------------------------------------------------------------------
LEMMA ZeusRecords ==
  /\ NoTask \in TaskRec /\ NoTask.what = "none" /\ NoTask.pc = "idle"
  /\ NoClient \in ClientRec /\ NoClient.pc = "none"
  /\ \A d \in 1..2 : NoClient.pipes[d] = "done"
BY DEF NoTask, TaskRec, NoClient, ClientRec, PipeAt

LEMMA ATask ==
  ASSUME NEW w \in {"none", "create", "delete", "auto"},
         NEW a \in {"idle", "spawned", "waiting", "binding", "bound"}, NEW s \in Nat \cup {None}
  PROVE  [what |-> w, pc |-> a, srv |-> s] \in TaskRec
BY DEF TaskRec

LEMMA AState ==
  ASSUME NEW r \in BOOLEAN, NEW a \in {"idle", "starting", "done", "error"},
         NEW s \in {None} \cup {<<n>> : n \in Nat \cup {None}}, NEW n \in Nat
  PROVE  [running |-> r, phase |-> a, result |-> s, used |-> n] \in States
BY DEF States

LEMMA ZeusInitially == ZeusInit => ZeusInv
<1> SUFFICES ASSUME ZeusInit PROVE ZeusInv
  OBVIOUS
<1>1. /\ \A p \in Tasks : task[p].what = "none"
      /\ \A c \in Clients : client[c].pc = "none"
  BY ZeusRecords DEF ZeusInit
<1>2. ZeusTypes
  BY ZeusRecords, AState DEF ZeusInit, ZeusTypes
<1>3. Live = {} /\ Attached = {}
  BY <1>1 DEF Live, Attached
<1>4. ~Replaces /\ state.result = None
  BY DEF ZeusInit, Replaces
<1>5. Orderly
  BY <1>1, <1>4 DEF ZeusInit, Orderly, CreationFits, DeletionFits, Creates, Deletes, Linked
<1> QED
  BY <1>2, <1>3, <1>5 DEF ZeusInv, ClientsAtServer, LiveAreIdle

(* The types.                                                               *)
LEMMA SetsTypes ==
  ASSUME ZeusTypes, NEW p \in Tasks, NEW fresh \in BOOLEAN, Sets(p, fresh)
  PROVE  /\ state' \in States /\ cfg' \in Configs /\ counts' \in [Ips -> Nat]
         /\ creds' \in Nat \cup {None} /\ server' \in Nat \cup {None} /\ started' \in Nat
         /\ allowance' \in Nat /\ task' \in [Tasks -> TaskRec] /\ outlived' \in BOOLEAN
<1> DEFINE result == IF fresh THEN None ELSE state.result
<1>1. result \in {None} \cup {<<n>> : n \in Nat \cup {None}}
  BY DEF ZeusTypes, States
<1>2. state' \in States
  <2>1. \/ state' = [running |-> FALSE, phase |-> "error", result |-> result, used |-> 0]
        \/ state' = [running |-> TRUE, phase |-> "starting", result |-> result, used |-> 0]
    BY DEF Sets
  <2> HIDE DEF result
  <2>2. [running |-> FALSE, phase |-> "error", result |-> result, used |-> 0] \in States
    BY <1>1, AState
  <2>3. [running |-> TRUE, phase |-> "starting", result |-> result, used |-> 0] \in States
    BY <1>1, AState
  <2> QED BY <2>1, <2>2, <2>3
<1>3. started' \in Nat
  BY DEF Sets, ZeusTypes
<1>4. task' \in [Tasks -> TaskRec]
  BY <1>3, ATask, ZeusRecords DEF Sets, ZeusTypes
<1> QED
  BY <1>2, <1>3, <1>4 DEF Sets, CountsCleared, ZeusTypes

LEMMA DeletedTypes ==
  ASSUME ZeusTypes, Deleted
  PROVE  /\ state' \in States /\ counts' \in [Ips -> Nat] /\ allowance' \in Nat
         /\ creds' \in Nat \cup {None} /\ server' \in Nat \cup {None} /\ outlived' \in BOOLEAN
BY AState DEF Deleted, Cleared, CountsCleared

LEMMA DeleteBeginsTypes ==
  ASSUME ZeusTypes, NEW p \in Tasks, NEW w \in {"delete", "auto"}, DeleteBegins(p, w)
  PROVE  /\ state' \in States /\ counts' \in [Ips -> Nat] /\ allowance' \in Nat
         /\ creds' \in Nat \cup {None} /\ server' \in Nat \cup {None} /\ outlived' \in BOOLEAN
         /\ listening' \subseteq (Nat \cup {None}) /\ task' \in [Tasks -> TaskRec]
<1>1. [what |-> w, pc |-> "waiting", srv |-> server] \in TaskRec
  BY ATask DEF ZeusTypes
<1>2. task' \in [Tasks -> TaskRec] /\ listening' \subseteq (Nat \cup {None})
  BY <1>1, ZeusRecords DEF DeleteBegins, ZeusTypes
<1> QED
  BY <1>2, DeletedTypes DEF DeleteBegins, ZeusTypes

LEMMA MovedRec ==
  ASSUME NEW k \in ClientRec, NEW a \in {"hello", "relay"}, NEW s \in Nat \cup {None}
  PROVE  /\ [k EXCEPT !.pc = a] \in ClientRec /\ [k EXCEPT !.pc = a, !.srv = s] \in ClientRec
         /\ [k EXCEPT !.srv = s] \in ClientRec
BY DEF ClientRec

LEMMA PipedRec ==
  ASSUME NEW k \in ClientRec, NEW d \in 1..2, NEW x \in PipeAt
  PROVE  [k EXCEPT !.pipes[d] = x] \in ClientRec
<1>1. k.pipes \in [1..2 -> PipeAt]
  BY DEF ClientRec
<1>2. [k.pipes EXCEPT ![d] = x] \in [1..2 -> PipeAt]
  BY <1>1
<1> QED
  BY <1>2 DEF ClientRec

LEMMA RelayRec ==
  ASSUME NEW k \in ClientRec
  PROVE  [k EXCEPT !.pc = "relay", !.pipes = <<"read", "read">>] \in ClientRec
<1>1. <<"read", "read">> \in [1..2 -> PipeAt]
  BY DEF PipeAt
<1> QED
  BY <1>1 DEF ClientRec

LEMMA StateTypes ==
  ASSUME ZeusTypes
  PROVE  /\ [state EXCEPT !.running = FALSE, !.phase = "error"] \in States
         /\ [state EXCEPT !.running = TRUE, !.phase = "done", !.result = <<creds>>] \in States
         /\ [state EXCEPT !.used = @ + 1] \in States
<1>1. creds \in Nat \cup {None}
  BY DEF ZeusTypes
<1>2. <<creds>> \in {<<n>> : n \in Nat \cup {None}}
  BY <1>1
<1> DEFINE R == BOOLEAN
           P == {"idle", "starting", "done", "error"}
           X == {None} \cup {<<n>> : n \in Nat \cup {None}}
<1>3. state \in [running : R, phase : P, result : X, used : Nat]
  BY DEF ZeusTypes, States
<1>4. FALSE \in R /\ TRUE \in R /\ "error" \in P /\ "done" \in P /\ <<creds>> \in X
  BY <1>2
<1>5. States = [running : R, phase : P, result : X, used : Nat]
  BY DEF States
<1> HIDE DEF R, P, X
<1>6. [state EXCEPT !.running = FALSE, !.phase = "error"] \in States
  BY <1>3, <1>4, <1>5
<1>7. [state EXCEPT !.running = TRUE, !.phase = "done", !.result = <<creds>>] \in States
  BY <1>3, <1>4, <1>5
<1>8. [state EXCEPT !.used = @ + 1] \in States
  BY <1>3, <1>5
<1> QED
  BY <1>6, <1>7, <1>8

LEMMA TypesKept == ASSUME ZeusTypes, [ZeusNext]_zvars PROVE ZeusTypes'
<1>1. ASSUME NEW p \in Calls, ApiDelete(p) PROVE ZeusTypes'
  BY <1>1, DeleteBeginsTypes DEF ApiDelete, Tasks, ZeusTypes
<1>2. ASSUME NEW p \in Calls, ApiCreate(p) PROVE ZeusTypes'
  <2>1. /\ cfg' \in Configs /\ listening' \subseteq (Nat \cup {None}) /\ overlapped' \in BOOLEAN
        /\ UNCHANGED <<waits, client>> /\ p \in Tasks /\ Replaces \in BOOLEAN
    BY <1>2 DEF ApiCreate, ZeusTypes, Tasks, Sets, Replaces
  <2>2. CASE Replaces /\ MustWait(server)
    <3>1. [what |-> "create", pc |-> "waiting", srv |-> server] \in TaskRec
      BY ATask DEF ZeusTypes
    <3> QED BY <1>2, <2>1, <2>2, <3>1 DEF ApiCreate, ZeusTypes
  <2>3. CASE ~(Replaces /\ MustWait(server))
    <3>1. Sets(p, Replaces)
      BY <1>2, <2>3 DEF ApiCreate
    <3> QED BY <2>1, <3>1, SetsTypes DEF ZeusTypes
  <2> QED BY <2>2, <2>3
<1>3. ASSUME NEW p \in Tasks, DeleteEnds(p) PROVE ZeusTypes'
  BY <1>3, DeletedTypes, ZeusRecords DEF DeleteEnds, ZeusTypes
<1>4. ASSUME NEW p \in Tasks, OldIsGone(p) PROVE ZeusTypes'
  BY <1>4, SetsTypes DEF OldIsGone, ZeusTypes
<1>5. ASSUME NEW p \in Tasks, Binds(p) PROVE ZeusTypes'
  <2>1. [task[p] EXCEPT !.pc = "bound"] \in TaskRec
    BY DEF ZeusTypes, TaskRec
  <2>2. task[p].srv \in Nat \cup {None}
    BY DEF ZeusTypes, TaskRec
  <2> QED BY <1>5, <2>1, <2>2, ZeusRecords, StateTypes DEF Binds, ZeusTypes
<1>6. ASSUME NEW p \in Tasks, CreateEnds(p) PROVE ZeusTypes'
  BY <1>6, ZeusRecords, StateTypes DEF CreateEnds, ZeusTypes, TaskRec
<1>7. CASE ApiConfig
  BY <1>7 DEF ApiConfig, ZeusTypes, States
<1>8. ASSUME NEW c \in Clients, AutoDelete(c) PROVE ZeusTypes'
  BY <1>8, DeleteBeginsTypes DEF AutoDelete, Tasks, ZeusTypes
<1>9. ASSUME NEW c \in Clients, Connects(c) PROVE ZeusTypes'
  <2>1. PICK s \in listening : client' = [client EXCEPT ![c].pc = "hello", ![c].srv = s]
    BY <1>9 DEF Connects
  <2>2. [client[c] EXCEPT !.pc = "hello", !.srv = s] \in ClientRec
    <3>1. client[c] \in ClientRec /\ s \in Nat \cup {None}
      BY DEF ZeusTypes
    <3> QED BY <3>1, MovedRec
  <2>3. client' \in [Clients -> ClientRec]
    BY <2>1, <2>2 DEF ZeusTypes
  <2>4. counts' \in [Ips -> Nat]
    BY <1>9 DEF Connects, ZeusTypes
  <2> QED BY <1>9, <2>3, <2>4 DEF Connects, ZeusTypes
<1>10. ASSUME NEW c \in Clients, Relays(c) \/ Disconnects(c) PROVE ZeusTypes'
  <2>1. /\ [client[c] EXCEPT !.pc = "relay", !.pipes = <<"read", "read">>] \in ClientRec
        /\ [client[c] EXCEPT !.srv = None] \in ClientRec
    <3>1. client[c] \in ClientRec
      BY DEF ZeusTypes
    <3> QED BY <3>1, MovedRec, RelayRec
  <2>2. client' \in [Clients -> ClientRec]
    BY <1>10, <2>1 DEF Relays, Disconnects, ZeusTypes
  <2> QED BY <1>10, <2>2 DEF Relays, Disconnects, ZeusTypes
<1>11. ASSUME NEW c \in Clients, NEW d \in 1..2,
              PipeReads(c, d) \/ PipeCounts(c, d) \/ PipeEnds(c, d)
       PROVE  ZeusTypes'
  <2>1. PICK x \in PipeAt : client' = [client EXCEPT ![c].pipes[d] = x]
    BY <1>11 DEF PipeReads, PipeCounts, PipeEnds, PipeAt
  <2>2. [client[c] EXCEPT !.pipes[d] = x] \in ClientRec
    BY PipedRec DEF ZeusTypes
  <2>3. client' \in [Clients -> ClientRec]
    BY <2>1, <2>2 DEF ZeusTypes
  <2>4. state' \in States
    BY <1>11, StateTypes DEF PipeReads, PipeCounts, PipeEnds, ZeusTypes
  <2> QED BY <1>11, <2>3, <2>4 DEF PipeReads, PipeCounts, PipeEnds, ZeusTypes
<1>12. ASSUME NEW c \in Clients, Leaves(c) PROVE ZeusTypes'
  <2>1. [what |-> "auto", pc |-> "spawned", srv |-> None] \in TaskRec
    BY ATask
  <2>2. counts' \in [Ips -> Nat]
    BY <1>12 DEF Leaves, Uncounted, ZeusTypes
  <2> QED BY <1>12, <2>1, <2>2, ZeusRecords DEF Leaves, ZeusTypes, Tasks
<1>13. CASE TimePasses \/ UNCHANGED zvars
  BY <1>13 DEF TimePasses, zvars, ZeusTypes
<1> QED
  BY <1>1, <1>2, <1>3, <1>4, <1>5, <1>6, <1>7, <1>8, <1>9, <1>10, <1>11, <1>12, <1>13
  DEF ZeusNext, Operation

------------------------------------------------------------------------------
(* Who creates and who deletes, after a step of task p.                     *)
LEMMA OneTask ==
  ASSUME ZeusTypes, NEW p \in Tasks, NEW r, task' = [task EXCEPT ![p] = r]
  PROVE  /\ task'[p] = r
         /\ Creates(p)' <=> r.what = "create"
         /\ Makes(p)' <=> r.what = "create" /\ r.pc \in {"binding", "bound"}
         /\ Deletes(p)' <=> r.what \in {"delete", "auto"} /\ r.pc = "waiting"
         /\ \A q \in Tasks \ {p} :
              /\ task'[q] = task[q] /\ (Busy(q)' <=> Busy(q))
              /\ (Creates(q)' <=> Creates(q)) /\ (Makes(q)' <=> Makes(q))
              /\ (Deletes(q)' <=> Deletes(q))
<1>1. task'[p] = r /\ \A q \in Tasks \ {p} : task'[q] = task[q]
  BY DEF ZeusTypes
<1> QED
  BY <1>1 DEF Creates, Makes, Deletes, Busy

(* Steps of clients and of the clock: nobody starts or ends a creation or a *)
(* deletion, and the proxy stays what it is.                                *)
LEMMA ProxyStays ==
  ASSUME ZeusInv, UNCHANGED <<creds, server, listening, waits, overlapped>>,
         state'.running = state.running, state'.phase = state.phase,
         state'.result = state.result, NEW c \in Clients,
         \/ task' = task
         \/ ~Busy(c) /\ task' = [task EXCEPT ![c] = [what |-> "auto", pc |-> "spawned", srv |-> None]],
         \A x \in Attached' : \/ x \in Attached /\ client'[x].srv = client[x].srv
                              \/ client'[x].srv \in listening
  PROVE  Orderly' /\ ClientsAtServer'
<1>1. \A p \in Tasks : /\ Creates(p)' <=> Creates(p)
                       /\ Makes(p)' <=> Makes(p)
                       /\ Deletes(p)' <=> Deletes(p)
                       /\ Creates(p) \/ Deletes(p) => task'[p] = task[p]
  <2>1. CASE task' = task
    BY <2>1 DEF Creates, Makes, Deletes
  <2>2. CASE ~Busy(c) /\ task' = [task EXCEPT ![c] = [what |-> "auto", pc |-> "spawned", srv |-> None]]
    <3>1. c \in Tasks /\ ~Creates(c) /\ ~Deletes(c) /\ ~Makes(c)
      BY <2>2 DEF Tasks, Busy, Creates, Deletes, Makes
    <3>2. PICK r : r = [what |-> "auto", pc |-> "spawned", srv |-> None]
      OBVIOUS
    <3>3. r.what = "auto" /\ r.pc = "spawned" /\ task' = [task EXCEPT ![c] = r]
      BY <2>2, <3>2
    <3>4. ZeusTypes
      BY DEF ZeusInv
    <3>5. /\ ~Creates(c)' /\ ~Makes(c)' /\ ~Deletes(c)'
          /\ \A q \in Tasks \ {c} :
               /\ task'[q] = task[q] /\ (Creates(q)' <=> Creates(q))
               /\ (Makes(q)' <=> Makes(q)) /\ (Deletes(q)' <=> Deletes(q))
      BY <3>1, <3>3, <3>4, OneTask
    <3> QED BY <3>1, <3>5
  <2> QED BY <2>1, <2>2
<1>2. Replaces' <=> Replaces
  BY DEF Replaces
<1>3. Making' <=> Making
  BY <1>1 DEF Making
<1>4. ASSUME ~overlapped, NEW p \in Tasks PROVE CreationFits(p)' /\ DeletionFits(p)'
  <2>1. CreationFits(p) /\ DeletionFits(p)
    BY <1>4 DEF ZeusInv, Orderly
  <2>2. CreationFits(p)'
    BY <1>1, <2>1 DEF CreationFits
  <2>3. DeletionFits(p)'
    BY <1>1, <2>1 DEF DeletionFits
  <2> QED BY <2>2, <2>3
<1>5. ~overlapped /\ ~Making => Linked'
  BY <1>1, <1>2 DEF ZeusInv, Orderly, Linked
<1>6. Orderly'
  BY <1>3, <1>4, <1>5 DEF Orderly
<1>7. ASSUME waits, ~overlapped, NEW x \in Attached', ~Making'
      PROVE  client'[x].srv = server' /\ server' # None
  BY <1>3, <1>7 DEF ZeusInv, ClientsAtServer, Orderly, Linked
<1>8. ASSUME waits, ~overlapped, NEW x \in Attached', NEW p \in Tasks, Makes(p)'
      PROVE  task'[p].pc = "bound" /\ client'[x].srv = task'[p].srv
  <2>1. Creates(p) /\ Makes(p) /\ task'[p] = task[p]
    BY <1>1, <1>8 DEF Makes
  <2>2. CreationFits(p)
    BY <1>8 DEF ZeusInv, Orderly
  <2>3. task[p].pc \in {"binding", "bound"}
    BY <2>1 DEF Makes
  <2> QED BY <1>8, <2>1, <2>2, <2>3 DEF ZeusInv, ClientsAtServer, CreationFits
<1> QED
  BY <1>6, <1>7, <1>8 DEF ClientsAtServer

(* A deletion that need not wait, or has waited: no proxy is left.          *)
LEMMA NoProxyLeft ==
  ASSUME ZeusInv, NEW p \in Tasks, task' = [task EXCEPT ![p] = NoTask], Deleted,
         UNCHANGED <<waits, client>>,
         ~overlapped' => /\ \A q \in Tasks \ {p} : ~Creates(q)
                         /\ listening' = {} /\ (waits => Attached = {})
  PROVE  Orderly' /\ ClientsAtServer'
<1>1. /\ ~Creates(p)' /\ ~Makes(p)' /\ ~Deletes(p)'
      /\ \A q \in Tasks \ {p} : (Creates(q)' <=> Creates(q)) /\ (Makes(q)' <=> Makes(q))
  <2>1. ZeusTypes
    BY DEF ZeusInv
  <2> QED BY <2>1, OneTask, ZeusRecords
<1>2. SUFFICES ASSUME ~overlapped' PROVE Orderly' /\ ClientsAtServer'
  BY DEF Orderly, ClientsAtServer
<1>3. \A q \in Tasks : ~Creates(q)' /\ ~Makes(q)'
  BY <1>1, <1>2 DEF Makes
<1>4. server' = None /\ listening' = {} /\ state'.result = None /\ state'.running = FALSE
  BY <1>2 DEF Deleted, Cleared
<1>5. \A q \in Tasks : CreationFits(q)' /\ DeletionFits(q)'
  BY <1>3, <1>4 DEF CreationFits, DeletionFits
<1>6. Linked'
  BY <1>4 DEF Linked, Replaces
<1>7. waits => Attached' = {}
  BY <1>2 DEF Live, Attached
<1> QED
  BY <1>3, <1>5, <1>6, <1>7 DEF Orderly, ClientsAtServer

(* What a step that clears the counts must know.                            *)
NoneCounted ==
  UNCHANGED <<counts, outlived>> \/ (waits' /\ ~overlapped' /\ ~outlived' => Live = {})

LEMMA AllLeft ==
  ASSUME CountsCleared, UNCHANGED waits, waits /\ ~overlapped' => Attached = {}
  PROVE  NoneCounted
BY DEF CountsCleared, Attached, NoneCounted

LEMMA NobodyAtServer ==
  ASSUME ZeusInv, waits, ~overlapped, ~Making, ~MustWait(server)
  PROVE  Attached = {}
<1>1. \A c \in Attached : client[c].srv = server /\ server # None
  BY DEF ZeusInv, ClientsAtServer
<1> QED
  BY <1>1 DEF MustWait, LiveAt, Attached

LEMMA DeletionBegins ==
  ASSUME ZeusInv, NEW p \in Tasks, NEW w \in {"delete", "auto"}, ~Creates(p), ~Deletes(p),
         DeleteBegins(p, w), UNCHANGED <<waits, client>>,
         overlapped' = (overlapped \/ \E q \in Tasks : task[q].what = "create")
  PROVE  Orderly' /\ ClientsAtServer' /\ NoneCounted
<1>1. ~overlapped' => ~overlapped /\ \A q \in Tasks : ~Creates(q)
  BY DEF Creates
<1>2. ~overlapped' => ~Making /\ Linked /\ \A q \in Tasks : CreationFits(q) /\ DeletionFits(q)
  BY <1>1 DEF ZeusInv, Orderly, Making, Makes
<1>3. ~overlapped' => listening' = {}
  BY <1>2 DEF DeleteBegins, Linked
<1>4. CASE ~MustWait(server)
  <2>1. task' = [task EXCEPT ![p] = NoTask] /\ Deleted
    BY <1>4 DEF DeleteBegins
  <2>2. waits /\ ~overlapped' => Attached = {}
    BY <1>1, <1>2, <1>4, NobodyAtServer
  <2>3. Orderly' /\ ClientsAtServer'
    BY <1>1, <1>3, <2>1, <2>2, NoProxyLeft
  <2> QED BY <2>1, <2>2, <2>3, AllLeft DEF Deleted, Cleared
<1>5. CASE MustWait(server)
  <2>1. PICK r : r = [what |-> w, pc |-> "waiting", srv |-> server]
    OBVIOUS
  <2>2. /\ r.what = w /\ r.pc = "waiting" /\ r.srv = server /\ task' = [task EXCEPT ![p] = r]
        /\ UNCHANGED <<state, counts, creds, server, outlived, allowance>>
    BY <1>5, <2>1 DEF DeleteBegins
  <2>3. /\ ~Creates(p)' /\ ~Makes(p)' /\ Deletes(p)' /\ task'[p] = r
        /\ \A q \in Tasks \ {p} : /\ task'[q] = task[q] /\ (Creates(q)' <=> Creates(q))
                                  /\ (Deletes(q)' <=> Deletes(q))
    <3>1. ZeusTypes
      BY DEF ZeusInv
    <3> QED BY <2>2, <3>1, OneTask
  <2>4. SUFFICES ASSUME ~overlapped' PROVE Orderly' /\ ClientsAtServer'
    BY <2>2 DEF NoneCounted, Orderly, ClientsAtServer
  <2>5. \A q \in Tasks : ~Creates(q)' /\ ~Makes(q)'
    BY <1>1, <2>3, <2>4 DEF Makes
  <2>6. \A q \in Tasks : CreationFits(q)'
    BY <2>5 DEF CreationFits
  <2>7. \A q \in Tasks : DeletionFits(q)'
    BY <1>2, <1>3, <2>2, <2>3, <2>4 DEF DeletionFits
  <2>8. Linked'
    BY <1>2, <1>3, <2>2, <2>3, <2>4 DEF Linked, Replaces
  <2>9. Orderly'
    BY <2>6, <2>7, <2>8 DEF Orderly
  <2>10. ASSUME waits, NEW x \in Attached' PROVE client'[x].srv = server' /\ server' # None
    BY <1>1, <1>2, <2>2, <2>4, <2>10 DEF ZeusInv, ClientsAtServer, Live, Attached
  <2> QED BY <2>5, <2>9, <2>10 DEF ClientsAtServer
<1> QED
  BY <1>4, <1>5

LEMMA DeletionEnds ==
  ASSUME ZeusInv, NEW p \in Tasks, DeleteEnds(p)
  PROVE  Orderly' /\ ClientsAtServer' /\ NoneCounted
<1>1. Deletes(p) /\ ~Creates(p) /\ LiveAt(task[p].srv) = {}
  BY DEF DeleteEnds, Deletes, Creates
<1>2. ~overlapped => /\ \A q \in Tasks : ~Creates(q)
                     /\ listening = {} /\ server \in {None, task[p].srv}
  BY <1>1 DEF ZeusInv, Orderly, CreationFits, DeletionFits
<1>3. waits /\ ~overlapped => Attached = {}
  <2>1. SUFFICES ASSUME waits, ~overlapped, NEW c \in Attached PROVE FALSE
    OBVIOUS
  <2>2. ~Making
    BY <1>2, <2>1 DEF Making, Makes
  <2>3. client[c].srv = task[p].srv
    BY <1>2, <2>1, <2>2 DEF ZeusInv, ClientsAtServer
  <2> QED BY <1>1, <2>3 DEF LiveAt, Attached
<1>4. Orderly' /\ ClientsAtServer'
  BY <1>2, <1>3, NoProxyLeft DEF DeleteEnds
<1> QED
  BY <1>3, <1>4, AllLeft DEF DeleteEnds, Deleted, Cleared

LEMMA CreationSets ==
  ASSUME ZeusInv, ZeusTypes', NEW p \in Tasks, NEW fresh \in BOOLEAN, Sets(p, fresh),
         UNCHANGED <<waits, client>>,
         ~overlapped' => /\ \A q \in Tasks \ {p} : ~Creates(q) /\ ~Deletes(q)
                         /\ listening' = {} /\ (waits => Attached = {})
                         /\ ~fresh => server = None /\ state.result = None
  PROVE  Orderly' /\ ClientsAtServer'
<1>1. SUFFICES ASSUME ~overlapped' PROVE Orderly' /\ ClientsAtServer'
  BY DEF Orderly, ClientsAtServer
<1>2. /\ server' = None /\ state'.result = None /\ listening' = {}
      /\ state'.phase \in {"error", "starting"}
  BY <1>1 DEF Sets
<1>3. waits => Attached' = {}
  BY <1>1 DEF Live, Attached
<1>4. Linked'
  BY <1>2 DEF Linked, Replaces
<1>5. CASE task' = [task EXCEPT ![p] = NoTask]
  <2>1. /\ ~Creates(p)' /\ ~Deletes(p)'
        /\ \A q \in Tasks \ {p} : ~Creates(q)' /\ ~Deletes(q)'
    <3>1. ZeusTypes
      BY DEF ZeusInv
    <3> QED BY <1>1, <1>5, <3>1, OneTask, ZeusRecords
  <2>2. \A q \in Tasks : CreationFits(q)' /\ DeletionFits(q)'
    BY <2>1 DEF CreationFits, DeletionFits
  <2> QED BY <1>3, <1>4, <2>1, <2>2 DEF Orderly, ClientsAtServer, Makes
<1>6. CASE /\ started' = started + 1 /\ creds' = started'
           /\ task' = [task EXCEPT ![p] = [what |-> "create", pc |-> "binding", srv |-> started']]
  <2>1. PICK r : r = [what |-> "create", pc |-> "binding", srv |-> started']
    OBVIOUS
  <2>2. /\ r.what = "create" /\ r.pc = "binding" /\ r.srv = started'
        /\ task' = [task EXCEPT ![p] = r]
    BY <1>6, <2>1
  <2>3. task'[p] = r /\ Makes(p)' /\ ~Deletes(p)' /\ Creates(p)'
        /\ \A q \in Tasks \ {p} : ~Creates(q)' /\ ~Deletes(q)'
    <3>1. ZeusTypes
      BY DEF ZeusInv
    <3> QED BY <1>1, <2>2, <3>1, OneTask
  <2>4. started' # None /\ creds' = r.srv
    BY <1>6, <2>2 DEF ZeusTypes
  <2>5. CreationFits(p)'
    BY <1>2, <2>2, <2>3, <2>4 DEF CreationFits
  <2>6. \A q \in Tasks : CreationFits(q)' /\ DeletionFits(q)'
    BY <2>3, <2>5 DEF CreationFits, DeletionFits
  <2>7. Making'
    BY <2>3 DEF Making
  <2> QED BY <1>3, <2>6, <2>7 DEF Orderly, ClientsAtServer
<1> QED
  BY <1>5, <1>6 DEF Sets

LEMMA CreationBegins ==
  ASSUME ZeusInv, ZeusTypes', NEW p \in Calls, ApiCreate(p)
  PROVE  Orderly' /\ ClientsAtServer' /\ NoneCounted
<1>1. p \in Tasks /\ Replaces \in BOOLEAN
  BY DEF Tasks, ZeusInv, ZeusTypes, States, Replaces
<1>2. ~overlapped' => ~overlapped /\ \A q \in Tasks : ~Creates(q) /\ ~Deletes(q)
  BY DEF ApiCreate, Busy, Creates, Deletes
<1>3. ~overlapped' => ~Making /\ Linked
  BY <1>2 DEF ZeusInv, Orderly, Making, Makes
<1>4. ~overlapped' => listening' = {}
  BY <1>3 DEF ApiCreate, Linked
<1>5. CASE ~(Replaces /\ MustWait(server))
  <2>1. Sets(p, Replaces)
    BY <1>5 DEF ApiCreate
  <2>2. ~overlapped' /\ ~Replaces => server = None /\ state.result = None
    BY <1>3 DEF Linked
  <2>3. ~overlapped' => ~MustWait(server)
    BY <1>5, <2>2 DEF MustWait
  <2>4. waits /\ ~overlapped' => Attached = {}
    BY <1>2, <1>3, <2>3, NobodyAtServer
  <2>5. UNCHANGED <<waits, client>>
    BY DEF ApiCreate
  <2>6. NoneCounted
    BY <2>1, <2>4, <2>5, AllLeft DEF Sets
  <2> QED BY <1>1, <1>2, <1>4, <2>1, <2>2, <2>4, <2>5, <2>6, CreationSets
<1>6. CASE Replaces /\ MustWait(server)
  <2>1. PICK r : r = [what |-> "create", pc |-> "waiting", srv |-> server]
    OBVIOUS
  <2>2. /\ r.what = "create" /\ r.pc = "waiting" /\ r.srv = server
        /\ task' = [task EXCEPT ![p] = r]
        /\ UNCHANGED <<state, counts, creds, server, outlived, waits, client>>
    BY <1>6, <2>1 DEF ApiCreate
  <2>3. task'[p] = r /\ Creates(p)' /\ ~Makes(p)' /\ ~Deletes(p)'
        /\ \A q \in Tasks \ {p} : (Creates(q)' <=> Creates(q)) /\ (Deletes(q)' <=> Deletes(q))
    <3>1. ZeusTypes
      BY DEF ZeusInv
    <3> QED BY <1>1, <2>2, <3>1, OneTask
  <2>4. SUFFICES ASSUME ~overlapped' PROVE Orderly' /\ ClientsAtServer'
    BY <2>2 DEF NoneCounted, Orderly, ClientsAtServer
  <2>5. server # None
    BY <1>6 DEF MustWait
  <2>6. CreationFits(p)'
    BY <1>2, <1>4, <2>2, <2>3, <2>4, <2>5 DEF CreationFits
  <2>7. \A q \in Tasks : CreationFits(q)' /\ DeletionFits(q)'
    BY <1>2, <2>3, <2>4, <2>6 DEF CreationFits, DeletionFits
  <2>8. Linked'
    BY <1>1, <1>3, <1>4, <2>2, <2>3, <2>4 DEF Linked, Replaces
  <2>9. ASSUME waits, NEW x \in Attached' PROVE client'[x].srv = server' /\ server' # None
    BY <1>2, <1>3, <2>2, <2>4, <2>9 DEF ZeusInv, ClientsAtServer, Live, Attached
  <2>10. \A q \in Tasks : ~Makes(q)'
    BY <1>2, <2>3, <2>4 DEF Makes
  <2> QED BY <2>2, <2>7, <2>8, <2>9, <2>10 DEF Orderly, ClientsAtServer
<1> QED
  BY <1>5, <1>6

LEMMA CreationGoesOn ==
  ASSUME ZeusInv, ZeusTypes', NEW p \in Tasks, OldIsGone(p)
  PROVE  Orderly' /\ ClientsAtServer' /\ NoneCounted
<1>1. Creates(p) /\ ~Makes(p) /\ LiveAt(task[p].srv) = {} /\ Sets(p, TRUE)
      /\ task[p].pc = "waiting" /\ UNCHANGED <<listening, waits, client, overlapped>>
  BY DEF OldIsGone, Creates, Makes
<1>2. ~overlapped => /\ \A q \in Tasks \ {p} : ~Creates(q) /\ ~Deletes(q)
                     /\ listening = {} /\ task[p].srv = server
  BY <1>1 DEF ZeusInv, Orderly, CreationFits
<1>3. ~overlapped => ~Making
  BY <1>1, <1>2 DEF Making, Makes
<1>4. ASSUME waits, ~overlapped, NEW c \in Attached PROVE FALSE
  BY <1>1, <1>2, <1>3, <1>4 DEF ZeusInv, ClientsAtServer, LiveAt, Attached
<1>5. waits /\ ~overlapped' => Attached = {}
  BY <1>1, <1>4
<1>6. Orderly' /\ ClientsAtServer'
  BY <1>1, <1>2, <1>5, CreationSets
<1> QED
  BY <1>1, <1>5, <1>6, AllLeft DEF Sets

LEMMA ServerBinds ==
  ASSUME ZeusInv, NEW p \in Tasks, Binds(p)
  PROVE  Orderly' /\ ClientsAtServer'
<1>1. Creates(p) /\ Makes(p) /\ task[p].what = "create" /\ task[p].pc = "binding"
      /\ UNCHANGED <<server, creds, waits, client, overlapped>> /\ ZeusTypes
  BY DEF Binds, Creates, Makes, ZeusInv
<1>2. SUFFICES ASSUME ~overlapped PROVE Orderly' /\ ClientsAtServer'
  BY <1>1 DEF Orderly, ClientsAtServer
<1>3. CreationFits(p)
  BY <1>2 DEF ZeusInv, Orderly
<1>4. /\ \A q \in Tasks \ {p} : ~Creates(q) /\ ~Deletes(q)
      /\ server = None /\ state.result = None /\ listening = {}
      /\ creds = task[p].srv /\ task[p].srv # None
  BY <1>1, <1>3 DEF CreationFits
<1>5. waits => Attached' = {}
  BY <1>1, <1>2 DEF ZeusInv, ClientsAtServer, Live, Attached
<1>6. CASE task' = [task EXCEPT ![p] = NoTask] /\ UNCHANGED listening
           /\ state' = [state EXCEPT !.running = FALSE, !.phase = "error"]
  <2>1. \A q \in Tasks : ~Creates(q)' /\ ~Deletes(q)'
    BY <1>1, <1>4, <1>6, OneTask, ZeusRecords
  <2>2. state'.running = FALSE /\ state'.result = None
    BY <1>1, <1>4, <1>6 DEF ZeusTypes, States
  <2>3. Linked'
    BY <1>1, <1>4, <1>6, <2>2 DEF Linked, Replaces
  <2> QED BY <1>1, <1>5, <2>1, <2>3 DEF Orderly, ClientsAtServer, CreationFits, DeletionFits, Makes
<1>7. CASE /\ listening' = listening \cup {task[p].srv} /\ UNCHANGED state
           /\ task' = [task EXCEPT ![p].pc = "bound"]
  <2>1. PICK r : r = [task[p] EXCEPT !.pc = "bound"]
    OBVIOUS
  <2>2. r.what = "create" /\ r.pc = "bound" /\ r.srv = task[p].srv
        /\ task' = [task EXCEPT ![p] = r]
    <3>1. task[p] \in TaskRec
      BY <1>1 DEF ZeusTypes
    <3> QED BY <1>1, <1>7, <2>1, <3>1 DEF TaskRec
  <2>3. task'[p] = r /\ Creates(p)' /\ Makes(p)' /\ ~Deletes(p)'
        /\ \A q \in Tasks \ {p} : ~Creates(q)' /\ ~Deletes(q)'
    <3>1. /\ task'[p] = r
          /\ \A q \in Tasks \ {p} : (Creates(q)' <=> Creates(q)) /\ (Deletes(q)' <=> Deletes(q))
      BY <1>1, <2>2, OneTask
    <3>2. Creates(p)' /\ Makes(p)' /\ ~Deletes(p)'
      BY <2>2, <3>1 DEF Creates, Makes, Deletes
    <3> QED BY <1>4, <3>1, <3>2
  <2>4. CreationFits(p)'
    BY <1>1, <1>4, <1>7, <2>2, <2>3 DEF CreationFits
  <2>5. \A q \in Tasks : CreationFits(q)' /\ DeletionFits(q)'
    BY <2>3, <2>4 DEF CreationFits, DeletionFits
  <2>6. Making'
    BY <2>3 DEF Making
  <2> QED BY <1>1, <1>5, <2>5, <2>6 DEF Orderly, ClientsAtServer
<1> QED
  BY <1>6, <1>7 DEF Binds

LEMMA CreationEnds ==
  ASSUME ZeusInv, NEW p \in Tasks, CreateEnds(p)
  PROVE  Orderly' /\ ClientsAtServer'
<1>1. Creates(p) /\ Makes(p) /\ task[p].what = "create" /\ task[p].pc = "bound"
      /\ server' = task[p].srv /\ task' = [task EXCEPT ![p] = NoTask]
      /\ UNCHANGED <<creds, listening, waits, client, overlapped>> /\ ZeusTypes
  BY DEF CreateEnds, Creates, Makes, ZeusInv
<1>2. SUFFICES ASSUME ~overlapped PROVE Orderly' /\ ClientsAtServer'
  BY <1>1 DEF Orderly, ClientsAtServer
<1>3. CreationFits(p)
  BY <1>2 DEF ZeusInv, Orderly
<1>4. /\ \A q \in Tasks \ {p} : ~Creates(q) /\ ~Deletes(q)
      /\ listening = {task[p].srv} /\ creds = task[p].srv /\ task[p].srv # None
  BY <1>1, <1>3 DEF CreationFits
<1>5. \A q \in Tasks : ~Creates(q)' /\ ~Deletes(q)'
  BY <1>1, <1>4, OneTask, ZeusRecords
<1>6. state'.running = TRUE /\ state'.phase = "done" /\ state'.result = <<creds>>
  BY <1>1 DEF CreateEnds, ZeusTypes, States
<1>7. Linked'
  BY <1>1, <1>4, <1>6 DEF Linked, Replaces
<1>8. ASSUME waits, NEW x \in Attached' PROVE client'[x].srv = server' /\ server' # None
  BY <1>1, <1>2, <1>4, <1>8 DEF ZeusInv, ClientsAtServer, Live, Attached
<1> QED
  BY <1>1, <1>5, <1>7, <1>8 DEF Orderly, ClientsAtServer, CreationFits, DeletionFits, Makes

------------------------------------------------------------------------------
LEMMA ZeusInductive ==
  ASSUME ZeusInv, [ZeusNext]_zvars
  PROVE  /\ ZeusInv'
         /\ NoneCounted \/ \E c \in Clients : Connects(c) \/ Leaves(c)
<1>1. ZeusTypes' /\ ZeusTypes
  BY TypesKept DEF ZeusInv
<1> DEFINE Goal == /\ LiveAreIdle' /\ Orderly' /\ ClientsAtServer'
                   /\ NoneCounted \/ \E c \in Clients : Connects(c) \/ Leaves(c)
<1>2. SUFFICES Goal
  BY <1>1 DEF ZeusInv
<1>3. ASSUME NEW p \in Tasks, NEW r, task' = [task EXCEPT ![p] = r], UNCHANGED client,
             p \in Calls \/ Busy(p)
      PROVE  LiveAreIdle'
  <2>1. \A c \in Clients : c = p => Busy(c)
    BY <1>3
  <2>2. \A c \in Live : c \in Clients /\ c # p /\ c \in Tasks
    BY <2>1 DEF ZeusInv, LiveAreIdle, Live, Tasks
  <2>3. \A c \in Live : task'[c] = task[c]
    BY <1>1, <1>3, <2>2, OneTask
  <2> QED BY <1>3, <2>3 DEF ZeusInv, LiveAreIdle, Live, Busy
<1>4. ASSUME NEW p \in Calls, ApiDelete(p) PROVE Goal
  <2>1. p \in Tasks /\ ~Creates(p) /\ ~Deletes(p) /\ UNCHANGED <<waits, client>>
        /\ \E r : task' = [task EXCEPT ![p] = r]
    BY <1>4 DEF ApiDelete, DeleteBegins, Tasks, Busy, Creates, Deletes
  <2>2. LiveAreIdle'
    BY <1>3, <2>1
  <2>3. DeleteBegins(p, "delete")
        /\ overlapped' = (overlapped \/ \E q \in Tasks : task[q].what = "create")
    BY <1>4 DEF ApiDelete
  <2>4. Orderly' /\ ClientsAtServer' /\ NoneCounted
    BY <2>1, <2>3, DeletionBegins
  <2> QED BY <2>2, <2>4
<1>5. ASSUME NEW c \in Clients, AutoDelete(c) PROVE Goal
  <2>1. c \in Tasks /\ ~Creates(c) /\ ~Deletes(c) /\ UNCHANGED <<waits, client>>
        /\ Busy(c) /\ \E r : task' = [task EXCEPT ![c] = r]
    BY <1>5 DEF AutoDelete, DeleteBegins, Tasks, Busy, Creates, Deletes
  <2>2. LiveAreIdle'
    BY <1>3, <2>1
  <2>3. DeleteBegins(c, "auto")
        /\ overlapped' = (overlapped \/ \E q \in Tasks : task[q].what = "create")
    BY <1>5 DEF AutoDelete
  <2>4. Orderly' /\ ClientsAtServer' /\ NoneCounted
    BY <2>1, <2>3, DeletionBegins
  <2> QED BY <2>2, <2>4
<1>6. ASSUME NEW p \in Calls, ApiCreate(p) PROVE Goal
  <2>1. p \in Tasks /\ UNCHANGED client /\ \E r : task' = [task EXCEPT ![p] = r]
    BY <1>6 DEF ApiCreate, Sets, Tasks
  <2> QED BY <1>1, <1>3, <1>6, <2>1, CreationBegins
<1>7. ASSUME NEW p \in Tasks, Operation(p) PROVE Goal
  <2>1. /\ UNCHANGED client /\ Busy(p) /\ \E r : task' = [task EXCEPT ![p] = r]
        /\ UNCHANGED <<counts, outlived>> \/ DeleteEnds(p) \/ OldIsGone(p)
    BY <1>7 DEF Operation, DeleteEnds, OldIsGone, Binds, CreateEnds, Sets, Busy
  <2>2. LiveAreIdle'
    BY <1>3, <2>1
  <2>3. Orderly' /\ ClientsAtServer' /\ NoneCounted
    BY <1>1, <1>7, <2>1, DeletionEnds, CreationGoesOn, ServerBinds, CreationEnds
    DEF Operation, NoneCounted
  <2> QED BY <2>2, <2>3
<1>8. CASE ApiConfig \/ TimePasses \/ UNCHANGED zvars
  <2>1. UNCHANGED <<state, counts, creds, server, listening, waits, task, client, overlapped,
                    outlived>>
    BY <1>8 DEF ApiConfig, TimePasses, zvars
  <2>2. Replaces' = Replaces /\ Making' = Making /\ Live' = Live /\ Attached' = Attached
    BY <2>1 DEF Replaces, Making, Makes, Creates, Live, Attached
  <2>3. LiveAreIdle' /\ ClientsAtServer'
    BY <2>1, <2>2 DEF ZeusInv, LiveAreIdle, ClientsAtServer, Busy, Makes, Creates
  <2>4. Orderly'
    BY <2>1, <2>2 DEF ZeusInv, Orderly, CreationFits, DeletionFits, Linked, Creates, Makes, Deletes
  <2> QED BY <2>1, <2>3, <2>4 DEF NoneCounted
<1>9. ASSUME NEW c \in Clients, NEW d \in 1..2,
             \/ Connects(c) \/ Relays(c) \/ Disconnects(c) \/ Leaves(c)
             \/ PipeReads(c, d) \/ PipeCounts(c, d) \/ PipeEnds(c, d)
      PROVE  Goal
  <2>1. /\ UNCHANGED <<creds, server, listening, waits, overlapped>>
        /\ outlived' = outlived /\ (counts' = counts \/ Connects(c) \/ Leaves(c))
        /\ state' = state \/ state' = [state EXCEPT !.used = @ + 1]
        /\ task' = task \/ Leaves(c)
    BY <1>9 DEF Connects, Relays, Disconnects, Leaves, PipeReads, PipeCounts, PipeEnds
  <2>2. state'.running = state.running /\ state'.phase = state.phase
        /\ state'.result = state.result
    BY <1>1, <2>1 DEF ZeusTypes, States
  <2>3. ASSUME NEW x \in Clients \ {c} PROVE client'[x] = client[x]
    BY <1>1, <1>9, <2>3
    DEF Connects, Relays, Disconnects, Leaves, PipeReads, PipeCounts, PipeEnds, ZeusTypes
  <2>4. /\ Connects(c) => /\ client'[c].srv \in listening /\ ~Busy(c) /\ task' = task
        /\ ~Connects(c) => \/ client'[c].pc = "none"
                           \/ /\ client'[c].srv \in {client[c].srv, None}
                              /\ client[c].pc # "none" /\ task' = task
    <3>1. client[c] \in ClientRec
      BY <1>1 DEF ZeusTypes
    <3>2. CASE Connects(c)
      <4>1. PICK s \in listening : client' = [client EXCEPT ![c].pc = "hello", ![c].srv = s]
        BY <3>2 DEF Connects
      <4>2. client'[c].srv = s
        BY <1>1, <3>1, <4>1 DEF ZeusTypes, ClientRec
      <4>3. client[c].pc = "none" /\ ~Busy(c) /\ task' = task
        BY <3>2 DEF Connects
      <4> QED BY <3>2, <4>2, <4>3
    <3>3. CASE Leaves(c)
      <4>1. client'[c].pc = "none" /\ client[c].pc # "none"
        BY <1>1, <3>3, ZeusRecords DEF Leaves, Leaving, Finished, ZeusTypes
      <4> QED BY <4>1 DEF Connects
    <3>4. CASE Relays(c) \/ Disconnects(c)
      <4>1. client'[c].srv \in {client[c].srv, None}
        BY <1>1, <3>1, <3>4 DEF Relays, Disconnects, ZeusTypes, ClientRec
      <4>2. client[c].pc # "none" /\ task' = task
        BY <3>4 DEF Relays, Disconnects
      <4> QED BY <4>1, <4>2 DEF Connects
    <3>5. CASE PipeReads(c, d) \/ PipeCounts(c, d) \/ PipeEnds(c, d)
      <4>1. PICK k : client' = [client EXCEPT ![c].pipes[d] = k]
        BY <3>5 DEF PipeReads, PipeCounts, PipeEnds
      <4>2. client'[c].srv = client[c].srv
        BY <1>1, <3>1, <4>1 DEF ZeusTypes, ClientRec
      <4>3. client[c].pc = "relay" /\ task' = task
        BY <3>5 DEF PipeReads, PipeCounts, PipeEnds
      <4> QED BY <4>2, <4>3, <3>5 DEF PipeReads, PipeCounts, PipeEnds, Connects
    <3> QED BY <1>9, <3>2, <3>3, <3>4, <3>5
  <2>5. \A x \in Attached' : \/ x \in Attached /\ client'[x].srv = client[x].srv
                             \/ client'[x].srv \in listening
    BY <2>3, <2>4 DEF Live, Attached
  <2>6. \/ task' = task
        \/ ~Busy(c) /\ task' = [task EXCEPT ![c] = [what |-> "auto", pc |-> "spawned", srv |-> None]]
    BY <2>1 DEF Leaves, Leaving, Finished, ZeusInv, LiveAreIdle, Live
  <2>7. Orderly' /\ ClientsAtServer'
    BY <2>1, <2>2, <2>5, <2>6, ProxyStays
  <2>8. ASSUME NEW x \in Live' PROVE ~Busy(x)'
    <3>1. CASE x = c
      BY <2>4, <2>8, <3>1 DEF ZeusInv, LiveAreIdle, Live, Busy
    <3>2. CASE x # c
      <4>1. x \in Live /\ x \in Tasks
        BY <2>3, <2>8, <3>2 DEF Live, Tasks
      <4>2. task'[x] = task[x]
        BY <1>1, <2>6, <3>2, <4>1 DEF ZeusTypes
      <4> QED BY <4>1, <4>2 DEF ZeusInv, LiveAreIdle, Busy
    <3> QED BY <3>1, <3>2
  <2> QED BY <2>1, <2>7, <2>8 DEF LiveAreIdle, NoneCounted
<1> HIDE DEF Goal
<1> QED
  BY <1>4, <1>5, <1>6, <1>7, <1>8, <1>9 DEF ZeusNext

(* Between operations one server accepts, the one that the state and the    *)
(* credentials name, however many deletions ran side by side.               *)
THEOREM OneProxyAtATime == ZeusSpec => []OneProxy
<1>1. ZeusInv /\ [ZeusNext]_zvars => ZeusInv'
  BY ZeusInductive
<1>2. ZeusInv => OneProxy
  BY DEF ZeusInv, Orderly, Linked, OneProxy, Making, Makes, Creates, Deletes, Busy
<1> QED
  BY <1>1, <1>2, ZeusInitially, PTL DEF ZeusSpec
------------------------------------------------------------------------------
(* The counts, and how many clients of an address there are.                *)
LEMMA LiveIsFinite ==
  ASSUME NEW i \in Ips
  PROVE  IsFiniteSet(LiveOf(i)) /\ Cardinality(LiveOf(i)) \in Nat
BY FS_Subset, FS_CardinalityType DEF LiveOf, Live

LEMMA CountsConnects ==
  ASSUME ZeusTypes, NEW c \in Clients, Connects(c), NEW i \in Ips
  PROVE  IF i = IpOf[c]
         THEN counts'[i] = counts[i] + 1 /\ Cardinality(LiveOf(i)') = Cardinality(LiveOf(i)) + 1
         ELSE counts'[i] = counts[i] /\ LiveOf(i)' = LiveOf(i)
<1>1. PICK s \in listening : client' = [client EXCEPT ![c].pc = "hello", ![c].srv = s]
  BY DEF Connects
<1>2. client[c].pc = "none" /\ client'[c].pc = "hello" /\ \A x \in Clients \ {c} : client'[x] = client[x]
  <2>1. client[c] \in ClientRec
    BY DEF ZeusTypes
  <2> QED BY <1>1, <2>1 DEF Connects, ZeusTypes, ClientRec
<1>3. i = IpOf[c] => LiveOf(i)' = LiveOf(i) \cup {c} /\ c \notin LiveOf(i)
  BY <1>2 DEF LiveOf, Live
<1>4. i # IpOf[c] => LiveOf(i)' = LiveOf(i)
  BY <1>2 DEF LiveOf, Live
<1>5. Cardinality(LiveOf(i) \cup {c})
        = IF c \in LiveOf(i) THEN Cardinality(LiveOf(i)) ELSE Cardinality(LiveOf(i)) + 1
  BY LiveIsFinite, FS_AddElement
<1>6. counts' = [counts EXCEPT ![IpOf[c]] = @ + 1]
  BY DEF Connects
<1> QED
  BY <1>3, <1>4, <1>5, <1>6 DEF ZeusTypes

LEMMA CountsLeaves ==
  ASSUME ZeusTypes, NEW c \in Clients, Leaves(c), NEW i \in Ips
  PROVE  IF i = IpOf[c]
         THEN /\ counts'[i] = IF counts[i] > 0 THEN counts[i] - 1 ELSE 0
              /\ Cardinality(LiveOf(i)') = Cardinality(LiveOf(i)) - 1
         ELSE counts'[i] = counts[i] /\ LiveOf(i)' = LiveOf(i)
<1>1. client[c].pc # "none" /\ client'[c].pc = "none" /\ \A x \in Clients \ {c} : client'[x] = client[x]
  BY ZeusRecords DEF Leaves, Leaving, Finished, ZeusTypes
<1>2. i = IpOf[c] => LiveOf(i)' = LiveOf(i) \ {c} /\ c \in LiveOf(i)
  BY <1>1 DEF LiveOf, Live
<1>3. i # IpOf[c] => LiveOf(i)' = LiveOf(i)
  BY <1>1 DEF LiveOf, Live
<1>4. Cardinality(LiveOf(i) \ {c})
        = IF c \in LiveOf(i) THEN Cardinality(LiveOf(i)) - 1 ELSE Cardinality(LiveOf(i))
  BY LiveIsFinite, FS_RemoveElement
<1>5. counts' = [counts EXCEPT ![IpOf[c]] = IF @ > 0 THEN @ - 1 ELSE 0]
  BY DEF Leaves, Uncounted
<1> QED
  BY <1>2, <1>3, <1>4, <1>5 DEF ZeusTypes

(* Any other step leaves the clients, and keeps the counts or clears them.  *)
LEMMA CountsElse ==
  ASSUME ZeusTypes, [ZeusNext]_zvars, ~ \E c \in Clients : Connects(c) \/ Leaves(c)
  PROVE  /\ UNCHANGED <<counts, outlived>> \/ counts' = [i \in Ips |-> 0]
         /\ \A i \in Ips : LiveOf(i)' = LiveOf(i)
<1>1. UNCHANGED <<counts, outlived>> \/ counts' = [i \in Ips |-> 0]
  <2>1. ASSUME NEW p \in Tasks, \/ ApiDelete(p) \/ ApiCreate(p) \/ AutoDelete(p) \/ Operation(p)
        PROVE  UNCHANGED <<counts, outlived>> \/ counts' = [i \in Ips |-> 0]
    BY <2>1 DEF Operation, ApiDelete, ApiCreate, AutoDelete, DeleteBegins, Deleted, Cleared, CountsCleared,
                DeleteEnds, OldIsGone, Sets, Binds, CreateEnds
  <2>2. ASSUME NEW c \in Clients, NEW d \in 1..2,
               \/ ApiConfig \/ TimePasses \/ UNCHANGED zvars \/ Relays(c) \/ Disconnects(c)
               \/ PipeReads(c, d) \/ PipeCounts(c, d) \/ PipeEnds(c, d)
        PROVE  UNCHANGED <<counts, outlived>>
    BY <2>2 DEF ApiConfig, TimePasses, zvars, Relays, Disconnects, PipeReads, PipeCounts, PipeEnds
  <2>3. ApiConfig \/ TimePasses \/ UNCHANGED zvars => UNCHANGED <<counts, outlived>>
    BY DEF ApiConfig, TimePasses, zvars
  <2> QED BY <2>1, <2>2, <2>3 DEF ZeusNext, Tasks
<1>2. ASSUME NEW x \in Clients PROVE client'[x].pc = "none" <=> client[x].pc = "none"
  <2>1. CASE client' = client
    BY <2>1
  <2>2. ASSUME NEW c \in Clients, Relays(c) \/ Disconnects(c) PROVE client'[x].pc = "none" <=> client[x].pc = "none"
    <3>1. client[c] \in ClientRec
      BY DEF ZeusTypes
    <3>2. client'[c].pc # "none" /\ client[c].pc # "none"
      BY <2>2, <3>1 DEF Relays, Disconnects, ZeusTypes, ClientRec
    <3>3. \A y \in Clients \ {c} : client'[y] = client[y]
      BY <2>2 DEF Relays, Disconnects, ZeusTypes
    <3> QED BY <3>2, <3>3
  <2>3. ASSUME NEW c \in Clients, NEW d \in 1..2, NEW k, client' = [client EXCEPT ![c].pipes[d] = k]
        PROVE  client'[x].pc = "none" <=> client[x].pc = "none"
    <3>1. client[c] \in ClientRec
      BY DEF ZeusTypes
    <3>2. client'[c].pc = client[c].pc
      BY <2>3, <3>1 DEF ZeusTypes, ClientRec
    <3>3. \A y \in Clients \ {c} : client'[y] = client[y]
      BY <2>3 DEF ZeusTypes
    <3> QED BY <3>2, <3>3
  <2>4. \/ client' = client
        \/ \E c \in Clients : \/ Relays(c) \/ Disconnects(c)
                             \/ \E d \in 1..2 : PipeReads(c, d) \/ PipeCounts(c, d) \/ PipeEnds(c, d)
    BY DEF ZeusNext, zvars, Operation, ApiDelete, ApiCreate, DeleteEnds, OldIsGone, Binds,
           CreateEnds, ApiConfig, TimePasses, AutoDelete
  <2>5. ASSUME NEW c \in Clients, NEW d \in 1..2, PipeReads(c, d) \/ PipeCounts(c, d) \/ PipeEnds(c, d)
        PROVE  \E k : client' = [client EXCEPT ![c].pipes[d] = k]
    BY <2>5 DEF PipeReads, PipeCounts, PipeEnds
  <2> QED
    BY <2>1, <2>2, <2>3, <2>4, <2>5
<1> QED
  BY <1>1, <1>2 DEF LiveOf, Live

(* No address is counted with more connections than it has.                 *)
THEOREM AddressesAreNotLockedOut == ZeusSpec => []CountsNeverHigh
<1>1. ZeusInit => CountsNeverHigh
  BY LiveIsFinite DEF ZeusInit, CountsNeverHigh
<1>2. ASSUME ZeusTypes, CountsNeverHigh, [ZeusNext]_zvars PROVE CountsNeverHigh'
  <2>1. SUFFICES ASSUME NEW i \in Ips PROVE counts'[i] <= Cardinality(LiveOf(i)')
    BY DEF CountsNeverHigh
  <2>2. counts[i] \in Nat /\ Cardinality(LiveOf(i)) \in Nat /\ counts[i] <= Cardinality(LiveOf(i))
    BY <1>2, LiveIsFinite DEF ZeusTypes, CountsNeverHigh
  <2>3. ASSUME NEW c \in Clients, Connects(c) PROVE counts'[i] <= Cardinality(LiveOf(i)')
    BY <1>2, <2>2, <2>3, CountsConnects
  <2>4. ASSUME NEW c \in Clients, Leaves(c) PROVE counts'[i] <= Cardinality(LiveOf(i)')
    <3>1. CASE i = IpOf[c]
      <4>1. i \in Ips /\ Cardinality(LiveOf(i)) - 1 = Cardinality(LiveOf(i)')
            /\ counts'[i] = IF counts[i] > 0 THEN counts[i] - 1 ELSE 0
        BY <1>2, <2>4, <3>1, CountsLeaves
      <4>2. Cardinality(LiveOf(i)) > 0
        <5>1. c \in LiveOf(i)
          BY <2>4, <3>1 DEF Leaves, Leaving, Finished, LiveOf, Live
        <5> QED BY <2>2, <5>1, LiveIsFinite, FS_EmptySet
      <4> QED BY <2>2, <4>1, <4>2
    <3>2. CASE i # IpOf[c]
      BY <1>2, <2>2, <2>4, <3>2, CountsLeaves
    <3> QED BY <3>1, <3>2
  <2>5. CASE ~ \E c \in Clients : Connects(c) \/ Leaves(c)
    BY <1>2, <2>2, <2>5, CountsElse
  <2> QED BY <2>3, <2>4, <2>5
<1>3. ZeusInit => ZeusTypes
  BY ZeusInitially DEF ZeusInv
<1>4. ZeusTypes /\ [ZeusNext]_zvars => ZeusTypes'
  BY TypesKept
<1> QED
  BY <1>1, <1>2, <1>3, <1>4, PTL DEF ZeusSpec

(* Where closing waits for the clients, creations run beside no other       *)
(* operation, and no handler had outlived its transport when the counts     *)
(* were last cleared, the counts are exact: nobody passes the limit of an   *)
(* address.                                                                 *)
THEOREM CountsAreExact == ZeusSpec => []CountsExact
<1>1. ZeusInit => CountsExact
  <2>1. SUFFICES ASSUME ZeusInit, NEW i \in Ips PROVE counts[i] = Cardinality(LiveOf(i))
    BY DEF CountsExact
  <2>2. LiveOf(i) = {}
    BY <2>1, ZeusRecords DEF ZeusInit, LiveOf, Live
  <2> QED BY <2>1, <2>2, FS_EmptySet DEF ZeusInit
<1>2. ASSUME ZeusInv, CountsExact, [ZeusNext]_zvars PROVE CountsExact'
  <2>1. SUFFICES ASSUME waits', ~overlapped', ~outlived', NEW i \in Ips PROVE counts'[i] = Cardinality(LiveOf(i)')
    BY DEF CountsExact
  <2>2. waits /\ ~overlapped
    <3>1. (waits' <=> waits) /\ (overlapped => overlapped')
      <4>1. ASSUME NEW p \in Calls, ApiDelete(p)
            PROVE  (waits' <=> waits) /\ (overlapped => overlapped')
        BY <4>1 DEF ApiDelete
      <4>2. ASSUME NEW p \in Calls, ApiCreate(p)
            PROVE  (waits' <=> waits) /\ (overlapped => overlapped')
        BY <4>2 DEF ApiCreate
      <4>3. ASSUME NEW c \in Clients, AutoDelete(c)
            PROVE  (waits' <=> waits) /\ (overlapped => overlapped')
        BY <4>3 DEF AutoDelete
      <4>4. ASSUME NEW p \in Tasks, Operation(p)
            PROVE  (waits' <=> waits) /\ (overlapped => overlapped')
        <5>1. CASE DeleteEnds(p) \/ OldIsGone(p)
          <6>1. UNCHANGED <<waits, overlapped>>
            BY <5>1 DEF DeleteEnds, OldIsGone
          <6> QED BY <6>1
        <5>2. CASE Binds(p) \/ CreateEnds(p)
          BY <5>2 DEF Binds, CreateEnds
        <5> QED BY <4>4, <5>1, <5>2 DEF Operation
      <4>6. CASE ApiConfig \/ TimePasses \/ UNCHANGED zvars
        BY <4>6 DEF ApiConfig, TimePasses, zvars
      <4>7. ASSUME NEW c \in Clients, Connects(c) \/ Relays(c) \/ Disconnects(c) \/ Leaves(c)
            PROVE  (waits' <=> waits) /\ (overlapped => overlapped')
        BY <4>7 DEF Connects, Relays, Disconnects, Leaves
      <4>5. ASSUME NEW c \in Clients, NEW d \in 1..2,
                   PipeReads(c, d) \/ PipeCounts(c, d) \/ PipeEnds(c, d)
            PROVE  (waits' <=> waits) /\ (overlapped => overlapped')
        BY <4>5 DEF PipeReads, PipeCounts, PipeEnds
      <4> QED BY <1>2, <4>1, <4>2, <4>3, <4>4, <4>5, <4>6, <4>7 DEF ZeusNext
    <3> QED BY <2>1, <3>1
  <2>3. ZeusTypes /\ counts[i] \in Nat /\ (~outlived => counts[i] = Cardinality(LiveOf(i)))
    BY <1>2, <2>2 DEF CountsExact, ZeusInv, ZeusTypes
  <2>4. ASSUME NEW c \in Clients, Connects(c) PROVE counts'[i] = Cardinality(LiveOf(i)')
    <3>1. counts[i] = Cardinality(LiveOf(i))
      BY <2>1, <2>3, <2>4 DEF Connects
    <3> QED BY <2>3, <2>4, <3>1, CountsConnects
  <2>5. ASSUME NEW c \in Clients, Leaves(c) PROVE counts'[i] = Cardinality(LiveOf(i)')
    <3>1. counts[i] = Cardinality(LiveOf(i))
      BY <2>1, <2>3, <2>5 DEF Leaves
    <3>2. CASE i = IpOf[c]
      <4>1. /\ counts'[i] = IF counts[i] > 0 THEN counts[i] - 1 ELSE 0
            /\ Cardinality(LiveOf(i)') = Cardinality(LiveOf(i)) - 1
        BY <2>3, <2>5, <3>2, CountsLeaves
      <4>2. Cardinality(LiveOf(i)) # 0
        <5>1. c \in LiveOf(i)
          BY <2>5, <3>2 DEF Leaves, Leaving, Finished, LiveOf, Live
        <5> QED BY <5>1, LiveIsFinite, FS_EmptySet
      <4> QED BY <2>3, <3>1, <4>1, <4>2
    <3>3. CASE i # IpOf[c]
      BY <2>3, <2>5, <3>1, <3>3, CountsLeaves
    <3> QED BY <3>2, <3>3
  <2>6. CASE ~ \E c \in Clients : Connects(c) \/ Leaves(c)
    <3>1. NoneCounted /\ LiveOf(i)' = LiveOf(i)
      BY <1>2, <2>3, <2>6, ZeusInductive, CountsElse
    <3>2. CASE UNCHANGED <<counts, outlived>>
      BY <2>1, <2>3, <3>1, <3>2
    <3>3. CASE ~ UNCHANGED <<counts, outlived>>
      <4>1. Live = {}
        BY <2>1, <3>1, <3>3 DEF NoneCounted
      <4>2. counts'[i] = 0
        BY <1>2, <2>3, <2>6, <3>3, CountsElse
      <4> QED BY <3>1, <4>1, <4>2, FS_EmptySet DEF LiveOf
    <3> QED BY <3>2, <3>3
  <2> QED BY <1>2, <2>4, <2>5, <2>6
<1>3. ZeusInv /\ [ZeusNext]_zvars => ZeusInv'
  BY ZeusInductive
<1> QED
  BY <1>1, <1>2, <1>3, ZeusInitially, PTL DEF ZeusSpec

------------------------------------------------------------------------------
(* Traffic: the chunks that are written and not counted, two at most of a   *)
(* client.                                                                  *)
Written == {x \in Clients \X (1..2) : client[x[1]].pipes[x[2]] = "written"}

Reached == IF allowance > cfg.limit - 1 THEN allowance ELSE cfg.limit - 1

LEMMA WrittenIsFinite ==
  ASSUME NEW T \in SUBSET (Clients \X (1..2))
  PROVE  /\ IsFiniteSet(T) /\ Cardinality(T) \in Nat
         /\ Cardinality(T) <= 2 * Cardinality(Clients)
<1>1. IsFiniteSet(Clients) /\ IsFiniteSet(1..2) /\ Cardinality(1..2) = 2
  <2>1. 1 \in Int /\ 2 \in Int /\ ~(1 > 2) /\ 2 - 1 + 1 = 2
    OBVIOUS
  <2> QED BY <2>1, FS_Interval
<1>2. /\ IsFiniteSet(Clients \X (1..2))
      /\ Cardinality(Clients \X (1..2)) = Cardinality(Clients) * 2
  BY <1>1, FS_Product
<1> QED
  BY <1>1, <1>2, FS_Subset, FS_CardinalityType

PipeGoes(c, d, k) == client' = [client EXCEPT ![c].pipes[d] = k]

LEMMA OnePipe ==
  ASSUME ZeusTypes, NEW c \in Clients, NEW d \in 1..2, NEW k,
         PipeGoes(c, d, k)
  PROVE  client'[c].pipes[d] = k /\ \A e \in (1..2) \ {d} : client'[c].pipes[e] = client[c].pipes[e]
<1>1. client[c] \in ClientRec /\ client[c].pipes \in [1..2 -> PipeAt]
  BY DEF ZeusTypes, ClientRec
<1>2. client'[c].pipes = [client[c].pipes EXCEPT ![d] = k]
  BY <1>1 DEF ZeusTypes, ClientRec, PipeGoes
<1> QED
  BY <1>1, <1>2

LEMMA OtherPipes ==
  ASSUME ZeusTypes, NEW c \in Clients, NEW d \in 1..2, NEW k,
         PipeGoes(c, d, k), NEW x \in Clients \X (1..2), x # <<c, d>>
  PROVE  client'[x[1]].pipes[x[2]] = client[x[1]].pipes[x[2]]
<1>1. \A y \in Clients \ {c} : client'[y] = client[y]
  BY DEF ZeusTypes, PipeGoes
<1>2. x[1] \in Clients /\ x[2] \in 1..2 /\ (x[1] # c \/ x[2] # d)
  OBVIOUS
<1> QED
  BY <1>1, <1>2, OnePipe

LEMMA TrafficInductive ==
  ASSUME ZeusTypes, TrafficBounded, [ZeusNext]_zvars PROVE TrafficBounded'
<1> DEFINE C == 2 * Cardinality(Clients)
           m == Cardinality(Written)
           n == Cardinality(Written')
<1>1. /\ state.used \in Nat /\ cfg.limit \in Nat /\ allowance \in Nat
      /\ C \in Nat /\ m \in Nat /\ n \in Nat /\ n <= C
  BY WrittenIsFinite, FS_CardinalityType DEF Written, ZeusTypes, States
<1>2. cfg.limit # 0 => state.used + m <= Reached + C
  BY DEF TrafficBounded, InFlight, Written, Reached
<1>3. SUFFICES ASSUME cfg'.limit # 0 PROVE state'.used + n <= Reached' + C
  BY DEF TrafficBounded, InFlight, Written, Reached
<1>4. /\ cfg'.limit \in Nat /\ allowance' \in Nat /\ Reached \in Int /\ Reached' \in Int
      /\ Reached' >= cfg'.limit - 1 /\ Reached' >= allowance'
  <2>1. cfg'.limit \in Nat /\ allowance' \in Nat
    BY TypesKept DEF ZeusTypes
  <2> QED BY <1>1, <2>1 DEF Reached
<1> HIDE DEF C, m, n
<1>5. CASE state'.used = 0
  <2>1. cfg'.limit >= 1
    BY <1>3, <1>4
  <2>2. Reached' \in Nat
    BY <1>4, <2>1
  <2>3. ASSUME NEW a \in Nat, NEW b \in Nat, NEW r \in Nat, a <= b PROVE 0 + a <= r + b
    BY ONLY <2>3
  <2> QED BY <1>1, <1>5, <2>2, <2>3
<1>6. CASE state'.used = state.used /\ allowance' = state.used
  BY <1>1, <1>4, <1>6
<1>7. ASSUME UNCHANGED <<state, cfg, allowance>>,
             \A x \in Clients \X (1..2) :
               client'[x[1]].pipes[x[2]] = "written" => client[x[1]].pipes[x[2]] = "written"
      PROVE  state'.used + n <= Reached' + C
  <2>1. Written' \subseteq Written
    BY <1>7 DEF Written
  <2>2. n <= m
    BY <2>1, FS_Subset, WrittenIsFinite DEF n, m, Written
  <2>3. Reached' = Reached
    BY <1>7 DEF Reached
  <2> QED BY <1>1, <1>2, <1>3, <1>4, <1>7, <2>2, <2>3
<1>8. ASSUME NEW c \in Clients, NEW d \in 1..2, NEW k \in PipeAt \ {"written"},
             PipeGoes(c, d, k), UNCHANGED <<state, cfg, allowance>>
      PROVE  state'.used + n <= Reached' + C
  <2>1. \A x \in Clients \X (1..2) :
          client'[x[1]].pipes[x[2]] = "written" => client[x[1]].pipes[x[2]] = "written"
    <3>1. client'[c].pipes[d] = k
      BY <1>8, OnePipe
    <3>2. \A x \in Clients \X (1..2) :
            x # <<c, d>> => client'[x[1]].pipes[x[2]] = client[x[1]].pipes[x[2]]
      BY <1>8, OtherPipes
    <3> QED BY <1>8, <3>1, <3>2
  <2> QED BY <1>7, <1>8, <2>1
<1>9. ASSUME NEW c \in Clients, NEW d \in 1..2, PipeReads(c, d)
      PROVE  state'.used + n <= Reached' + C
  <2>1. UNCHANGED <<state, cfg, allowance>>
    BY <1>9 DEF PipeReads
  <2>2. CASE UsedUp
    <3>1. PipeGoes(c, d, "done") /\ "done" \in PipeAt \ {"written"}
      BY <1>9, <2>2 DEF PipeReads, PipeAt, PipeGoes
    <3> QED BY <1>8, <2>1, <3>1
  <2>3. CASE ~UsedUp
    <3>1. state.used < cfg.limit /\ cfg' = cfg /\ state'.used = state.used
      BY <1>1, <1>3, <2>1, <2>3 DEF UsedUp, _is_traffic_exceeded
    <3> QED BY <1>1, <1>4, <3>1
  <2> QED BY <2>2, <2>3
<1>10. ASSUME NEW c \in Clients, NEW d \in 1..2, PipeEnds(c, d)
       PROVE  state'.used + n <= Reached' + C
  <2>1. /\ PipeGoes(c, d, "done") /\ "done" \in PipeAt \ {"written"}
        /\ UNCHANGED <<state, cfg, allowance>>
    BY <1>10 DEF PipeEnds, PipeAt, PipeGoes
  <2> QED BY <1>8, <2>1
<1>11. ASSUME NEW c \in Clients, NEW d \in 1..2, PipeCounts(c, d)
       PROVE  state'.used + n <= Reached' + C
  <2>1. /\ PipeGoes(c, d, "read") /\ client[c].pipes[d] = "written"
        /\ UNCHANGED <<cfg, allowance>>
    BY <1>11 DEF PipeCounts, PipeGoes
  <2>2. state'.used = state.used + 1
    BY <1>11 DEF PipeCounts, ZeusTypes, States
  <2>3. <<c, d>> \in Written /\ Written' \subseteq Written \ {<<c, d>>}
    <3>1. /\ client'[c].pipes[d] = "read"
          /\ \A x \in Clients \X (1..2) :
               x # <<c, d>> => client'[x[1]].pipes[x[2]] = client[x[1]].pipes[x[2]]
      BY <2>1, OnePipe, OtherPipes
    <3> QED BY <2>1, <3>1 DEF Written
  <2>4. n <= m - 1
    <3>1. IsFiniteSet(Written)
      BY WrittenIsFinite DEF Written
    <3>2. IsFiniteSet(Written \ {<<c, d>>}) /\ Cardinality(Written \ {<<c, d>>}) = m - 1
      BY <2>3, <3>1, FS_RemoveElement DEF m
    <3> QED BY <2>3, <3>2, FS_Subset DEF n
  <2>5. Reached' = Reached
    BY <2>1 DEF Reached
  <2> QED BY <1>1, <1>2, <1>3, <1>4, <2>1, <2>2, <2>4, <2>5
<1>12. ASSUME NEW c \in Clients, Connects(c) \/ Relays(c) \/ Disconnects(c) \/ Leaves(c)
       PROVE  state'.used + n <= Reached' + C
  <2>1. UNCHANGED <<state, cfg, allowance>>
    BY <1>12 DEF Connects, Relays, Disconnects, Leaves
  <2>2. \A y \in Clients \ {c} : client'[y] = client[y]
    BY <1>12 DEF Connects, Relays, Disconnects, Leaves, ZeusTypes
  <2>3. client'[c].pipes = client[c].pipes \/ \A d \in 1..2 : client'[c].pipes[d] # "written"
    <3>1. client[c] \in ClientRec
      BY DEF ZeusTypes
    <3>2. CASE Connects(c) \/ Disconnects(c)
      BY <3>1, <3>2 DEF Connects, Disconnects, ZeusTypes, ClientRec
    <3>3. CASE Relays(c)
      <4>1. client'[c].pipes = <<"read", "read">>
        BY <3>1, <3>3 DEF Relays, ZeusTypes, ClientRec
      <4> QED BY <4>1
    <3>4. CASE Leaves(c)
      BY <3>4, ZeusRecords DEF Leaves, ZeusTypes
    <3> QED BY <1>12, <3>2, <3>3, <3>4
  <2>4. \A x \in Clients \X (1..2) :
          client'[x[1]].pipes[x[2]] = "written" => client[x[1]].pipes[x[2]] = "written"
    BY <2>2, <2>3
  <2> QED BY <1>7, <2>1, <2>4
<1>13. ASSUME client' = client, UNCHANGED <<state, cfg, allowance>>
       PROVE  state'.used + n <= Reached' + C
  BY <1>7, <1>13
<1>14. CASE ApiConfig
  <2>1. /\ UNCHANGED state
        /\ allowance' = IF cfg'.limit # 0 /\ state.used >= cfg'.limit THEN state.used ELSE 0
    BY <1>14 DEF ApiConfig
  <2>2. CASE state.used >= cfg'.limit
    BY <1>3, <1>6, <2>1, <2>2
  <2>3. CASE ~(state.used >= cfg'.limit)
    BY <1>1, <1>4, <2>1, <2>3
  <2> QED BY <2>2, <2>3
<1>15. ASSUME NEW p \in Tasks, NEW w, DeleteBegins(p, w), UNCHANGED <<client, cfg>>
       PROVE  state'.used + n <= Reached' + C
  BY <1>5, <1>13, <1>15 DEF DeleteBegins, Deleted
<1>16. ASSUME NEW p \in Tasks, NEW fresh, Sets(p, fresh) PROVE state'.used + n <= Reached' + C
  BY <1>5, <1>16 DEF Sets
<1>17. ASSUME NEW p \in Tasks, ApiDelete(p) \/ AutoDelete(p) \/ DeleteEnds(p)
       PROVE  state'.used + n <= Reached' + C
  BY <1>5, <1>15, <1>17 DEF ApiDelete, AutoDelete, DeleteEnds, Deleted
<1>18. ASSUME NEW p \in Tasks, ApiCreate(p) \/ OldIsGone(p)
       PROVE  state'.used + n <= Reached' + C
  BY <1>13, <1>16, <1>18 DEF ApiCreate, OldIsGone
<1>19. ASSUME NEW p \in Tasks, Binds(p) \/ CreateEnds(p) PROVE state'.used + n <= Reached' + C
  <2>1. state'.used = state.used /\ UNCHANGED <<cfg, allowance, client>>
    BY <1>19 DEF Binds, CreateEnds, ZeusTypes, States
  <2>2. n = m /\ Reached' = Reached
    BY <2>1 DEF n, m, Written, Reached
  <2> QED BY <1>1, <1>2, <1>3, <2>1, <2>2
<1>20. CASE TimePasses \/ UNCHANGED zvars
  BY <1>13, <1>20 DEF TimePasses, zvars
<1> QED
  BY <1>9, <1>10, <1>11, <1>12, <1>14, <1>17, <1>18, <1>19, <1>20 DEF ZeusNext, Operation, Tasks

(* The traffic passes its limit by one chunk of each pipe at most, also     *)
(* where the limit is lowered or the proxy replaced under its clients.      *)
THEOREM TrafficNearLimit == ZeusSpec => []TrafficBounded
<1>1. ZeusInit => TrafficBounded
  <2>1. SUFFICES ASSUME ZeusInit PROVE TrafficBounded
    OBVIOUS
  <2>2. Written = {}
    BY <2>1, ZeusRecords DEF ZeusInit, Written
  <2>3. Cardinality(Written) = 0 /\ Cardinality(Clients) \in Nat
    BY <2>2, FS_EmptySet, FS_CardinalityType
  <2>4. state.used = 0 /\ allowance = 0 /\ cfg.limit \in Nat
    BY <2>1 DEF ZeusInit
  <2> QED BY <2>3, <2>4 DEF TrafficBounded, InFlight, Written
<1>2. ZeusInit => ZeusTypes
  BY ZeusInitially DEF ZeusInv
<1>3. ZeusTypes /\ [ZeusNext]_zvars => ZeusTypes'
  BY TypesKept
<1>4. ZeusTypes /\ TrafficBounded /\ [ZeusNext]_zvars => TrafficBounded'
  BY TrafficInductive
<1> QED
  BY <1>1, <1>2, <1>3, <1>4, PTL DEF ZeusSpec

(***************************************************************************)
(* Updater: any number of files, updates and published versions.           *)
(***************************************************************************)
UpdateRec == [pc : {"none", "created", "manifest", "files", "download", "done"},
              to : Nat \cup {NoVersion}, left : SUBSET Files, file : Files \cup {NoVersion},
              content : Nat \cup {NoVersion}, written : SUBSET Files, failed : SUBSET Files]

UpdaterTypes ==
  /\ published \in Nat /\ disk \in [Files -> Nat] /\ version \in Nat
  /\ update \in [Updates -> UpdateRec]
  /\ overlapping \in BOOLEAN /\ skipped \subseteq Files

(* Every file is in one of the places, and what was written is new enough.  *)
(* The version that is aimed at was published before any file of it came.   *)
UnderWay(u) ==
  /\ update[u].pc \in {"none", "created", "manifest"} => update[u].written = {}
  /\ update[u].pc \in {"files", "download"} =>
       /\ update[u].to \in Nat /\ update[u].to <= published
       /\ ~overlapping => version <= update[u].to
       /\ \A f \in Files : f \in update[u].left \cup update[u].written \cup update[u].failed
                             \/ (update[u].pc = "download" /\ f = update[u].file)
       /\ ~overlapping => \A f \in update[u].written : disk[f] >= update[u].to
  /\ update[u].pc = "download" =>
       /\ update[u].file \in Files /\ update[u].content \in Nat
       /\ update[u].to <= update[u].content

UpdaterInv ==
  /\ UpdaterTypes /\ version <= published
  /\ ~overlapping => \A u, w \in Updates : InUpdate(u) /\ InUpdate(w) => u = w
  /\ \A u \in Updates : UnderWay(u)
  /\ VersionNotAhead
------------------------------------------------------------------------------
LEMMA NoUpdateFacts ==
  /\ NoUpdate \in UpdateRec /\ NoUpdate.pc = "none" /\ NoUpdate.written = {}
  /\ [NoUpdate EXCEPT !.pc = "done"] \in UpdateRec /\ [NoUpdate EXCEPT !.pc = "done"].pc = "done"
BY DEF NoUpdate, UpdateRec

LEMMA UpdaterInitially == UpdaterInit => UpdaterInv
<1> SUFFICES ASSUME UpdaterInit PROVE UpdaterInv
  OBVIOUS
<1>1. UpdaterTypes
  BY NoUpdateFacts DEF UpdaterInit, UpdaterTypes
<1>2. \A u \in Updates : update[u].pc = "none" /\ update[u].written = {}
  BY NoUpdateFacts DEF UpdaterInit
<1>3. VersionNotAhead
  BY DEF UpdaterInit, VersionNotAhead
<1> QED
  BY <1>1, <1>2, <1>3 DEF UpdaterInv, UnderWay, InUpdate, UpdaterInit

(* A step of update u that writes nothing.                                  *)
LEMMA UpdaterQuiet ==
  ASSUME UpdaterInv, NEW u \in Updates, NEW r \in UpdateRec, update' = [update EXCEPT ![u] = r],
         UNCHANGED <<published, disk, version, skipped>>, overlapping' \in BOOLEAN,
         overlapping => overlapping',
         r.pc \in {"none", "created", "manifest", "done"}, r.pc # "done" => r.written = {},
         r.pc = "manifest" => \/ InUpdate(u)
                              \/ overlapping' \/ \A w \in Updates : ~InUpdate(w)
  PROVE  UpdaterInv'
<1>1. UpdaterTypes'
  BY DEF UpdaterInv, UpdaterTypes
<1>2. update'[u] = r /\ \A w \in Updates \ {u} : update'[w] = update[w]
  BY DEF UpdaterInv, UpdaterTypes
<1>3. \A w \in Updates : UnderWay(w)'
  BY <1>2 DEF UpdaterInv, UnderWay
<1>4. ~overlapping' => \A v, w \in Updates : InUpdate(v)' /\ InUpdate(w)' => v = w
  BY <1>2 DEF UpdaterInv, InUpdate
<1>5. VersionNotAhead' /\ version' <= published'
  BY DEF UpdaterInv, VersionNotAhead
<1> QED
  BY <1>1, <1>3, <1>4, <1>5 DEF UpdaterInv

(* A step of an update that has its manifest.                               *)
LEMMA UpdaterBusy ==
  ASSUME UpdaterInv, NEW u \in Updates, InUpdate(u), NEW r \in UpdateRec,
         update' = [update EXCEPT ![u] = r], r.pc \in {"files", "download"},
         UNCHANGED <<published, version, overlapping, skipped>>, disk' \in [Files -> Nat],
         ~overlapping => \A f \in Files : disk'[f] = disk[f] \/ disk'[f] >= version,
         UnderWay(u)'
  PROVE  UpdaterInv'
<1>1. UpdaterTypes'
  BY DEF UpdaterInv, UpdaterTypes
<1>2. update'[u] = r /\ \A w \in Updates \ {u} : update'[w] = update[w]
  BY DEF UpdaterInv, UpdaterTypes
<1>3. ~overlapping => \A w \in Updates \ {u} : ~InUpdate(w)
  BY DEF UpdaterInv
<1>4. ASSUME NEW w \in Updates \ {u} PROVE UnderWay(w)'
  BY <1>2, <1>3, <1>4 DEF UpdaterInv, UnderWay, InUpdate
<1>5. ~overlapping' => \A v, w \in Updates : InUpdate(v)' /\ InUpdate(w)' => v = w
  BY <1>2, <1>3 DEF InUpdate
<1>6. VersionNotAhead' /\ version' <= published'
  BY DEF UpdaterInv, VersionNotAhead, UpdaterTypes
<1> QED
  BY <1>1, <1>4, <1>5, <1>6 DEF UpdaterInv

LEMMA UpdaterInductive == ASSUME UpdaterInv, [UpdaterNext]_uvars PROVE UpdaterInv'
<1> USE DEF UpdaterInv
<1>1. CASE UNCHANGED uvars
  BY <1>1 DEF uvars, UpdaterTypes, UnderWay, InUpdate, VersionNotAhead
<1>2. CASE Publishes
  <2>1. UNCHANGED <<disk, version, update, overlapping, skipped>> /\ published' = published + 1
    BY <1>2 DEF Publishes
  <2>2. UpdaterTypes' /\ VersionNotAhead' /\ version' <= published'
    BY <2>1 DEF UpdaterTypes, VersionNotAhead
  <2>3. \A u \in Updates : UnderWay(u)' /\ (InUpdate(u)' <=> InUpdate(u))
    BY <2>1 DEF UpdaterTypes, UnderWay, InUpdate
  <2> QED BY <2>1, <2>2, <2>3
<1>3. CASE ProcessRestarts
  <2>1. UpdaterTypes' /\ VersionNotAhead' /\ version' <= published'
    BY <1>3, NoUpdateFacts DEF ProcessRestarts, UpdaterTypes, VersionNotAhead
  <2>2. \A u \in Updates : update'[u].pc = "none" /\ update'[u].written = {}
    BY <1>3, NoUpdateFacts DEF ProcessRestarts
  <2> QED BY <2>1, <2>2 DEF UnderWay, InUpdate
<1>4. ASSUME NEW u \in Updates, api_update(u) PROVE UpdaterInv'
  <2>1. PICK r : r = [update[u] EXCEPT !.pc = "created"]
    OBVIOUS
  <2>2. r \in UpdateRec /\ r.pc = "created" /\ r.written = {} /\ update' = [update EXCEPT ![u] = r]
    BY <1>4, <2>1 DEF api_update, UpdaterTypes, UpdateRec, UnderWay
  <2> QED BY <1>4, <2>2, UpdaterQuiet DEF api_update, UpdaterTypes
<1>5. ASSUME NEW u \in Updates, Starts(u) PROVE UpdaterInv'
  <2>1. PICK r : r = [update[u] EXCEPT !.pc = "manifest"]
    OBVIOUS
  <2>2. r \in UpdateRec /\ r.pc = "manifest" /\ r.written = {}
    BY <1>5, <2>1 DEF Starts, UpdaterTypes, UpdateRec, UnderWay
  <2>3. /\ overlapping' \in BOOLEAN /\ (overlapping => overlapping')
        /\ overlapping' \/ \A w \in Updates : ~InUpdate(w)
        /\ UNCHANGED <<published, disk, version, skipped>>
    BY <1>5 DEF Starts, UpdaterTypes
  <2>4. update' = [update EXCEPT ![u] = r] \/ update' = [update EXCEPT ![u] = NoUpdate]
    BY <1>5, <2>1 DEF Starts, Stops
  <2> QED BY <2>2, <2>3, <2>4, NoUpdateFacts, UpdaterQuiet
<1>6. ASSUME NEW u \in Updates, Manifest(u) PROVE UpdaterInv'
  <2>1. PICK r : r = [update[u] EXCEPT !.pc = "files", !.to = published, !.left = Files]
    OBVIOUS
  <2>2. r \in UpdateRec /\ r.pc = "files" /\ r.to = published /\ r.left = Files /\ r.written = {}
    <3>1. update[u] \in UpdateRec /\ published \in Nat /\ update[u].written = {}
      BY <1>6 DEF Manifest, UpdaterTypes, UnderWay
    <3> QED BY <2>1, <3>1 DEF UpdateRec
  <2>3. /\ UNCHANGED <<published, disk, version, overlapping, skipped>> /\ InUpdate(u)
        /\ update[u].pc = "manifest"
    BY <1>6 DEF Manifest, InUpdate
  <2>4. update' = [update EXCEPT ![u] = r] \/ update' = [update EXCEPT ![u] = NoUpdate]
    BY <1>6, <2>1 DEF Manifest, Stops
  <2>5. CASE update' = [update EXCEPT ![u] = NoUpdate]
    BY <2>3, <2>5, NoUpdateFacts, UpdaterQuiet DEF UpdaterTypes
  <2>6. CASE update' = [update EXCEPT ![u] = r]
    <3>1. update'[u] = r /\ published \in Nat
      BY <2>6 DEF UpdaterTypes
    <3>2. UnderWay(u)'
      BY <2>2, <2>3, <3>1 DEF UnderWay
    <3> QED BY <2>2, <2>3, <2>6, <3>2, UpdaterBusy DEF UpdaterTypes
  <2> QED BY <2>4, <2>5, <2>6
<1>7. ASSUME NEW u \in Updates, Requests(u) PROVE UpdaterInv'
  <2>1. PICK f \in update[u].left :
          update' = [update EXCEPT ![u].pc = "download", ![u].file = f,
                                   ![u].content = published, ![u].left = @ \ {f}]
    BY <1>7 DEF Requests
  <2>2. PICK r : r = [update[u] EXCEPT !.pc = "download", !.file = f,
                                       !.content = published, !.left = @ \ {f}]
    OBVIOUS
  <2>3. /\ r \in UpdateRec /\ r.pc = "download" /\ r.file = f /\ r.content = published
        /\ r.left = update[u].left \ {f} /\ r.to = update[u].to
        /\ r.written = update[u].written /\ r.failed = update[u].failed /\ f \in Files
    BY <2>2 DEF UpdaterTypes, UpdateRec
  <2>4. /\ UNCHANGED <<published, disk, version, overlapping, skipped>> /\ InUpdate(u)
        /\ update[u].pc = "files" /\ update' = [update EXCEPT ![u] = r]
    <3>1. update' = [update EXCEPT ![u] = r]
      BY <2>1, <2>2 DEF UpdaterTypes
    <3> QED BY <1>7, <3>1 DEF Requests, InUpdate
  <2>5. update'[u] = r /\ published \in Nat
    BY <2>4 DEF UpdaterTypes
  <2>6. UnderWay(u)'
    BY <2>3, <2>4, <2>5 DEF UnderWay
  <2> QED BY <2>3, <2>4, <2>6, UpdaterBusy DEF UpdaterTypes
<1>8. ASSUME NEW u \in Updates, Downloaded(u) PROVE UpdaterInv'
  <2> DEFINE f == update[u].file
  <2>1. /\ UNCHANGED <<published, version, overlapping, skipped>> /\ InUpdate(u)
        /\ update[u].pc = "download" /\ f \in Files /\ update[u].content \in Nat
        /\ update[u].to \in Nat /\ update[u].to <= update[u].content
        /\ ~overlapping => version <= update[u].to
    BY <1>8 DEF Downloaded, InUpdate, UnderWay
  <2>2. CASE /\ disk' = [disk EXCEPT ![f] = update[u].content]
             /\ update' = [update EXCEPT ![u].pc = "files", ![u].written = @ \cup {f}]
    <3>1. PICK r : r = [update[u] EXCEPT !.pc = "files", !.written = @ \cup {f}]
      OBVIOUS
    <3>2. /\ r \in UpdateRec /\ r.pc = "files" /\ r.left = update[u].left /\ r.to = update[u].to
          /\ r.written = update[u].written \cup {f} /\ r.failed = update[u].failed
      <4>1. update[u] \in UpdateRec
        BY DEF UpdaterTypes
      <4> QED BY <2>1, <3>1, <4>1 DEF UpdateRec
    <3>3. update' = [update EXCEPT ![u] = r] /\ update'[u] = r
      BY <2>2, <3>1 DEF UpdaterTypes
    <3>4. /\ disk' \in [Files -> Nat] /\ disk'[f] = update[u].content
          /\ \A g \in Files \ {f} : disk'[g] = disk[g]
      BY <2>1, <2>2 DEF UpdaterTypes
    <3>5. ~overlapping => \A g \in Files : disk'[g] = disk[g] \/ disk'[g] >= version
      BY <2>1, <3>4 DEF UpdaterTypes
    <3>6. ~overlapping => \A g \in r.written : disk'[g] >= r.to
      BY <2>1, <3>2, <3>4 DEF UnderWay, UpdaterTypes, UpdateRec
    <3>7. UnderWay(u)'
      BY <2>1, <3>2, <3>3, <3>6 DEF UnderWay
    <3> QED BY <2>1, <3>2, <3>3, <3>4, <3>5, <3>7, UpdaterBusy
  <2>3. CASE /\ update' = [update EXCEPT ![u].pc = "files", ![u].failed = @ \cup {f}]
             /\ UNCHANGED disk
    <3>1. PICK r : r = [update[u] EXCEPT !.pc = "files", !.failed = @ \cup {f}]
      OBVIOUS
    <3>2. /\ r \in UpdateRec /\ r.pc = "files" /\ r.left = update[u].left /\ r.to = update[u].to
          /\ r.failed = update[u].failed \cup {f} /\ r.written = update[u].written
      <4>1. update[u] \in UpdateRec
        BY DEF UpdaterTypes
      <4> QED BY <2>1, <3>1, <4>1 DEF UpdateRec
    <3>3. update' = [update EXCEPT ![u] = r] /\ update'[u] = r
      BY <2>3, <3>1 DEF UpdaterTypes
    <3>4. UnderWay(u)'
      BY <2>1, <2>3, <3>2, <3>3 DEF UnderWay
    <3> QED BY <2>1, <2>3, <3>2, <3>3, <3>4, UpdaterBusy DEF UpdaterTypes
  <2> QED
    BY <1>8, <2>2, <2>3 DEF Downloaded
<1>9. ASSUME NEW u \in Updates, NothingWritten(u) PROVE UpdaterInv'
  BY <1>9, NoUpdateFacts, UpdaterQuiet DEF NothingWritten, Stops, UpdaterTypes
<1>10. ASSUME NEW u \in Updates, Succeeds(u) PROVE UpdaterInv'
  <2> DEFINE r == [NoUpdate EXCEPT !.pc = "done"]
  <2>1. /\ version' = update[u].to /\ update' = [update EXCEPT ![u] = r]
        /\ skipped' = (skipped \ update[u].written) \cup update[u].failed
        /\ UNCHANGED <<published, disk, overlapping>>
        /\ update[u].pc = "files" /\ update[u].left = {}
    BY <1>10 DEF Succeeds, AllTried
  <2>2. r \in UpdateRec /\ r.pc = "done"
    BY NoUpdateFacts
  <2> HIDE DEF r
  <2>3. update'[u] = r /\ \A w \in Updates \ {u} : update'[w] = update[w]
    BY <2>1 DEF UpdaterTypes
  <2>4. UpdaterTypes' /\ version' <= published'
    BY <2>1, <2>2 DEF UpdaterTypes, UpdateRec, UnderWay
  <2>5. ~overlapping => \A w \in Updates \ {u} : ~InUpdate(w)
    BY <2>1 DEF InUpdate
  <2>6. \A w \in Updates : UnderWay(w)'
    BY <2>1, <2>2, <2>3, <2>5 DEF UnderWay, InUpdate
  <2>7. ~overlapping' => \A v, w \in Updates : InUpdate(v)' /\ InUpdate(w)' => v = w
    BY <2>1, <2>2, <2>3, <2>5 DEF InUpdate
  <2>8. ASSUME ~overlapping', NEW f \in Files \ skipped' PROVE disk'[f] >= version'
    <3>1. f \in update[u].written
      BY <2>1, <2>8 DEF UnderWay
    <3> QED BY <2>1, <2>8, <3>1 DEF UnderWay
  <2> QED BY <2>4, <2>6, <2>7, <2>8 DEF VersionNotAhead
<1> QED
  BY <1>1, <1>2, <1>3, <1>4, <1>5, <1>6, <1>7, <1>8, <1>9, <1>10
  DEF UpdaterNext, UpdateStep, Reexecutes, Crash

(* Whatever is published and wherever an update is cut off, the recorded    *)
(* version is not ahead of a file, unless two updates ran side by side or   *)
(* the file's download was reported as failed.                              *)
THEOREM VersionFollowsFiles == UpdaterSpec => []VersionNotAhead
<1>1. UpdaterInv /\ [UpdaterNext]_uvars => UpdaterInv'
  BY UpdaterInductive
<1>2. UpdaterInv => VersionNotAhead
  BY DEF UpdaterInv
<1> QED
  BY <1>1, <1>2, UpdaterInitially, PTL DEF UpdaterSpec
==============================================================================
