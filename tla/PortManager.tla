----------------------------- MODULE PortManager -----------------------------
(***************************************************************************)
(* Dedicated listen ports: the links' listen_port fields, the two listener *)
(* registries of port_manager (raw TCP servers, extra uvicorn servers),    *)
(* the operating system's sockets underneath, and what starts and stops    *)
(* listeners: the link handlers, the background release of a deleted       *)
(* link's port, and sync_all (at boot and on request).                     *)
(*                                                                         *)
(* Handlers and LINKS_LOCK sections do not await, so they are atomic.      *)
(* _tcp_lock and _uvi_lock are held across awaits: each is modelled as the *)
(* FIFO queue of the coroutines that hold it (its head) or wait for it.    *)
(* Taking a free lock does not suspend, so a spawned coroutine runs up to  *)
(* its first real await before the next request is handled; one that was   *)
(* woken from a lock's queue may run later than that.                      *)
(***************************************************************************)
EXTENDS Integers, Sequences, FiniteSets

CONSTANTS
  Uids,        \* link uuids
  Ports,       \* dedicated ports: the panel's own port is not one of them
  Backups,     \* link tables a backup file may hold
  NoUid,       \* no uuid
  MaxJobs      \* bound: coroutines queued at one lock

Kinds == {"tcp", "http", "core"}   \* vmess-tcp / shadowsocks-tcp, HTTP transports
                                   \* of the panel, inbounds of an external core
Panel == 0                         \* listen_port 0: served on the panel's port

(* One entry of LINKS; a missing key has present = FALSE. *)
Link == [present : BOOLEAN, active : BOOLEAN, kind : Kinds, port : Ports \union {Panel}]

NoLink == [present |-> FALSE, active |-> FALSE, kind |-> "http", port |-> Panel]

(* No two links of a table have one dedicated port. *)
DistinctPorts(table) ==
  \A u, v \in Uids :
    /\ table[u].present /\ table[v].present
    /\ table[u].port = table[v].port /\ table[u].port # Panel
    => u = v

(* What the constants must be; asserted where the module is instantiated.   *)
PortsAssumption ==
  /\ Panel \notin Ports
  /\ NoUid \notin Uids
  /\ Backups \subseteq [Uids -> Link]
  /\ \A b \in Backups : DistinctPorts(b)
  /\ MaxJobs \in Nat

(* A coroutine at a lock: what it will do there, and for whom. *)
Job == [op : {"start", "stop"}, port : Ports, uid : Uids \union {NoUid},
        by : {"link", "release", "sync"}]

VARIABLES
  links,             \* LINKS
  tcp_servers,       \* _tcp_servers: the uuid of each port's server
  uvicorn_servers,   \* _uvicorn_servers: its keys
  port_errors,       \* port_errors: its keys
  sock,              \* who listens on the port, for the operating system
  late,              \* of a registered uvicorn server: it had neither bound nor
                     \* ended when its start was over ("failed": it did later)
  stopping,          \* ports a uvicorn server may bind though told to stop
  tcp_lock, tcp_at,  \* the lock's queue, and where its holder is
  uvi_lock, uvi_at,
  sync,              \* the running sync_all, if any
  booting,           \* startup() has not ended: no request is served
  calm               \* history: nothing else has happened since sync_all began

lateVars == <<late, stopping>>
netVars == <<tcp_servers, uvicorn_servers, port_errors, sock, lateVars>>
lockVars == <<tcp_lock, tcp_at, uvi_lock, uvi_at>>
vars == <<links, netVars, lockVars, sync, booting, calm>>

NoSync == [at |-> "idle", tcp |-> [p \in Ports |-> NoUid], http |-> {},
           todo |-> {}, busy |-> FALSE]
SyncAt == {"idle", "stop_tcp", "stop_http", "start_tcp", "start_http"}

TypeOK ==
  /\ links \in [Uids -> Link]
  /\ tcp_servers \in [Ports -> Uids \union {NoUid}]
  /\ uvicorn_servers \subseteq Ports
  /\ port_errors \subseteq Ports
  /\ sock \in [Ports -> {"free", "tcp", "http", "dying", "other"}]
  /\ late \in [Ports -> {"no", "starting", "failed"}]
  /\ stopping \subseteq Ports
  /\ tcp_lock \in Seq(Job) /\ tcp_at \in {"begin", "woken", "await"}
  /\ uvi_lock \in Seq(Job) /\ uvi_at \in {"begin", "woken", "await", "bound", "died"}
  /\ sync \in [at : SyncAt, tcp : [Ports -> Uids \union {NoUid}], http : SUBSET Ports,
               todo : SUBSET Ports, busy : BOOLEAN]
  /\ booting \in BOOLEAN
  /\ calm \in BOOLEAN

Init ==
  /\ links = [u \in Uids |-> NoLink]
  /\ tcp_servers = [p \in Ports |-> NoUid]
  /\ uvicorn_servers = {}
  /\ port_errors = {}
  /\ sock = [p \in Ports |-> "free"]
  /\ late = [p \in Ports |-> "no"]
  /\ stopping = {}
  /\ tcp_lock = << >> /\ tcp_at = "begin"
  /\ uvi_lock = << >> /\ uvi_at = "begin"
  /\ sync = NoSync
  /\ booting = FALSE
  /\ calm = FALSE
------------------------------------------------------------------------------
(* The link handlers.  Each may queue one coroutine, at either lock. *)

port_in_use_by_us(p) == p \in uvicorn_servers \/ tcp_servers[p] # NoUid

LinkPorts(S) == {links[u].port : u \in {v \in S : links[v].present}}

(* The ports a new link may get, requested or found free. *)
allocate_listen_port(kind) ==
  (IF kind = "http" THEN {Panel} ELSE {})
    \union {p \in Ports : p \notin LinkPorts(Uids) /\ ~port_in_use_by_us(p)}

StartJob(p, u, who) == [op |-> "start", port |-> p, uid |-> u, by |-> who]
StopJob(p, who) == [op |-> "stop", port |-> p, uid |-> NoUid, by |-> who]

QueueTcp(j) == tcp_lock' = Append(tcp_lock, j) /\ UNCHANGED uvi_lock
QueueUvi(j) == uvi_lock' = Append(uvi_lock, j) /\ UNCHANGED tcp_lock
QueueNone == UNCHANGED <<tcp_lock, uvi_lock>>

(* _sync_link for link d: an HTTP listener is never stopped here. *)
sync_link(u, d) ==
  CASE d.port = Panel \/ d.kind = "core" -> QueueNone
    [] d.port # Panel /\ d.kind = "tcp" ->
         QueueTcp(IF d.active THEN StartJob(d.port, u, "link") ELSE StopJob(d.port, "link"))
    [] d.port # Panel /\ d.kind = "http" ->
         IF d.active THEN QueueUvi(StartJob(d.port, u, "link")) ELSE QueueNone

(* A coroutine is between two awaits. *)
LoopBusy ==
  \/ tcp_lock # << >> /\ tcp_at = "begin"
  \/ uvi_lock # << >> /\ uvi_at = "begin"
  \/ sync.at # "idle" /\ ~sync.busy

Request ==
  /\ ~booting /\ ~LoopBusy
  /\ Len(tcp_lock) < MaxJobs /\ Len(uvi_lock) < MaxJobs
  /\ calm' = FALSE
  /\ UNCHANGED <<netVars, tcp_at, uvi_at, sync, booting>>

(* generate_uuid never returns a uuid that anything still refers to. *)
Fresh(u) ==
  /\ ~links[u].present
  /\ \A p \in Ports : tcp_servers[p] # u /\ sync.tcp[p] # u
  /\ \A i \in DOMAIN tcp_lock : tcp_lock[i].uid # u
  /\ \A i \in DOMAIN uvi_lock : uvi_lock[i].uid # u

create_link(u, kind) ==
  /\ Request
  /\ Fresh(u)
  /\ \E p \in allocate_listen_port(kind) :
       LET d == [present |-> TRUE, active |-> TRUE, kind |-> kind, port |-> p] IN
       /\ links' = [links EXCEPT ![u] = d]
       /\ sync_link(u, d)

(* The active field is written before a new port is validated, so a 409 on *)
(* the port leaves it changed.  Toggling it alone touches no listener.     *)
update_link(u, active, port) ==
  LET d == [links[u] EXCEPT !.active = active] IN
  /\ Request
  /\ links[u].present
  /\ IF \/ port = d.port
        \/ port # Panel /\ (port \in LinkPorts(Uids \ {u}) \/ port_in_use_by_us(port))
     THEN links' = [links EXCEPT ![u] = d] /\ QueueNone
     ELSE /\ links' = [links EXCEPT ![u] = [d EXCEPT !.port = port]]
          /\ sync_link(u, [d EXCEPT !.port = port])

(* With _release_port_if_unused, up to its first lock. *)
delete_link(u) ==
  LET p == links[u].port
      still_needed == \E v \in Uids \ {u} :
                        links[v].present /\ links[v].active /\ links[v].port = p
  IN
  /\ Request
  /\ links[u].present
  /\ links' = [links EXCEPT ![u] = NoLink]
  /\ IF p # Panel /\ ~still_needed THEN QueueTcp(StopJob(p, "release")) ELSE QueueNone

backup_import ==
  /\ Request
  /\ links' \in Backups
  /\ QueueNone
------------------------------------------------------------------------------
(* A coroutine leaves its lock: the next waiter may take it.  A release     *)
(* goes on to the uvicorn registry, sync_all to its next port.              *)

SyncResumes(j) == sync' = IF j.by = "sync" THEN [sync EXCEPT !.busy = FALSE] ELSE sync

TcpDone ==
  LET j == Head(tcp_lock) IN
  /\ tcp_lock' = Tail(tcp_lock)
  /\ tcp_at' = IF Len(tcp_lock) = 1 THEN "begin" ELSE "woken"
  /\ uvi_lock' = IF j.by = "release" THEN Append(uvi_lock, j) ELSE uvi_lock
  /\ SyncResumes(j)
  /\ UNCHANGED uvi_at

TcpAwait == tcp_at' = "await" /\ UNCHANGED <<tcp_lock, uvi_lock, uvi_at, sync>>

UviDone ==
  /\ uvi_lock' = Tail(uvi_lock)
  /\ uvi_at' = IF Len(uvi_lock) = 1 THEN "begin" ELSE "woken"
  /\ SyncResumes(Head(uvi_lock))
  /\ UNCHANGED <<tcp_lock, tcp_at>>

UviAwait(at) == uvi_at' = at /\ UNCHANGED <<tcp_lock, tcp_at, uvi_lock, sync>>

Holds(lock, op) == lock # << >> /\ Head(lock).op = op

(* _start_tcp_port up to its await: whoever's server is there will do. *)
StartTcp ==
  LET p == Head(tcp_lock).port IN
  /\ Holds(tcp_lock, "start") /\ tcp_at \in {"begin", "woken"}
  /\ \/ tcp_servers[p] # NoUid /\ TcpDone /\ UNCHANGED port_errors
     \/ tcp_servers[p] = NoUid /\ sock[p] # "free" /\ TcpDone
        /\ port_errors' = port_errors \union {p}
     \/ tcp_servers[p] = NoUid /\ sock[p] = "free" /\ TcpAwait /\ UNCHANGED port_errors
  /\ UNCHANGED <<links, tcp_servers, uvicorn_servers, sock, lateVars, booting, calm>>

(* asyncio.start_server returned or raised; the port may be taken by now. *)
StartTcpEnds ==
  LET j == Head(tcp_lock) IN
  /\ Holds(tcp_lock, "start") /\ tcp_at = "await"
  /\ TcpDone
  /\ \/ /\ sock[j.port] = "free"
        /\ sock' = [sock EXCEPT ![j.port] = "tcp"]
        /\ tcp_servers' = [tcp_servers EXCEPT ![j.port] = j.uid]
        /\ port_errors' = port_errors \ {j.port}
     \/ /\ port_errors' = port_errors \union {j.port}
        /\ UNCHANGED <<sock, tcp_servers>>
  /\ UNCHANGED <<links, uvicorn_servers, lateVars, booting, calm>>

(* _stop_tcp_port: server.close() frees the port at once, wait_closed may  *)
(* take its time with the lock held.                                       *)
StopTcp ==
  LET p == Head(tcp_lock).port IN
  /\ Holds(tcp_lock, "stop") /\ tcp_at \in {"begin", "woken"}
  /\ IF tcp_servers[p] = NoUid
     THEN TcpDone /\ UNCHANGED <<tcp_servers, sock>>
     ELSE /\ tcp_servers' = [tcp_servers EXCEPT ![p] = NoUid]
          /\ sock' = [sock EXCEPT ![p] = "free"]
          /\ TcpAwait
  /\ UNCHANGED <<links, uvicorn_servers, port_errors, lateVars, booting, calm>>

StopTcpEnds ==
  /\ Holds(tcp_lock, "stop") /\ tcp_at = "await"
  /\ TcpDone
  /\ UNCHANGED <<links, netVars, booting, calm>>

(* _start_uvicorn_port up to its sleep: registered before it is bound. *)
StartUvicorn ==
  LET p == Head(uvi_lock).port IN
  /\ Holds(uvi_lock, "start") /\ uvi_at \in {"begin", "woken"}
  /\ \/ /\ p \in uvicorn_servers
        /\ UviDone /\ UNCHANGED <<uvicorn_servers, port_errors>>
     \/ /\ p \notin uvicorn_servers /\ sock[p] # "free"
        /\ port_errors' = port_errors \union {p}
        /\ UviDone /\ UNCHANGED uvicorn_servers
     \/ /\ p \notin uvicorn_servers /\ sock[p] = "free"
        /\ uvicorn_servers' = uvicorn_servers \union {p}
        /\ port_errors' = port_errors \ {p}
        /\ UviAwait("await")
  /\ UNCHANGED <<links, tcp_servers, sock, lateVars, booting, calm>>

(* server.serve() in its own task: binds, or fails and ends the task. *)
ServeBinds ==
  LET p == Head(uvi_lock).port IN
  /\ Holds(uvi_lock, "start") /\ uvi_at = "await"
  /\ \/ sock[p] = "free" /\ sock' = [sock EXCEPT ![p] = "http"] /\ UviAwait("bound")
     \/ UviAwait("died") /\ UNCHANGED sock
  /\ UNCHANGED <<links, tcp_servers, uvicorn_servers, port_errors, lateVars, booting, calm>>

(* Mutant: a server that died is not taken out of the registry. *)
StartUvicornEndsKeepsDead ==
  /\ Holds(uvi_lock, "start") /\ uvi_at \in {"bound", "died"}
  /\ UviDone
  /\ UNCHANGED <<links, netVars, booting, calm>>

(* The start is over: a server that died is taken out again, one that has   *)
(* not bound yet is taken to listen.                                        *)
StartUvicornEnds ==
  LET p == Head(uvi_lock).port IN
  /\ Holds(uvi_lock, "start") /\ uvi_at \in {"await", "bound", "died"}
  /\ IF uvi_at = "died"
     THEN /\ uvicorn_servers' = uvicorn_servers \ {p}
          /\ port_errors' = port_errors \union {p}
     ELSE UNCHANGED <<uvicorn_servers, port_errors>>
  /\ late' = [late EXCEPT ![p] = IF uvi_at = "await" THEN "starting" ELSE "no"]
  /\ UviDone
  /\ UNCHANGED <<links, tcp_servers, sock, stopping, booting, calm>>

(* A server that took longer than its start waited binds, or fails and      *)
(* stays registered.                                                        *)
SlowServer(p) ==
  /\ late[p] = "starting"
  /\ \/ /\ sock[p] = "free"
        /\ sock' = [sock EXCEPT ![p] = "http"]
        /\ late' = [late EXCEPT ![p] = "no"]
     \/ late' = [late EXCEPT ![p] = "failed"] /\ UNCHANGED sock
  /\ UNCHANGED <<links, tcp_servers, uvicorn_servers, port_errors, stopping, lockVars,
                 sync, booting, calm>>

(* _stop_uvicorn_port: should_exit is set, the socket is closed later; a    *)
(* server that has not bound yet does not look at it before it has.         *)
StopUvicorn ==
  LET p == Head(uvi_lock).port IN
  /\ Holds(uvi_lock, "stop") /\ uvi_at \in {"begin", "woken"}
  /\ uvicorn_servers' = uvicorn_servers \ {p}
  /\ sock' = IF p \in uvicorn_servers /\ late[p] = "no" THEN [sock EXCEPT ![p] = "dying"]
             ELSE sock
  /\ stopping' = IF late[p] = "starting" THEN stopping \union {p} ELSE stopping
  /\ late' = [late EXCEPT ![p] = "no"]
  /\ UviDone
  /\ UNCHANGED <<links, tcp_servers, port_errors, booting, calm>>

StoppedServer(p) ==
  /\ p \in stopping
  /\ stopping' = stopping \ {p}
  /\ \/ sock[p] = "free" /\ sock' = [sock EXCEPT ![p] = "dying"]
     \/ UNCHANGED sock
  /\ UNCHANGED <<links, tcp_servers, uvicorn_servers, port_errors, late, lockVars,
                 sync, booting, calm>>

UvicornExits(p) ==
  /\ sock[p] = "dying"
  /\ sock' = [sock EXCEPT ![p] = "free"]
  /\ UNCHANGED <<links, tcp_servers, uvicorn_servers, port_errors, lateVars, lockVars,
                 sync, booting, calm>>

(* Another program of the machine takes a port, or gives it back. *)
OtherProgram(p) ==
  /\ \/ sock[p] = "free" /\ sock' = [sock EXCEPT ![p] = "other"]
     \/ sock[p] = "other" /\ sock' = [sock EXCEPT ![p] = "free"]
  /\ calm' = FALSE
  /\ UNCHANGED <<links, tcp_servers, uvicorn_servers, port_errors, lateVars, lockVars,
                 sync, booting>>
------------------------------------------------------------------------------
(* sync_all: what is needed is read once; then, one port after another and  *)
(* each with its lock, it stops TCP and HTTP listeners and starts them.     *)

Wants(table, u, kind, p) ==
  table[u].present /\ table[u].active /\ table[u].kind = kind /\ table[u].port = p

(* If two links want one TCP port, the later of the table's order has it. *)
NeededTcp(need) ==
  \A p \in Ports :
    LET W == {u \in Uids : Wants(links, u, "tcp", p)} IN
    IF W = {} THEN need[p] = NoUid ELSE need[p] \in W

NeededHttp == {p \in Ports : \E u \in Uids : Wants(links, u, "http", p)}

SyncBegins(servers) ==
  \E need \in [Ports -> Uids \union {NoUid}] :
    /\ NeededTcp(need)
    /\ sync' = [at |-> "stop_tcp", tcp |-> need, http |-> NeededHttp,
                todo |-> {p \in Ports : servers[p] # NoUid /\ need[p] = NoUid},
                busy |-> FALSE]

(* POST /api/ports/resync *)
api_ports_resync ==
  /\ ~booting /\ ~LoopBusy /\ sync.at = "idle"
  /\ SyncBegins(tcp_servers)
  /\ calm' = (tcp_lock = << >> /\ uvi_lock = << >>)
  /\ UNCHANGED <<links, netVars, lockVars, booting>>

(* Mutant: the extra HTTP listeners are not cleaned up. *)
SyncStepKeepsHttp ==
  /\ sync.at # "idle" /\ ~sync.busy /\ sync.todo = {}
  /\ sync' = CASE sync.at \in {"stop_tcp", "stop_http"} ->
                    [sync EXCEPT !.at = "start_tcp",
                                 !.todo = {p \in Ports : sync.tcp[p] # NoUid}]
               [] sync.at = "start_tcp" ->
                    [sync EXCEPT !.at = "start_http", !.todo = sync.http]
               [] sync.at = "start_http" -> NoSync
  /\ booting' = (booting /\ sync.at # "start_http")
  /\ UNCHANGED <<links, netVars, lockVars, calm>>

SyncNextPhase ==
  /\ sync.at # "idle" /\ ~sync.busy /\ sync.todo = {}
  /\ sync' = CASE sync.at = "stop_tcp" ->
                    [sync EXCEPT !.at = "stop_http", !.todo = uvicorn_servers \ sync.http]
               [] sync.at = "stop_http" ->
                    [sync EXCEPT !.at = "start_tcp",
                                 !.todo = {p \in Ports : sync.tcp[p] # NoUid}]
               [] sync.at = "start_tcp" ->
                    [sync EXCEPT !.at = "start_http", !.todo = sync.http]
               [] sync.at = "start_http" -> NoSync
  /\ booting' = (booting /\ sync.at # "start_http")
  /\ UNCHANGED <<links, netVars, lockVars, calm>>

SyncPort(p) ==
  /\ sync.at # "idle" /\ ~sync.busy /\ p \in sync.todo
  /\ sync' = [sync EXCEPT !.todo = @ \ {p}, !.busy = TRUE]
  /\ CASE sync.at = "stop_tcp"   -> QueueTcp(StopJob(p, "sync"))
       [] sync.at = "stop_http"  -> QueueUvi(StopJob(p, "sync"))
       [] sync.at = "start_tcp"  -> QueueTcp(StartJob(p, sync.tcp[p], "sync"))
       [] sync.at = "start_http" -> QueueUvi(StartJob(p, NoUid, "sync"))
  /\ UNCHANGED <<links, netVars, tcp_at, uvi_at, booting, calm>>

(* The process dies and is started again: startup() runs sync_all on the   *)
(* saved table before any request is served.                               *)
Restart ==
  /\ tcp_servers' = [p \in Ports |-> NoUid]
  /\ uvicorn_servers' = {}
  /\ port_errors' = {}
  /\ sock' = [p \in Ports |-> IF sock[p] = "other" THEN "other" ELSE "free"]
  /\ late' = [p \in Ports |-> "no"]
  /\ stopping' = {}
  /\ tcp_lock' = << >> /\ tcp_at' = "begin"
  /\ uvi_lock' = << >> /\ uvi_at' = "begin"
  /\ SyncBegins([p \in Ports |-> NoUid])
  /\ booting' = TRUE
  /\ calm' = TRUE
  /\ UNCHANGED links
------------------------------------------------------------------------------
Handlers ==
  \/ \E u \in Uids, k \in Kinds : create_link(u, k)
  \/ \E u \in Uids, a \in BOOLEAN, p \in Ports \union {Panel} : update_link(u, a, p)
  \/ \E u \in Uids : delete_link(u)
  \/ backup_import

Tcp == StartTcp \/ StartTcpEnds \/ StopTcp \/ StopTcpEnds
Uvicorn == StartUvicorn \/ ServeBinds \/ StartUvicornEnds \/ StopUvicorn
Sync == SyncNextPhase \/ \E p \in Ports : SyncPort(p)

Next ==
  \/ Handlers
  \/ Tcp \/ Uvicorn
  \/ api_ports_resync \/ Sync
  \/ \E p \in Ports : \/ SlowServer(p) \/ StoppedServer(p) \/ UvicornExits(p)
                      \/ OtherProgram(p)
  \/ Restart

Spec == Init /\ [][Next]_vars

(* The event loop resumes what is ready; start_server, wait_closed and the  *)
(* uvicorn task come to an end.                                             *)
Fairness == WF_vars(Tcp) /\ WF_vars(Uvicorn) /\ WF_vars(Sync)

FairSpec == Spec /\ Fairness
------------------------------------------------------------------------------
(* The registries tell the truth: outside of a listener's own start, a port *)
(* is registered exactly when this process listens on it, in the registry   *)
(* of the right kind - whatever starts, stops, failed binds and the other   *)
(* registry's attempts on the same port overlap (listeners_status,          *)
(* port_in_use_by_us).  The one exception: a uvicorn server that is slower  *)
(* than the wait of its start stays registered while it has not bound, and  *)
(* for good if it fails then.                                               *)
RegistryMatchesSockets ==
  \A p \in Ports :
    /\ tcp_servers[p] # NoUid <=> sock[p] = "tcp"
    /\ sock[p] = "http" => p \in uvicorn_servers
    /\ p \in uvicorn_servers /\ sock[p] # "http"
         => \/ Holds(uvi_lock, "start") /\ Head(uvi_lock).port = p /\ uvi_at \in {"await", "died"}
            \/ late[p] # "no"

(* A sync_all that nothing overlaps leaves no listener that no active link  *)
(* wants, and every listener wanted is registered or its failure on record; *)
(* at boot each TCP server is also the one of the link that has the port.   *)
Rebuilt ==
  \A p \in Ports :
    /\ tcp_servers[p] # NoUid => \E u \in Uids : Wants(links, u, "tcp", p)
    /\ p \in uvicorn_servers => \E u \in Uids : Wants(links, u, "http", p)
    /\ (\E u \in Uids : Wants(links, u, "tcp", p))
         => tcp_servers[p] # NoUid \/ p \in port_errors
    /\ (\E u \in Uids : Wants(links, u, "http", p))
         => p \in uvicorn_servers \/ p \in port_errors

ServersMatchOwners ==
  \A p \in Ports : tcp_servers[p] # NoUid => Wants(links, tcp_servers[p], "tcp", p)

SyncRebuilds ==
  [][calm /\ sync.at = "start_http" /\ sync'.at = "idle" /\ UNCHANGED links
       => Rebuilt' /\ (booting => ServersMatchOwners')]_vars

------------------------------------------------------------------------------
(* What the comments and the README say, and the code does not do.          *)

Rest ==
  /\ tcp_lock = << >> /\ uvi_lock = << >> /\ sync.at = "idle"
  /\ \A p \in Ports : sock[p] # "dying"

(* delete_link: a dedicated port's listener is closed only if no other link *)
(* wants it.                                                                *)
ReleaseSparesNeeded ==
  [][\A p \in uvicorn_servers \ uvicorn_servers' :
       Holds(uvi_lock, "stop") /\ Head(uvi_lock).by = "release"
         => ~ \E u \in Uids : Wants(links, u, "http", p)]_vars

(* README: a listener is opened automatically for an active link, and       *)
(* closed when no link needs it.                                            *)
ListenersFollowLinks ==
  Rest =>
    \A p \in Ports :
      LET wanted(kind) == \E u \in Uids : Wants(links, u, kind, p) IN
      /\ tcp_servers[p] # NoUid => wanted("tcp")
      /\ p \in uvicorn_servers => wanted("http")
      /\ wanted("tcp") \/ wanted("http") => sock[p] # "free" \/ p \in port_errors
==============================================================================
