-------------------------------- MODULE Zeus --------------------------------
(***************************************************************************)
(* The Zeus SOCKS5 proxy: one server at a time, made and deleted by API    *)
(* calls and deleted by the clients that find it used up, with one set of  *)
(* credentials, one traffic counter and one count of clients per address.  *)
(* All of it is global state that the coroutines of old and new proxies    *)
(* share.                                                                  *)
(***************************************************************************)
EXTENDS Integers, FiniteSets

CONSTANTS
  Calls,       \* API calls in flight
  Clients,     \* connections to a proxy
  Ips, IpOf,   \* their addresses
  Configs,     \* configurations: limit of traffic and of connections from one
               \* address (0: none), and whether an expiry is set
  MaxServers,  \* bound: servers ever started
  MaxUsed,     \* bound: counted traffic
  None         \* no value

ASSUME ZeusAssumption ==
  /\ Configs \subseteq [limit : Nat, perIp : Nat, days : BOOLEAN]
  /\ MaxServers \in Nat /\ MaxUsed \in Nat
  /\ IpOf \in [Clients -> Ips]
  /\ Calls \cap Clients = {} /\ IsFiniteSet(Clients)
  /\ None \notin Nat

\* A handler that finds the limits reached spawns _auto_delete: its own task.
Tasks == Calls \cup Clients

VARIABLES
  state,      \* zeus_proxy_state: running, phase, result (the credentials), used
  cfg,        \* its config: limit, perIp, days (whether an expiry is set)
  old,        \* the result was made so long ago that a set expiry is over
  counts,     \* _connections_by_ip
  creds,      \* _creds: the number of the pair, or None
  server,     \* _server: the server it refers to, or None
  listening,  \* servers whose sockets accept
  started,    \* servers started so far
  waits,      \* whether wait_closed waits for clients (Python 3.12) or not
  task,       \* [Tasks -> what, pc, srv (waited for or started), creds]
  client,     \* [Clients -> pc of the handler, srv (the server its transport is
              \* attached to; None: the transport is gone), and its two pipes]
  overlapped, \* history: a creation ran beside another operation
  outlived,   \* history: when the counts were last cleared, a handler still ran
              \* whose transport was gone
  allowance   \* history: `used` when the limit was last changed, if not below it

zvars == <<state, cfg, old, counts, creds, server, listening, started, waits,
          task, client, overlapped, outlived, allowance>>

NoTask   == [what |-> "none", pc |-> "idle", srv |-> None]
NoClient == [pc |-> "none", srv |-> None, pipes |-> <<"done", "done">>]

ZeusInit ==
  /\ state = [running |-> FALSE, phase |-> "idle", result |-> None, used |-> 0]
  /\ cfg \in Configs
  /\ old = FALSE
  /\ counts = [ip \in Ips |-> 0]
  /\ creds = None
  /\ server = None
  /\ listening = {}
  /\ started = 0
  /\ waits \in BOOLEAN
  /\ task = [p \in Tasks |-> NoTask]
  /\ client = [c \in Clients |-> NoClient]
  /\ overlapped = FALSE
  /\ outlived = FALSE
  /\ allowance = 0

_is_expired == state.result # None /\ cfg.days /\ old

\* Mutant: the limit is over only when it is passed.
TrafficPassed == cfg.limit # 0 /\ state.used > cfg.limit

_is_traffic_exceeded == cfg.limit # 0 /\ state.used >= cfg.limit
UsedUp == _is_expired \/ _is_traffic_exceeded

Live      == {c \in Clients : client[c].pc # "none"}
LiveAt(s) == {c \in Live : client[c].srv = s}
LiveOf(i) == {c \in Live : IpOf[c] = i}
Busy(p)   == task[p].what # "none"

(***************************************************************************)
(* Deleting: the server is closed; what follows its wait_closed is one     *)
(* step.  An operation awaits only where it has a server to wait for, and  *)
(* what it waits for are the transports of its clients, not their handlers:*)
(* one that dials the target, or waits for it to read, may go on.          *)
(***************************************************************************)
\* Mutant: the server is closed and not waited for.
NeverWaits(s) == FALSE

MustWait(s) == waits /\ s # None /\ LiveAt(s) # {}

CountsCleared ==
  /\ counts' = [i \in Ips |-> 0]
  /\ outlived' = (\E c \in Live : client[c].srv = None)

Cleared == server' = None /\ CountsCleared

Deleted ==
  /\ Cleared
  /\ creds' = None
  /\ old' = FALSE
  /\ state' = [running |-> FALSE, phase |-> "idle", result |-> None, used |-> 0]
  /\ allowance' = 0

DeleteBegins(p, what) ==
  /\ listening' = listening \ {server}
  /\ IF MustWait(server)
     THEN /\ task' = [task EXCEPT ![p] = [what |-> what, pc |-> "waiting", srv |-> server]]
          /\ UNCHANGED <<state, old, counts, creds, server, outlived, allowance>>
     ELSE /\ task' = [task EXCEPT ![p] = NoTask]
          /\ Deleted

ApiDelete(p) ==
  /\ ~Busy(p)
  /\ overlapped' = (overlapped \/ \E q \in Tasks : task[q].what = "create")
  /\ DeleteBegins(p, "delete")
  /\ UNCHANGED <<cfg, started, waits, client>>

DeleteEnds(p) ==
  /\ task[p].what \in {"delete", "auto"} /\ task[p].pc = "waiting"
  /\ LiveAt(task[p].srv) = {}
  /\ task' = [task EXCEPT ![p] = NoTask]
  /\ Deleted
  /\ UNCHANGED <<cfg, listening, started, waits, client, overlapped>>

\* _auto_delete, spawned by the handler of client p.
AutoDelete(p) ==
  /\ task[p].what = "auto" /\ task[p].pc = "spawned"
  /\ overlapped' = (overlapped \/ \E q \in Tasks : task[q].what = "create")
  /\ DeleteBegins(p, "auto")
  /\ UNCHANGED <<cfg, started, waits, client>>

(***************************************************************************)
(* Creating.  A proxy that runs is deleted first.  The configuration, the  *)
(* counters and the credentials are set before the server is started; it   *)
(* accepts before `_server` names it.                                      *)
(***************************************************************************)
\* Mutant: a new proxy is made beside the old one.
NeverReplaces == FALSE

Replaces == state.running /\ state.phase = "done"

\* From the configuration to the start of the server, after the old proxy is
\* gone (`fresh`) or without one; the requested port may be taken.
Sets(p, fresh) ==
  LET result == IF fresh THEN None ELSE state.result
  IN /\ cfg' \in Configs
     /\ old' = (old /\ ~fresh)
     /\ CountsCleared
     /\ server' = IF fresh THEN None ELSE server
     /\ allowance' = 0
     /\ \/ /\ state' = [running |-> FALSE, phase |-> "error", result |-> result, used |-> 0]
           /\ creds' = IF fresh THEN None ELSE creds
           /\ task' = [task EXCEPT ![p] = NoTask]
           /\ UNCHANGED started
        \/ /\ started < MaxServers
           /\ started' = started + 1
           /\ state' = [running |-> TRUE, phase |-> "starting", result |-> result, used |-> 0]
           /\ creds' = started'
           /\ task' = [task EXCEPT ![p] = [what |-> "create", pc |-> "binding", srv |-> started']]

ApiCreate(p) ==
  /\ ~Busy(p)
  /\ overlapped' = (overlapped \/ \E q \in Tasks : Busy(q))
  /\ IF Replaces /\ MustWait(server)
     THEN /\ task' = [task EXCEPT ![p] = [what |-> "create", pc |-> "waiting", srv |-> server]]
          /\ UNCHANGED <<state, cfg, old, counts, creds, server, started, outlived, allowance>>
     ELSE Sets(p, Replaces)
  /\ listening' = IF Replaces THEN listening \ {server} ELSE listening
  /\ UNCHANGED <<waits, client>>

OldIsGone(p) ==
  /\ task[p].what = "create" /\ task[p].pc = "waiting"
  /\ LiveAt(task[p].srv) = {}
  /\ Sets(p, TRUE)
  /\ UNCHANGED <<listening, waits, client, overlapped>>

Binds(p) ==
  /\ task[p].what = "create" /\ task[p].pc = "binding"
  /\ \/ /\ listening' = listening \cup {task[p].srv}
        /\ task' = [task EXCEPT ![p].pc = "bound"]
        /\ UNCHANGED state
     \/ /\ state' = [state EXCEPT !.running = FALSE, !.phase = "error"]
        /\ task' = [task EXCEPT ![p] = NoTask]
        /\ UNCHANGED listening
  /\ UNCHANGED <<cfg, old, counts, creds, server, started, waits, client,
                 overlapped, outlived, allowance>>

\* The result names the credentials there are now.
CreateEnds(p) ==
  /\ task[p].what = "create" /\ task[p].pc = "bound"
  /\ server' = task[p].srv
  /\ state' = [state EXCEPT !.running = TRUE, !.phase = "done", !.result = <<creds>>]
  /\ old' = FALSE
  /\ task' = [task EXCEPT ![p] = NoTask]
  /\ UNCHANGED <<cfg, counts, creds, listening, started, waits, client,
                 overlapped, outlived, allowance>>

\* update_zeus_config: at once, without any await.
ApiConfig ==
  /\ \E c \in Configs : c # cfg /\ cfg' = c
  /\ allowance' = IF cfg'.limit # 0 /\ state.used >= cfg'.limit THEN state.used ELSE 0
  /\ UNCHANGED <<state, old, counts, creds, server, listening, started, waits,
                 task, client, overlapped, outlived>>

TimePasses ==
  /\ ~old /\ cfg.days /\ state.result # None
  /\ old' = TRUE
  /\ UNCHANGED <<state, cfg, counts, creds, server, listening, started, waits,
                 task, client, overlapped, outlived, allowance>>

(***************************************************************************)
(* _handle_client.                                                         *)
(***************************************************************************)
\* A client slot is free again when the task its last user spawned has ended.
Connects(c) ==
  /\ client[c].pc = "none" /\ ~Busy(c)
  /\ \E s \in listening : client' = [client EXCEPT ![c].pc = "hello", ![c].srv = s]
  /\ ~UsedUp
  /\ cfg.perIp # 0 => counts[IpOf[c]] < cfg.perIp
  /\ counts' = [counts EXCEPT ![IpOf[c]] = @ + 1]
  /\ UNCHANGED <<state, cfg, old, creds, server, listening, started, waits,
                 task, overlapped, outlived, allowance>>

\* Greeting, credentials and request, then the target is dialed.  The greeting
\* has no timeout: a client may stay in it for ever.
Relays(c) ==
  /\ client[c].pc = "hello" /\ creds # None
  /\ client' = [client EXCEPT ![c].pc = "relay", ![c].pipes = <<"read", "read">>]
  /\ UNCHANGED <<state, cfg, old, counts, creds, server, listening, started,
                 waits, task, overlapped, outlived, allowance>>

\* The client's transport is gone; its handler finds out when it next reads.
\* (Where wait_closed does not wait nothing looks at transports.)
Disconnects(c) ==
  /\ waits /\ client[c].pc # "none" /\ client[c].srv # None
  /\ client' = [client EXCEPT ![c].srv = None]
  /\ UNCHANGED <<state, cfg, old, counts, creds, server, listening, started,
                 waits, task, overlapped, outlived, allowance>>

\* _pipe: the limits are looked at before a chunk is written.
PipeReads(c, d) ==
  /\ client[c].pc = "relay" /\ client[c].pipes[d] = "read" /\ state.used < MaxUsed
  /\ client' = [client EXCEPT ![c].pipes[d] = IF UsedUp THEN "done" ELSE "written"]
  /\ UNCHANGED <<state, cfg, old, counts, creds, server, listening, started,
                 waits, task, overlapped, outlived, allowance>>

\* It is counted after the drain, on the counter of whatever proxy there is.
PipeCounts(c, d) ==
  /\ client[c].pc = "relay" /\ client[c].pipes[d] = "written"
  /\ client' = [client EXCEPT ![c].pipes[d] = "read"]
  /\ state' = [state EXCEPT !.used = @ + 1]
  /\ UNCHANGED <<cfg, old, counts, creds, server, listening, started, waits,
                 task, overlapped, outlived, allowance>>

\* End of stream, 300 idle seconds, or an error in read or drain.
PipeEnds(c, d) ==
  /\ client[c].pc = "relay" /\ client[c].pipes[d] # "done"
  /\ client' = [client EXCEPT ![c].pipes[d] = "done"]
  /\ UNCHANGED <<state, cfg, old, counts, creds, server, listening, started,
                 waits, task, overlapped, outlived, allowance>>

Finished(c) == client[c].pc = "relay" /\ client[c].pipes = <<"done", "done">>

\* The handshake or the connect to the target failed, or both pipes are over.
Leaving(c)  == client[c].pc = "hello" \/ Finished(c)

\* Mutant: a client that leaves is not uncounted.
StaysCounted(c) == counts

\* The finally clause: the count of its address, which may have been cleared
\* meanwhile, goes down, not below zero.
Uncounted(c) ==
  [counts EXCEPT ![IpOf[c]] = IF @ > 0 THEN @ - 1 ELSE 0]

\* Mutant: nobody deletes a proxy that is used up.
LeavesOnly(c) ==
  /\ Leaving(c)
  /\ client' = [client EXCEPT ![c] = NoClient]
  /\ counts' = Uncounted(c)
  /\ UNCHANGED <<state, cfg, old, creds, server, listening, started, waits,
                 task, overlapped, outlived, allowance>>

Leaves(c) ==
  /\ Leaving(c)
  /\ client' = [client EXCEPT ![c] = NoClient]
  /\ counts' = Uncounted(c)
  /\ task' = IF UsedUp THEN [task EXCEPT ![c] = [what |-> "auto", pc |-> "spawned", srv |-> None]]
             ELSE task
  /\ UNCHANGED <<state, cfg, old, creds, server, listening, started, waits,
                 overlapped, outlived, allowance>>

Operation(p) ==
  DeleteEnds(p) \/ OldIsGone(p) \/ Binds(p) \/ CreateEnds(p)

ZeusNext ==
  \/ \E p \in Calls : ApiDelete(p) \/ ApiCreate(p)
  \/ \E p \in Tasks : Operation(p)
  \/ ApiConfig \/ TimePasses
  \/ \E c \in Clients : \/ AutoDelete(c) \/ Connects(c) \/ Relays(c) \/ Disconnects(c)
                        \/ Leaves(c)
                        \/ \E d \in 1..2 : PipeReads(c, d) \/ PipeCounts(c, d) \/ PipeEnds(c, d)

ZeusSpec == ZeusInit /\ [][ZeusNext]_zvars

\* A pipe that reads gets data or its idle timer fires; handlers and spawned
\* tasks run.  Nothing makes a client finish its greeting, a peer read what is
\* written to it (the drain has no timeout), or anybody call the API.
ReadEnds(c, d) == client[c].pipes[d] = "read" /\ PipeEnds(c, d)

ClientStep(c) ==
  \/ \E d \in 1..2 : PipeReads(c, d) \/ ReadEnds(c, d)
  \/ Finished(c) /\ Leaves(c)
  \/ AutoDelete(c)

\* (That one of its coroutines runs is all the property needs.)
ZeusFairness == \A c \in Clients : WF_zvars(ClientStep(c))

ZeusFairSpec == ZeusSpec /\ ZeusFairness

(***************************************************************************)
(* Properties.                                                             *)
(***************************************************************************)
\* No address is locked out: it is never counted with more connections than
\* have a handler, whatever clients of older proxies do to the count.
CountsNeverHigh ==
  \A i \in Ips : counts[i] <= Cardinality(LiveOf(i))

\* Where wait_closed waits for the clients, and no creation ran beside another
\* operation, the count of an address is exact, so its limit holds - unless a
\* handler outlived its transport when the counts were last cleared: it is not
\* counted any more, and lowers the count of others when it ends.
CountsExact ==
  waits /\ ~overlapped /\ ~outlived => \A i \in Ips : counts[i] = Cardinality(LiveOf(i))

InFlight == Cardinality({x \in Clients \X (1..2) : client[x[1]].pipes[x[2]] = "written"})

\* The traffic passes a limit by at most one chunk of each pipe, also when the
\* limit is lowered under way or the proxy is replaced under its clients.
TrafficBounded ==
  LET reached == IF allowance > cfg.limit - 1 THEN allowance ELSE cfg.limit - 1
  IN cfg.limit # 0 => state.used + InFlight <= reached + 2 * Cardinality(Clients)

\* Between operations the state, the server and the credentials belong
\* together, and no other server accepts, however many deletions ran side by
\* side; only a creation beside another operation can tear them apart.
OneProxy ==
  ~overlapped /\ (\A p \in Tasks : ~Busy(p)) =>
    /\ listening = IF server = None THEN {} ELSE {server}
    /\ state.result = IF server = None THEN None ELSE <<creds>>
    /\ server # None => creds = server

\* A proxy that is used up while a client is relayed stops accepting, unless
\* it is given more first: the leaving client deletes it.  A client whose peers
\* do not read what they are sent never leaves; of the others, each will do.
UsedUpIsDeleted ==
  \A c \in Clients :
    (\A d \in 1..2 : []<>(client[c].pipes[d] # "written"))
      => ((UsedUp /\ client[c].pc = "relay") ~> (listening = {} \/ ~UsedUp \/ overlapped))
=============================================================================
