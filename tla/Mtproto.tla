------------------------------- MODULE Mtproto -------------------------------
(***************************************************************************)
(* MTProto links: one mtproto-proxy process per link.  The instance table, *)
(* the used ports and the instance lock of mtproto_native, the processes,  *)
(* and the panel's coroutines that stop and start instances: create, the   *)
(* edits of a link (active, listen_port, ad tag), delete, import, boot.    *)
(*                                                                         *)
(* _instances_lock is held across the awaits of start_instance, but not    *)
(* while stop_instance waits for the process.  It is modelled as the FIFO  *)
(* queue of its holder and its waiters; taking it free does not suspend.   *)
(***************************************************************************)
EXTENDS Naturals, Sequences, FiniteSets

CONSTANTS
  Uids, Ports,
  Tasks,      \* bound: coroutines of the panel that run at the same time
  Procs,      \* bound: processes alive or not yet reaped at the same time
  Backups,    \* link tables a backup file may hold
  None        \* no uid, no process, no port

(* One entry of LINKS.  Of links of other protocols only the port matters. *)
(* History: "refused" says that active is what a refused PATCH left there. *)
Link == [present : BOOLEAN, mtproto : BOOLEAN, active : BOOLEAN, refused : BOOLEAN,
         listen_port : Ports \union {None}, mtproto_port : Ports \union {None}]

NoLink == [present |-> FALSE, mtproto |-> FALSE, active |-> FALSE, refused |-> FALSE,
           listen_port |-> None, mtproto_port |-> None]

ASSUME MtprotoAssumption ==
  /\ None \notin Uids \union Ports \union Tasks \union Procs
  /\ Tasks \intersect Procs = {}
  /\ Tasks # {}
  /\ Backups \subseteq [Uids -> Link]

VARIABLES
  links,        \* LINKS
  instances,    \* _instances: the process of each uid, and its port
  used_ports,   \* _used_ports
  procs,        \* the processes: their state, port, and whether one watches
  foreign,      \* ports that anything else on the machine listens on
  lock, ready,  \* queue of _instances_lock; its head got it without waiting
  task          \* the panel's coroutines

vars == <<links, instances, used_ports, procs, foreign, lock, ready, task>>

NoInst == [proc |-> None, port |-> None]
NoProc == [st |-> "none", port |-> None, watched |-> FALSE]
Idle == [op |-> "none", at |-> "idle", uid |-> None, pref |-> None, force |-> FALSE,
         proc |-> None, todo |-> {}]

Ops == {"none", "create", "on", "off", "set_port", "ad_tag", "delete",
        "import",    \* the part of backup_import that stops the instances
        "restart",   \* the part that starts them from the new table
        "boot"}      \* the same when the panel starts
At  == {"idle", "start", "prepare", "spawn", "verify", "stop", "killing", "list", "saving"}

TypeOK ==
  /\ links \in [Uids -> Link]
  /\ instances \in [Uids -> [proc : Procs \union {None}, port : Ports \union {None}]]
  /\ used_ports \subseteq Ports
  /\ procs \in [Procs -> [st : {"none", "up", "dead", "orphan"},
                          port : Ports \union {None}, watched : BOOLEAN]]
  /\ foreign \subseteq Ports
  /\ lock \in Seq(Tasks \union Procs) /\ ready \in BOOLEAN
  /\ task \in [Tasks -> [op : Ops, at : At, uid : Uids \union {None},
                         pref : Ports \union {None}, force : BOOLEAN,
                         proc : Procs \union {None}, todo : SUBSET Uids]]

Init ==
  /\ links = [u \in Uids |-> NoLink]
  /\ instances = [u \in Uids |-> NoInst]
  /\ used_ports = {}
  /\ procs = [q \in Procs |-> NoProc]
  /\ foreign = {}
  /\ lock = << >> /\ ready = FALSE
  /\ task = [t \in Tasks |-> Idle]

Up(q) == q # None /\ procs[q].st = "up"

(* _port_free.  An orphan is a process of the panel before its last exec.   *)
PortFree(p) ==
  /\ p \notin foreign
  /\ \A q \in Procs : procs[q].st \in {"up", "orphan"} => procs[q].port # p
------------------------------------------------------------------------------
(* The lock: t queues (again); its holder leaves it. *)

Acquire(t) == lock' = Append(lock, t) /\ ready' = (ready \/ lock = << >>)
Release == lock' = Tail(lock) /\ ready' = FALSE
ReleaseAndAcquire(t) == lock' = Append(Tail(lock), t) /\ ready' = (Len(lock) = 1)
KeepLock == UNCHANGED <<lock, ready>>

Holds(x) == lock # << >> /\ Head(lock) = x
StartArgs(r, u, pref, force) == [r EXCEPT !.at = "start", !.uid = u, !.pref = pref,
                                          !.force = force, !.proc = None]
------------------------------------------------------------------------------
(* Requests.  A handler runs between two awaits of the others. *)

Request(t) ==
  /\ ~ready
  /\ task[t] = Idle
  /\ \A s \in Tasks : task[s].op # "boot"    \* startup() serves no request
  /\ UNCHANGED <<instances, used_ports, procs, foreign>>

LinkPorts(S) == {links[u].listen_port : u \in {v \in S : links[v].present}}

Fresh(u) ==
  /\ ~links[u].present /\ instances[u].proc = None
  /\ \A t \in Tasks : task[t].uid # u /\ u \notin task[t].todo

(* A link of another protocol is inserted at once. *)
create_other(t, u, p) ==
  /\ Request(t) /\ Fresh(u) /\ p \notin LinkPorts(Uids)
  /\ links' = [links EXCEPT ![u] = [NoLink EXCEPT !.present = TRUE, !.active = TRUE,
                                                  !.listen_port = p]]
  /\ UNCHANGED task /\ KeepLock

(* An MTProto link is inserted when its instance has started. *)
create_mtproto(t, u, p) ==
  /\ Request(t) /\ Fresh(u) /\ p \notin LinkPorts(Uids)
  /\ task' = [task EXCEPT ![t] = StartArgs([Idle EXCEPT !.op = "create"], u, p, TRUE)]
  /\ Acquire(t) /\ UNCHANGED links

IsMtproto(u) == links[u].present /\ links[u].mtproto

PortChoice(u) == {p \in Ports : p \notin LinkPorts(Uids \ {u})} \union {None}

(* PATCH active, and maybe listen_port with it: the instance is started    *)
(* from a copy of the link taken before the port changes.                  *)
set_active(t, u, p) ==
  LET on == ~links[u].active
      port == IF links[u].listen_port # None THEN links[u].listen_port
                                             ELSE links[u].mtproto_port
  IN
  /\ Request(t) /\ IsMtproto(u)
  /\ p \in PortChoice(u) \union {links[u].listen_port}
  /\ links' = [links EXCEPT ![u] = [links[u] EXCEPT !.active = on, !.refused = FALSE,
                                                    !.listen_port = p]]
  /\ task' = [task EXCEPT ![t] =
                IF on THEN StartArgs([Idle EXCEPT !.op = "on"], u, port,
                                     links[u].listen_port # None)
                ELSE [Idle EXCEPT !.op = "off", !.at = "stop", !.uid = u]]
  /\ Acquire(t)

(* PATCH active with a field that is refused, as a listen_port in use is:   *)
(* active is assigned by then, and nothing is started, stopped or saved.    *)
set_active_refused(t, u) ==
  /\ Request(t) /\ IsMtproto(u)
  /\ links' = [links EXCEPT ![u] = [links[u] EXCEPT !.active = ~links[u].active,
                                                    !.refused = TRUE]]
  /\ UNCHANGED task /\ KeepLock

(* PATCH listen_port: 0 lets the instance choose its port. *)
set_port(t, u, p) ==
  /\ Request(t) /\ IsMtproto(u)
  /\ p \in PortChoice(u) \ {links[u].listen_port}
  /\ links' = [links EXCEPT ![u].listen_port = p]
  /\ task' = [task EXCEPT ![t] = [Idle EXCEPT !.op = "set_port", !.at = "stop", !.uid = u,
                                              !.pref = p, !.force = (p # None)]]
  /\ Acquire(t)

update_ad_tag(t, u) ==
  /\ Request(t) /\ IsMtproto(u)
  /\ task' = [task EXCEPT ![t] = [Idle EXCEPT !.op = "ad_tag", !.at = "stop", !.uid = u,
                                              !.pref = links[u].mtproto_port,
                                              !.force = TRUE]]
  /\ Acquire(t) /\ UNCHANGED links

(* A restart goes through the entries themselves, also one deleted since. *)
delete_link(t, u) ==
  /\ Request(t) /\ links[u].present
  /\ links' = [links EXCEPT ![u] =
                 IF \E s \in Tasks : u \in task[s].todo THEN [@ EXCEPT !.present = FALSE]
                                                        ELSE NoLink]
  /\ IF links[u].mtproto
     THEN /\ task' = [task EXCEPT ![t] = [Idle EXCEPT !.op = "delete", !.at = "stop", !.uid = u]]
          /\ Acquire(t)
     ELSE UNCHANGED task /\ KeepLock

backup_import(t) ==
  /\ Request(t)
  /\ \A s \in Tasks : task[s].op \notin {"import", "restart"}
  /\ task' = [task EXCEPT ![t] = [Idle EXCEPT !.op = "import", !.at = "list"]]
  /\ Acquire(t) /\ UNCHANGED links
------------------------------------------------------------------------------
(* What a coroutine does after the instance it wanted is stopped, and after *)
(* the one it wanted has started on a port (None: start_instance raised).   *)

Recorded(u, port) ==
  IF ~links[u].present THEN links
  ELSE [links EXCEPT ![u] =
          [links[u] EXCEPT !.mtproto_port = port, !.refused = FALSE,
                           !.listen_port = IF links[u].listen_port = None THEN None ELSE port]]

(* Queues t again if it goes on to r; leaves it alone otherwise. *)
GoesOn(t, r) ==
  /\ task' = [task EXCEPT ![t] = r]
  /\ IF r.at \in {"start", "stop"} THEN Acquire(t) ELSE KeepLock

LeavesFor(t, r) ==
  /\ task' = [task EXCEPT ![t] = r]
  /\ IF r.at \in {"start", "stop"} THEN ReleaseAndAcquire(t) ELSE Release

AfterStop(r) ==
  CASE r.op \in {"off", "delete"} -> {Idle}
    [] r.op \in {"set_port", "ad_tag"} -> {StartArgs(r, r.uid, r.pref, r.force)}
    [] r.op = "import" /\ r.todo # {} ->
         {[r EXCEPT !.at = "stop", !.uid = u, !.todo = @ \ {u}, !.proc = None] : u \in r.todo}
    [] r.op = "import" /\ r.todo = {} ->
         {[Idle EXCEPT !.op = "restart", !.at = "saving"]}

(* backup_import replaces the table once the last instance is stopped. *)
StopChangesTable(r) ==
  IF r.op = "import" /\ r.todo = {} THEN links' \in Backups ELSE UNCHANGED links

(* _restart_mtproto_instances: the next of its targets, in any order. *)
NextTarget(r) ==
  IF r.todo = {} THEN {Idle}
  ELSE {StartArgs([r EXCEPT !.todo = @ \ {u}], u, links'[u].mtproto_port,
                  links'[u].listen_port # None) : u \in r.todo}

(* Mutant: a port edit does not write the instance's port back. *)
StartChangesTableNotForPort(r, port) ==
  LET u == r.uid IN
  links' = CASE r.op = "create" /\ port # None ->
                  [links EXCEPT ![u] = [present |-> TRUE, mtproto |-> TRUE, active |-> TRUE,
                                        refused |-> FALSE, listen_port |-> port,
                                        mtproto_port |-> port]]
             [] r.op \in {"on", "restart", "boot"} /\ port # None -> Recorded(u, port)
             [] r.op = "ad_tag" /\ port # None /\ links[u].present ->
                  [links EXCEPT ![u].mtproto_port = port]
             [] r.op = "on" /\ port = None /\ links[u].present ->
                  [links EXCEPT ![u].active = FALSE]
             [] OTHER -> links

StartChangesTable(r, port) ==
  LET u == r.uid IN
  links' = CASE r.op = "create" /\ port # None ->
                  [links EXCEPT ![u] = [present |-> TRUE, mtproto |-> TRUE, active |-> TRUE,
                                        refused |-> FALSE, listen_port |-> port,
                                        mtproto_port |-> port]]
             [] r.op \in {"on", "set_port", "restart", "boot"} /\ port # None ->
                  Recorded(u, port)
             [] r.op = "ad_tag" /\ port # None /\ links[u].present ->
                  [links EXCEPT ![u].mtproto_port = port]
             [] r.op = "on" /\ port = None /\ links[u].present ->
                  [links EXCEPT ![u].active = FALSE]
             [] OTHER -> links

(* Mutant: the ad tag's restart does not give up. *)
AfterStartRetries(r, port) ==
  CASE r.op \in {"create", "on", "set_port"} -> {Idle}
    [] r.op \in {"restart", "boot"} -> NextTarget(r)
    [] r.op = "ad_tag" /\ port = None -> {StartArgs(r, r.uid, None, FALSE)}
    [] r.op = "ad_tag" /\ port # None -> {Idle}

(* The ad tag's new instance may choose its port if the old one is taken,  *)
(* and is stopped again if its link has gone.                              *)
AfterStart(r, port) ==
  CASE r.op \in {"create", "on", "set_port"} -> {Idle}
    [] r.op \in {"restart", "boot"} -> NextTarget(r)
    [] r.op = "ad_tag" /\ port = None ->
         {IF r.force THEN StartArgs(r, r.uid, None, FALSE) ELSE Idle}
    [] r.op = "ad_tag" /\ port # None ->
         {IF links[r.uid].present THEN Idle
          ELSE [Idle EXCEPT !.op = "delete", !.at = "stop", !.uid = r.uid]}

(* start_instance returns, or raises, and its lock is released. *)
Started(t, port) ==
  /\ StartChangesTable(task[t], port)
  /\ \E r \in AfterStart(task[t], port) : LeavesFor(t, r)
------------------------------------------------------------------------------
(* start_instance *)

(* Mutant: a running instance is not looked for. *)
StartBeginsAnyway(t) ==
  /\ Holds(t) /\ task[t].at = "start"
  /\ task' = [task EXCEPT ![t].at = "prepare"]
  /\ ready' = FALSE
  /\ UNCHANGED <<links, instances, used_ports, procs, foreign, lock>>

StartBegins(t) ==
  LET inst == instances[task[t].uid] IN
  /\ Holds(t) /\ task[t].at = "start"
  /\ IF Up(inst.proc)
     THEN Started(t, inst.port)
     ELSE /\ task' = [task EXCEPT ![t].at = "prepare"]
          /\ ready' = FALSE
          /\ UNCHANGED <<links, lock>>
  /\ UNCHANGED <<instances, used_ports, procs, foreign>>

Allocatable == {p \in Ports : p \notin used_ports /\ PortFree(p)}

(* Mutant: that no port was found is not noticed. *)
PrepareUnchecked(t) ==
  /\ Holds(t) /\ task[t].at = "prepare"
  /\ \E p \in (Allocatable \intersect {task[t].pref}) \union {None} :
       task' = [task EXCEPT ![t].at = "spawn", ![t].pref = p]
  /\ UNCHANGED <<links, instances, used_ports, procs, foreign, lock, ready>>

(* Binary, backend.conf and allocate_port_async: the preferred port is    *)
(* tried PORT_RETRY_ATTEMPTS times, then given up or replaced.            *)
Prepare(t) ==
  LET r == task[t] IN
  /\ Holds(t) /\ r.at = "prepare"
  /\ \/ \E p \in Allocatable :
           /\ p = r.pref \/ (r.pref \notin Allocatable /\ (r.force => r.pref = None))
           /\ task' = [task EXCEPT ![t].at = "spawn", ![t].pref = p]
           /\ UNCHANGED <<links, lock, ready>>
     \/ Started(t, None)
  /\ UNCHANGED <<instances, used_ports, procs, foreign>>

(* The process runs; it exits if it cannot bind its port. *)
Spawn(t) ==
  LET p == task[t].pref IN
  /\ Holds(t) /\ task[t].at = "spawn"
  /\ \E q \in Procs :
       /\ procs[q] = NoProc /\ \A s \in Tasks : task[s].proc # q
       /\ procs' = [procs EXCEPT ![q] = [st |-> IF PortFree(p) THEN "up" ELSE "dead",
                                         port |-> p, watched |-> FALSE]]
       /\ task' = [task EXCEPT ![t].at = "verify", ![t].proc = q]
  /\ UNCHANGED <<links, instances, used_ports, foreign, lock, ready>>

(* Mutant: no task watches the new process. *)
VerifyUnwatched(t) ==
  LET r == task[t] IN
  /\ Holds(t) /\ r.at = "verify" /\ Up(r.proc)
  /\ used_ports' = used_ports \union {r.pref}
  /\ instances' = [instances EXCEPT ![r.uid] = [proc |-> r.proc, port |-> r.pref]]
  /\ Started(t, r.pref)
  /\ UNCHANGED <<procs, foreign>>

(* STARTUP_VERIFY_DELAY later: still running, or start_instance raises. *)
Verify(t) ==
  LET r == task[t] IN
  /\ Holds(t) /\ r.at = "verify"
  /\ IF Up(r.proc)
     THEN /\ procs' = [procs EXCEPT ![r.proc].watched = TRUE]
          /\ used_ports' = used_ports \union {r.pref}
          /\ instances' = [instances EXCEPT ![r.uid] = [proc |-> r.proc, port |-> r.pref]]
          /\ Started(t, r.pref)
     ELSE /\ procs' = [procs EXCEPT ![r.proc] = NoProc]
          /\ used_ports' = used_ports \ {r.pref}
          /\ UNCHANGED instances
          /\ Started(t, None)
  /\ UNCHANGED foreign
------------------------------------------------------------------------------
(* stop_instance, stop_all, _watch_process *)

StopBegins(t) ==
  LET inst == instances[task[t].uid] IN
  /\ Holds(t) /\ task[t].at = "stop"
  /\ instances' = [instances EXCEPT ![task[t].uid] = NoInst]
  /\ used_ports' = used_ports \ {inst.port}
  /\ IF inst.proc = None
     THEN /\ StopChangesTable(task[t])
          /\ \E r \in AfterStop(task[t]) : LeavesFor(t, r)
     ELSE /\ task' = [task EXCEPT ![t].at = "killing", ![t].proc = inst.proc]
          /\ Release /\ UNCHANGED links
  /\ UNCHANGED <<procs, foreign>>

(* The process has exited, of SIGTERM or of SIGKILL. *)
StopEnds(t) ==
  /\ task[t].at = "killing" /\ ~Up(task[t].proc)
  /\ StopChangesTable(task[t])
  /\ \E r \in AfterStop([task[t] EXCEPT !.proc = None]) : GoesOn(t, r)
  /\ UNCHANGED <<instances, used_ports, procs, foreign>>

stop_all(t) ==
  LET keys == {u \in Uids : instances[u].proc # None} IN
  /\ Holds(t) /\ task[t].at = "list"
  /\ StopChangesTable([task[t] EXCEPT !.todo = keys])
  /\ \E r \in AfterStop([task[t] EXCEPT !.todo = keys]) : LeavesFor(t, r)
  /\ UNCHANGED <<instances, used_ports, procs, foreign>>

(* save_state has returned: the new table's active links are the targets. *)
Targets == {u \in Uids : links[u].present /\ links[u].mtproto /\ links[u].active}

RestartBegins(t) ==
  /\ task[t].at = "saving"
  /\ UNCHANGED links
  /\ \E r \in NextTarget([task[t] EXCEPT !.todo = Targets]) : GoesOn(t, r)
  /\ UNCHANGED <<instances, used_ports, procs, foreign>>

(* A process ends: told to, or by itself; its watcher queues for the lock, *)
(* if it has one.                                                          *)
ProcDies(q) ==
  /\ Up(q)
  /\ procs' = [procs EXCEPT ![q].st = "dead"]
  /\ IF procs[q].watched THEN Acquire(q) ELSE KeepLock
  /\ UNCHANGED <<links, instances, used_ports, foreign, task>>

OrphanDies(q) ==
  /\ procs[q].st = "orphan"
  /\ procs' = [procs EXCEPT ![q] = NoProc]
  /\ UNCHANGED <<links, instances, used_ports, foreign, lock, ready, task>>

(* Mutant: the watcher frees its process's port, whoever uses it now. *)
WatcherRunsFreesPort(q) ==
  LET Mine == {u \in Uids : instances[u].proc = q} IN
  /\ Holds(q)
  /\ procs' = [procs EXCEPT ![q] = NoProc]
  /\ instances' = [u \in Uids |-> IF u \in Mine THEN NoInst ELSE instances[u]]
  /\ used_ports' = used_ports \ {procs[q].port}
  /\ Release
  /\ UNCHANGED <<links, foreign, task>>

WatcherRuns(q) ==
  LET Mine == {u \in Uids : instances[u].proc = q} IN
  /\ Holds(q)
  /\ procs' = [procs EXCEPT ![q] = NoProc]
  /\ instances' = [u \in Uids |-> IF u \in Mine THEN NoInst ELSE instances[u]]
  /\ used_ports' = used_ports \ {instances[u].port : u \in Mine}
  /\ Release
  /\ UNCHANGED <<links, foreign, task>>

(* Another listener of the machine, the panel's own ones included. *)
Foreign(p) ==
  /\ \/ PortFree(p) /\ foreign' = foreign \union {p}
     \/ p \in foreign /\ foreign' = foreign \ {p}
  /\ UNCHANGED <<links, instances, used_ports, procs, lock, ready, task>>

(* The program starts with empty tables; startup() starts the active links'  *)
(* instances before it serves requests.                                     *)
ProgramStarts ==
  /\ instances' = [u \in Uids |-> NoInst]
  /\ used_ports' = {}
  /\ lock' = << >> /\ ready' = FALSE
  /\ \E t \in Tasks :
       task' = [[s \in Tasks |-> Idle] EXCEPT ![t] = [Idle EXCEPT !.op = "boot", !.at = "saving"]]
  /\ UNCHANGED <<links, foreign>>

(* The service is restarted, or has died: systemd kills all its processes.  *)
Reboot ==
  /\ ProgramStarts
  /\ procs' = [q \in Procs |-> NoProc]

(* An update ends in os.execv: the program is another one, and the          *)
(* processes that it has started live on, with their ports.                 *)
Reexec ==
  /\ \A t \in Tasks : task[t].op # "boot"
  /\ ProgramStarts
  /\ procs' = [q \in Procs |->
                 IF procs[q].st \in {"up", "orphan"}
                 THEN [st |-> "orphan", port |-> procs[q].port, watched |-> FALSE]
                 ELSE NoProc]
------------------------------------------------------------------------------
Handlers(t) ==
  \/ \E u \in Uids, p \in Ports : create_other(t, u, p) \/ create_mtproto(t, u, p)
  \/ \E u \in Uids, p \in Ports \union {None} : set_active(t, u, p) \/ set_port(t, u, p)
  \/ \E u \in Uids : set_active_refused(t, u) \/ update_ad_tag(t, u) \/ delete_link(t, u)
  \/ backup_import(t)

Runs(t) ==
  \/ StartBegins(t) \/ Prepare(t) \/ Spawn(t) \/ Verify(t)
  \/ StopBegins(t) \/ StopEnds(t) \/ stop_all(t) \/ RestartBegins(t)

Next ==
  \/ \E t \in Tasks : Handlers(t) \/ Runs(t)
  \/ \E q \in Procs : ProcDies(q) \/ OrphanDies(q) \/ WatcherRuns(q)
  \/ \E p \in Ports : Foreign(p)
  \/ Reboot \/ Reexec

Spec == Init /\ [][Next]_vars

(* The event loop resumes what is ready; a process that was sent SIGTERM    *)
(* and then SIGKILL dies.                                                   *)
Fairness ==
  /\ \A t \in Tasks : WF_vars(Runs(t))
  /\ \A q \in Procs : WF_vars(WatcherRuns(q))
  /\ \A q \in Procs : WF_vars((\E t \in Tasks : task[t].at = "killing" /\ task[t].proc = q)
                              /\ ProcDies(q))

FairSpec == Spec /\ Fairness
------------------------------------------------------------------------------
(* No process is lost while the program runs: one that it has started and   *)
(* that runs is an instance somebody can stop, or a start or a stop is      *)
(* still busy with it, whatever overlaps - two starts of one uid, a crash   *)
(* during a restart, a late watcher (start_instance, stop_instance,         *)
(* _watch_process).  Orphans are lost: the exec that ends an update leaves  *)
(* them to a program that knows nothing of them (main.py:3108).             *)
NoLostProcess ==
  \A q \in Procs :
    Up(q) => \/ \E u \in Uids : instances[u].proc = q
             \/ \E t \in Tasks : task[t].proc = q /\ task[t].at \in {"verify", "killing"}

(* The used ports cover the instances, and no two instances have one port.  *)
UsedPortsCover ==
  \A u, v \in Uids :
    instances[u].proc # None =>
      /\ instances[u].port \in used_ports
      /\ instances[u].port = instances[v].port => u = v

(* The port an active link advertises is the one its process listens on,    *)
(* except while a coroutine is busy with that link or a table is replaced:  *)
(* the port that create, the edits, an import or the boot asked for is not  *)
(* always the one the process got.  It says nothing of a link that a        *)
(* refused PATCH left active, until its instance is started again           *)
(* (update_link assigns active before it refuses).                          *)
AdvertisedPort ==
  \A u \in Uids :
    /\ IsMtproto(u) /\ links[u].active /\ ~links[u].refused /\ Up(instances[u].proc)
    /\ \A t \in Tasks : task[t].uid # u /\ task[t].op \notin {"import", "restart"}
    => links[u].mtproto_port = instances[u].port

(* A crashed instance is forgotten, so that its link can be started again   *)
(* and list_links does not call it running for ever.                        *)
CrashIsNoticed ==
  \A u \in Uids :
    (instances[u].proc # None /\ ~Up(instances[u].proc))
      ~> (instances[u].proc = None \/ Up(instances[u].proc))

(* Every operation ends, also those that queue for the lock more than once  *)
(* (stop, then start, then perhaps start again) behind crashes and other    *)
(* operations on the same link; a reboot or an exec may cut it short.       *)
OperationsEnd ==
  \A t \in Tasks :
    task[t].op \notin {"none", "boot"} ~> task[t].op \in {"none", "boot"}

------------------------------------------------------------------------------
(* What a comment says, and the code does not do. *)

(* mtproto_native: one process per link. *)
InstanceHasLink ==
  (\A t \in Tasks : task[t] = Idle)
    => \A u \in Uids : instances[u].proc # None => links[u].present
==============================================================================
