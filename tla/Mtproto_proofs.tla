--------------------------- MODULE Mtproto_proofs ----------------------------
(* Theorems about Mtproto, for any links, ports, coroutines and processes.  *)
EXTENDS Mtproto, TLAPS

TaskRec == [op : Ops, at : At, uid : Uids \union {None}, pref : Ports \union {None},
            force : BOOLEAN, proc : Procs \union {None}, todo : SUBSET Uids]

(* Inside start_instance, where the lock is kept across awaits. *)
Busy == {"prepare", "spawn", "verify"}

StartOps == {"create", "on", "set_port", "ad_tag", "restart", "boot"}
StopOps  == {"off", "set_port", "ad_tag", "delete", "import"}

(* A coroutine's operation fits its place, and it has a uid where it needs  *)
(* one.                                                                     *)
GoodTask(r) ==
  /\ r.at \notin {"idle", "list", "saving"} => r.uid \in Uids
  /\ r.at = "start" \/ r.at \in Busy => r.op \in StartOps
  /\ r.at \in {"stop", "killing"} => r.op \in StopOps
  /\ r.at = "list" => r.op = "import"
  /\ r.at = "saving" => r.op \in {"restart", "boot"}

TasksGood == \A t \in Tasks : GoodTask(task[t])

(* Only the holder of the lock is inside a start. *)
OneStart == \A t \in Tasks : task[t].at \in Busy => Holds(t)

(* The port that a start has chosen is not in use. *)
ChosenUnused ==
  \A t \in Tasks :
    task[t].at \in {"spawn", "verify"} =>
      task[t].pref \in Ports /\ task[t].pref \notin used_ports

EmptyInst == \A u \in Uids : instances[u].proc = None => instances[u].port = None

(* The inductive invariant: about the coroutines and the lock, about the    *)
(* instances and the used ports, and the types of the rest.                 *)
TaskInv ==
  /\ task \in [Tasks -> TaskRec]
  /\ lock \in Seq(Tasks \union Procs) /\ ready \in BOOLEAN
  /\ TasksGood /\ OneStart

CoverInv ==
  /\ instances \in [Uids -> [proc : Procs \union {None}, port : Ports \union {None}]]
  /\ used_ports \subseteq Ports
  /\ EmptyInst /\ UsedPortsCover

DataOK ==
  /\ links \in [Uids -> Link]
  /\ procs \in [Procs -> [st : {"none", "up", "dead", "orphan"},
                          port : Ports \union {None}, watched : BOOLEAN]]
  /\ foreign \subseteq Ports

IInv == TaskInv /\ CoverInv /\ ChosenUnused /\ DataOK

USE MtprotoAssumption
------------------------------------------------------------------------------
(* The records a coroutine can go on with. *)

LEMMA IdleGood == Idle \in TaskRec /\ GoodTask(Idle)
  BY DEF Idle, TaskRec, GoodTask, Ops, At, Busy

LEMMA StartArgsGood ==
  ASSUME NEW r \in TaskRec, NEW u \in Uids, NEW p \in Ports \union {None}, NEW f \in BOOLEAN,
         r.op \in StartOps
  PROVE  /\ StartArgs(r, u, p, f) \in TaskRec
         /\ GoodTask(StartArgs(r, u, p, f))
         /\ StartArgs(r, u, p, f).at = "start"
  BY DEF StartArgs, TaskRec, GoodTask, Busy, At, StartOps

(* What follows a stop is a start, another stop, the saving of the imported *)
(* table or the end.                                                        *)
LEMMA AfterStopGood ==
  ASSUME NEW r \in TaskRec, r.op \in StopOps, r.op # "import" => r.uid \in Uids,
         NEW n \in AfterStop(r)
  PROVE  n \in TaskRec /\ GoodTask(n) /\ n.at \notin Busy
  <1>1. CASE r.op \in {"off", "delete"}
    <2>1. n = Idle
      BY <1>1 DEF AfterStop
    <2> QED
      BY <2>1, IdleGood DEF Idle, Busy
  <1>2. CASE r.op \in {"set_port", "ad_tag"}
    <2>1. n = StartArgs(r, r.uid, r.pref, r.force)
      BY <1>2 DEF AfterStop
    <2>2. r.uid \in Uids /\ r.pref \in Ports \union {None} /\ r.force \in BOOLEAN /\ r.op \in StartOps
      BY <1>2 DEF TaskRec, StartOps
    <2> QED
      BY <2>1, <2>2, StartArgsGood DEF Busy
  <1>3. CASE r.op = "import" /\ r.todo # {}
    <2>1. PICK u \in r.todo :
            n = [r EXCEPT !.at = "stop", !.uid = u, !.todo = @ \ {u}, !.proc = None]
      BY <1>3 DEF AfterStop
    <2>2. u \in Uids
      BY DEF TaskRec
    <2> QED
      BY <1>3, <2>1, <2>2 DEF TaskRec, GoodTask, Busy, At, StopOps
  <1>4. CASE r.op = "import" /\ r.todo = {}
    <2>1. n = [Idle EXCEPT !.op = "restart", !.at = "saving"]
      BY <1>4 DEF AfterStop
    <2> QED
      BY <2>1 DEF Idle, TaskRec, GoodTask, Busy, At, Ops
  <1> QED
    BY <1>1, <1>2, <1>3, <1>4 DEF StopOps

LEMMA NextTargetGood ==
  ASSUME NEW r \in TaskRec, r.op \in StartOps, links' \in [Uids -> Link],
         NEW n \in NextTarget(r)
  PROVE  n \in TaskRec /\ GoodTask(n) /\ n.at \notin Busy
  <1>1. CASE r.todo = {}
    <2>1. n = Idle
      BY <1>1 DEF NextTarget
    <2> QED
      BY <2>1, IdleGood DEF Idle, Busy
  <1>2. CASE r.todo # {}
    <2>1. PICK u \in r.todo :
            n = StartArgs([r EXCEPT !.todo = @ \ {u}], u, links'[u].mtproto_port,
                          links'[u].listen_port # None)
      BY <1>2 DEF NextTarget
    <2>2. u \in Uids /\ links'[u].mtproto_port \in Ports \union {None}
      BY DEF TaskRec, Link
    <2>3. [r EXCEPT !.todo = @ \ {u}] \in TaskRec /\ [r EXCEPT !.todo = @ \ {u}].op \in StartOps
      BY DEF TaskRec
    <2>4. (links'[u].listen_port # None) \in BOOLEAN
      OBVIOUS
    <2> QED
      BY <2>1, <2>2, <2>3, <2>4, StartArgsGood DEF Busy
  <1> QED
    BY <1>1, <1>2

(* What follows a start that returned a port, or raised. *)
LEMMA AfterStartGood ==
  ASSUME NEW r \in TaskRec, r.op \in StartOps, r.uid \in Uids,
         NEW port \in Ports \union {None}, links' \in [Uids -> Link],
         NEW n \in AfterStart(r, port)
  PROVE  n \in TaskRec /\ GoodTask(n) /\ n.at \notin Busy
  <1>1. CASE r.op \in {"create", "on", "set_port"}
    <2>1. n = Idle
      BY <1>1 DEF AfterStart
    <2> QED
      BY <2>1, IdleGood DEF Idle, Busy
  <1>2. CASE r.op \in {"restart", "boot"}
    <2>1. n \in NextTarget(r)
      BY <1>2 DEF AfterStart
    <2> QED
      BY <2>1, NextTargetGood
  <1>3. CASE r.op = "ad_tag"
    <2>1. \/ n = Idle
          \/ n = StartArgs(r, r.uid, None, FALSE)
          \/ n = [Idle EXCEPT !.op = "delete", !.at = "stop", !.uid = r.uid]
      BY <1>3 DEF AfterStart
    <2>2. CASE n = Idle
      BY <2>2, IdleGood DEF Idle, Busy
    <2>3. CASE n = StartArgs(r, r.uid, None, FALSE)
      BY <2>3, StartArgsGood DEF Busy
    <2>4. CASE n = [Idle EXCEPT !.op = "delete", !.at = "stop", !.uid = r.uid]
      BY <2>4 DEF Idle, TaskRec, GoodTask, Busy, At, Ops, StopOps
    <2> QED
      BY <2>1, <2>2, <2>3, <2>4
  <1> QED
    BY <1>1, <1>2, <1>3 DEF StartOps
------------------------------------------------------------------------------
(* The link table keeps its type. *)

LEMMA RecordedType ==
  ASSUME links \in [Uids -> Link], NEW u \in Uids, NEW port \in Ports
  PROVE  Recorded(u, port) \in [Uids -> Link]
  <1> DEFINE l == IF links[u].listen_port = None THEN None ELSE port
             new == [links[u] EXCEPT !.mtproto_port = port, !.refused = FALSE, !.listen_port = l]
  <1>1. l \in Ports \union {None}
    OBVIOUS
  <1>2. new \in Link
    <2> HIDE DEF l
    <2> QED
      BY <1>1 DEF Link
  <1>3. Recorded(u, port) = IF ~links[u].present THEN links ELSE [links EXCEPT ![u] = new]
    BY DEF Recorded
  <1> HIDE DEF new
  <1> QED
    BY <1>2, <1>3

LEMMA StartTableType ==
  ASSUME links \in [Uids -> Link], NEW r, r.uid \in Uids, NEW port \in Ports \union {None},
         StartChangesTable(r, port)
  PROVE  links' \in [Uids -> Link]
  <1> DEFINE u == r.uid
             New == [present |-> TRUE, mtproto |-> TRUE, active |-> TRUE,
                     refused |-> FALSE, listen_port |-> port, mtproto_port |-> port]
  <1>1. \/ links' = links
        \/ port # None /\ links' = [links EXCEPT ![u] = New]
        \/ port # None /\ links' = Recorded(u, port)
        \/ links' = [links EXCEPT ![u].mtproto_port = port]
        \/ links' = [links EXCEPT ![u].active = FALSE]
    BY DEF StartChangesTable
  <1>2. port # None => New \in Link
    BY DEF Link
  <1> links[u] \in Link
    OBVIOUS
  <1>3. [links EXCEPT ![u].mtproto_port = port] \in [Uids -> Link]
    <2>1. [links[u] EXCEPT !.mtproto_port = port] \in Link
      BY DEF Link
    <2> QED
      BY <2>1
  <1>4. [links EXCEPT ![u].active = FALSE] \in [Uids -> Link]
    <2>1. [links[u] EXCEPT !.active = FALSE] \in Link
      BY DEF Link
    <2> QED
      BY <2>1
  <1>5. port # None => Recorded(u, port) \in [Uids -> Link]
    BY RecordedType
  <1>6. port # None => [links EXCEPT ![u] = New] \in [Uids -> Link]
    <2> HIDE DEF New
    <2> QED
      BY <1>2
  <1> QED
    BY <1>1, <1>3, <1>4, <1>5, <1>6

LEMMA StopTableType ==
  ASSUME links \in [Uids -> Link], NEW r, StopChangesTable(r)
  PROVE  links' \in [Uids -> Link]
  BY DEF StopChangesTable
------------------------------------------------------------------------------
(* The lock's queue keeps its type, and queueing keeps its holder. *)

LEMMA AcquireLock ==
  ASSUME lock \in Seq(Tasks \union Procs), NEW x \in Tasks \union Procs, Acquire(x)
  PROVE  /\ lock' \in Seq(Tasks \union Procs)
         /\ ready' \in BOOLEAN
         /\ lock # << >> => lock' # << >> /\ Head(lock') = Head(lock)
  <1>1. lock' = Append(lock, x)
    BY DEF Acquire
  <1>2. ready' \in BOOLEAN
    BY DEF Acquire
  <1>3. lock' \in Seq(Tasks \union Procs)
    BY <1>1
  <1>4. lock # << >> => lock' # << >> /\ Head(lock') = Head(lock)
    BY <1>1
  <1> QED
    BY <1>2, <1>3, <1>4

LEMMA LeaveLock ==
  ASSUME lock \in Seq(Tasks \union Procs), lock # << >>, NEW t \in Tasks, NEW r,
         LeavesFor(t, r)
  PROVE  lock' \in Seq(Tasks \union Procs) /\ ready' \in BOOLEAN
  <1>1. Tail(lock) \in Seq(Tasks \union Procs)
    OBVIOUS
  <1>2. CASE ReleaseAndAcquire(t)
    <2>1. ready' \in BOOLEAN
      BY <1>2 DEF ReleaseAndAcquire
    <2>2. lock' \in Seq(Tasks \union Procs)
      BY <1>1, <1>2 DEF ReleaseAndAcquire
    <2> QED
      BY <2>1, <2>2
  <1>3. CASE Release
    BY <1>1, <1>3 DEF Release
  <1> QED
    BY <1>2, <1>3 DEF LeavesFor

(* A coroutine that does not hold the lock, or is not inside a start, goes  *)
(* on to something that is not a start either.                              *)
LEMMA GoesOnStep ==
  ASSUME TaskInv, NEW t \in Tasks, NEW r \in TaskRec, GoodTask(r), r.at \notin Busy,
         task' = [task EXCEPT ![t] = r], Acquire(t) \/ KeepLock
  PROVE  /\ TaskInv'
         /\ \A s \in Tasks : task'[s].at \in Busy => task'[s] = task[s]
  <1>1. /\ lock' \in Seq(Tasks \union Procs) /\ ready' \in BOOLEAN
        /\ lock # << >> => lock' # << >> /\ Head(lock') = Head(lock)
    <2>1. CASE Acquire(t)
      BY <2>1, AcquireLock DEF TaskInv
    <2>2. CASE KeepLock
      BY <2>2 DEF TaskInv, KeepLock
    <2> QED
      BY <2>1, <2>2
  <1>2. task' \in [Tasks -> TaskRec]
    BY DEF TaskInv
  <1>3. \A s \in Tasks : task'[s] = IF s = t THEN r ELSE task[s]
    BY DEF TaskInv
  <1>4. TasksGood'
    BY <1>3 DEF TaskInv, TasksGood, GoodTask
  <1>5. OneStart'
    BY <1>1, <1>3 DEF TaskInv, OneStart, Holds
  <1> QED
    BY <1>1, <1>2, <1>3, <1>4, <1>5 DEF TaskInv

(* The holder leaves: nobody is inside a start. *)
LEMMA LeavesStep ==
  ASSUME TaskInv, NEW t \in Tasks, Holds(t), NEW r \in TaskRec, GoodTask(r), r.at \notin Busy,
         LeavesFor(t, r)
  PROVE  /\ TaskInv'
         /\ \A s \in Tasks : task'[s].at \notin Busy
  <1>1. lock' \in Seq(Tasks \union Procs) /\ ready' \in BOOLEAN
    BY LeaveLock DEF TaskInv, Holds
  <1>2. task' = [task EXCEPT ![t] = r]
    BY DEF LeavesFor
  <1>3. task' \in [Tasks -> TaskRec] /\ \A s \in Tasks : task'[s] = IF s = t THEN r ELSE task[s]
    BY <1>2 DEF TaskInv
  <1>4. TasksGood'
    BY <1>3 DEF TaskInv, TasksGood, GoodTask
  <1>5. \A s \in Tasks : task'[s].at \notin Busy
    BY <1>3 DEF TaskInv, OneStart, Holds
  <1> QED
    BY <1>1, <1>3, <1>4, <1>5 DEF TaskInv, OneStart
------------------------------------------------------------------------------
(* Instances are forgotten with their ports, or registered with a new one.  *)

LEMMA ForgetStep ==
  ASSUME CoverInv, NEW S \in SUBSET Uids,
         instances' = [u \in Uids |-> IF u \in S THEN NoInst ELSE instances[u]],
         used_ports' = used_ports \ {instances[u].port : u \in S}
  PROVE  CoverInv' /\ used_ports' \subseteq used_ports
  <1>1. NoInst \in [proc : Procs \union {None}, port : Ports \union {None}]
        /\ NoInst.proc = None /\ NoInst.port = None
    BY DEF NoInst
  <1>2. instances' \in [Uids -> [proc : Procs \union {None}, port : Ports \union {None}]]
    BY <1>1 DEF CoverInv
  <1>3. \A u \in Uids : instances'[u] = IF u \in S THEN NoInst ELSE instances[u]
    OBVIOUS
  <1>4. EmptyInst'
    BY <1>1, <1>3 DEF CoverInv, EmptyInst
  <1>5. UsedPortsCover'
    <2> SUFFICES ASSUME NEW u \in Uids, NEW v \in Uids, instances'[u].proc # None
                 PROVE  /\ instances'[u].port \in used_ports'
                        /\ instances'[u].port = instances'[v].port => u = v
      BY DEF UsedPortsCover
    <2>1. u \notin S /\ instances'[u] = instances[u] /\ instances[u].proc # None
      BY <1>1, <1>3
    <2>2. \A w \in Uids : instances[u].port = instances[w].port => u = w
      BY <2>1 DEF CoverInv, UsedPortsCover
    <2>3. instances[u].port \in used_ports /\ instances[u].port # None
      BY <2>1 DEF CoverInv, UsedPortsCover
    <2>4. instances[u].port \notin {instances[w].port : w \in S}
      BY <2>1, <2>2
    <2>5. instances[u].port = instances'[v].port => u = v
      BY <1>1, <1>3, <2>2, <2>3
    <2> QED
      BY <2>1, <2>3, <2>4, <2>5
  <1> QED
    BY <1>2, <1>4, <1>5 DEF CoverInv

LEMMA RegisterStep ==
  ASSUME CoverInv, NEW u \in Uids, NEW q \in Procs, NEW p \in Ports, p \notin used_ports,
         instances' = [instances EXCEPT ![u] = [proc |-> q, port |-> p]],
         used_ports' = used_ports \union {p}
  PROVE  CoverInv'
  <1>1. \A v \in Uids :
          /\ instances'[v].proc = IF v = u THEN q ELSE instances[v].proc
          /\ instances'[v].port = IF v = u THEN p ELSE instances[v].port
    BY DEF CoverInv
  <1>2. instances' \in [Uids -> [proc : Procs \union {None}, port : Ports \union {None}]]
    BY DEF CoverInv
  <1>3. EmptyInst'
    BY <1>1 DEF CoverInv, EmptyInst
  <1>4. \A v \in Uids : instances[v].port # p
    <2> SUFFICES ASSUME NEW v \in Uids, instances[v].port = p PROVE FALSE
      OBVIOUS
    <2>1. p # None
      OBVIOUS
    <2>2. instances[v].proc # None
      BY <2>1 DEF CoverInv, EmptyInst
    <2> QED
      BY <2>2 DEF CoverInv, UsedPortsCover
  <1>5. UsedPortsCover'
    BY <1>1, <1>4 DEF CoverInv, UsedPortsCover
  <1> QED
    BY <1>2, <1>3, <1>5 DEF CoverInv
------------------------------------------------------------------------------
(* The whole invariant, for the three kinds of steps. *)

LEMMA IInvImplies == IInv => TypeOK /\ UsedPortsCover
  BY DEF IInv, TaskInv, CoverInv, DataOK, TypeOK, TaskRec

LEMMA InitIInv == Init => IInv
  <1> SUFFICES ASSUME Init PROVE IInv
    OBVIOUS
  <1>1. \A t \in Tasks : task[t] = Idle
    BY DEF Init
  <1>2. TaskInv
    <2>1. task \in [Tasks -> TaskRec]
      BY IdleGood DEF Init
    <2>2. lock \in Seq(Tasks \union Procs)
      <3>1. << >> \in Seq(Tasks \union Procs)
        OBVIOUS
      <3> QED
        BY <3>1 DEF Init
    <2>4. ready \in BOOLEAN
      BY DEF Init
    <2>3. TasksGood /\ OneStart
      BY <1>1, IdleGood DEF TasksGood, OneStart, Idle, Busy
    <2> QED
      BY <2>1, <2>2, <2>3, <2>4 DEF TaskInv
  <1>3. CoverInv
    BY DEF Init, CoverInv, EmptyInst, UsedPortsCover, NoInst
  <1>4. ChosenUnused
    BY <1>1 DEF ChosenUnused, Idle
  <1>5. DataOK
    BY DEF Init, DataOK, NoLink, NoProc, Link
  <1> QED
    BY <1>2, <1>3, <1>4, <1>5 DEF IInv

(* A start that was busy and is not disturbed keeps its chosen port unused. *)
LEMMA ChosenKept ==
  ASSUME ChosenUnused, used_ports' \subseteq used_ports,
         \A s \in Tasks : task'[s].at \in Busy => task'[s] = task[s]
  PROVE  ChosenUnused'
  BY DEF ChosenUnused, Busy

(* A step of a coroutine that touches neither instances nor processes. *)
LEMMA TaskStep ==
  ASSUME IInv, NEW t \in Tasks, NEW r \in TaskRec, GoodTask(r), r.at \notin Busy,
         task' = [task EXCEPT ![t] = r], Acquire(t) \/ KeepLock, links' \in [Uids -> Link],
         UNCHANGED <<instances, used_ports, procs, foreign>>
  PROVE  IInv'
  <1>1. TaskInv' /\ \A s \in Tasks : task'[s].at \in Busy => task'[s] = task[s]
    BY GoesOnStep DEF IInv
  <1>2. ChosenUnused'
    BY <1>1, ChosenKept DEF IInv
  <1>3. CoverInv'
    BY DEF IInv, CoverInv, EmptyInst, UsedPortsCover
  <1>4. DataOK'
    BY DEF IInv, DataOK
  <1> QED
    BY <1>1, <1>2, <1>3, <1>4 DEF IInv

(* A coroutine leaves start_instance with a port, or because it raised. *)
LEMMA StartedStep ==
  ASSUME TaskInv, links \in [Uids -> Link], NEW t \in Tasks, Holds(t),
         task[t].at \in Busy \union {"start"}, NEW port \in Ports \union {None},
         Started(t, port)
  PROVE  TaskInv' /\ links' \in [Uids -> Link] /\ ChosenUnused'
  <1>1. task[t] \in TaskRec /\ task[t].op \in StartOps /\ task[t].uid \in Uids
    BY DEF TaskInv, TasksGood, GoodTask, Busy
  <1>2. links' \in [Uids -> Link]
    BY <1>1, StartTableType DEF Started
  <1>3. PICK r \in AfterStart(task[t], port) : LeavesFor(t, r)
    BY DEF Started
  <1>4. r \in TaskRec /\ GoodTask(r) /\ r.at \notin Busy
    BY <1>1, <1>2, AfterStartGood
  <1>5. TaskInv' /\ \A s \in Tasks : task'[s].at \notin Busy
    BY <1>3, <1>4, LeavesStep
  <1>6. ChosenUnused'
    BY <1>5 DEF ChosenUnused, Busy
  <1> QED
    BY <1>2, <1>5, <1>6
------------------------------------------------------------------------------
(* The requests. *)

LEMMA HandlersKeep ==
  ASSUME IInv, NEW t \in Tasks, Handlers(t)
  PROVE  IInv'
  <1>0. links \in [Uids -> Link]
    BY DEF IInv, DataOK
  <1>1. ASSUME NEW u \in Uids, NEW p \in Ports, create_other(t, u, p)
        PROVE  IInv'
    <2>1. [NoLink EXCEPT !.present = TRUE, !.active = TRUE, !.listen_port = p] \in Link
      BY DEF NoLink, Link
    <2>2. links' \in [Uids -> Link]
      BY <1>0, <1>1, <2>1 DEF create_other
    <2>3. task' = [task EXCEPT ![t] = task[t]]
      BY <1>1 DEF create_other, IInv, TaskInv
    <2>4. task[t] = Idle /\ Idle \in TaskRec /\ GoodTask(Idle) /\ Idle.at \notin Busy
      BY <1>1, IdleGood DEF create_other, Request, Idle, Busy
    <2> QED
      BY <1>1, <2>2, <2>3, <2>4, TaskStep DEF create_other, Request
  <1>2. ASSUME NEW u \in Uids, NEW p \in Ports, create_mtproto(t, u, p)
        PROVE  IInv'
    <2> DEFINE r == StartArgs([Idle EXCEPT !.op = "create"], u, p, TRUE)
    <2>1. [Idle EXCEPT !.op = "create"] \in TaskRec /\ [Idle EXCEPT !.op = "create"].op \in StartOps
      BY DEF Idle, TaskRec, Ops, At, StartOps
    <2>2. r \in TaskRec /\ GoodTask(r) /\ r.at \notin Busy
      BY <2>1, StartArgsGood DEF Busy
    <2>3. task' = [task EXCEPT ![t] = r] /\ Acquire(t) /\ links' \in [Uids -> Link]
      BY <1>0, <1>2 DEF create_mtproto
    <2> HIDE DEF r
    <2> QED
      BY <1>2, <2>2, <2>3, TaskStep DEF create_mtproto, Request
  <1>3. ASSUME NEW u \in Uids, NEW p \in Ports \union {None}, set_active(t, u, p)
        PROVE  IInv'
    <2> DEFINE on == ~links[u].active
               port == IF links[u].listen_port # None THEN links[u].listen_port
                                                      ELSE links[u].mtproto_port
               r == IF on THEN StartArgs([Idle EXCEPT !.op = "on"], u, port,
                                         links[u].listen_port # None)
                    ELSE [Idle EXCEPT !.op = "off", !.at = "stop", !.uid = u]
    <2>1. port \in Ports \union {None} /\ on \in BOOLEAN
      BY <1>0 DEF Link
    <2>2. [Idle EXCEPT !.op = "on"] \in TaskRec /\ [Idle EXCEPT !.op = "on"].op \in StartOps
      BY DEF Idle, TaskRec, Ops, At, StartOps
    <2>3. StartArgs([Idle EXCEPT !.op = "on"], u, port, links[u].listen_port # None) \in TaskRec
          /\ GoodTask(StartArgs([Idle EXCEPT !.op = "on"], u, port, links[u].listen_port # None))
          /\ StartArgs([Idle EXCEPT !.op = "on"], u, port, links[u].listen_port # None).at = "start"
      <3> HIDE DEF port
      <3> QED
        BY <2>1, <2>2, StartArgsGood
    <2>4. [Idle EXCEPT !.op = "off", !.at = "stop", !.uid = u] \in TaskRec
          /\ GoodTask([Idle EXCEPT !.op = "off", !.at = "stop", !.uid = u])
          /\ [Idle EXCEPT !.op = "off", !.at = "stop", !.uid = u].at = "stop"
      BY DEF Idle, TaskRec, GoodTask, Busy, At, Ops, StopOps
    <2>5. r \in TaskRec /\ GoodTask(r) /\ r.at \notin Busy
      BY <2>3, <2>4 DEF Busy
    <2>6. links' = [links EXCEPT ![u] = [links[u] EXCEPT !.active = on, !.refused = FALSE,
                                                        !.listen_port = p]]
      BY <1>3 DEF set_active
    <2>7. links' \in [Uids -> Link]
      <3>1. links[u] \in Link
        BY <1>0
      <3> HIDE DEF on
      <3>2. [links[u] EXCEPT !.active = on, !.refused = FALSE, !.listen_port = p] \in Link
        BY <2>1, <3>1 DEF Link
      <3> QED
        BY <1>0, <2>6, <3>2
    <2>8. task' = [task EXCEPT ![t] = r] /\ Acquire(t)
      BY <1>3 DEF set_active
    <2> HIDE DEF r
    <2> QED
      BY <1>3, <2>5, <2>7, <2>8, TaskStep DEF set_active, Request
  <1>r. ASSUME NEW u \in Uids, set_active_refused(t, u)
        PROVE  IInv'
    <2>1. links[u] \in Link
      BY <1>0
    <2>2. [links[u] EXCEPT !.active = ~links[u].active, !.refused = TRUE] \in Link
      BY <2>1 DEF Link
    <2>3. links' \in [Uids -> Link]
      BY <1>0, <1>r, <2>2 DEF set_active_refused
    <2>4. task' = [task EXCEPT ![t] = task[t]]
      BY <1>r DEF set_active_refused, IInv, TaskInv
    <2>5. task[t] = Idle /\ Idle \in TaskRec /\ GoodTask(Idle) /\ Idle.at \notin Busy
      BY <1>r, IdleGood DEF set_active_refused, Request, Idle, Busy
    <2> QED
      BY <1>r, <2>3, <2>4, <2>5, TaskStep DEF set_active_refused, Request
  <1>4. ASSUME NEW u \in Uids, NEW p \in Ports \union {None}, set_port(t, u, p)
        PROVE  IInv'
    <2> DEFINE r == [Idle EXCEPT !.op = "set_port", !.at = "stop", !.uid = u, !.pref = p,
                                 !.force = (p # None)]
    <2>1. r \in TaskRec /\ GoodTask(r) /\ r.at \notin Busy
      BY DEF Idle, TaskRec, GoodTask, Busy, At, Ops, StopOps
    <2>2. links' \in [Uids -> Link]
      BY <1>0, <1>4 DEF set_port, Link
    <2>3. task' = [task EXCEPT ![t] = r] /\ Acquire(t)
      BY <1>4 DEF set_port
    <2> HIDE DEF r
    <2> QED
      BY <1>4, <2>1, <2>2, <2>3, TaskStep DEF set_port, Request
  <1>5. ASSUME NEW u \in Uids, update_ad_tag(t, u)
        PROVE  IInv'
    <2> DEFINE r == [Idle EXCEPT !.op = "ad_tag", !.at = "stop", !.uid = u,
                                 !.pref = links[u].mtproto_port, !.force = TRUE]
    <2>0. links[u].mtproto_port \in Ports \union {None}
      BY <1>0 DEF Link
    <2>1. r \in TaskRec /\ GoodTask(r) /\ r.at \notin Busy
      BY <2>0 DEF Idle, TaskRec, GoodTask, Busy, At, Ops, StopOps
    <2>2. task' = [task EXCEPT ![t] = r] /\ Acquire(t) /\ links' \in [Uids -> Link]
      BY <1>0, <1>5 DEF update_ad_tag
    <2> HIDE DEF r
    <2> QED
      BY <1>5, <2>1, <2>2, TaskStep DEF update_ad_tag, Request
  <1>6. ASSUME NEW u \in Uids, delete_link(t, u)
        PROVE  IInv'
    <2> DEFINE d == [Idle EXCEPT !.op = "delete", !.at = "stop", !.uid = u]
               r == IF links[u].mtproto THEN d ELSE Idle
    <2>1. d \in TaskRec /\ GoodTask(d) /\ d.at \notin Busy
      BY DEF Idle, TaskRec, GoodTask, Busy, At, Ops, StopOps
    <2>2. r \in TaskRec /\ GoodTask(r) /\ r.at \notin Busy
      BY <2>1, IdleGood DEF Idle, Busy
    <2>3. task[t] = Idle
      BY <1>6 DEF delete_link, Request
    <2>4. task' = [task EXCEPT ![t] = r] /\ (Acquire(t) \/ KeepLock)
      BY <1>6, <2>3 DEF delete_link, IInv, TaskInv
    <2>5. links' \in [Uids -> Link]
      <3>1. NoLink \in Link /\ [links[u] EXCEPT !.present = FALSE] \in Link
        BY <1>0 DEF NoLink, Link
      <3> QED
        BY <1>0, <1>6, <3>1 DEF delete_link
    <2> HIDE DEF r
    <2> QED
      BY <1>6, <2>2, <2>4, <2>5, TaskStep DEF delete_link, Request
  <1>7. ASSUME backup_import(t)
        PROVE  IInv'
    <2> DEFINE r == [Idle EXCEPT !.op = "import", !.at = "list"]
    <2>1. r \in TaskRec /\ GoodTask(r) /\ r.at \notin Busy
      BY DEF Idle, TaskRec, GoodTask, Busy, At, Ops
    <2>2. task' = [task EXCEPT ![t] = r] /\ Acquire(t) /\ links' \in [Uids -> Link]
      BY <1>0, <1>7 DEF backup_import
    <2> HIDE DEF r
    <2> QED
      BY <1>7, <2>1, <2>2, TaskStep DEF backup_import, Request
  <1> QED
    BY <1>1, <1>2, <1>3, <1>r, <1>4, <1>5, <1>6, <1>7 DEF Handlers
------------------------------------------------------------------------------
(* The steps of the coroutines. *)

LEMMA StartBeginsKeeps ==
  ASSUME IInv, NEW t \in Tasks, StartBegins(t)
  PROVE  IInv'
  <1> DEFINE inst == instances[task[t].uid]
  <1>0. Holds(t) /\ task[t].at = "start" /\ task[t] \in TaskRec /\ GoodTask(task[t])
    BY DEF StartBegins, IInv, TaskInv, TasksGood
  <1>1. inst.port \in Ports \union {None}
    BY <1>0 DEF IInv, CoverInv, GoodTask
  <1>2. CoverInv' /\ procs' = procs /\ foreign' = foreign /\ used_ports' = used_ports
    BY DEF StartBegins, IInv, CoverInv, EmptyInst, UsedPortsCover
  <1>3. CASE Up(inst.proc)
    <2>1. Started(t, inst.port)
      BY <1>3 DEF StartBegins
    <2>2. TaskInv' /\ links' \in [Uids -> Link] /\ ChosenUnused'
      BY <1>0, <1>1, <2>1, StartedStep DEF IInv, DataOK
    <2> QED
      BY <1>2, <2>2 DEF IInv, DataOK
  <1>4. CASE ~Up(inst.proc)
    <2>1. task' = [task EXCEPT ![t].at = "prepare"] /\ ready' = FALSE /\ links' = links
          /\ lock' = lock
      BY <1>4 DEF StartBegins
    <2>2. [task[t] EXCEPT !.at = "prepare"] \in TaskRec
          /\ GoodTask([task[t] EXCEPT !.at = "prepare"])
      BY <1>0 DEF TaskRec, GoodTask, At, Busy
    <2>3. task' \in [Tasks -> TaskRec]
          /\ \A s \in Tasks : task'[s] = IF s = t THEN [task[t] EXCEPT !.at = "prepare"]
                                                   ELSE task[s]
      BY <2>1, <2>2 DEF IInv, TaskInv
    <2>4. TasksGood'
      BY <2>2, <2>3 DEF IInv, TaskInv, TasksGood, GoodTask
    <2>5. OneStart'
      BY <1>0, <2>1, <2>3 DEF IInv, TaskInv, OneStart, Holds
    <2>6. ready' \in BOOLEAN /\ lock' \in Seq(Tasks \union Procs)
      BY <2>1 DEF IInv, TaskInv
    <2>7. TaskInv'
      BY <2>3, <2>4, <2>5, <2>6 DEF TaskInv
    <2>8. \A s \in Tasks : task'[s].at \in {"spawn", "verify"} => task'[s] = task[s]
      BY <2>2, <2>3 DEF TaskRec
    <2>9. ChosenUnused'
      BY <1>2, <2>8 DEF IInv, ChosenUnused
    <2> QED
      BY <1>2, <2>1, <2>7, <2>9 DEF IInv, DataOK
  <1> QED
    BY <1>3, <1>4

(* Inside a start the coroutine keeps the lock and its operation. *)
LEMMA BusyStep ==
  ASSUME TaskInv, NEW t \in Tasks, Holds(t), task[t].at \in Busy, NEW r \in TaskRec,
         r.at \in Busy, r.op = task[t].op, r.uid = task[t].uid,
         task' = [task EXCEPT ![t] = r], UNCHANGED <<lock, ready>>
  PROVE  /\ TaskInv'
         /\ task'[t] = r
         /\ \A s \in Tasks : s # t => task'[s].at \notin Busy
  <1>1. task' \in [Tasks -> TaskRec] /\ \A s \in Tasks : task'[s] = IF s = t THEN r ELSE task[s]
    BY DEF TaskInv
  <1>2. GoodTask(task[t])
    BY DEF TaskInv, TasksGood
  <1>3. GoodTask(r)
    BY <1>2 DEF GoodTask, Busy
  <1>4. TasksGood'
    BY <1>1, <1>3 DEF TaskInv, TasksGood, GoodTask
  <1>5. OneStart'
    BY <1>1 DEF TaskInv, OneStart, Holds
  <1>6. \A s \in Tasks : s # t => task'[s].at \notin Busy
    BY <1>1 DEF TaskInv, OneStart, Holds
  <1>7. ready' \in BOOLEAN /\ lock' \in Seq(Tasks \union Procs)
    BY DEF TaskInv
  <1> QED
    BY <1>1, <1>4, <1>5, <1>6, <1>7 DEF TaskInv

LEMMA PrepareKeeps ==
  ASSUME IInv, NEW t \in Tasks, Prepare(t)
  PROVE  IInv'
  <1>0. Holds(t) /\ task[t].at = "prepare" /\ task[t] \in TaskRec
    BY DEF Prepare, IInv, TaskInv
  <1>2. CoverInv' /\ procs' = procs /\ foreign' = foreign /\ used_ports' = used_ports
    BY DEF Prepare, IInv, CoverInv, EmptyInst, UsedPortsCover
  <1>3. CASE Started(t, None)
    <2>1. TaskInv' /\ links' \in [Uids -> Link] /\ ChosenUnused'
      BY <1>0, <1>3, StartedStep DEF IInv, DataOK, Busy
    <2> QED
      BY <1>2, <2>1 DEF IInv, DataOK
  <1>4. ASSUME NEW p \in Allocatable,
               task' = [task EXCEPT ![t].at = "spawn", ![t].pref = p],
               UNCHANGED <<links, lock, ready>>
        PROVE  IInv'
    <2> DEFINE r == [task[t] EXCEPT !.at = "spawn", !.pref = p]
    <2>1. p \in Ports /\ p \notin used_ports
      BY DEF Allocatable
    <2>2. /\ r \in TaskRec /\ r.at = "spawn" /\ r.pref = p
          /\ r.op = task[t].op /\ r.uid = task[t].uid
      BY <1>0, <2>1 DEF TaskRec, At
    <2>3. task' = [task EXCEPT ![t] = r]
      BY <1>4 DEF IInv, TaskInv
    <2> HIDE DEF r
    <2>4. TaskInv' /\ task'[t] = r /\ \A s \in Tasks : s # t => task'[s].at \notin Busy
      BY <1>0, <1>4, <2>2, <2>3, BusyStep DEF IInv, Busy
    <2>5. ChosenUnused'
      BY <1>2, <2>1, <2>2, <2>4 DEF ChosenUnused, Busy
    <2> QED
      BY <1>2, <1>4, <2>4, <2>5 DEF IInv, DataOK
  <1> QED
    BY <1>3, <1>4 DEF Prepare

LEMMA SpawnKeeps ==
  ASSUME IInv, NEW t \in Tasks, Spawn(t)
  PROVE  IInv'
  <1>0. Holds(t) /\ task[t].at = "spawn" /\ task[t] \in TaskRec
    BY DEF Spawn, IInv, TaskInv
  <1>1. PICK q \in Procs :
          /\ procs' = [procs EXCEPT ![q] = [st |-> IF PortFree(task[t].pref) THEN "up" ELSE "dead",
                                            port |-> task[t].pref, watched |-> FALSE]]
          /\ task' = [task EXCEPT ![t].at = "verify", ![t].proc = q]
    BY DEF Spawn
  <1> DEFINE r == [task[t] EXCEPT !.at = "verify", !.proc = q]
  <1>2. /\ r \in TaskRec /\ r.at = "verify" /\ r.pref = task[t].pref
        /\ r.op = task[t].op /\ r.uid = task[t].uid
    BY <1>0 DEF TaskRec, At
  <1>3. task' = [task EXCEPT ![t] = r]
    BY <1>1 DEF IInv, TaskInv
  <1>4. CoverInv' /\ used_ports' = used_ports
    BY DEF Spawn, IInv, CoverInv, EmptyInst, UsedPortsCover
  <1>5. procs' \in [Procs -> [st : {"none", "up", "dead", "orphan"}, port : Ports \union {None},
                              watched : BOOLEAN]]
    <2> DEFINE st == IF PortFree(task[t].pref) THEN "up" ELSE "dead"
               P == [st |-> st, port |-> task[t].pref, watched |-> FALSE]
    <2>1. st \in {"none", "up", "dead", "orphan"}
      OBVIOUS
    <2>2. P \in [st : {"none", "up", "dead", "orphan"}, port : Ports \union {None}, watched : BOOLEAN]
      <3> HIDE DEF st
      <3> QED
        BY <1>0, <2>1 DEF TaskRec
    <2>3. procs' = [procs EXCEPT ![q] = P]
      BY <1>1
    <2> HIDE DEF P
    <2> QED
      BY <2>2, <2>3 DEF IInv, DataOK
  <1>6. DataOK'
    BY <1>5 DEF Spawn, IInv, DataOK
  <1> HIDE DEF r
  <1>7. TaskInv' /\ task'[t] = r /\ \A s \in Tasks : s # t => task'[s].at \notin Busy
    BY <1>0, <1>2, <1>3, BusyStep DEF IInv, Busy, Spawn
  <1>8. ChosenUnused'
    BY <1>0, <1>2, <1>4, <1>7 DEF IInv, ChosenUnused, Busy
  <1> QED
    BY <1>4, <1>6, <1>7, <1>8 DEF IInv

LEMMA VerifyKeeps ==
  ASSUME IInv, NEW t \in Tasks, Verify(t)
  PROVE  IInv'
  <1> DEFINE r == task[t]
  <1>0. Holds(t) /\ r.at = "verify" /\ r \in TaskRec /\ r.uid \in Uids
        /\ r.pref \in Ports /\ r.pref \notin used_ports
    BY DEF Verify, IInv, TaskInv, TasksGood, GoodTask, ChosenUnused
  <1>1. CASE Up(r.proc)
    <2>1. /\ procs' = [procs EXCEPT ![r.proc].watched = TRUE]
          /\ used_ports' = used_ports \union {r.pref}
          /\ instances' = [instances EXCEPT ![r.uid] = [proc |-> r.proc, port |-> r.pref]]
          /\ Started(t, r.pref) /\ foreign' = foreign
      BY <1>1 DEF Verify
    <2>2. r.proc \in Procs
      BY <1>0, <1>1 DEF Up, TaskRec
    <2>3. CoverInv'
      <3> HIDE DEF r
      <3> QED
        BY <1>0, <2>1, <2>2, RegisterStep DEF IInv
    <2>4. TaskInv' /\ links' \in [Uids -> Link] /\ ChosenUnused'
      BY <1>0, <2>1, StartedStep DEF IInv, DataOK, Busy
    <2>5. DataOK'
      BY <2>1, <2>2, <2>4 DEF IInv, DataOK
    <2> QED
      BY <2>3, <2>4, <2>5 DEF IInv
  <1>2. CASE ~Up(r.proc)
    <2>1. /\ procs' = [procs EXCEPT ![r.proc] = NoProc]
          /\ used_ports' = used_ports \ {r.pref}
          /\ instances' = instances
          /\ Started(t, None) /\ foreign' = foreign
      BY <1>2 DEF Verify
    <2>2. used_ports' = used_ports
      BY <1>0, <2>1
    <2>3. CoverInv'
      BY <2>1, <2>2 DEF IInv, CoverInv, EmptyInst, UsedPortsCover
    <2>4. TaskInv' /\ links' \in [Uids -> Link] /\ ChosenUnused'
      BY <1>0, <2>1, StartedStep DEF IInv, DataOK, Busy
    <2>5. procs' \in [Procs -> [st : {"none", "up", "dead", "orphan"}, port : Ports \union {None},
                                watched : BOOLEAN]]
      <3>1. NoProc \in [st : {"none", "up", "dead", "orphan"}, port : Ports \union {None},
                        watched : BOOLEAN]
        BY DEF NoProc
      <3> QED
        BY <2>1, <3>1 DEF IInv, DataOK
    <2> QED
      BY <2>1, <2>3, <2>4, <2>5 DEF IInv, DataOK
  <1> QED
    BY <1>1, <1>2

LEMMA StopBeginsKeeps ==
  ASSUME IInv, NEW t \in Tasks, StopBegins(t)
  PROVE  IInv'
  <1> DEFINE u == task[t].uid
  <1>0. Holds(t) /\ task[t].at = "stop" /\ task[t] \in TaskRec /\ u \in Uids
        /\ task[t].op \in StopOps
    BY DEF StopBegins, IInv, TaskInv, TasksGood, GoodTask
  <1>1. CoverInv' /\ used_ports' \subseteq used_ports
    <2>1. instances' = [instances EXCEPT ![u] = NoInst]
          /\ used_ports' = used_ports \ {instances[u].port}
      BY DEF StopBegins
    <2> HIDE DEF u
    <2>2. instances' = [v \in Uids |-> IF v \in {u} THEN NoInst ELSE instances[v]]
      BY <2>1 DEF IInv, CoverInv
    <2>3. used_ports' = used_ports \ {instances[v].port : v \in {u}}
      BY <2>1
    <2>4. {u} \in SUBSET Uids
      BY <1>0
    <2> QED
      BY <2>2, <2>3, <2>4, ForgetStep DEF IInv
  <1>2. procs' = procs /\ foreign' = foreign
    BY DEF StopBegins
  <1>3. CASE instances[u].proc = None
    <2>1. PICK r \in AfterStop(task[t]) : LeavesFor(t, r)
      BY <1>3 DEF StopBegins
    <2>2. r \in TaskRec /\ GoodTask(r) /\ r.at \notin Busy
      BY <1>0, AfterStopGood
    <2>3. TaskInv' /\ \A s \in Tasks : task'[s].at \notin Busy
      BY <1>0, <2>1, <2>2, LeavesStep DEF IInv
    <2>4. links' \in [Uids -> Link]
      BY <1>3, StopTableType DEF StopBegins, IInv, DataOK
    <2>5. ChosenUnused'
      BY <2>3 DEF ChosenUnused, Busy
    <2> QED
      BY <1>1, <1>2, <2>3, <2>4, <2>5 DEF IInv, DataOK
  <1>4. CASE instances[u].proc # None
    <2> DEFINE r == [task[t] EXCEPT !.at = "killing", !.proc = instances[u].proc]
    <2>1. r \in TaskRec /\ GoodTask(r) /\ r.at = "killing" /\ r.at \notin Busy
          /\ r.at \notin {"start", "stop"}
      <3>1. instances[u].proc \in Procs \union {None}
        BY <1>0 DEF IInv, CoverInv
      <3> QED
        BY <1>0, <3>1 DEF TaskRec, GoodTask, At, Busy
    <2>2. task' = [task EXCEPT ![t] = r] /\ Release /\ links' = links
      BY <1>4 DEF StopBegins, IInv, TaskInv
    <2> HIDE DEF r
    <2>3. LeavesFor(t, r)
      BY <2>1, <2>2 DEF LeavesFor
    <2>4. TaskInv' /\ \A s \in Tasks : task'[s].at \notin Busy
      BY <1>0, <2>1, <2>3, LeavesStep DEF IInv
    <2>5. ChosenUnused'
      BY <2>4 DEF ChosenUnused, Busy
    <2> QED
      BY <1>1, <1>2, <2>2, <2>4, <2>5 DEF IInv, DataOK
  <1> QED
    BY <1>3, <1>4

LEMMA StopEndsKeeps ==
  ASSUME IInv, NEW t \in Tasks, StopEnds(t)
  PROVE  IInv'
  <1> DEFINE k == [task[t] EXCEPT !.proc = None]
  <1>1. k \in TaskRec /\ k.op \in StopOps /\ k.uid \in Uids
    BY DEF StopEnds, IInv, TaskInv, TasksGood, GoodTask, TaskRec
  <1>2. PICK r \in AfterStop(k) : GoesOn(t, r)
    BY DEF StopEnds
  <1> HIDE DEF k
  <1>3. r \in TaskRec /\ GoodTask(r) /\ r.at \notin Busy
    BY <1>1, AfterStopGood
  <1>4. task' = [task EXCEPT ![t] = r] /\ (Acquire(t) \/ KeepLock)
    BY <1>2 DEF GoesOn
  <1>5. links' \in [Uids -> Link]
    BY StopTableType DEF StopEnds, IInv, DataOK
  <1> QED
    BY <1>3, <1>4, <1>5, TaskStep DEF StopEnds

LEMMA stop_allKeeps ==
  ASSUME IInv, NEW t \in Tasks, stop_all(t)
  PROVE  IInv'
  <1> DEFINE keys == {u \in Uids : instances[u].proc # None}
             k == [task[t] EXCEPT !.todo = keys]
  <1>1. k \in TaskRec /\ k.op = "import"
    BY DEF stop_all, IInv, TaskInv, TasksGood, GoodTask, TaskRec
  <1>2. PICK r \in AfterStop(k) : LeavesFor(t, r)
    BY DEF stop_all
  <1>3. StopChangesTable(k)
    BY DEF stop_all
  <1> HIDE DEF k
  <1>4. r \in TaskRec /\ GoodTask(r) /\ r.at \notin Busy
    BY <1>1, AfterStopGood DEF StopOps
  <1>5. TaskInv' /\ \A s \in Tasks : task'[s].at \notin Busy
    BY <1>2, <1>4, LeavesStep DEF stop_all, IInv
  <1>6. links' \in [Uids -> Link]
    BY <1>3, StopTableType DEF IInv, DataOK
  <1>7. ChosenUnused'
    BY <1>5 DEF ChosenUnused, Busy
  <1>8. CoverInv' /\ procs' = procs /\ foreign' = foreign
    BY DEF stop_all, IInv, CoverInv, EmptyInst, UsedPortsCover
  <1> QED
    BY <1>5, <1>6, <1>7, <1>8 DEF IInv, DataOK

LEMMA RestartBeginsKeeps ==
  ASSUME IInv, NEW t \in Tasks, RestartBegins(t)
  PROVE  IInv'
  <1> DEFINE k == [task[t] EXCEPT !.todo = Targets]
  <1>1. k \in TaskRec /\ k.op \in StartOps
    <2>1. Targets \in SUBSET Uids
      BY DEF Targets
    <2> HIDE DEF Targets
    <2> QED
      BY <2>1 DEF RestartBegins, IInv, TaskInv, TasksGood, GoodTask, TaskRec, StartOps
  <1>2. PICK r \in NextTarget(k) : GoesOn(t, r)
    BY DEF RestartBegins
  <1> HIDE DEF k
  <1>3. links' \in [Uids -> Link]
    BY DEF RestartBegins, IInv, DataOK
  <1>4. r \in TaskRec /\ GoodTask(r) /\ r.at \notin Busy
    BY <1>1, <1>3, NextTargetGood
  <1>5. task' = [task EXCEPT ![t] = r] /\ (Acquire(t) \/ KeepLock)
    BY <1>2 DEF GoesOn
  <1> QED
    BY <1>3, <1>4, <1>5, TaskStep DEF RestartBegins
------------------------------------------------------------------------------
(* The processes, the machine and the reboot. *)

LEMMA ProcDiesKeeps ==
  ASSUME IInv, NEW q \in Procs, ProcDies(q)
  PROVE  IInv'
  <1>1. /\ lock' \in Seq(Tasks \union Procs) /\ ready' \in BOOLEAN
        /\ lock # << >> => lock' # << >> /\ Head(lock') = Head(lock)
    <2>1. CASE Acquire(q)
      BY <2>1, AcquireLock DEF IInv, TaskInv
    <2>2. CASE KeepLock
      BY <2>2 DEF IInv, TaskInv, KeepLock
    <2> QED
      BY <2>1, <2>2 DEF ProcDies
  <1>2. task' = task /\ instances' = instances /\ used_ports' = used_ports
    BY DEF ProcDies
  <1>3. TaskInv'
    BY <1>1, <1>2 DEF IInv, TaskInv, TasksGood, GoodTask, OneStart, Holds
  <1>4. CoverInv' /\ ChosenUnused'
    BY <1>2 DEF IInv, CoverInv, EmptyInst, UsedPortsCover, ChosenUnused
  <1>5. DataOK'
    BY DEF ProcDies, IInv, DataOK
  <1> QED
    BY <1>3, <1>4, <1>5 DEF IInv

LEMMA WatcherRunsKeeps ==
  ASSUME IInv, NEW q \in Procs, WatcherRuns(q)
  PROVE  IInv'
  <1> DEFINE Mine == {u \in Uids : instances[u].proc = q}
  <1>0. Holds(q)
    BY DEF WatcherRuns
  <1>1. CoverInv' /\ used_ports' \subseteq used_ports
    <2>1. /\ instances' = [u \in Uids |-> IF u \in Mine THEN NoInst ELSE instances[u]]
          /\ used_ports' = used_ports \ {instances[u].port : u \in Mine}
      BY DEF WatcherRuns
    <2>2. Mine \in SUBSET Uids
      OBVIOUS
    <2> HIDE DEF Mine
    <2> QED
      BY <2>1, <2>2, ForgetStep DEF IInv
  <1>2. \A s \in Tasks : task[s].at \notin Busy
    BY <1>0 DEF IInv, TaskInv, OneStart, Holds
  <1>3. task' = task /\ links' = links /\ foreign' = foreign
    BY DEF WatcherRuns
  <1>4. lock' \in Seq(Tasks \union Procs) /\ ready' \in BOOLEAN
    <2>1. lock \in Seq(Tasks \union Procs) /\ lock # << >>
      BY <1>0 DEF IInv, TaskInv, Holds
    <2>2. Tail(lock) \in Seq(Tasks \union Procs)
      BY <2>1
    <2> QED
      BY <2>2 DEF WatcherRuns, Release
  <1>5. TaskInv'
    BY <1>2, <1>3, <1>4 DEF IInv, TaskInv, TasksGood, GoodTask, OneStart
  <1>6. ChosenUnused'
    BY <1>2, <1>3 DEF ChosenUnused, Busy
  <1>7. DataOK'
    <2>1. NoProc \in [st : {"none", "up", "dead", "orphan"}, port : Ports \union {None},
                      watched : BOOLEAN]
      BY DEF NoProc
    <2> QED
      BY <1>3, <2>1 DEF WatcherRuns, IInv, DataOK
  <1> QED
    BY <1>1, <1>5, <1>6, <1>7 DEF IInv

LEMMA OrphanDiesKeeps ==
  ASSUME IInv, NEW q \in Procs, OrphanDies(q)
  PROVE  IInv'
  <1>1. TaskInv' /\ CoverInv' /\ ChosenUnused'
    BY DEF OrphanDies, IInv, TaskInv, TasksGood, GoodTask, OneStart, Holds, CoverInv,
           EmptyInst, UsedPortsCover, ChosenUnused
  <1>2. NoProc \in [st : {"none", "up", "dead", "orphan"}, port : Ports \union {None},
                    watched : BOOLEAN]
    BY DEF NoProc
  <1>3. DataOK'
    BY <1>2 DEF OrphanDies, IInv, DataOK
  <1> QED
    BY <1>1, <1>3 DEF IInv

LEMMA ForeignKeeps ==
  ASSUME IInv, NEW p \in Ports, Foreign(p)
  PROVE  IInv'
  <1>1. TaskInv' /\ CoverInv' /\ ChosenUnused'
    BY DEF Foreign, IInv, TaskInv, TasksGood, GoodTask, OneStart, Holds, CoverInv, EmptyInst,
           UsedPortsCover, ChosenUnused
  <1>2. DataOK'
    BY DEF Foreign, IInv, DataOK
  <1> QED
    BY <1>1, <1>2 DEF IInv

LEMMA ProgramStartsKeeps ==
  ASSUME IInv, ProgramStarts,
         procs' \in [Procs -> [st : {"none", "up", "dead", "orphan"},
                               port : Ports \union {None}, watched : BOOLEAN]]
  PROVE  IInv'
  <1> DEFINE b == [Idle EXCEPT !.op = "boot", !.at = "saving"]
  <1>1. b \in TaskRec /\ GoodTask(b) /\ b.at \notin Busy
    BY DEF Idle, TaskRec, GoodTask, Busy, At, Ops
  <1>2. PICK t \in Tasks : task' = [[s \in Tasks |-> Idle] EXCEPT ![t] = b]
    BY DEF ProgramStarts
  <1> HIDE DEF b
  <1>3. task' \in [Tasks -> TaskRec] /\ \A s \in Tasks : task'[s] \in {b, Idle}
    BY <1>1, <1>2, IdleGood
  <1>4. \A s \in Tasks : GoodTask(task'[s]) /\ task'[s].at \notin Busy
    <2>1. Idle.at \notin Busy
      BY DEF Idle, Busy
    <2> QED
      BY <1>1, <1>3, <2>1, IdleGood
  <1>5. lock' \in Seq(Tasks \union Procs)
    <2>1. << >> \in Seq(Tasks \union Procs)
      OBVIOUS
    <2> QED
      BY <2>1 DEF ProgramStarts
  <1>6. ready' \in BOOLEAN
    BY DEF ProgramStarts
  <1>7. TasksGood'
    BY <1>4 DEF TasksGood, GoodTask
  <1>8. OneStart'
    BY <1>4 DEF OneStart
  <1>9. TaskInv'
    BY <1>3, <1>5, <1>6, <1>7, <1>8 DEF TaskInv
  <1>10. CoverInv'
    BY DEF ProgramStarts, CoverInv, EmptyInst, UsedPortsCover, NoInst
  <1>11. ChosenUnused'
    BY <1>4 DEF ChosenUnused, Busy
  <1>12. DataOK'
    BY DEF ProgramStarts, IInv, DataOK
  <1> QED
    BY <1>9, <1>10, <1>11, <1>12 DEF IInv
LEMMA RebootKeeps ==
  ASSUME IInv, Reboot \/ Reexec
  PROVE  IInv'
  <1> DEFINE P == [st : {"none", "up", "dead", "orphan"}, port : Ports \union {None},
                   watched : BOOLEAN]
  <1>1. NoProc \in P
    BY DEF NoProc
  <1>2. procs \in [Procs -> P]
    BY DEF IInv, DataOK
  <1>3. \A q \in Procs : [st |-> "orphan", port |-> procs[q].port, watched |-> FALSE] \in P
    BY <1>2
  <1> HIDE DEF P
  <1>4. procs' \in [Procs -> P]
    <2>1. CASE Reboot
      BY <1>1, <2>1 DEF Reboot
    <2>2. CASE Reexec
      BY <1>1, <1>3, <2>2 DEF Reexec
    <2> QED
      BY <2>1, <2>2
  <1>5. ProgramStarts
    BY DEF Reboot, Reexec
  <1> QED
    BY <1>4, <1>5, ProgramStartsKeeps DEF P
------------------------------------------------------------------------------
LEMMA NextIInv == IInv /\ [Next]_vars => IInv'
  <1> SUFFICES ASSUME IInv, [Next]_vars PROVE IInv'
    OBVIOUS
  <1>1. ASSUME NEW t \in Tasks, Handlers(t) PROVE IInv'
    BY <1>1, HandlersKeep
  <1>2. ASSUME NEW t \in Tasks, Runs(t) PROVE IInv'
    BY <1>2, StartBeginsKeeps, PrepareKeeps, SpawnKeeps, VerifyKeeps, StopBeginsKeeps,
       StopEndsKeeps, stop_allKeeps, RestartBeginsKeeps DEF Runs
  <1>3. ASSUME NEW q \in Procs, ProcDies(q) \/ OrphanDies(q) \/ WatcherRuns(q) PROVE IInv'
    BY <1>3, ProcDiesKeeps, OrphanDiesKeeps, WatcherRunsKeeps
  <1>4. ASSUME NEW p \in Ports, Foreign(p) PROVE IInv'
    BY <1>4, ForeignKeeps
  <1>5. CASE Reboot \/ Reexec
    BY <1>5, RebootKeeps
  <1>6. CASE UNCHANGED vars
    BY <1>6 DEF vars, IInv, TaskInv, TasksGood, GoodTask, OneStart, Holds, CoverInv,
                EmptyInst, UsedPortsCover, ChosenUnused, DataOK
  <1> QED
    BY <1>1, <1>2, <1>3, <1>4, <1>5, <1>6 DEF Next
------------------------------------------------------------------------------
(* No process is lost. *)

(* A registered process is not reaped and no orphan, one that is being      *)
(* verified is not registered yet, and a start was begun because nothing    *)
(* ran for its uid.                                                         *)
ProcInv ==
  /\ \A u \in Uids : instances[u].proc # None => procs[instances[u].proc].st \in {"up", "dead"}
  /\ \A t \in Tasks :
       task[t].at = "verify" =>
         task[t].proc \in Procs /\ \A u \in Uids : instances[u].proc # task[t].proc
  /\ \A t \in Tasks : task[t].at \in Busy => ~Up(instances[task[t].uid].proc)
  /\ NoLostProcess

LEMMA TaskFacts ==
  ASSUME IInv
  PROVE  /\ \A t \in Tasks : task[t] \in TaskRec
         /\ \A t \in Tasks : task[t].at \notin {"idle", "list", "saving"} => task[t].uid \in Uids
         /\ \A t \in Tasks : task[t].at \in {"start"} \union Busy => task[t].op \in StartOps
         /\ \A t \in Tasks : task[t].at \in Busy => Holds(t)
         /\ \A u \in Uids : instances[u].proc \in Procs \union {None}
  BY DEF IInv, TaskInv, TasksGood, GoodTask, OneStart, CoverInv, Busy

LEMMA UpFacts == \A q : Up(q) => q # None
  BY DEF Up

(* A coroutine goes on to r, and has no process in hand that runs.          *)
LEMMA ProcTaskStep ==
  ASSUME IInv, ProcInv, NEW t \in Tasks, NEW r, task' = [task EXCEPT ![t] = r], r.at \notin Busy,
         task[t].at \notin {"verify", "killing"} \/ ~Up(task[t].proc),
         UNCHANGED <<instances, procs>>
  PROVE  ProcInv'
  <1>1. \A s \in Tasks : task'[s] = IF s = t THEN r ELSE task[s]
    BY DEF IInv, TaskInv
  <1>2. \A q : Up(q)' <=> Up(q)
    BY DEF Up
  <1>3. NoLostProcess'
    BY <1>1, <1>2 DEF ProcInv, NoLostProcess
  <1> QED
    BY <1>1, <1>2, <1>3 DEF ProcInv, Busy

(* The handlers' requests are made by coroutines that were idle. *)
LEMMA ProcHandlers ==
  ASSUME IInv, ProcInv, NEW t \in Tasks, Handlers(t)
  PROVE  ProcInv'
  <1>1. task[t] = Idle /\ UNCHANGED <<instances, procs>>
    BY DEF Handlers, create_other, create_mtproto, set_active, set_active_refused, set_port,
           update_ad_tag, delete_link, backup_import, Request
  <1>2. PICK r : task' = [task EXCEPT ![t] = r] /\ r.at \notin Busy
    <2>1. CASE UNCHANGED task
      <3> DEFINE r == task[t]
      <3>1. task' = [task EXCEPT ![t] = r]
        BY <2>1 DEF IInv, TaskInv
      <3>2. r.at \notin Busy
        BY <1>1 DEF Idle, Busy
      <3> HIDE DEF r
      <3> QED
        BY <3>1, <3>2
    <2>2. CASE \E r : task' = [task EXCEPT ![t] = r] /\ r.at \notin Busy
      BY <2>2
    <2>3. ASSUME NEW u \in Uids, NEW p \in Ports, create_mtproto(t, u, p)
          PROVE  \E r : task' = [task EXCEPT ![t] = r] /\ r.at \notin Busy
      <3> DEFINE r == StartArgs([Idle EXCEPT !.op = "create"], u, p, TRUE)
      <3>1. r.at \notin Busy
        BY DEF StartArgs, Idle, Busy
      <3>2. task' = [task EXCEPT ![t] = r]
        BY <2>3 DEF create_mtproto
      <3> HIDE DEF r
      <3> QED
        BY <3>1, <3>2
    <2>4. ASSUME NEW u \in Uids, NEW p \in Ports \union {None}, set_active(t, u, p)
          PROVE  \E r : task' = [task EXCEPT ![t] = r] /\ r.at \notin Busy
      <3> DEFINE port == IF links[u].listen_port # None THEN links[u].listen_port
                                                        ELSE links[u].mtproto_port
                 r == IF ~links[u].active
                      THEN StartArgs([Idle EXCEPT !.op = "on"], u, port,
                                     links[u].listen_port # None)
                      ELSE [Idle EXCEPT !.op = "off", !.at = "stop", !.uid = u]
      <3>1. r.at \notin Busy
        BY DEF StartArgs, Idle, Busy
      <3>2. task' = [task EXCEPT ![t] = r]
        BY <2>4 DEF set_active
      <3> HIDE DEF r
      <3> QED
        BY <3>1, <3>2
    <2>5. ASSUME NEW u \in Uids, NEW p \in Ports \union {None}, set_port(t, u, p)
          PROVE  \E r : task' = [task EXCEPT ![t] = r] /\ r.at \notin Busy
      <3> DEFINE r == [Idle EXCEPT !.op = "set_port", !.at = "stop", !.uid = u, !.pref = p,
                                   !.force = (p # None)]
      <3>1. r.at \notin Busy
        BY DEF Idle, Busy
      <3>2. task' = [task EXCEPT ![t] = r]
        BY <2>5 DEF set_port
      <3> HIDE DEF r
      <3> QED
        BY <3>1, <3>2
    <2>6. ASSUME NEW u \in Uids, update_ad_tag(t, u)
          PROVE  \E r : task' = [task EXCEPT ![t] = r] /\ r.at \notin Busy
      <3> DEFINE r == [Idle EXCEPT !.op = "ad_tag", !.at = "stop", !.uid = u,
                                   !.pref = links[u].mtproto_port, !.force = TRUE]
      <3>1. r.at \notin Busy
        BY DEF Idle, Busy
      <3>2. task' = [task EXCEPT ![t] = r]
        BY <2>6 DEF update_ad_tag
      <3> HIDE DEF r
      <3> QED
        BY <3>1, <3>2
    <2>7. ASSUME NEW u \in Uids, delete_link(t, u), task' # task
          PROVE  \E r : task' = [task EXCEPT ![t] = r] /\ r.at \notin Busy
      <3> DEFINE r == [Idle EXCEPT !.op = "delete", !.at = "stop", !.uid = u]
      <3>1. r.at \notin Busy
        BY DEF Idle, Busy
      <3>2. task' = [task EXCEPT ![t] = r]
        BY <2>7 DEF delete_link
      <3> HIDE DEF r
      <3> QED
        BY <3>1, <3>2
    <2>8. ASSUME backup_import(t)
          PROVE  \E r : task' = [task EXCEPT ![t] = r] /\ r.at \notin Busy
      <3> DEFINE r == [Idle EXCEPT !.op = "import", !.at = "list"]
      <3>1. r.at \notin Busy
        BY DEF Idle, Busy
      <3>2. task' = [task EXCEPT ![t] = r]
        BY <2>8 DEF backup_import
      <3> HIDE DEF r
      <3> QED
        BY <3>1, <3>2
    <2>9. ASSUME NEW u \in Uids, NEW p \in Ports, create_other(t, u, p) PROVE UNCHANGED task
      BY <2>9 DEF create_other
    <2>10. ASSUME NEW u \in Uids, set_active_refused(t, u) PROVE UNCHANGED task
      BY <2>10 DEF set_active_refused
    <2> QED
      BY <2>1, <2>2, <2>3, <2>4, <2>5, <2>6, <2>7, <2>8, <2>9, <2>10 DEF Handlers
  <1>3. task[t].at \notin {"verify", "killing"}
    BY <1>1 DEF Idle
  <1> QED
    BY <1>1, <1>2, <1>3, ProcTaskStep

(* A start that returns goes on to no other start's middle. *)
LEMMA StartedGoesTo ==
  ASSUME IInv, NEW t \in Tasks, task[t].at \in Busy \union {"start"},
         NEW port \in Ports \union {None}, Started(t, port)
  PROVE  \E r : task' = [task EXCEPT ![t] = r] /\ r.at \notin Busy
  <1>1. task[t] \in TaskRec /\ task[t].op \in StartOps /\ task[t].uid \in Uids
    BY TaskFacts DEF Busy
  <1>2. links' \in [Uids -> Link]
    BY <1>1, StartTableType DEF Started, IInv, DataOK
  <1>3. PICK r \in AfterStart(task[t], port) : LeavesFor(t, r)
    BY DEF Started
  <1>4. r.at \notin Busy
    BY <1>1, <1>2, AfterStartGood
  <1> QED
    BY <1>3, <1>4 DEF LeavesFor

LEMMA ProcStarts ==
  ASSUME IInv, ProcInv, NEW t \in Tasks, StartBegins(t) \/ Prepare(t)
  PROVE  ProcInv'
  <1>1. UNCHANGED <<instances, procs>> /\ task[t].at \in {"start", "prepare"}
    BY DEF StartBegins, Prepare
  <1>2. CASE \E port \in Ports \union {None} : Started(t, port)
    <2>1. PICK r : task' = [task EXCEPT ![t] = r] /\ r.at \notin Busy
      BY <1>1, <1>2, StartedGoesTo DEF Busy
    <2> QED
      BY <1>1, <2>1, ProcTaskStep
  <1>3. CASE ~ \E port \in Ports \union {None} : Started(t, port)
    <2>0. instances[task[t].uid].port \in Ports \union {None}
      BY <1>1, TaskFacts DEF IInv, CoverInv
    <2>1. PICK r : /\ task' = [task EXCEPT ![t] = r] /\ r.at \in {"prepare", "spawn"}
                   /\ r.uid = task[t].uid /\ ~Up(instances[task[t].uid].proc)
      <3>1. CASE StartBegins(t)
        <4> DEFINE r == [task[t] EXCEPT !.at = "prepare"]
        <4>1. task' = [task EXCEPT ![t] = r] /\ ~Up(instances[task[t].uid].proc)
          BY <1>3, <2>0, <3>1 DEF StartBegins
        <4>2. r.at = "prepare" /\ r.uid = task[t].uid
          BY TaskFacts DEF TaskRec
        <4> HIDE DEF r
        <4> QED
          BY <4>1, <4>2
      <3>2. CASE Prepare(t)
        <4>1. PICK p : task' = [task EXCEPT ![t].at = "spawn", ![t].pref = p]
          BY <1>3, <3>2 DEF Prepare
        <4> DEFINE r == [task[t] EXCEPT !.at = "spawn", !.pref = p]
        <4>2. task' = [task EXCEPT ![t] = r]
          BY <4>1 DEF IInv, TaskInv
        <4>3. r.at = "spawn" /\ r.uid = task[t].uid
          BY TaskFacts DEF TaskRec
        <4>4. ~Up(instances[task[t].uid].proc)
          BY <3>2 DEF Prepare, ProcInv, Busy
        <4> HIDE DEF r
        <4> QED
          BY <4>2, <4>3, <4>4
      <3> QED
        BY <3>1, <3>2
    <2>2. \A s \in Tasks : task'[s] = IF s = t THEN r ELSE task[s]
      BY <2>1 DEF IInv, TaskInv
    <2>3. \A q : Up(q)' <=> Up(q)
      BY <1>1 DEF Up
    <2>4. NoLostProcess'
      BY <1>1, <2>2, <2>3 DEF ProcInv, NoLostProcess
    <2> QED
      BY <1>1, <2>1, <2>2, <2>3, <2>4 DEF ProcInv, Busy
  <1> QED
    BY <1>2, <1>3

LEMMA ProcSpawn ==
  ASSUME IInv, ProcInv, NEW t \in Tasks, Spawn(t)
  PROVE  ProcInv'
  <1>1. PICK q \in Procs :
          /\ procs[q] = NoProc /\ \A s \in Tasks : task[s].proc # q
          /\ procs' = [procs EXCEPT ![q] = [st |-> IF PortFree(task[t].pref) THEN "up" ELSE "dead",
                                            port |-> task[t].pref, watched |-> FALSE]]
          /\ task' = [task EXCEPT ![t].at = "verify", ![t].proc = q]
    BY DEF Spawn
  <1>2. instances' = instances /\ task[t].at = "spawn" /\ Holds(t)
    BY DEF Spawn
  <1>3. task'[t].at = "verify" /\ task'[t].proc = q /\ task'[t].uid = task[t].uid
        /\ \A s \in Tasks : s # t => task'[s] = task[s]
    BY <1>1, TaskFacts DEF TaskRec, IInv, TaskInv
  <1>4. \A x \in Procs : x # q => procs'[x] = procs[x]
    BY <1>1 DEF IInv, DataOK
  <1>5. procs'[q].st \in {"up", "dead"}
    <2>1. procs'[q].st = IF PortFree(task[t].pref) THEN "up" ELSE "dead"
      BY <1>1 DEF IInv, DataOK
    <2> QED
      BY <2>1
  <1>6. \A u \in Uids : instances[u].proc # q
    BY <1>1 DEF ProcInv, NoProc
  <1>7. \A x \in Procs : x # q => (Up(x)' <=> Up(x))
    BY <1>4 DEF Up
  <1>8. NoLostProcess'
    BY <1>2, <1>3, <1>7 DEF ProcInv, NoLostProcess
  <1>9. \A u \in Uids : instances'[u].proc # None => procs'[instances'[u].proc].st \in {"up", "dead"}
    BY <1>2, <1>4, <1>6, TaskFacts DEF ProcInv
  <1>10. \A s \in Tasks : s # t => task[s].at \notin Busy
    BY <1>2, TaskFacts DEF Holds
  <1>11. ~Up(instances[task[t].uid].proc)'
    <2>1. ~Up(instances[task[t].uid].proc)
      BY <1>2 DEF ProcInv, Busy
    <2>2. task[t].uid \in Uids
      BY <1>2, TaskFacts
    <2>3. instances'[task'[t].uid].proc = instances[task[t].uid].proc
      BY <1>2, <1>3
    <2> QED
      BY <1>6, <1>7, <2>1, <2>2, <2>3, TaskFacts, <1>2, <1>3 DEF Up
  <1> QED
    BY <1>2, <1>3, <1>6, <1>8, <1>9, <1>10, <1>11 DEF ProcInv, Busy

LEMMA ProcVerify ==
  ASSUME IInv, ProcInv, NEW t \in Tasks, Verify(t)
  PROVE  ProcInv'
  <1> DEFINE u == task[t].uid
             q == task[t].proc
  <1>1. /\ Holds(t) /\ task[t].at = "verify" /\ u \in Uids /\ q \in Procs
        /\ task[t].pref \in Ports
        /\ \A v \in Uids : instances[v].proc # q
        /\ ~Up(instances[u].proc)
    BY TaskFacts DEF Verify, ProcInv, Busy, IInv, ChosenUnused
  <1>2. PICK r : task' = [task EXCEPT ![t] = r] /\ r.at \notin Busy
    BY <1>1, StartedGoesTo DEF Verify, Busy
  <1>3. \A s \in Tasks : /\ s # t => task'[s] = task[s] /\ task[s].at \notin Busy
                         /\ task'[s].at \notin Busy
    BY <1>1, <1>2, TaskFacts DEF Holds, IInv, TaskInv
  <1>4. q # None
    BY <1>1
  <1>5. CASE Up(q)
    <2>1. /\ procs' = [procs EXCEPT ![q].watched = TRUE]
          /\ instances' = [instances EXCEPT ![u] = [proc |-> q, port |-> task[t].pref]]
      BY <1>5 DEF Verify
    <2>2. \A x \in Procs : procs'[x].st = procs[x].st
      BY <1>1, <2>1 DEF IInv, DataOK
    <2>3. \A x \in Procs : Up(x)' <=> Up(x)
      BY <2>2 DEF Up
    <2>4. \A v \in Uids : instances'[v].proc = IF v = u THEN q ELSE instances[v].proc
      BY <1>1, <2>1 DEF IInv, CoverInv
    <2>5. procs[q].st \in {"up", "dead"}
      BY <1>5 DEF Up
    <2>6. \A v \in Uids : instances'[v].proc # None => procs'[instances'[v].proc].st \in {"up", "dead"}
      BY <1>1, <2>2, <2>4, <2>5, TaskFacts DEF ProcInv
    <2>7. NoLostProcess'
      <3> SUFFICES ASSUME NEW x \in Procs, Up(x)
                   PROVE  \/ \E v \in Uids : instances'[v].proc = x
                          \/ \E s \in Tasks : task'[s].proc = x /\ task'[s].at \in {"verify", "killing"}
        BY <2>3 DEF NoLostProcess
      <3>1. CASE \E v \in Uids : instances[v].proc = x
        <4>1. PICK v \in Uids : instances[v].proc = x
          BY <3>1
        <4>2. v # u
          BY <1>1, <4>1
        <4> QED
          BY <2>4, <4>1, <4>2
      <3>2. CASE \E s \in Tasks : task[s].proc = x /\ task[s].at \in {"verify", "killing"}
        <4>1. PICK s \in Tasks : task[s].proc = x /\ task[s].at \in {"verify", "killing"}
          BY <3>2
        <4>2. CASE s = t
          BY <1>1, <2>4, <4>1, <4>2
        <4>3. CASE s # t
          BY <1>3, <4>1, <4>3
        <4> QED
          BY <4>2, <4>3
      <3> QED
        BY <3>1, <3>2 DEF ProcInv, NoLostProcess
    <2> QED
      BY <1>3, <2>6, <2>7 DEF ProcInv, Busy
  <1>6. CASE ~Up(q)
    <2>1. procs' = [procs EXCEPT ![q] = NoProc] /\ instances' = instances
      BY <1>6 DEF Verify
    <2>2. \A x \in Procs : x # q => procs'[x] = procs[x]
      BY <2>1 DEF IInv, DataOK
    <2>3. \A x \in Procs : Up(x)' => x # q /\ Up(x)
      BY <2>1, <2>2 DEF Up, NoProc, IInv, DataOK
    <2>4. NoLostProcess'
      BY <1>3, <2>1, <2>3 DEF ProcInv, NoLostProcess
    <2>5. \A v \in Uids : instances'[v].proc # None => procs'[instances'[v].proc].st \in {"up", "dead"}
      BY <1>1, <2>1, <2>2, TaskFacts DEF ProcInv
    <2> QED
      BY <1>3, <2>4, <2>5 DEF ProcInv, Busy
  <1> QED
    BY <1>5, <1>6

(* A stop takes the process out of the table and into its own hands. *)
LEMMA ProcStopBegins ==
  ASSUME IInv, ProcInv, NEW t \in Tasks, StopBegins(t)
  PROVE  ProcInv'
  <1> DEFINE u == task[t].uid
  <1>1. /\ Holds(t) /\ task[t].at = "stop" /\ u \in Uids /\ task[t] \in TaskRec
        /\ task[t].op \in StopOps
        /\ instances' = [instances EXCEPT ![u] = NoInst] /\ procs' = procs
    BY DEF StopBegins, IInv, TaskInv, TasksGood, GoodTask
  <1>2. PICK r : /\ task' = [task EXCEPT ![t] = r] /\ r.at \notin Busy
                 /\ instances[u].proc # None => r.at = "killing" /\ r.proc = instances[u].proc
    <2>1. CASE instances[u].proc = None
      <3>1. PICK r \in AfterStop(task[t]) : LeavesFor(t, r)
        BY <2>1 DEF StopBegins
      <3>2. r.at \notin Busy
        BY <1>1, AfterStopGood
      <3> QED
        BY <2>1, <3>1, <3>2 DEF LeavesFor
    <2>2. CASE instances[u].proc # None
      <3> DEFINE r == [task[t] EXCEPT !.at = "killing", !.proc = instances[u].proc]
      <3>1. task' = [task EXCEPT ![t] = r]
        BY <2>2 DEF StopBegins, IInv, TaskInv
      <3>2. r.at = "killing" /\ r.proc = instances[u].proc
        BY <1>1 DEF TaskRec
      <3> HIDE DEF r
      <3> QED
        BY <3>1, <3>2 DEF Busy
    <2> QED
      BY <2>1, <2>2
  <1>3. \A s \in Tasks : /\ task'[s] = IF s = t THEN r ELSE task[s]
                         /\ task'[s].at \notin Busy
    BY <1>1, <1>2, TaskFacts DEF Holds, IInv, TaskInv, Busy
  <1>4. \A v \in Uids : instances'[v] = IF v = u THEN NoInst ELSE instances[v]
    BY <1>1 DEF IInv, CoverInv
  <1>5. NoInst.proc = None
    BY DEF NoInst
  <1>6. \A q : Up(q)' <=> Up(q)
    BY <1>1 DEF Up
  <1>7. NoLostProcess'
    <2> SUFFICES ASSUME NEW x \in Procs, Up(x)
                 PROVE  \/ \E v \in Uids : instances'[v].proc = x
                        \/ \E s \in Tasks : task'[s].proc = x /\ task'[s].at \in {"verify", "killing"}
      BY <1>6 DEF NoLostProcess
    <2>1. CASE \E v \in Uids : instances[v].proc = x
      <3>1. PICK v \in Uids : instances[v].proc = x
        BY <2>1
      <3>2. CASE v = u
        BY <1>2, <1>3, <3>1, <3>2
      <3>3. CASE v # u
        BY <1>4, <3>1, <3>3
      <3> QED
        BY <3>2, <3>3
    <2>2. CASE \E s \in Tasks : task[s].proc = x /\ task[s].at \in {"verify", "killing"}
      BY <1>1, <1>3, <2>2
    <2> QED
      BY <2>1, <2>2 DEF ProcInv, NoLostProcess
  <1>8. \A v \in Uids : instances'[v].proc # None => procs'[instances'[v].proc].st \in {"up", "dead"}
    BY <1>1, <1>4, <1>5 DEF ProcInv
  <1> QED
    BY <1>3, <1>7, <1>8 DEF ProcInv, Busy

LEMMA ProcStops ==
  ASSUME IInv, ProcInv, NEW t \in Tasks, StopEnds(t) \/ stop_all(t) \/ RestartBegins(t)
  PROVE  ProcInv'
  <1>1. /\ UNCHANGED <<instances, procs>>
        /\ task[t].at \notin {"verify", "killing"} \/ ~Up(task[t].proc)
    BY DEF StopEnds, stop_all, RestartBegins
  <1>2. PICK r : task' = [task EXCEPT ![t] = r] /\ r.at \notin Busy
    <2>1. CASE StopEnds(t)
      <3> DEFINE k == [task[t] EXCEPT !.proc = None]
      <3>1. k \in TaskRec /\ k.op \in StopOps /\ k.uid \in Uids
        BY <2>1 DEF StopEnds, IInv, TaskInv, TasksGood, GoodTask, TaskRec
      <3>2. PICK r \in AfterStop(k) : GoesOn(t, r)
        BY <2>1 DEF StopEnds
      <3> HIDE DEF k
      <3>3. r.at \notin Busy
        BY <3>1, AfterStopGood
      <3> QED
        BY <3>2, <3>3 DEF GoesOn
    <2>2. CASE stop_all(t)
      <3> DEFINE k == [task[t] EXCEPT !.todo = {u \in Uids : instances[u].proc # None}]
      <3>1. k \in TaskRec /\ k.op = "import"
        BY <2>2 DEF stop_all, IInv, TaskInv, TasksGood, GoodTask, TaskRec
      <3>2. PICK r \in AfterStop(k) : LeavesFor(t, r)
        BY <2>2 DEF stop_all
      <3> HIDE DEF k
      <3>3. r.at \notin Busy
        BY <3>1, AfterStopGood DEF StopOps
      <3> QED
        BY <3>2, <3>3 DEF LeavesFor
    <2>3. CASE RestartBegins(t)
      <3> DEFINE k == [task[t] EXCEPT !.todo = Targets]
      <3>1. k \in TaskRec /\ k.op \in StartOps
        <4>1. Targets \in SUBSET Uids
          BY DEF Targets
        <4> HIDE DEF Targets
        <4>2. task[t] \in TaskRec /\ GoodTask(task[t]) /\ task[t].at = "saving"
          BY <2>3 DEF RestartBegins, IInv, TaskInv, TasksGood
        <4>3. k.op = task[t].op /\ task[t].op \in StartOps
          BY <4>2 DEF GoodTask, StartOps, TaskRec
        <4>4. k \in TaskRec
          BY <4>1, <4>2 DEF TaskRec
        <4> QED BY <4>3, <4>4
      <3>2. PICK r \in NextTarget(k) : GoesOn(t, r)
        BY <2>3 DEF RestartBegins
      <3> HIDE DEF k
      <3>3. links' \in [Uids -> Link]
        BY <2>3 DEF RestartBegins, IInv, DataOK
      <3>4. r.at \notin Busy
        BY <3>1, <3>3, NextTargetGood
      <3> QED
        BY <3>2, <3>4 DEF GoesOn
    <2> QED
      BY <2>1, <2>2, <2>3
  <1> QED
    BY <1>1, <1>2, ProcTaskStep

LEMMA ProcEnds ==
  ASSUME IInv, ProcInv, NEW q \in Procs, ProcDies(q) \/ OrphanDies(q) \/ WatcherRuns(q)
  PROVE  ProcInv'
  <1>1. task' = task
    BY DEF ProcDies, OrphanDies, WatcherRuns
  <1>2. CASE ProcDies(q)
    <2>1. /\ instances' = instances
          /\ \A x \in Procs : procs'[x].st = IF x = q THEN "dead" ELSE procs[x].st
      BY <1>2 DEF ProcDies, IInv, DataOK
    <2>2. \A x \in Procs : Up(x)' => Up(x)
      BY <2>1 DEF Up
    <2>3. \A u \in Uids : instances'[u].proc # None => procs'[instances'[u].proc].st \in {"up", "dead"}
      BY <2>1, TaskFacts DEF ProcInv
    <2>4. \A t \in Tasks : task[t].at \in Busy => ~Up(instances[task[t].uid].proc)'
      <3> SUFFICES ASSUME NEW t \in Tasks, task[t].at \in Busy
                   PROVE  ~Up(instances[task[t].uid].proc)'
        OBVIOUS
      <3>1. ~Up(instances[task[t].uid].proc) /\ task[t].uid \in Uids
        BY TaskFacts DEF ProcInv, Busy
      <3> QED
        BY <1>1, <2>1, <2>2, <3>1, TaskFacts DEF Up
    <2>5. NoLostProcess'
      BY <1>1, <2>1, <2>2 DEF ProcInv, NoLostProcess
    <2> QED
      BY <1>1, <2>1, <2>3, <2>4, <2>5 DEF ProcInv
  <1>3. CASE WatcherRuns(q)
    <2>1. \A t \in Tasks : task[t].at \notin Busy
      BY <1>3, TaskFacts DEF WatcherRuns, Holds
    <2>2. /\ procs' = [procs EXCEPT ![q] = NoProc]
          /\ \A u \in Uids : instances'[u] = IF instances[u].proc = q THEN NoInst ELSE instances[u]
      BY <1>3 DEF WatcherRuns
    <2>3. \A x \in Procs : x # q => procs'[x] = procs[x]
      BY <2>2 DEF IInv, DataOK
    <2>4. \A x \in Procs : Up(x)' => Up(x) /\ x # q
      BY <2>2, <2>3 DEF Up, NoProc, IInv, DataOK
    <2>5. NoInst.proc = None
      BY DEF NoInst
    <2>6. \A u \in Uids : instances'[u].proc # None => procs'[instances'[u].proc].st \in {"up", "dead"}
      BY <2>2, <2>3, <2>5, TaskFacts DEF ProcInv
    <2>7. NoLostProcess'
      BY <1>1, <2>2, <2>4 DEF ProcInv, NoLostProcess
    <2> QED
      BY <1>1, <2>1, <2>6, <2>7 DEF ProcInv, Busy
  <1>4. CASE OrphanDies(q)
    <2>1. /\ instances' = instances /\ procs[q].st = "orphan"
          /\ \A x \in Procs : procs'[x].st = IF x = q THEN "none" ELSE procs[x].st
      BY <1>4 DEF OrphanDies, NoProc, IInv, DataOK
    <2>2. \A x \in Procs : Up(x)' => Up(x)
      BY <2>1 DEF Up
    <2>3. \A u \in Uids : instances'[u].proc # None => procs'[instances'[u].proc].st \in {"up", "dead"}
      BY <2>1, TaskFacts DEF ProcInv
    <2>4. \A t \in Tasks : task[t].at \in Busy => ~Up(instances[task[t].uid].proc)'
      <3> SUFFICES ASSUME NEW t \in Tasks, task[t].at \in Busy
                   PROVE  ~Up(instances[task[t].uid].proc)'
        OBVIOUS
      <3>1. ~Up(instances[task[t].uid].proc) /\ task[t].uid \in Uids
        BY TaskFacts DEF ProcInv, Busy
      <3> QED
        BY <1>1, <2>1, <2>2, <3>1, TaskFacts DEF Up
    <2>5. NoLostProcess'
      BY <1>1, <2>1, <2>2 DEF ProcInv, NoLostProcess
    <2> QED
      BY <1>1, <2>1, <2>3, <2>4, <2>5 DEF ProcInv
  <1> QED
    BY <1>2, <1>3, <1>4

LEMMA ProcReboot ==
  ASSUME IInv, Reboot \/ Reexec
  PROVE  ProcInv'
  <1>0. ProgramStarts
    BY DEF Reboot, Reexec
  <1>1. \A q \in Procs : ~Up(q)'
    BY DEF Reboot, Reexec, Up, NoProc
  <1>2. \A u \in Uids : instances'[u].proc = None
    BY <1>0 DEF ProgramStarts, NoInst
  <1>3. \A t \in Tasks : task'[t].at \notin Busy
    <2>1. PICK t \in Tasks :
            task' = [[s \in Tasks |-> Idle] EXCEPT ![t] = [Idle EXCEPT !.op = "boot", !.at = "saving"]]
      BY <1>0 DEF ProgramStarts
    <2> QED
      BY <2>1 DEF Idle, Busy
  <1> QED
    BY <1>1, <1>2, <1>3 DEF ProcInv, NoLostProcess, Busy

LEMMA NextProcInv == IInv /\ ProcInv /\ [Next]_vars => ProcInv'
  <1> SUFFICES ASSUME IInv, ProcInv, [Next]_vars PROVE ProcInv'
    OBVIOUS
  <1>1. ASSUME NEW t \in Tasks, Handlers(t) PROVE ProcInv'
    BY <1>1, ProcHandlers
  <1>2. ASSUME NEW t \in Tasks, Runs(t) PROVE ProcInv'
    BY <1>2, ProcStarts, ProcSpawn, ProcVerify, ProcStopBegins, ProcStops DEF Runs
  <1>3. ASSUME NEW q \in Procs, ProcDies(q) \/ OrphanDies(q) \/ WatcherRuns(q) PROVE ProcInv'
    BY <1>3, ProcEnds
  <1>4. ASSUME UNCHANGED <<instances, procs, task>> PROVE ProcInv'
    BY <1>4 DEF ProcInv, NoLostProcess, Up
  <1>5. ASSUME NEW p \in Ports, Foreign(p) PROVE UNCHANGED <<instances, procs, task>>
    BY <1>5 DEF Foreign
  <1>6. CASE UNCHANGED vars
    BY <1>4, <1>6 DEF vars
  <1> QED
    BY <1>1, <1>2, <1>3, <1>4, <1>5, <1>6, ProcReboot DEF Next

LEMMA InitProcInv == Init => ProcInv
  BY DEF Init, ProcInv, NoLostProcess, Up, NoProc, NoInst, Idle, Busy
------------------------------------------------------------------------------
(* The advertised ports. *)

(* Somebody will yet write the port of u's instance into its link.          *)
WillRecord(t, u) ==
  \/ task[t].op = "on" /\ task[t].uid = u
  \/ task[t].op = "restart" /\ (task[t].at = "saving" \/ task[t].uid = u \/ u \in task[t].todo)

Serves(u) ==
  IsMtproto(u) /\ links[u].active /\ ~links[u].refused /\ Up(instances[u].proc)

PortInv ==
  \A u \in Uids :
    Serves(u) /\ (\A t \in Tasks : ~WillRecord(t, u)) => links[u].mtproto_port = instances[u].port

LEMMA PortInvImplies == PortInv => AdvertisedPort
  BY DEF PortInv, AdvertisedPort, WillRecord, Serves

(* What changes no link that serves, and nobody's intention to record.      *)
LEMMA PortKept ==
  ASSUME PortInv,
         \A u \in Uids :
           Serves(u)' /\ (\A t \in Tasks : ~WillRecord(t, u)') =>
             \/ /\ Serves(u) /\ \A t \in Tasks : ~WillRecord(t, u)
                /\ links'[u].mtproto_port = links[u].mtproto_port
                /\ instances'[u].port = instances[u].port
             \/ links'[u].mtproto_port = instances'[u].port
  PROVE  PortInv'
  BY DEF PortInv

(* Coroutine t, which will not record anything, goes on to r.               *)
LEMMA PortTaskStep ==
  ASSUME IInv, PortInv, NEW t \in Tasks, NEW r, task' = [task EXCEPT ![t] = r],
         task[t].op \notin {"on", "restart"},
         \A u \in Uids :
           Serves(u)' /\ (\A s \in Tasks : ~WillRecord(s, u)') =>
             /\ Serves(u)
             /\ links'[u].mtproto_port = links[u].mtproto_port
             /\ instances'[u].port = instances[u].port
  PROVE  PortInv'
  <1>1. \A s \in Tasks : s # t => task'[s] = task[s]
    BY DEF IInv, TaskInv
  <1>2. \A u \in Uids : (\A s \in Tasks : ~WillRecord(s, u)') => \A s \in Tasks : ~WillRecord(s, u)
    BY <1>1 DEF WillRecord
  <1> QED
    BY <1>2, PortKept

LEMMA PortHandlers ==
  ASSUME IInv, PortInv, NEW t \in Tasks, Handlers(t)
  PROVE  PortInv'
  <1>1. task[t] = Idle /\ Idle.op = "none" /\ UNCHANGED <<instances, procs>>
    BY DEF Handlers, create_other, create_mtproto, set_active, set_active_refused, set_port,
           update_ad_tag, delete_link, backup_import, Request, Idle
  <1>2. \A q : Up(q)' <=> Up(q)
    BY <1>1 DEF Up
  <1>3. task[t].op \notin {"on", "restart"}
    BY <1>1
  <1>4. ASSUME UNCHANGED links, NEW r, task' = [task EXCEPT ![t] = r]
        PROVE  PortInv'
    <2>1. \A u \in Uids : Serves(u)' => /\ Serves(u)
                                        /\ links'[u].mtproto_port = links[u].mtproto_port
                                        /\ instances'[u].port = instances[u].port
      BY <1>1, <1>2, <1>4 DEF Serves, IsMtproto
    <2> QED
      BY <1>3, <1>4, <2>1, PortTaskStep
  <1>5. ASSUME NEW u \in Uids, NEW p \in Ports, create_other(t, u, p)
        PROVE  PortInv'
    <2>1. links' = [links EXCEPT ![u] = [NoLink EXCEPT !.present = TRUE, !.active = TRUE,
                                                       !.listen_port = p]]
          /\ task' = task
      BY <1>5 DEF create_other
    <2>2. ~links'[u].mtproto /\ \A v \in Uids : v # u => links'[v] = links[v]
      BY <2>1 DEF NoLink, IInv, DataOK
    <2>3. \A v \in Uids : Serves(v)' => /\ Serves(v)
                                        /\ links'[v].mtproto_port = links[v].mtproto_port
      BY <1>1, <1>2, <2>2 DEF Serves, IsMtproto
    <2>4. \A s \in Tasks, v \in Uids : WillRecord(s, v)' <=> WillRecord(s, v)
      BY <2>1 DEF WillRecord
    <2> QED
      BY <1>1, <2>3, <2>4, PortKept
  <1>6. ASSUME NEW u \in Uids, NEW p \in Ports \union {None}, set_active(t, u, p)
        PROVE  PortInv'
    <2> DEFINE port == IF links[u].listen_port # None THEN links[u].listen_port
                                                      ELSE links[u].mtproto_port
               r == IF ~links[u].active
                    THEN StartArgs([Idle EXCEPT !.op = "on"], u, port,
                                   links[u].listen_port # None)
                    ELSE [Idle EXCEPT !.op = "off", !.at = "stop", !.uid = u]
    <2>1. task' = [task EXCEPT ![t] = r]
      BY <1>6 DEF set_active
    <2>2. links' = [links EXCEPT ![u] = [links[u] EXCEPT !.active = ~links[u].active,
                                                        !.refused = FALSE, !.listen_port = p]]
      BY <1>6 DEF set_active
    <2>3. /\ links'[u].active = ~links[u].active
          /\ \A v \in Uids : v # u => links'[v] = links[v]
      BY <2>2 DEF IInv, DataOK, Link
    <2>4. ~links[u].active => r.op = "on" /\ r.uid = u
      BY DEF StartArgs, Idle
    <2> HIDE DEF r
    <2>5. task'[t] = r
      BY <2>1 DEF IInv, TaskInv
    <2>6. Serves(u)' => WillRecord(t, u)'
      BY <2>3, <2>4, <2>5 DEF Serves, WillRecord
    <2>7. \A v \in Uids :
            Serves(v)' /\ (\A s \in Tasks : ~WillRecord(s, v)') =>
              /\ Serves(v) /\ links'[v].mtproto_port = links[v].mtproto_port
              /\ instances'[v].port = instances[v].port
      BY <1>1, <1>2, <2>3, <2>6 DEF Serves, IsMtproto
    <2> QED
      BY <1>3, <2>1, <2>7, PortTaskStep
  <1>r. ASSUME NEW u \in Uids, set_active_refused(t, u)
        PROVE  PortInv'
    <2>1. links' = [links EXCEPT ![u] = [links[u] EXCEPT !.active = ~links[u].active,
                                                        !.refused = TRUE]]
          /\ task' = task
      BY <1>r DEF set_active_refused
    <2>2. links'[u].refused /\ \A v \in Uids : v # u => links'[v] = links[v]
      BY <2>1 DEF IInv, DataOK, Link
    <2>3. \A v \in Uids : Serves(v)' => /\ Serves(v)
                                        /\ links'[v].mtproto_port = links[v].mtproto_port
      BY <1>1, <1>2, <2>2 DEF Serves, IsMtproto
    <2>4. \A s \in Tasks, v \in Uids : WillRecord(s, v)' <=> WillRecord(s, v)
      BY <2>1 DEF WillRecord
    <2> QED
      BY <1>1, <2>3, <2>4, PortKept
  <1>7. ASSUME NEW u \in Uids, NEW p \in Ports \union {None}, set_port(t, u, p)
        PROVE  PortInv'
    <2> DEFINE r == [Idle EXCEPT !.op = "set_port", !.at = "stop", !.uid = u, !.pref = p,
                                 !.force = (p # None)]
    <2>1. task' = [task EXCEPT ![t] = r] /\ links' = [links EXCEPT ![u].listen_port = p]
      BY <1>7 DEF set_port
    <2>2. \A v \in Uids : /\ links'[v].present = links[v].present
                          /\ links'[v].mtproto = links[v].mtproto
                          /\ links'[v].active = links[v].active
                          /\ links'[v].refused = links[v].refused
                          /\ links'[v].mtproto_port = links[v].mtproto_port
      BY <2>1 DEF IInv, DataOK, Link
    <2> HIDE DEF r
    <2>3. \A v \in Uids : Serves(v)' => /\ Serves(v)
                                        /\ links'[v].mtproto_port = links[v].mtproto_port
                                        /\ instances'[v].port = instances[v].port
      BY <1>1, <1>2, <2>2 DEF Serves, IsMtproto
    <2> QED
      BY <1>3, <2>1, <2>3, PortTaskStep
  <1>8. ASSUME NEW u \in Uids, delete_link(t, u)
        PROVE  PortInv'
    <2> DEFINE d == [Idle EXCEPT !.op = "delete", !.at = "stop", !.uid = u]
               r == IF links[u].mtproto THEN d ELSE Idle
    <2>1. task' = [task EXCEPT ![t] = r]
      BY <1>1, <1>8 DEF delete_link, IInv, TaskInv
    <2>2. ~links'[u].present /\ \A v \in Uids : v # u => links'[v] = links[v]
      BY <1>8 DEF delete_link, NoLink, IInv, DataOK, Link
    <2> HIDE DEF r
    <2>3. \A v \in Uids : Serves(v)' => /\ Serves(v)
                                        /\ links'[v].mtproto_port = links[v].mtproto_port
                                        /\ instances'[v].port = instances[v].port
      BY <1>1, <1>2, <2>2 DEF Serves, IsMtproto
    <2> QED
      BY <1>3, <2>1, <2>3, PortTaskStep
  <1>9. ASSUME NEW u \in Uids, NEW p \in Ports, create_mtproto(t, u, p)
        PROVE  PortInv'
    <2> DEFINE r == StartArgs([Idle EXCEPT !.op = "create"], u, p, TRUE)
    <2>1. task' = [task EXCEPT ![t] = r] /\ UNCHANGED links
      BY <1>9 DEF create_mtproto
    <2> HIDE DEF r
    <2> QED
      BY <1>4, <2>1
  <1>10. ASSUME NEW u \in Uids, update_ad_tag(t, u)
         PROVE  PortInv'
    <2> DEFINE r == [Idle EXCEPT !.op = "ad_tag", !.at = "stop", !.uid = u,
                                 !.pref = links[u].mtproto_port, !.force = TRUE]
    <2>1. task' = [task EXCEPT ![t] = r] /\ UNCHANGED links
      BY <1>10 DEF update_ad_tag
    <2> HIDE DEF r
    <2> QED
      BY <1>4, <2>1
  <1>11. ASSUME backup_import(t)
         PROVE  PortInv'
    <2> DEFINE r == [Idle EXCEPT !.op = "import", !.at = "list"]
    <2>1. task' = [task EXCEPT ![t] = r] /\ UNCHANGED links
      BY <1>11 DEF backup_import
    <2> HIDE DEF r
    <2> QED
      BY <1>4, <2>1
  <1> QED
    BY <1>5, <1>6, <1>r, <1>7, <1>8, <1>9, <1>10, <1>11 DEF Handlers
------------------------------------------------------------------------------
(* What start_instance's return writes, and whom a restart turns to next.   *)

LEMMA StartedTable ==
  ASSUME IInv, NEW t \in Tasks, task[t].at \in Busy \union {"start"},
         NEW port \in Ports \union {None}, Started(t, port)
  PROVE  /\ \A u \in Uids : u # task[t].uid => links'[u] = links[u]
         /\ port # None /\ links'[task[t].uid].present
              => links'[task[t].uid].mtproto_port = port
  <1> DEFINE u == task[t].uid
             New == [present |-> TRUE, mtproto |-> TRUE, active |-> TRUE,
                     refused |-> FALSE, listen_port |-> port, mtproto_port |-> port]
  <1>1. task[t] \in TaskRec /\ task[t].op \in StartOps /\ u \in Uids /\ links \in [Uids -> Link]
    BY TaskFacts DEF Busy, IInv, DataOK
  <1>2. StartChangesTable(task[t], port)
    BY DEF Started
  <1>3. CASE port = None
    <2>1. links' = links \/ links' = [links EXCEPT ![u].active = FALSE]
      BY <1>2, <1>3 DEF StartChangesTable
    <2> QED
      BY <1>1, <1>3, <2>1
  <1>4. CASE port # None /\ task[t].op = "create"
    <2>1. links' = [links EXCEPT ![u] = New]
      BY <1>2, <1>4 DEF StartChangesTable
    <2>2. New.mtproto_port = port
      OBVIOUS
    <2> HIDE DEF New
    <2> QED
      BY <1>1, <2>1, <2>2
  <1>5. CASE port # None /\ task[t].op \in {"on", "set_port", "restart", "boot"}
    <2>1. links' = Recorded(u, port)
      BY <1>2, <1>5 DEF StartChangesTable
    <2>2. CASE ~links[u].present
      BY <2>1, <2>2 DEF Recorded
    <2>3. CASE links[u].present
      <3> DEFINE l == IF links[u].listen_port = None THEN None ELSE port
                 new == [links[u] EXCEPT !.mtproto_port = port, !.refused = FALSE,
                                         !.listen_port = l]
      <3>1. links' = [links EXCEPT ![u] = new]
        BY <2>1, <2>3 DEF Recorded
      <3>2. new.mtproto_port = port
        BY <1>1 DEF Link
      <3> HIDE DEF new
      <3> QED
        BY <1>1, <3>1, <3>2
    <2> QED
      BY <2>2, <2>3
  <1>6. CASE port # None /\ task[t].op = "ad_tag"
    <2>1. CASE links[u].present
      <3>1. links' = [links EXCEPT ![u].mtproto_port = port]
        BY <1>2, <1>6, <2>1 DEF StartChangesTable
      <3> QED
        BY <1>1, <3>1 DEF Link
    <2>2. CASE ~links[u].present
      <3>1. links' = links
        BY <1>2, <1>6, <2>2 DEF StartChangesTable
      <3> QED
        BY <2>2, <3>1
    <2> QED
      BY <2>1, <2>2
  <1> QED
    BY <1>1, <1>3, <1>4, <1>5, <1>6 DEF StartOps

(* A restart that goes on from r still has all of r's targets in hand.      *)
LEMMA NextTargetKeeps ==
  ASSUME NEW r \in TaskRec, r.op = "restart", NEW n \in NextTarget(r), NEW u \in r.todo
  PROVE  n.op = "restart" /\ (n.uid = u \/ u \in n.todo)
  <1>1. PICK v \in r.todo :
          n = StartArgs([r EXCEPT !.todo = @ \ {v}], v, links'[v].mtproto_port,
                        links'[v].listen_port # None)
    BY DEF NextTarget
  <1>2. n.op = "restart" /\ n.uid = v /\ n.todo = r.todo \ {v}
    BY <1>1 DEF StartArgs, TaskRec
  <1> QED
    BY <1>2

LEMMA PortStarted ==
  ASSUME IInv, PortInv, NEW t \in Tasks, task[t].at \in Busy \union {"start"},
         NEW port \in Ports \union {None}, Started(t, port),
         port # None => instances'[task[t].uid].port = port,
         \A u \in Uids :
           /\ u = task[t].uid /\ port = None => ~Up(instances[u].proc)'
           /\ u # task[t].uid => /\ instances'[u] = instances[u]
                                 /\ Up(instances[u].proc)' => Up(instances[u].proc)
  PROVE  PortInv'
  <1> DEFINE w == task[t].uid
  <1>1. task[t] \in TaskRec /\ task[t].op \in StartOps /\ w \in Uids
    BY TaskFacts DEF Busy
  <1>2. /\ \A u \in Uids : u # w => links'[u] = links[u]
        /\ port # None /\ links'[w].present => links'[w].mtproto_port = port
    BY StartedTable
  <1>3. PICK r \in AfterStart(task[t], port) : task' = [task EXCEPT ![t] = r]
    BY DEF Started, LeavesFor
  <1>4. \A s \in Tasks : task'[s] = IF s = t THEN r ELSE task[s]
    BY <1>3 DEF IInv, TaskInv
  <1>5. \A u \in Uids : task[t].op = "restart" /\ u \in task[t].todo => WillRecord(t, u)'
    <2> SUFFICES ASSUME NEW u \in Uids, task[t].op = "restart", u \in task[t].todo
                 PROVE  WillRecord(t, u)'
      OBVIOUS
    <2>1. r \in NextTarget(task[t])
      BY <1>3 DEF AfterStart
    <2>2. r.op = "restart" /\ (r.uid = u \/ u \in r.todo)
      BY <1>1, <2>1, NextTargetKeeps
    <2> QED
      BY <1>4, <2>2 DEF WillRecord
  <1>6. \A u \in Uids : u # w /\ (\A s \in Tasks : ~WillRecord(s, u)')
                          => \A s \in Tasks : ~WillRecord(s, u)
    <2> SUFFICES ASSUME NEW u \in Uids, u # w, \A s \in Tasks : ~WillRecord(s, u)',
                        NEW s \in Tasks, WillRecord(s, u)
                 PROVE  FALSE
      OBVIOUS
    <2>1. CASE s = t
      <3>1. task[t].at # "saving"
        BY DEF Busy
      <3> QED
        BY <1>5, <2>1, <3>1 DEF WillRecord
    <2>2. CASE s # t
      BY <1>4, <2>2 DEF WillRecord
    <2> QED
      BY <2>1, <2>2
  <1>7. \A u \in Uids :
          Serves(u)' /\ (\A s \in Tasks : ~WillRecord(s, u)') =>
            \/ /\ Serves(u) /\ \A s \in Tasks : ~WillRecord(s, u)
               /\ links'[u].mtproto_port = links[u].mtproto_port
               /\ instances'[u].port = instances[u].port
            \/ links'[u].mtproto_port = instances'[u].port
    <2> SUFFICES ASSUME NEW u \in Uids, Serves(u)', \A s \in Tasks : ~WillRecord(s, u)'
                 PROVE  \/ /\ Serves(u) /\ \A s \in Tasks : ~WillRecord(s, u)
                           /\ links'[u].mtproto_port = links[u].mtproto_port
                           /\ instances'[u].port = instances[u].port
                        \/ links'[u].mtproto_port = instances'[u].port
      OBVIOUS
    <2>1. CASE u = w
      <3>1. Up(instances[u].proc)' /\ links'[u].present
        BY DEF Serves, IsMtproto
      <3>2. port # None
        BY <2>1, <3>1
      <3> QED
        BY <1>2, <2>1, <3>1, <3>2
    <2>2. CASE u # w
      <3>1. links'[u] = links[u] /\ instances'[u] = instances[u]
        BY <1>2, <2>2
      <3>2. Up(instances[u].proc)
        BY <2>2, <3>1 DEF Serves, Up
      <3> QED
        BY <1>6, <2>2, <3>1, <3>2 DEF Serves, IsMtproto
    <2> QED
      BY <2>1, <2>2
  <1> QED
    BY <1>7, PortKept

(* Coroutine t goes on with the same operation, on the same link.           *)
LEMMA PortSameTask ==
  ASSUME IInv, PortInv, NEW t \in Tasks, NEW r, task' = [task EXCEPT ![t] = r],
         r.op = task[t].op, r.uid = task[t].uid, r.todo = task[t].todo,
         task[t].at # "saving", UNCHANGED <<links, instances>>,
         \A u \in Uids : Up(instances[u].proc)' => Up(instances[u].proc)
  PROVE  PortInv'
  <1>1. \A s \in Tasks : task'[s] = IF s = t THEN r ELSE task[s]
    BY DEF IInv, TaskInv
  <1>2. \A s \in Tasks, u \in Uids : WillRecord(s, u) => WillRecord(s, u)'
    BY <1>1 DEF WillRecord
  <1>3. \A u \in Uids : Serves(u)' => Serves(u)
    BY DEF Serves, IsMtproto
  <1> QED
    BY <1>2, <1>3, PortKept

LEMMA PortStartBegins ==
  ASSUME IInv, PortInv, NEW t \in Tasks, StartBegins(t)
  PROVE  PortInv'
  <1> DEFINE inst == instances[task[t].uid]
  <1>1. task[t].at = "start" /\ task[t].uid \in Uids /\ UNCHANGED <<instances, procs>>
    BY TaskFacts DEF StartBegins
  <1>2. \A u \in Uids : Up(instances[u].proc)' <=> Up(instances[u].proc)
    BY <1>1 DEF Up
  <1>3. CASE Up(inst.proc)
    <2>1. Started(t, inst.port)
      BY <1>3 DEF StartBegins
    <2>2. inst.port \in Ports
      BY <1>1, <1>3, UpFacts DEF IInv, CoverInv, UsedPortsCover
    <2>3. inst.port # None
      BY <2>2
    <2>4. instances'[task[t].uid].port = inst.port
      BY <1>1
    <2> HIDE DEF inst
    <2> QED
      BY <1>1, <1>2, <2>1, <2>2, <2>3, <2>4, PortStarted
  <1>4. CASE ~Up(inst.proc)
    <2> DEFINE r == [task[t] EXCEPT !.at = "prepare"]
    <2>1. task' = [task EXCEPT ![t] = r] /\ UNCHANGED links
      BY <1>4 DEF StartBegins, IInv, TaskInv
    <2>2. r.op = task[t].op /\ r.uid = task[t].uid /\ r.todo = task[t].todo
      BY TaskFacts DEF TaskRec
    <2> HIDE DEF r
    <2> QED
      BY <1>1, <1>2, <2>1, <2>2, PortSameTask
  <1> QED
    BY <1>3, <1>4

LEMMA PortPrepare ==
  ASSUME IInv, ProcInv, PortInv, NEW t \in Tasks, Prepare(t)
  PROVE  PortInv'
  <1>1. task[t].at = "prepare" /\ task[t].uid \in Uids /\ UNCHANGED <<instances, procs>>
    BY TaskFacts DEF Prepare, Busy
  <1>2. \A u \in Uids : Up(instances[u].proc)' <=> Up(instances[u].proc)
    BY <1>1 DEF Up
  <1>3. ~Up(instances[task[t].uid].proc)
    BY <1>1 DEF ProcInv, Busy
  <1>4. CASE Started(t, None)
    BY <1>1, <1>2, <1>3, <1>4, PortStarted DEF Busy
  <1>5. CASE ~Started(t, None)
    <2>1. PICK p : task' = [task EXCEPT ![t].at = "spawn", ![t].pref = p] /\ UNCHANGED links
      BY <1>5 DEF Prepare
    <2> DEFINE r == [task[t] EXCEPT !.at = "spawn", !.pref = p]
    <2>2. task' = [task EXCEPT ![t] = r]
      BY <2>1 DEF IInv, TaskInv
    <2>3. r.op = task[t].op /\ r.uid = task[t].uid /\ r.todo = task[t].todo
      BY TaskFacts DEF TaskRec
    <2> HIDE DEF r
    <2> QED
      BY <1>1, <1>2, <2>1, <2>2, <2>3, PortSameTask
  <1> QED
    BY <1>4, <1>5

LEMMA PortSpawn ==
  ASSUME IInv, ProcInv, PortInv, NEW t \in Tasks, Spawn(t)
  PROVE  PortInv'
  <1>1. PICK q \in Procs :
          /\ procs[q] = NoProc
          /\ procs' = [procs EXCEPT ![q] = [st |-> IF PortFree(task[t].pref) THEN "up" ELSE "dead",
                                            port |-> task[t].pref, watched |-> FALSE]]
          /\ task' = [task EXCEPT ![t].at = "verify", ![t].proc = q]
    BY DEF Spawn
  <1>2. UNCHANGED <<links, instances>> /\ task[t].at = "spawn"
    BY DEF Spawn
  <1>3. \A x \in Procs : x # q => procs'[x] = procs[x]
    BY <1>1 DEF IInv, DataOK
  <1>4. \A u \in Uids : instances[u].proc # q
    BY <1>1 DEF ProcInv, NoProc
  <1>5. \A u \in Uids : Up(instances[u].proc)' => Up(instances[u].proc)
    BY <1>2, <1>3, <1>4, TaskFacts DEF Up
  <1> DEFINE r == [task[t] EXCEPT !.at = "verify", !.proc = q]
  <1>6. task' = [task EXCEPT ![t] = r]
    BY <1>1 DEF IInv, TaskInv
  <1>7. r.op = task[t].op /\ r.uid = task[t].uid /\ r.todo = task[t].todo
    BY TaskFacts DEF TaskRec
  <1> HIDE DEF r
  <1> QED
    BY <1>2, <1>5, <1>6, <1>7, PortSameTask

LEMMA PortVerify ==
  ASSUME IInv, ProcInv, PortInv, NEW t \in Tasks, Verify(t)
  PROVE  PortInv'
  <1> DEFINE w == task[t].uid
             q == task[t].proc
  <1>1. /\ task[t].at = "verify" /\ w \in Uids /\ q \in Procs
        /\ task[t].pref \in Ports
        /\ \A u \in Uids : instances[u].proc # q
        /\ ~Up(instances[w].proc)
    BY TaskFacts DEF Verify, ProcInv, Busy, IInv, ChosenUnused
  <1>2. CASE Up(q)
    <2>1. /\ procs' = [procs EXCEPT ![q].watched = TRUE]
          /\ instances' = [instances EXCEPT ![w] = [proc |-> q, port |-> task[t].pref]]
          /\ Started(t, task[t].pref)
      BY <1>2 DEF Verify
    <2>2. \A x \in Procs : procs'[x].st = procs[x].st
      BY <1>1, <2>1 DEF IInv, DataOK
    <2>3. /\ instances'[w].port = task[t].pref
          /\ \A u \in Uids : u # w => instances'[u] = instances[u]
      BY <1>1, <2>1 DEF IInv, CoverInv
    <2>4. \A u \in Uids : u # w => (Up(instances[u].proc)' => Up(instances[u].proc))
      BY <2>2, <2>3, TaskFacts DEF Up
    <2>5. task[t].pref # None
      BY <1>1
    <2> QED
      BY <1>1, <2>1, <2>3, <2>4, <2>5, PortStarted DEF Busy
  <1>3. CASE ~Up(q)
    <2>1. procs' = [procs EXCEPT ![q] = NoProc] /\ instances' = instances /\ Started(t, None)
      BY <1>3 DEF Verify
    <2>2. \A x \in Procs : x # q => procs'[x] = procs[x]
      BY <2>1 DEF IInv, DataOK
    <2>3. \A u \in Uids : Up(instances[u].proc)' => Up(instances[u].proc)
      BY <1>1, <2>1, <2>2, TaskFacts DEF Up
    <2> QED
      BY <1>1, <2>1, <2>3, PortStarted DEF Busy
  <1> QED
    BY <1>2, <1>3

(* A stop is over, of k's operation: an import's last one replaces the      *)
(* table, and the restart that follows will write every port.               *)
LEMMA PortStopped ==
  ASSUME IInv, PortInv, NEW t \in Tasks, NEW k \in TaskRec, k.op \in StopOps,
         k.op = task[t].op, StopChangesTable(k), NEW r \in AfterStop(k),
         task' = [task EXCEPT ![t] = r],
         \A u \in Uids : Up(instances[u].proc)' =>
           Up(instances[u].proc) /\ instances'[u] = instances[u]
  PROVE  PortInv'
  <1>1. CASE k.op = "import" /\ k.todo = {}
    <2>1. r = [Idle EXCEPT !.op = "restart", !.at = "saving"]
      BY <1>1 DEF AfterStop
    <2>2. r.op = "restart" /\ r.at = "saving"
      BY <2>1 DEF Idle
    <2>3. task'[t] = r
      BY DEF IInv, TaskInv
    <2>4. \A u \in Uids : WillRecord(t, u)'
      BY <2>2, <2>3 DEF WillRecord
    <2> QED
      BY <2>4 DEF PortInv
  <1>2. CASE ~(k.op = "import" /\ k.todo = {})
    <2>1. links' = links
      BY <1>2 DEF StopChangesTable
    <2>2. \A u \in Uids : Serves(u)' => /\ Serves(u)
                                        /\ links'[u].mtproto_port = links[u].mtproto_port
                                        /\ instances'[u].port = instances[u].port
      BY <2>1 DEF Serves, IsMtproto
    <2> QED
      BY <2>2, PortTaskStep DEF StopOps
  <1> QED
    BY <1>1, <1>2

LEMMA PortStopBegins ==
  ASSUME IInv, PortInv, NEW t \in Tasks, StopBegins(t)
  PROVE  PortInv'
  <1> DEFINE w == task[t].uid
  <1>1. /\ task[t].at = "stop" /\ w \in Uids /\ task[t] \in TaskRec /\ task[t].op \in StopOps
        /\ instances' = [instances EXCEPT ![w] = NoInst] /\ procs' = procs
    BY DEF StopBegins, IInv, TaskInv, TasksGood, GoodTask
  <1>2. \A u \in Uids : instances'[u] = IF u = w THEN NoInst ELSE instances[u]
    BY <1>1 DEF IInv, CoverInv
  <1>3. \A u \in Uids : Up(instances[u].proc)' =>
          Up(instances[u].proc) /\ instances'[u] = instances[u]
    BY <1>1, <1>2 DEF Up, NoInst
  <1>4. CASE instances[w].proc = None
    <2>1. PICK r \in AfterStop(task[t]) : LeavesFor(t, r)
      BY <1>4 DEF StopBegins
    <2>2. StopChangesTable(task[t])
      BY <1>4 DEF StopBegins
    <2> QED
      BY <1>1, <1>3, <2>1, <2>2, PortStopped DEF LeavesFor
  <1>5. CASE instances[w].proc # None
    <2> DEFINE r == [task[t] EXCEPT !.at = "killing", !.proc = instances[w].proc]
    <2>1. task' = [task EXCEPT ![t] = r] /\ links' = links
      BY <1>5 DEF StopBegins, IInv, TaskInv
    <2> HIDE DEF r
    <2>2. \A u \in Uids : Serves(u)' => /\ Serves(u)
                                        /\ links'[u].mtproto_port = links[u].mtproto_port
                                        /\ instances'[u].port = instances[u].port
      BY <1>3, <2>1 DEF Serves, IsMtproto
    <2> QED
      BY <1>1, <2>1, <2>2, PortTaskStep DEF StopOps
  <1> QED
    BY <1>4, <1>5

LEMMA PortStops ==
  ASSUME IInv, PortInv, NEW t \in Tasks, StopEnds(t) \/ stop_all(t)
  PROVE  PortInv'
  <1>1. UNCHANGED <<instances, procs>>
    BY DEF StopEnds, stop_all
  <1>2. \A u \in Uids : Up(instances[u].proc)' =>
          Up(instances[u].proc) /\ instances'[u] = instances[u]
    BY <1>1 DEF Up
  <1>3. CASE StopEnds(t)
    <2> DEFINE k == [task[t] EXCEPT !.proc = None]
    <2>1. k \in TaskRec /\ k.op \in StopOps /\ k.op = task[t].op
      BY <1>3 DEF StopEnds, IInv, TaskInv, TasksGood, GoodTask, TaskRec
    <2>2. StopChangesTable(task[t]) /\ k.op = task[t].op /\ k.todo = task[t].todo
      BY <1>3, TaskFacts DEF StopEnds, TaskRec
    <2>3. PICK r \in AfterStop(k) : GoesOn(t, r)
      BY <1>3 DEF StopEnds
    <2> HIDE DEF k
    <2>4. StopChangesTable(k)
      BY <2>2 DEF StopChangesTable
    <2> QED
      BY <1>2, <2>1, <2>3, <2>4, PortStopped DEF GoesOn
  <1>4. CASE stop_all(t)
    <2> DEFINE k == [task[t] EXCEPT !.todo = {u \in Uids : instances[u].proc # None}]
    <2>1. k \in TaskRec /\ k.op = "import" /\ k.op = task[t].op
      BY <1>4 DEF stop_all, IInv, TaskInv, TasksGood, GoodTask, TaskRec
    <2>2. StopChangesTable(k)
      BY <1>4 DEF stop_all
    <2>3. PICK r \in AfterStop(k) : LeavesFor(t, r)
      BY <1>4 DEF stop_all
    <2> HIDE DEF k
    <2> QED
      BY <1>2, <2>1, <2>2, <2>3, PortStopped DEF LeavesFor, StopOps
  <1> QED
    BY <1>3, <1>4

(* Every link that serves is a target of the restart that begins.           *)
LEMMA PortRestartBegins ==
  ASSUME IInv, PortInv, NEW t \in Tasks, RestartBegins(t)
  PROVE  PortInv'
  <1> DEFINE k == [task[t] EXCEPT !.todo = Targets]
  <1>1. /\ UNCHANGED <<links, instances, procs>>
        /\ task[t] \in TaskRec /\ task[t].op \in {"restart", "boot"}
    BY DEF RestartBegins, IInv, TaskInv, TasksGood, GoodTask
  <1>2. k \in TaskRec /\ k.op = task[t].op /\ k.todo = Targets
    <2>1. Targets \in SUBSET Uids
      BY DEF Targets
    <2> HIDE DEF Targets
    <2> QED
      BY <1>1, <2>1 DEF TaskRec
  <1>3. PICK r \in NextTarget(k) : GoesOn(t, r)
    BY DEF RestartBegins
  <1> HIDE DEF k
  <1>4. \A s \in Tasks : task'[s] = IF s = t THEN r ELSE task[s]
    BY <1>3 DEF GoesOn, IInv, TaskInv
  <1>5. \A u \in Uids : Serves(u)' => Serves(u) /\ u \in Targets
    BY <1>1 DEF Serves, IsMtproto, Targets, Up
  <1>6. \A u \in Targets : task[t].op = "restart" => WillRecord(t, u)'
    <2> SUFFICES ASSUME NEW u \in Targets, task[t].op = "restart" PROVE WillRecord(t, u)'
      OBVIOUS
    <2>1. r.op = "restart" /\ (r.uid = u \/ u \in r.todo)
      BY <1>2, <1>3, NextTargetKeeps
    <2> QED
      BY <1>4, <2>1 DEF WillRecord
  <1>7. \A u \in Uids : u \in Targets /\ (\A s \in Tasks : ~WillRecord(s, u)')
                          => \A s \in Tasks : ~WillRecord(s, u)
    <2> SUFFICES ASSUME NEW u \in Uids, u \in Targets, \A s \in Tasks : ~WillRecord(s, u)',
                        NEW s \in Tasks, WillRecord(s, u)
                 PROVE  FALSE
      OBVIOUS
    <2>1. CASE s = t
      BY <1>1, <1>6, <2>1 DEF WillRecord
    <2>2. CASE s # t
      BY <1>4, <2>2 DEF WillRecord
    <2> QED
      BY <2>1, <2>2
  <1> QED
    BY <1>1, <1>5, <1>7, PortKept

(* No process that was not running runs, and no coroutine goes on.          *)
LEMMA PortEnds ==
  ASSUME IInv, PortInv, UNCHANGED <<links, task>>,
         \A u \in Uids : Up(instances[u].proc)' =>
           Up(instances[u].proc) /\ instances'[u] = instances[u]
  PROVE  PortInv'
  <1>1. \A u \in Uids : Serves(u)' => Serves(u) /\ instances'[u] = instances[u]
    BY DEF Serves, IsMtproto
  <1>2. \A s \in Tasks, u \in Uids : WillRecord(s, u)' <=> WillRecord(s, u)
    BY DEF WillRecord
  <1> QED
    BY <1>1, <1>2, PortKept

LEMMA NextPortInv == IInv /\ ProcInv /\ PortInv /\ [Next]_vars => PortInv'
  <1> SUFFICES ASSUME IInv, ProcInv, PortInv, [Next]_vars PROVE PortInv'
    OBVIOUS
  <1>1. ASSUME NEW t \in Tasks, Handlers(t) PROVE PortInv'
    BY <1>1, PortHandlers
  <1>2. ASSUME NEW t \in Tasks, Runs(t) PROVE PortInv'
    BY <1>2, PortStartBegins, PortPrepare, PortSpawn, PortVerify, PortStopBegins, PortStops,
       PortRestartBegins DEF Runs
  <1>3. ASSUME NEW q \in Procs, ProcDies(q) PROVE PortInv'
    <2>1. UNCHANGED <<links, instances, task>> /\ procs' = [procs EXCEPT ![q].st = "dead"]
      BY <1>3 DEF ProcDies
    <2>2. \A x \in Procs : procs'[x].st = IF x = q THEN "dead" ELSE procs[x].st
      BY <2>1 DEF IInv, DataOK
    <2>3. \A u \in Uids : Up(instances[u].proc)' => Up(instances[u].proc)
      BY <2>1, <2>2, TaskFacts DEF Up
    <2> QED
      BY <2>1, <2>3, PortEnds
  <1>4. ASSUME NEW q \in Procs, WatcherRuns(q) PROVE PortInv'
    <2>1. /\ UNCHANGED <<links, task>> /\ procs' = [procs EXCEPT ![q] = NoProc]
          /\ \A u \in Uids : instances'[u] = IF instances[u].proc = q THEN NoInst ELSE instances[u]
      BY <1>4 DEF WatcherRuns
    <2>2. \A x \in Procs : x # q => procs'[x] = procs[x]
      BY <2>1 DEF IInv, DataOK
    <2>3. \A u \in Uids : Up(instances[u].proc)' =>
            Up(instances[u].proc) /\ instances'[u] = instances[u]
      BY <2>1, <2>2, TaskFacts DEF Up, NoInst
    <2> QED
      BY <2>1, <2>3, PortEnds
  <1>5. CASE Reboot \/ Reexec
    <2>1. \A u \in Uids : instances'[u].proc = None
      BY <1>5 DEF Reboot, Reexec, ProgramStarts, NoInst
    <2> QED
      BY <2>1 DEF PortInv, Serves, Up
  <1>6. ASSUME UNCHANGED <<links, instances, procs, task>> PROVE PortInv'
    <2>1. \A u \in Uids : Up(instances[u].proc)' => Up(instances[u].proc)
      BY <1>6 DEF Up
    <2> QED
      BY <1>6, <2>1, PortEnds
  <1>7. ASSUME NEW p \in Ports, Foreign(p) PROVE PortInv'
    BY <1>6, <1>7 DEF Foreign
  <1>9. ASSUME NEW q \in Procs, OrphanDies(q) PROVE PortInv'
    <2>1. UNCHANGED <<links, instances, task>> /\ procs' = [procs EXCEPT ![q] = NoProc]
      BY <1>9 DEF OrphanDies
    <2>2. \A x \in Procs : x # q => procs'[x] = procs[x]
      BY <2>1 DEF IInv, DataOK
    <2>3. NoProc.st # "up" /\ procs'[q] = NoProc
      BY <2>1 DEF NoProc, IInv, DataOK
    <2>4. \A u \in Uids : Up(instances[u].proc)' => Up(instances[u].proc)
      BY <2>1, <2>2, <2>3, TaskFacts DEF Up
    <2> QED
      BY <2>1, <2>4, PortEnds
  <1>8. CASE UNCHANGED vars
    BY <1>6, <1>8 DEF vars
  <1> QED
    BY <1>1, <1>2, <1>3, <1>4, <1>5, <1>7, <1>8, <1>9 DEF Next

LEMMA InitPortInv == Init => PortInv
  BY DEF Init, PortInv, Serves, IsMtproto, NoLink
------------------------------------------------------------------------------
(* The state of mtproto_native and of the coroutines that use it has its    *)
(* type, whatever requests, crashes, reboots and updates overlap.           *)
THEOREM TypeCorrect == Spec => []TypeOK
  <1>1. Spec => []IInv
    BY InitIInv, NextIInv, PTL DEF Spec
  <1> QED
    BY <1>1, IInvImplies, PTL

(* _used_ports holds the port of every registered instance, and no two      *)
(* instances are registered on one port: start_instance registers only what *)
(* it chose under the lock, and stop_instance and _watch_process remove an  *)
(* instance and its port together.                                          *)
THEOREM UsedPortsCoverInstances == Spec => []UsedPortsCover
  <1>1. Spec => []IInv
    BY InitIInv, NextIInv, PTL DEF Spec
  <1> QED
    BY <1>1, IInvImplies, PTL

(* Every process that runs and that this program has started belongs to an  *)
(* instance or to the start or stop that is busy with it: start_instance    *)
(* begins only if no process of the uid runs and registers under the same   *)
(* lock, stop_instance keeps what it took out of the table until the        *)
(* process has died.  What an update's exec leaves behind is an orphan, and *)
(* no process that is "up" here.                                            *)
THEOREM ProcessesAreKnown == Spec => []NoLostProcess
  <1>1. Spec => []IInv
    BY InitIInv, NextIInv, PTL DEF Spec
  <1>2. ProcInv => NoLostProcess
    BY DEF ProcInv
  <1> QED
    BY <1>1, <1>2, InitProcInv, NextProcInv, PTL DEF Spec

(* Outside an edit of its link, and unless a table is being replaced, the   *)
(* port an active link advertises is the one its process listens on: the    *)
(* coroutine that started it wrote the port it got, or has yet to.  Links   *)
(* that a refused PATCH left active are not covered until their instance is *)
(* started again.                                                           *)
THEOREM AdvertisedPortsAreReal == Spec => []AdvertisedPort
  <1>1. Spec => [](IInv /\ ProcInv /\ PortInv)
    BY InitIInv, NextIInv, InitProcInv, NextProcInv, InitPortInv, NextPortInv, PTL DEF Spec
  <1> QED
    BY <1>1, PortInvImplies, PTL
==============================================================================
