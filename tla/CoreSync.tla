------------------------------ MODULE CoreSync ------------------------------
(***************************************************************************)
(* The external cores (Xray, sing-box): _sync_cores writes a core's        *)
(* configuration from the links it serves and restarts its one process if  *)
(* the configuration changed.  Handlers spawn _sync_cores; nothing keeps   *)
(* two of them apart, and each awaits for seconds in start_core.           *)
(***************************************************************************)
EXTENDS Naturals, Sequences, FiniteSets

CONSTANTS
  CoreOrder,    \* <<"xray", "singbox">>, the order of _sync_cores
  Uids,         \* links, each with a port of its own
  Protocol,     \* the protocol of each link
  Backups,      \* link tables that can be imported
  Syncs,        \* bound: _sync_cores at the same time
  Procs,        \* bound: core processes
  None

Cores == {CoreOrder[i] : i \in 1..Len(CoreOrder)}
Unicorn == "unicorn"
Links == [Uids -> {None} \union [core : Cores \union {Unicorn}, active : BOOLEAN]]

ASSUME CoreSyncAssumption ==
  /\ CoreOrder \in Seq(STRING)
  /\ \A i, n \in 1..Len(CoreOrder) : CoreOrder[i] = CoreOrder[n] => i = n
  /\ Cores = {"xray", "singbox"}
  /\ Protocol \in [Uids -> STRING] /\ None \notin Procs /\ Backups \subseteq Links

(* The protocols of the cores: what main.py lets a link have, by family.    *)
CORE_PROTOCOL_SUPPORTED ==
  [unicorn |-> {"vless-ws", "trojan-ws", "vmess-ws", "mtproto", "shadowsocks"},
   xray    |-> {"vless", "vless-ws", "vmess-ws", "trojan-ws", "shadowsocks", "socks", "http"},
   singbox |-> {"vless", "vless-ws", "vmess-ws", "trojan-ws", "shadowsocks", "mixed",
                "hysteria2", "tuic"}]
XrayBases == {"vless", "vless-ws", "vmess-ws", "trojan-ws", "shadowsocks", "socks", "http"}
SingboxBases == (XrayBases \ {"mtproto"}) \union {"mixed", "hysteria", "hysteria2", "tuic"}

VARIABLES
  links,     \* LINKS: the core of each link, and whether it is active
  cfg_file,  \* the inbounds in config.json of each core
  state,     \* _state: the process of each core
  cfg_hash,  \* _core_cfg_hash, by the configuration it stands for
  sync,      \* the coroutines of _sync_cores
  proc,      \* the processes
  stale,     \* history: the links changed and no sync was asked for
  failed,    \* history: the cores whose last start failed, or that died since
  lost       \* history: syncs overlapped, or processes outlived the panel

vars == <<links, cfg_file, state, cfg_hash, sync, proc, stale, failed, lost>>

NoProc == [core |-> None, st |-> "none", serves |-> {}]
Alive == {"starting", "up", "ending"}
IdleSync == [at |-> "idle", i |-> 0, snap |-> [c \in Cores |-> {}], proc |-> None, restart |-> FALSE]

TypeOK ==
  /\ links \in Links
  /\ cfg_file \in [Cores -> SUBSET Uids]
  /\ state \in [Cores -> Procs \union {None}]
  /\ cfg_hash \in [Cores -> (SUBSET Uids) \union {None}]
  /\ sync \in [Syncs -> [at : {"idle", "asked", "next", "installing", "stopping", "spawning", "settling"},
                         i : 0..Len(CoreOrder) + 1, snap : [Cores -> SUBSET Uids],
                         proc : Procs \union {None}, restart : BOOLEAN]]
  /\ \A y \in Syncs : sync[y].at \notin {"idle", "asked"} => sync[y].i # 0
  /\ proc \in [Procs -> [core : Cores \union {None}, st : {"none"} \union Alive,
                         serves : SUBSET Uids]]
  /\ stale \in BOOLEAN /\ failed \subseteq Cores /\ lost \in BOOLEAN

Init ==
  /\ links \in {[u \in Uids |-> None]} \union Backups
  /\ cfg_file = [c \in Cores |-> {}]
  /\ state = [c \in Cores |-> None]
  /\ cfg_hash = [c \in Cores |-> None]
  /\ \E y \in Syncs : sync = [[z \in Syncs |-> IdleSync] EXCEPT ![y].at = "asked"]
  /\ proc = [p \in Procs |-> NoProc]
  /\ stale = FALSE /\ failed = {} /\ lost = FALSE

(* The active links of core c. *)
OfCore(c) == {u \in Uids : links[u] # None /\ links[u].core = c /\ links[u].active}

(* The inbounds the core's configuration has for the links us. *)
_xray_inbound(u) == Protocol[u] \in XrayBases
_singbox_inbound(u) == Protocol[u] \in SingboxBases
write_core_config(c, us) ==
  {u \in us : IF c = "xray" THEN _xray_inbound(u) ELSE _singbox_inbound(u)}
Wanted(c) == write_core_config(c, OfCore(c))

IsAlive(p) == p # None /\ proc[p].st \in Alive
is_running(c) == IsAlive(state[c])

(* The panel refers to p, or p is alive. *)
FreeProc(p) ==
  /\ ~IsAlive(p)
  /\ \A c \in Cores : state[c] # p
  /\ \A y \in Syncs : sync[y].proc # p
------------------------------------------------------------------------------
(* Handlers of links; each spawns a _sync_cores. *)

Asks == \E y \in Syncs : sync[y].at = "idle" /\ sync' = [sync EXCEPT ![y].at = "asked"]
Rest == UNCHANGED <<cfg_file, state, cfg_hash, proc, failed, lost>>

create_link(u, c) ==
  /\ links[u] = None /\ Protocol[u] \in CORE_PROTOCOL_SUPPORTED[c]
  /\ links' = [links EXCEPT ![u] = [core |-> c, active |-> TRUE]]
  /\ stale' = FALSE /\ Asks /\ Rest

update_link(u) ==
  /\ links[u] # None
  /\ links' = [links EXCEPT ![u].active = ~@]
  /\ IF \E v \in Uids : links[v] # None /\ links[v].core # Unicorn
     THEN stale' = FALSE /\ Asks ELSE UNCHANGED <<stale, sync>>
  /\ Rest

delete_link(u) ==
  /\ links[u] # None
  /\ links' = [links EXCEPT ![u] = None]
  /\ stale' = FALSE /\ Asks /\ Rest

(* An import syncs nothing. *)
backup_import ==
  /\ links' \in Backups \ {links}
  /\ stale' = TRUE
  /\ UNCHANGED sync /\ Rest

resync == Asks /\ stale' = FALSE /\ UNCHANGED links /\ Rest
------------------------------------------------------------------------------
(* _sync_cores *)

Active(y) == sync[y].at \notin {"idle", "asked"}

_migrate_invalid_core_links ==
  [u \in Uids |->
     IF /\ links[u] # None
        /\ Protocol[u] \notin CORE_PROTOCOL_SUPPORTED[links[u].core]
        /\ Protocol[u] \in CORE_PROTOCOL_SUPPORTED.unicorn
     THEN [links[u] EXCEPT !.core = Unicorn] ELSE links[u]]

(* Up to the first core's turn: the lists of links are made, for both cores. *)
SyncBegins(y) ==
  /\ sync[y].at = "asked"
  /\ links' = _migrate_invalid_core_links
  /\ sync' = [sync EXCEPT ![y] =
                [IdleSync EXCEPT !.at = "next", !.i = 1,
                   !.snap = [c \in Cores |-> OfCore(c)']]]
  /\ lost' = (lost \/ \E z \in Syncs : Active(z))
  /\ UNCHANGED <<cfg_file, state, cfg_hash, proc, stale, failed>>

Core(y) == CoreOrder[sync[y].i]

Goes(y, at) == sync' = [sync EXCEPT ![y].at = at, ![y].proc = None]
NextCore(y) == sync' = [sync EXCEPT ![y].at = "next", ![y].i = @ + 1, ![y].proc = None,
                                    ![y].snap[Core(y)] = {}]

(* Mutant: the process is forgotten only. *)
StopsForgets(y, c, restart) ==
  /\ state' = [state EXCEPT ![c] = None]
  /\ UNCHANGED proc
  /\ IF restart THEN Goes(y, "spawning") ELSE NextCore(y)

(* stop_core up to its wait: the process is forgotten, and terminated. *)
Stops(y, c, restart) ==
  /\ state' = [state EXCEPT ![c] = None]
  /\ IF is_running(c)
     THEN /\ proc' = [proc EXCEPT ![state[c]].st = "ending"]
          /\ sync' = [sync EXCEPT ![y].at = "stopping", ![y].proc = state[c], ![y].restart = restart]
     ELSE /\ UNCHANGED proc
          /\ IF restart THEN Goes(y, "spawning") ELSE NextCore(y)

(* Mutant: whether the core runs is not asked. *)
SyncCoreByHash(y) ==
  LET c == Core(y)
      inbounds == write_core_config(c, sync[y].snap[c])
  IN
  /\ sync[y].at = "next" /\ sync[y].i <= Len(CoreOrder)
  /\ IF sync[y].snap[c] = {}
     THEN /\ UNCHANGED cfg_file
          /\ IF is_running(c) THEN Stops(y, c, FALSE)
             ELSE NextCore(y) /\ UNCHANGED <<state, proc>>
     ELSE /\ cfg_file' = [cfg_file EXCEPT ![c] = inbounds]
          /\ UNCHANGED <<state, proc>>
          /\ IF cfg_hash[c] = inbounds THEN NextCore(y) ELSE Goes(y, "installing")
  /\ UNCHANGED <<links, cfg_hash, stale, failed, lost>>

(* One core's turn, up to its first await. *)
SyncCore(y) ==
  LET c == Core(y)
      inbounds == write_core_config(c, sync[y].snap[c])
      current == is_running(c) /\ cfg_hash[c] = inbounds
  IN
  /\ sync[y].at = "next" /\ sync[y].i <= Len(CoreOrder)
  /\ IF sync[y].snap[c] = {}
     THEN /\ UNCHANGED cfg_file
          /\ IF is_running(c) THEN Stops(y, c, FALSE)
             ELSE NextCore(y) /\ UNCHANGED <<state, proc>>
     ELSE /\ cfg_file' = [cfg_file EXCEPT ![c] = inbounds]
          /\ UNCHANGED <<state, proc>>
          /\ IF current THEN NextCore(y) ELSE Goes(y, "installing")
  /\ UNCHANGED <<links, cfg_hash, stale, failed, lost>>

SyncEnds(y) ==
  /\ sync[y].at = "next" /\ sync[y].i > Len(CoreOrder)
  /\ sync' = [sync EXCEPT ![y] = IdleSync]
  /\ UNCHANGED <<links, cfg_file, state, cfg_hash, proc, stale, failed, lost>>

(* start_core: ensure_installed is through, and the old process is stopped. *)
Installed(y) ==
  /\ sync[y].at = "installing"
  /\ Stops(y, Core(y), TRUE)
  /\ UNCHANGED <<links, cfg_file, cfg_hash, stale, failed, lost>>

Fails(y) ==
  /\ NextCore(y)
  /\ failed' = failed \union {Core(y)}
  /\ UNCHANGED <<links, cfg_file, state, cfg_hash, proc, stale, lost>>

(* The download fails, and the process that ran is left alone. *)
InstallFails(y) == sync[y].at = "installing" /\ Fails(y)
StartFails(y) == sync[y].at = "spawning" /\ Fails(y)

(* The old process has ended, or 6 seconds have passed: it is killed then,  *)
(* and not waited for.                                                      *)
Stopped(y) ==
  /\ sync[y].at = "stopping"
  /\ IF sync[y].restart THEN Goes(y, "spawning") ELSE NextCore(y)
  /\ failed' = IF sync[y].restart THEN failed ELSE failed \ {Core(y)}
  /\ UNCHANGED <<links, cfg_file, state, cfg_hash, proc, stale, lost>>

(* create_subprocess_exec, after the wait for the ports, which is none for  *)
(* Xray and a second for sing-box (_port_free does not exist).              *)
Spawns(y) ==
  /\ sync[y].at = "spawning"
  /\ \E p \in Procs :
       /\ FreeProc(p)
       /\ proc' = [proc EXCEPT ![p] = [NoProc EXCEPT !.core = Core(y), !.st = "starting"]]
       /\ sync' = [sync EXCEPT ![y].at = "settling", ![y].proc = p]
  /\ UNCHANGED <<links, cfg_file, state, cfg_hash, stale, failed, lost>>

(* 0.8 s later: the process is recorded, and the hash of the file this sync *)
(* has written, unless the process is dead already.                         *)
Settles(y) ==
  LET c == Core(y)
      p == sync[y].proc
  IN
  /\ sync[y].at = "settling"
  /\ IF IsAlive(p)
     THEN /\ state' = [state EXCEPT ![c] = p]
          /\ cfg_hash' = [cfg_hash EXCEPT ![c] = write_core_config(c, sync[y].snap[c])]
          /\ failed' = failed \ {c}
     ELSE failed' = failed \union {c} /\ UNCHANGED <<state, cfg_hash>>
  /\ NextCore(y)
  /\ UNCHANGED <<links, cfg_file, proc, stale, lost>>
------------------------------------------------------------------------------
(* The processes: they read the file, and bind their ports or give up. *)

Taken(p) == UNION {proc[q].serves : q \in {r \in Procs \ {p} : IsAlive(r)}}

Dies(p) ==
  /\ proc' = [proc EXCEPT ![p] = NoProc]
  /\ failed' = failed \union {c \in Cores : state[c] = p}

ProcBinds(p) ==
  LET inbounds == cfg_file[proc[p].core] IN
  /\ proc[p].st = "starting"
  /\ IF inbounds \intersect Taken(p) = {}
     THEN /\ proc' = [proc EXCEPT ![p].st = "up", ![p].serves = inbounds]
          /\ UNCHANGED failed
     ELSE Dies(p)
  /\ UNCHANGED <<links, cfg_file, state, cfg_hash, sync, stale, lost>>

(* It obeys the signal, or crashes. *)
ProcEnds(p) ==
  /\ IsAlive(p)
  /\ Dies(p)
  /\ UNCHANGED <<links, cfg_file, state, cfg_hash, sync, stale, lost>>

(* The panel restarts.  It does not stop the cores: they die with it if the *)
(* service manager kills them, and live on if an update execs the panel.    *)
Restart ==
  /\ state' = [c \in Cores |-> None]
  /\ cfg_hash' = [c \in Cores |-> None]
  /\ \E y \in Syncs : sync' = [[z \in Syncs |-> IdleSync] EXCEPT ![y].at = "asked"]
  /\ \/ proc' = [p \in Procs |-> NoProc] /\ lost' = FALSE
     \/ UNCHANGED proc /\ lost' = (\E p \in Procs : IsAlive(p))
  /\ stale' = FALSE /\ failed' = {}
  /\ UNCHANGED <<links, cfg_file>>

Goings(y) == SyncBegins(y) \/ Installed(y) \/ InstallFails(y) \/ StartFails(y) \/ Stopped(y) \/ Spawns(y) \/ Settles(y)
Turn(y) == SyncCore(y) \/ SyncEnds(y)

Handlers ==
  \/ \E u \in Uids : (\E c \in Cores \union {Unicorn} : create_link(u, c)) \/ update_link(u) \/ delete_link(u)
  \/ backup_import \/ resync

(* From one core to the next a sync does not await by itself. *)
Next ==
  \/ \E y \in Syncs : Turn(y)
  \/ /\ \A y \in Syncs : sync[y].at # "next"
     /\ \/ Handlers \/ Restart
        \/ \E y \in Syncs : Goings(y)
        \/ \E p \in Procs : ProcBinds(p) \/ ProcEnds(p)

Spec == Init /\ [][Next]_vars
------------------------------------------------------------------------------
Quiet == \A y \in Syncs : sync[y].at = "idle"
Owned(p) == (\E c \in Cores : state[c] = p) \/ \E y \in Syncs : sync[y].proc = p
Serving == {"starting", "up"}

(* As long as syncs did not overlap, what a finished sync leaves behind is  *)
(* what the links ask for: a core without links does not run, and one with  *)
(* links runs with their inbounds, or is about to read them, unless its     *)
(* start failed or it died.                                                 *)
SyncedIsRight ==
  ~lost /\ Quiet /\ ~stale =>
    \A c \in Cores \ failed :
      IF OfCore(c) = {} THEN ~is_running(c)
      ELSE /\ is_running(c)
           /\ proc[state[c]].st = "up" => proc[state[c]].serves = Wanted(c)
           /\ proc[state[c]].st = "starting" => cfg_file[c] = Wanted(c)

(* And the panel knows every process that serves: one per core.             *)
NoStray ==
  ~lost => \A p \in Procs :
    proc[p].st \in Serving =>
      /\ Owned(p)
      /\ \A q \in Procs : proc[q].st \in Serving /\ proc[q].core = proc[p].core => q = p
------------------------------------------------------------------------------
(* What the header of core_configs.py says, and overlapping syncs do not    *)
(* keep: on every change the configuration is written anew and the core     *)
(* restarted.                                                               *)
LastConfigRuns ==
  Quiet /\ ~stale =>
    \A c \in Cores \ failed :
      is_running(c) /\ proc[state[c]].st = "up" => proc[state[c]].serves = Wanted(c)
==============================================================================
