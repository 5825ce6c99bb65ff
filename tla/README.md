# RVG Gateway in TLA+

This directory holds TLA+ models of RVG Gateway (`src/`), the TLC configurations
that check them and theorems about them checked by TLAPS. RVG Gateway is a proxy
panel: one Python process (FastAPI on one asyncio event loop) serves the
dashboard and API, keeps the table of proxy links, opens their listeners, relays
their traffic while charging it to quotas, saves its tables to a file, talks to
other panels, and supervises the child processes of MTProto links and of external
cores.

`PROJECT.json` lists, for machines, what this file explains: components, runs,
mutants, the map from definitions to source lines, hazards, findings, theorems.

## 1. Inventory

| Component | State | Operations | Interacts with |
|---|---|---|---|
| Link table (`main.py`) | `LINKS`, `LINKS_LOCK` | create, update, delete, ad tag, import, default link | everything below reads it |
| Quota and tunnels (`protocol/{vless,trojan,shadowsocks}`) | `used_bytes`; per relay a `_QuotaGate` (`pending`, `batch_bytes`, `ok`) | `check_and_use`, `add`, `flush`; accept, first chunk, dial, two relays, teardown | link table, `schedule_save` |
| Ports (`port_manager.py`) | `_tcp_servers`, `_uvicorn_servers`, `port_errors`, two locks; the sockets of the machine | `sync_link`, `sync_all`, start/stop of both kinds, `_release_port_if_unused` | link handlers, boot, resync |
| MTProto (`mtproto_native.py`) | `_instances`, `_used_ports`, `_instances_lock`; the child processes | `start_instance`, `stop_instance`, `stop_all`, watcher, `_restart_mtproto_instances` | link handlers, import, boot |
| XHTTP (`protocol/{vless,trojan}/xhttp*`) | `xhttp_sessions`, session objects, their queue, pump task and TCP connection | packet-up, stream-up, downlink, `_teardown`, `_reaper` | connection list, gates |
| Persistence (`main.py`) | `rvg_state.json`, `SAVE_LOCK`, the flags of the debounce | `load_state`, `save_state`, `schedule_save`, shutdown | all tables |
| Sub groups (`main.py`) | `SUBS`, `sub_id` of a link | create, update, delete, assign | link handlers, nodes |
| Sessions and password (`main.py`) | `SESSIONS`, `AUTH["password_hash"]` | login, logout, change password, import | all API handlers |
| Nodes (`main.py`) | `NODES`, `NODE_KEYS`, `_NODE_CACHE` | keys, handshake, snapshot, connect, aggregate, proxied writes | another panel over HTTP |
| Cores (`core_manager.py`, `core_configs.py`) | `_state`, `_core_cfg_hash`, `config.json`; one child process per core | `_sync_cores`, `start_core`, `stop_core`, installation | link handlers, resync |
| VMess and Shadowsocks streams (`protocol/vmess`, `protocol/shadowsocks`) | per tunnel: chunk reader or AEAD stream (`buf`, `dec_nonce`), handler, two relay tasks | handshake, chunk reader and writer, relays, half-close, teardown | link table, gates |
| Zeus SOCKS5 (`zeussocks5.py`) | `zeus_proxy_state`, `_server`, `_creds`, `_connections_by_ip` | create, configure, delete, `_auto_delete`, `_handle_client`, `_pipe` | its own API |
| Updater (`updater.py`) | `update_state`, `version.txt`, the program's files | `perform_update`, restart | the worker that serves manifests; the process itself |
| Trojan's hash cache (`protocol/trojan/trojan.py`) | `_cache`, `_snapshot_len` | `find_uuid` | link table, Trojan handshakes |
| Central client, statistics, pages, installer, `telemt.py` | - | - | section 8 |

**What is hard here.** There is one thread, so nothing changes between two
awaits; every hazard sits at an await. `LINKS_LOCK`, `SUBS_LOCK`, `NODES_LOCK`,
`SESSIONS_LOCK` and `XHTTP_LOCK` are only held around code that does not await:
such sections are atomic in the models. `_tcp_lock`, `_uvi_lock`,
`_instances_lock` and `SAVE_LOCK` are held across awaits and are FIFO; taking a
free one does not suspend. Handlers read a table, await (a lock, a bind, a child
process, a destination, another panel) and then act on what they read; sessions
are looked up by id after the object of that id may have been replaced; entries
copied by reference change before they are written; the process can die anywhere,
and child processes, peers, other panels and other programs do as they please. The
`hazards` of `PROJECT.json` give each place and the properties aimed at it.

**What makes each component correct.**
* Billing: what passes is charged, up to one batch, and a disallowed link is cut.
* Ports: the registries tell what listens, no port has two owners, a rebuild rebuilds.
* MTProto: no process is lost while the program runs, and the advertised port is the real one.
* Trojan: the cache of hashes knows the links of the table.
* XHTTP: the uplink is in order; sessions end, are reaped and leave the list.
* Persistence: each entry of the file is a value the entry had since the save that
  wrote it began; every change is saved in the end; a confirmed password stays, unless the disk fails it.
* Sessions: none outlives the password it was opened with.
* Cores: one process per core, with the inbounds of its links.
* Nodes: the cache holds nothing older than what the peer has confirmed; one host is
  connected once.
* Streams: what precedes an end of stream arrives whole, a reply outlives its request,
  a refused link passes nothing, an ended stream ends its tunnel.
* Zeus: one server, which the credentials and the state name; no address is counted
  too high; the limit is kept to a chunk per pipe; a used-up proxy is deleted.
* Updater: the recorded version does not run ahead of the files; no update blocks the
  later ones.

## 2. Modules and how they correspond to the code

`MC*.tla` extends a specification with backups, views and symmetry for TLC; nothing in
a `.cfg` replaces a definition. Operators marked `Mutant:` are plausible bugs
used to show that the properties can fail; they are in no next-state relation.
Actions carry the name of their handler where one exists.

### Quota, Quota_proofs
`links` is the quota side of `LINKS`; `ok`, `pending`, `batch_bytes` are the
fields of the gates, one per tunnel and direction; `phase` and `running` are the
handler and its relay tasks. `RelayFrame` is one turn of a relay loop: read, `add`
(`AddBatches`, `AddGranted`, `AddRefused`), forward. `CancelOther` and `CloseTunnel`
are the code after `asyncio.wait(FIRST_COMPLETED)`, and of a session after the end of
its uplink: `_teardown` (`xhttp_core.py:257-284`) cancels the pump and no POST, so a
silent stream-up POST stays until its client goes (`Cancellable`). `unbilled` and `late` are
history variables, read by no guard: what a gate let through and did not charge,
and what it let through since its link stopped being allowed. The rate measured by
the adaptive batch is any number: the next batch is any value of its range.
VLESS, Trojan and Shadowsocks use this code or a copy of it; the map cites each.
`transport` tells tunnels from XHTTP sessions. A session is opened by its first POST
(`OpenSession`), for whatever uuid the URL names; the gate of its uplink belongs to it
and is fed by all its POSTs, the one of its downlink belongs to the pump
(`SessionConnected`). A stream-up POST flushes the gate when it ends (`PostEnds`), no
packet-up POST does (`NeverFlushed`).

### PortManager, Services_proofs
`tcp_lock` and `uvi_lock` are the queues of the coroutines at `_tcp_lock` and
`_uvi_lock` (head: the holder), `tcp_at`/`uvi_at` where the holder is. `sock` is
the operating system's view of a port. A raw TCP server is registered after it is
bound; an HTTP server before (`StartUvicorn`, then `ServeBinds`, then
`StartUvicornEnds`, which removes a dead one). A server that has neither bound nor
failed when its start looks at it stays registered (`late`) and binds or fails later
(`SlowServer`); one that is stopped before it has bound closes after it has
(`stopping`, `StoppedServer`). A stopped HTTP server keeps its socket a while (`dying`). `sync_all` is `SyncBegins` (the snapshot), `SyncPort` and
`SyncNextPhase`. `Restart` is a crash followed by `startup()`, which serves nothing
until `sync_all` is done (`booting`).

### Mtproto, Mtproto_proofs
A record of `task` is a coroutine of the panel that stops and starts instances:
`op` is what was asked for, `at` its await. `AfterStop`, `AfterStart`,
`StopChangesTable` and `StartChangesTable` are what each caller does when
`stop_instance` and `start_instance` return. `start_instance` is `StartBegins`,
`Prepare` (binary, configuration, `allocate_port_async`), `Spawn`, `Verify`, all with
the lock; `stop_instance` is `StopBegins` (lock) and `StopEnds` (no lock).
`WatcherRuns` is the end of `_watch_process`. A free `proc` may be reused. A restart of
the service kills all processes (`Reboot`); the exec that ends an update does not
(`Reexec`): the processes live on as orphans, which hold their ports and are in no table.
A PATCH that is refused after it has assigned `active` is `set_active_refused`; the
history field `refused` remembers it until the link's instance is started again.

### XhttpSession, XhttpSession_proofs
`table` maps ids to session objects, `sess` are the objects, which handlers (`post`),
pumps (`conn[c].sess`) and teardowns (`tear`) keep referring to after the table has
dropped them. A teardown pops, cancels and awaits the pump (`at = "task"`), closes
and awaits the writer (`"closing"`), then clears the list entry and queues the
end-of-stream sentinel. A pump tears down by id in its `finally`. `sent` is what
went out on a connection. VLESS and Trojan have two copies of this engine which
differ in constants and in the response prefix; the map cites either. The MC
module's `VIEW` identifies objects that nobody refers to with fresh ones.

### Persistence, Durable, Persistence_proofs
`mem` holds the saved tables, entry by entry: a link is its group and a version, a
group its list of links, the password a version. `save_state` takes three steps for
the head of the queue at `SAVE_LOCK` (`lock`): `SaveBegins` copies the tables, whose
entries are references (`shared`); handlers change entries in place, so `SaveOpens`
(the temporary file is open, `json.dumps`) writes what the entries hold by then
(`Content`), unless they were taken out of the table, which freezes their value in
`copy`; `SaveEnds` is `tmp.replace`, `SaveFails` a disk error. `debounce` and `again`
are the loop of `schedule_save`. Handlers that await in their middle (MTProto links,
change of password, import) are records of `work`; the others are one step and end
by spawning a save (`SpawnSave`). A change of password and an import are past their
authentication when they begin to wait for their body (an import also for the MTProto
instances to stop): `PasswordChanges` and `ImportReplaces` open the handler's session
again if it was closed meanwhile. A caller of `save_state` does not learn of an error, so
`SaveFails` confirms a password as `SaveEnds` does (`Confirms`). `Restart` is a crash or an exec, `load_state` and
`ensure_default_link`. `since`, `unsaved`, `acked` and `lost` are history; `lost` is the newest
confirmed password that the disk has failed, at its save or when the file was read.

`Durable` is the promise: each entry of the file is a regular register. A commit
writes, for each entry, a value the entry had since the save began; a start takes the
file's values or, if it cannot be read, none. `ImplementsDurable` is
`Promise!Spec` with `Promise == INSTANCE Durable WITH disk <- file, Default <-
{DefaultUid}`; the other variables have the same names.

### Trojan
`links` is the table as `find_uuid` and `is_link_allowed` see it, `cache` and
`snapshot_len` the fields of `_TrojanHashCache`; a hash stands for its uuid. `FirstFrame`
is a WebSocket tunnel up to its entry in `connections`, `SessionHeader` the header of an
XHTTP session; both first let `find_uuid` rebuild the cache, which it does when the
number of links has changed (`Known`).

### CoreSync, CoreSync_proofs
A record of `sync` is a coroutine of `_sync_cores`: `SyncBegins` takes the snapshot of
the links, `SyncCore` writes `cfg_file`, compares it with `cfg_hash` and decides, then
installation, stop and start are its awaits (`Installed`, `Stopped`, `Spawns`,
`Settles`). `state` is `_state`, `proc` the children, which start, read their
configuration (`ProcBinds`), die and take their time to do so. Between two cores a
sync does not await, so `Next` gives it its turn first. `lost` records that two syncs
overlapped or processes outlived the panel, `stale` that the links changed and no sync
was asked for (an import), `failed` which cores did not start or died.

### NodeLink, NodeLink_proofs
`node_keys` and `version` belong to the peers, `nodes` and `cache` to this panel. A
`job` is a request: gathered (the nodes to ask were listed), sent, authorised (the
peer's `require_node_key` has passed and its body is awaited), answered; it may time out at any of
them, so a write may have been applied though the panel reports a failure. An answer
that was under way when `_NODE_CACHE` was cleared is `late`; `twin` marks nodes that
were added while another connect to the host was under way. The MC module's `VIEW`
drops the content of late entries, which no property reads, and what a revoked key
may do.

### Tunnel, VmessTunnel, ShadowsocksTunnel, Streams, Streams_proofs
`Tunnel` has what the four listeners share: the peers, the handler (`pc`), the two
relay tasks (`up`, `down`). A client's stream is a sequence of cells: 2i-1 is the
sealed length of chunk i, 2i its payload. `VmessTunnel` is `handle_vmess_stream` with
`BodyReader` (one cell at a time, however the bytes arrive) and `BodyWriter`, each
chunk charged by itself. `ShadowsocksTunnel` has the handshake that tries every
prefix, `feed` and `try_decrypt_chunks` with the receive counter, and both relays;
over TCP a finished uplink lets the downlink go on (`linger`), over WebSocket it ends
the tunnel. `Streams` composes them: each tunnel is one of the four.

### Zeus, Services_proofs
`state`, `cfg`, `counts`, `creds` and `server` are the module's globals, which the
coroutines of old and new proxies share. `task` are the operations (calls of the API, and the
`_auto_delete` each leaving client may spawn), with their two awaits: `wait_closed` of
the old server (`waits`: on Python 3.12 it waits for the transports of its clients,
before it waits for nothing) and the bind of the new one. `client[c].srv` is the server
the client's transport is attached to: `Disconnects` takes it away, the handler goes on
(it may be in `open_connection` or in a `drain` towards the target) and its `finally`
still lowers a count. `outlived` records that such a handler was there when the counts
were cleared. `client` has its two pipes, which look at the limit before
they write and count after the drain. `overlapped` records that a creation ran beside
another operation, `allowance` how far the traffic had come when the limit changed.

### Updater, Services_proofs
An `update` goes through the manifest, the files one by one, and `version.txt`; the
worker may publish meanwhile, a download may fail, and the process may die anywhere
(`Crash`). Files with a hash in the manifest are only replaced by that content.
`overlapping` records that two updates ran side by side.

The modules share no state beyond the link table, of which each keeps the fields it
reads, with every handler that changes them. They are composed by that table only
in the code as well: quota never looks at listeners, listeners never at sessions.
The runs put two components into one module where they share nothing, so that a
behaviour is of one of the two: `MCListeners` Zeus and PortManager, `MCCrashes` Mtproto and
Updater, `MCStreamsSaves` Streams and Persistence. PortManager and Mtproto, which both take ports of the machine, see in each other
one more program that may do so (`OtherProgram`, `Foreign`).

## 3. Runs

Bounds are the constants of each `.cfg`. A run takes from seconds to three minutes.
Symmetry is used where the configuration says so: in runs without liveness, and in
`listeners` under permutations of links, which the component of the liveness property
(Zeus) has none of.

| Run | Instance | Shows |
|---|---|---|
| `quota` | 1 link, a tunnel and a session of either mode (4 gates), batch 2, frames 1..2, limits 0 and 2 | `TypeOK`, `UnbilledBounded`, `EndedMeansBilled`, `LateTrafficBounded`, `OvershootBounded`; with fairness `OneSideEndsBoth`, `BusyTunnelIsAllowed` |
| `mtproto` | 1 link, 2 ports, 2 coroutines, 3 processes (orphans of an exec included) | `TypeOK`, `NoLostProcess`, `UsedPortsCover`, `AdvertisedPort` |
| `crashes` | Mtproto: 1 link, 1 port, 2 coroutines, 3 processes. Updater: 2 updates, 2 files (1 with a hash), versions 0..2 | with fairness `CrashIsNoticed`, `OperationsEnd`; `VersionNotAhead`, with fairness `FlagIsCleared` |
| `xhttp_packet` | 1 id, 2 packet-up POSTs at a time, packets 0..2, 2 connections | `UplinkInOrder` |
| `xhttp_ends` | 1 id, 2 objects, 1 connection, POSTs of both modes, GET, pump, reaper | `ListIsTrue`; with fairness `TeardownsEnd`, `IdleIsReaped`, `DownlinkEnds` |
| `persistence` | default link and one more, 1 group, 2 sessions, 2 handlers in an await, 2 changes, 1 restart | `PasswordDurable`, `SessionsOfCurrentPassword`, the refinement `ImplementsDurable` |
| `cores` | 2 links (one of a protocol its core does not serve), both cores, 2 syncs, 3 processes | `SyncedIsRight`, `NoStray` |
| `nodes` | 2 nodes, 1 host, 1 key, 2 requests, 1 write | `CacheIsCurrent`, `OneNodePerHost` |
| `streams_saves` | Streams: 1 tunnel of any of the 4 listeners, 3 chunks, 3 replies, 2 of which fit a chunk. Persistence: as in `persistence` with 1 session and 1 handler | `ReplyOutlivesRequest`, `NothingLostBeforeEof`, `FailsOnlyOnSplit`, `RefusedPassesNothing`; with fairness `EndedStreamEndsTunnel`; with fairness `ChangesReachDisk` |
| `streams_split` | Streams alone, its Shadowsocks listeners | violation of `SplitsAreHarmless` (below) |
| `trojan_cache` | 3 links | violation of `ListedIsFound` (below) |
| `listeners` | Zeus: 1 API call and the automatic deletions, 2 clients of one address, 2 configurations, 2 servers, traffic 2. PortManager: 2 links, 1 port, 2 coroutines per lock | `CountsNeverHigh`, `CountsExact`, `TrafficBounded`, `OneProxy`, with fairness `UsedUpIsDeleted`; `RegistryMatchesSockets`, `SyncRebuilds` |

`persistence` does not check deadlock: a panel that was stopped, and has used up its
restarts, stays stopped (`streams_saves` has a stutter for that, `StaysDown`).

**Why the bounds are enough.** The races need two actors on one object: two gates
on a link, two coroutines at a lock, two links for one port, two objects of one id,
two syncs, two requests to a peer; and a third actor that is always there (crash, other
program, reaper, restart). Two batches' worth of bytes reach every branch of a gate
(batches of several sizes are covered by the theorems of section 5); a queue of one
place is empty, full and overflowing; three packets are the least that leave a gap and
fill it; three chunks have a first, a middle and a last one, and each may be split.
In `persistence` two changes, one of them during each step of a save, give every
mixture of old and new entries, and two handlers and sessions let one handler close the
session of another that is past its authentication; the theorems lift the bounds. Debouncing
is a loop of its own, for which one handler beside it is enough (`streams_saves`). In `mtproto` a
third process lets two coroutines start instances beside an orphan. The counters that would
grow without bound are guarded (`MaxUsed`, `MaxJobs`, `MaxSeq`, `MaxChanges`,
`MaxBoots`, `MaxWrites`, `MaxChunks`, `MaxReplies`, `MaxServers`, `MaxVersion`, and the
finite sets of coroutines, processes, objects and connections): a step that would exceed
a bound is not taken, so a bound hides no illegal state it can reach.

### Known divergences

`streams_split` expects a violation. `_AEADStream` claims to decode a stream
(`shadowsocks.py:83`), but `try_decrypt_chunks` advances the receive counter at the
length of a chunk (line 151) and leaves the length in the buffer when the payload is
not all there: the next call opens the length again with the wrong counter, and the
tunnel closes. `FailsOnlyOnSplit` shows that nothing else fails it.

`trojan_cache` expects a violation. The docstring of `_TrojanHashCache` asks for a new
table whenever a link is added or removed (`trojan.py:47`); `find_uuid` makes one when the
number of links has changed. After a delete and a create, or an import of as many links,
clients of a listed link are refused until the number changes again.

Six formulas state what comments or the README say of the program and the code does
not keep. They are in the modules and in no run; added to the module's configuration as
INVARIANT or, the action formulas, as PROPERTY, they show the counterexample:

| Formula | What happens |
|---|---|
| `PortManager!ReleaseSparesNeeded` | a deleted link's port is released after a check that is old when it acts: a new link loses its listener (`main.py:2297`, against the comment at 2253) |
| `PortManager!ListenersFollowLinks` | an import opens no listeners; moved or deactivated links keep theirs (`README.md:108`) |
| `Mtproto!InstanceHasLink` | a port edit restarts the instance of a link deleted meanwhile (`mtproto_native.py:9`) |
| `XhttpSession!OpenIsReapable` | a session torn down during `open_connection` gets its connection afterwards, and no time-out applies to it (`xhttp_core.py:41`, 374) |
| `XhttpSession!PumpClosesDead` | the pump of such a connection closes a newer session of the same id (`xhttp_core.py:353`) |
| `CoreSync!LastConfigRuns` | of two overlapping syncs the older starts its configuration last, under the hash of the newer (`core_configs.py:5`) |

Others that the models show:
* Ports: a resync after an import keeps a TCP server that was started for another
  link's uuid (`port_manager.py:123`), so `SyncRebuilds` asks for the owner at boot only.
  A uvicorn server that neither listens nor has failed 0.6 s after its start stays in the
  registry, for good if it fails then (`port_manager.py:94-99`); `RegistryMatchesSockets`
  excepts it (`late`).
* MTProto: two links can be given one port while a create is starting its process
  (`main.py:1969`, against the docstring at 1817); `stop_all` leaves an instance that was
  being started when it made its list (`main.py:1395`); an instance that failed to start at
  boot is not tried again; a link that an import brings back inactive can keep such an
  instance, on a port of its own (`AdvertisedPort` is of active links). The exec of an update
  (`main.py:3108`) leaves the processes running with an empty `_instances`: no program knows
  them any more, and the starts of links with a fixed port fail while they live
  (`NoLostProcess` is of the processes the running program has started). A PATCH assigns
  `active` (`main.py:2059`) before it may be refused (2083-2105): an active link that nothing
  has started, or one that advertises a port nobody serves, or an inactive one whose instance
  runs (`AdvertisedPort` excepts a link that was left active so).
* Quota: an XHTTP session loses what is pending in its packet-up gate when it ends, and
  is opened without a look at the link: both are bounded by one batch per session.
* XHTTP: overlapping stream-up POSTs share a writer (against `xhttpstreamup.py:8-9`); the
  reaper closes a session that became active after it made its list (`xhttp_core.py:303`);
  a stream-up POST whose client is silent stays after its session was torn down, until the
  client sends or goes (`xhttp_core.py:257-284`).
* Persistence: an `update_link` that is refused keeps the fields it had assigned, unsaved
  (`main.py:2083`); `save_state` keeps its errors to itself (207-208), so a change of password
  that did not reach the disk is answered with ok (1345-1347) and undone by a restart
  (`PasswordDurable` excepts it, `lost`); an import or a change of password whose session was
  closed while it waited for its body opens it again (1344, 1424-1430), with the password it
  sets; a state file that cannot be read counts as none and is then replaced.
* Cores: processes outlive the exec of an update, and the new panel starts others.
* VMess: the handshake has no timeout though one is logged (`tunnel.py:204`); an empty
  WebSocket message is taken for the end of the stream; a request with padding but
  without masking makes the writer raise.
* Shadowsocks: a reply read of more than 65535 bytes makes `encrypt_chunk` raise; over TCP a
  reply is cut 300 s after the end of its request, also while it flows
  (`tcp_server.py:171-177`), which `ReplyOutlivesRequest` names among its exceptions.
* Zeus: a creation beside another operation can leave a server that nothing names, or
  a running one without credentials; on Python 3.12.1 and later a delete may wait for
  ever for a client that does not finish its greeting, on earlier ones clients that
  survive it are no longer counted. On none does it wait for handlers: one whose transport is
  gone, and which still dials its target (`zeussocks5.py:198-201`) or drains towards it (107),
  lowers the count of the next proxy's clients when it ends (224), so that the limit of an
  address can be passed (`CountsExact` excepts it, `outlived`). A `drain` has no timeout: a
  peer that stops reading holds its handler for ever, and with it the deletion that this
  handler would have started.
* Updater: two requests can start two updates; files that failed are reported, and
  `version.txt` is written nevertheless.

## 4. Fairness

The event loop is FIFO over ready callbacks, so a coroutine whose await is over runs:
weak fairness of every continuation. Beyond that:
* Quota: only of the handler that saw one relay end, and of the relay it cancels, which
  of an XHTTP session can only be the pump. Frames, clients with their POSTs, servers and
  the administrator owe nothing: a silent POST is not assumed to end.
* PortManager: `start_server`, `wait_closed` and the uvicorn task come to an end. On
  Python versions where `wait_closed` waits for clients this is an assumption (hazard
  at `port_manager.py:156`). No property of the runs depends on it.
* Mtproto: a process sent SIGTERM, then SIGKILL, dies. Unprompted deaths are not fair.
* XhttpSession: the reaper wakes every ten seconds; `wait_closed` of a closed connection
  returns; a client that stays reads its response. Clients, destinations and the
  arrival of idleness are not fair. `DownlinkEnds` excepts a session whose sentinel was
  dropped because the queue was full (`xhttp_core.py:281`): there the GET can hang.
* Persistence (`streams_saves`): a save goes on, the pause of the debounce ends, handlers come back from
  their awaits. A disk error may come at any save: `ChangesReachDisk` excepts what such
  an error leaves behind (`unsaved`), since nothing in the code tries again.
* Streams: the relay tasks and the waiting handler run, read timeouts fire. Peers and
  the user of the panel owe nothing.
* Zeus: a pipe that reads gets data or its idle timer fires; handlers and the deletions they
  spawn run. Nothing makes a client finish its greeting, a peer read what was written to it
  (`await writer.drain()` has no timeout), or anybody call the API: `UsedUpIsDeleted` assumes
  of its client, in the formula itself, that neither pipe stays in a drain for ever.
* Updater: downloads have timeouts, the task runs.
* CoreSync and NodeLink: safety only.

## 5. Theorems

Each theorem holds for all values of the constants that the module's named assumption
allows. Every proof has the same shape: the initial states satisfy an inductive
invariant (mostly named `IInv`), every action preserves it (a lemma per group of actions), and it
implies the property; the temporal step combines the three.

**`Quota_proofs`**, for every set of links, tunnels, limits and backups and every batch
and frame size of `QuotaAssumption` (the minimum batch is positive, minimum <= start <=
maximum): `TypeCorrect` (`TypeOK`), `BillingWithinOneBatch` (`UnbilledBounded`),
`EndedRelaysAreBilled` (`EndedMeansBilled`), `LateTrafficWithinOneBatch`
(`LateTrafficBounded`), `OvershootWithinOneBatch` (`OvershootBounded`).
The properties are not inductive: that a gate has less than a batch unbilled follows
only from `unbilled = pending` for a gate that was not refused and `pending < batch_bytes`,
and that late traffic is bounded from `late <= pending`. `IInv == TypeOK /\ GateInv /\
AllowedInv` adds this, and that a gate of an allowed link has no late traffic, and that one
that is not used yet is as new. `CheckAndUseFacts` says what a settlement does to the
table: one allowed link's usage rises, and nothing becomes allowed; `OvershootBounded`
follows from the settled amount being below a batch plus a frame.

**`Mtproto_proofs`**, for any number of links, ports, coroutines and processes:
`TypeCorrect` (`TypeOK`), `UsedPortsCoverInstances` (`UsedPortsCover`), `ProcessesAreKnown`
(`NoLostProcess`), `AdvertisedPortsAreReal` (`AdvertisedPort`). `IInv` says that a
coroutine inside a start holds the lock (so only one start is under way), that its
operation fits the place it is at, that an empty entry has no port, and that the port it
chose is not in use meanwhile, though stops, crashes and watchers go on freeing other
ports. `ProcInv` adds that a registered process is not reaped and no orphan, that one being
verified is not registered yet, and that a start got past its first check only because no process
of the uid runs: what it registers replaces no process. `ProcessesAreKnown` speaks of the processes that the
running program has started; the exec of an update makes those there are orphans. `PortInv`
strengthens `AdvertisedPort`, which excepts links left active by a refused PATCH, from "no coroutine is busy with the link" to "none will yet write its port"
(`WillRecord`: the coroutine that activates it, a restart that has it among its targets).
The run has one link; that two instances never share a port is what the theorems add.

**`Persistence_proofs`**, for any number of links, groups, sessions, waiting handlers,
changes and restarts:
* `SessionsFollowPassword`: `Spec => []SessionsOfCurrentPassword`.
* `FileIsRegister`: `Spec => ImplementsDurable`, the refinement. Initial states map to
  initial states; each action maps to `Change`, `Begin`, `Commit`, `Abandon`, `Start` or a
  stutter. The strengthening (`SaveInv`) is that while a save is under way `since` holds the
  memory's value of every entry, and the copy's value of every entry that is no
  longer shared: what the save will write, whether frozen or still a reference, is a
  value of its own time.
* `ConfirmedPasswordsStay`: `Spec => []PasswordDurable`. `PasswordInv` says that password
  versions only grow and none is above the number of changes, so that the file's is never
  above the memory's; and (`QueueInv`) that a handler that will confirm version v queued
  its save after the change, waits for it, and is in the queue once: when its save
  commits, what is written is at least v. A save that fails confirms too, and raises `lost` to
  v: of newer passwords than `lost` the file has the one confirmed.

**`Streams_proofs`**, for any number of tunnels and any bounds: `RepliesOutliveRequests`
(`ReplyOutlivesRequest`), `StreamsArriveWhole` (`NothingLostBeforeEof`), `DecoderFailsOnlyOnSplit`
(`FailsOnlyOnSplit`), `RefusedLinksPassNothing` (`RefusedPassesNothing`). `ReaderInv` relates
the counters: VMess has taken exactly what it was fed and passed half of it on; in
Shadowsocks the receive counter is the number of cells fed, an even number of them is
taken, and the decoder lags by one cell at most. `ReplyInv` and `EofInv` are the
properties per tunnel, `EndInv` what an end of the client means for its transport, and that
only a TCP Shadowsocks tunnel whose uplink is over lingers. `RefusedLinksPassNothing` is of
every step taken while the link is refused, and of a direction that was refused also after
that.

**`Services_proofs`** has three parts, as PortManager, Zeus and Updater share nothing.

PortManager, for any links, ports, backups and length of the lock queues:
* `RegistriesTellTheTruth` (`RegistryMatchesSockets`). `PortsInv` adds to the property that
  who is past the first await of a uvicorn start (`uvi_at` in `await`, `bound`, `died`) is the
  head of the queue, with a registered port that is this process's exactly when it is
  `bound` (`UviHolder`); that a server which was slower than its start's wait is registered and
  has not bound (`SlowServers`); and that a TCP listener is only ever started for a link (`TcpJob`,
  `SyncStarts`), for a server registered for nobody would be none. The steps that start or
  stop nothing only lengthen queues, whose heads stay (`OnlyQueues`).
* `SyncAlwaysRebuilds` (`SyncRebuilds`, an action property of the step that ends the last
  phase). `CalmInv` says that no two links share a dedicated port, that a lock nobody holds
  is at its beginning, that beside a `sync_all` nothing overlaps there is one coroutine at
  most, its own (`SyncAlone`), and what each phase has done and has still to do
  (`SyncDone`): a listener that is not wanted is in `todo` or being stopped, one that is
  wanted is in `todo`, being started, there or in `port_errors`. Distinct ports are needed
  since an HTTP start clears the error record of its port (`OneWant`): were the port a TCP
  link's as well, the record of that one's failure would go with it.

Zeus, for any finite number of clients, any addresses, calls and limits:
* `OneProxyAtATime` (`OneProxy`). `ZeusInv` describes the moments between operations as
  well as those inside one: while a creation is under way the record is empty and the
  credentials are those of the server it makes (`CreationFits`); a deletion waits for the server
  that is recorded or for one another deletion has already forgotten (`DeletionFits`);
  otherwise state, credentials and server agree (`Linked`).
* `CountsAreExact` (`CountsExact`). If closing waits for the clients, every client with a
  transport is at the server there is, or at the one being made (`ClientsAtServer`): when the
  counters are cleared nobody is left to count (`NobodyAtServer`) but handlers that have
  outlived their transports, which the property excepts. The count of an address is the
  cardinality of its open tunnels, which one client raises or lowers by one.
* `AddressesAreNotLockedOut` (`CountsNeverHigh`), by itself inductive over the same
  cardinalities, without any condition on waits or overlaps.
* `TrafficNearLimit` (`TrafficBounded`): the bytes used and the chunks written and not
  counted (a cardinality over clients and their two pipes) against where the limit
  or the last change of it was; a pipe that writes has just seen the limit not reached.

Updater, for any set of files and updates (`VersionFollowsFiles`: `VersionNotAhead`).
`UnderWay` says that every file of an update is left, written, failed or
on its way, that what was written is as new as the update's target, and that the target
was published before any of its files came; outside of overlaps one update is under way.

**`NodeLink_proofs`**, for any number of nodes, panels, keys and requests:
`CacheIsAlwaysCurrent` (`CacheIsCurrent`) and `AlwaysOneNodePerHost` (`OneNodePerHost`), and
the types. Of the requests under way the invariant says what their answers will make
true: a fetch whose cache was not cleared is of a node that is there, asks for what it
shares, and holds every confirmed write once it is answered (`FetchIsCurrent`, which rests
on `ConfirmedIsApplied`: a peer has applied what it confirms); a connect that is not marked
as overlapping is alone, and its panel not connected (`ConnectIsAlone`). Every handler that
clears the cache is one use of `ClearsPreserves`: no fetch is then held to anything. The
assumption on backups, `BackupsAssumption`, is that a backup was exported by a panel for
which the invariant held.

**`CoreSync_proofs`**, for any links, syncs, processes and order of the cores:
`FinishedSyncIsRight` (`SyncedIsRight`) and `NoStrayProcess` (`NoStray`), and the types. While no
syncs overlapped (`~lost`), one sync at most is at work (`Alone`), and `Good` follows it from
core to core: until its turn, a core's list is the links as they are (`SnapOK`, unless
another sync was asked for or an import passed the syncs by); during it, the file holds
what the list asks for and no process is recorded (`SyncOK`); after it, the core runs with a
hash of what its links ask for or not at all (`Right`). `StateOK` ties the hash to what the
process serves, or will read; the one moment when it does not hold, between the writing
of the file and the end of the old process, is named in it, and a failed installation
then leaves the core in `failed`. `Known` is `NoStray` with the process that is being
settled. `Moves` and `StepPreserves` factor out what every step of a sync shares,
`OtherCores` that it leaves the other core alone.

**`XhttpSession_proofs`**, for any ids, sessions, connections, handlers, packet numbers and
queue limits: `TypeCorrect` (`TypeOK`), `ListAlwaysTrue` (`ListIsTrue`) and, if every upload is
packet-up, `UplinkAlwaysInOrder` (`UplinkInOrder`). `Refs` says who may refer to a session: one
in the table has that id and is in no teardown, a teardown is of a session with a
connection and its caller has nothing else to do, a session somebody refers to (`Held`) has
an id, and its writer belongs to it. `SoftStep`, `TeardownStep`, `GetStep` and `OpenedStep`
are the only ways in which references change; every action is one of them. `Uplink` is
`UplinkInOrder` itself with the modes of the POSTs: that a write goes to a connection no
other session writes to is what it needs from `Refs`. That the scan of the buffer finds a
number at all (`NextMissing`) rests on the library's `WFMin`, the least element of a set of
numbers. `XhttpAssumption` says that handlers, pumps and the reaper are different tasks.
The proof of the uplink stops at packet-up because it must: with both modes on one
session a second connection starts at a packet that is not 0.

Only model-checked: liveness (fairness and `ENABLED` are out of the prover's reach). Every
invariant and every action property of a passing run is stated by a theorem.

## 6. What the models leave out

* Quota: statistics and hourly counters; a frame granted by `add` whose send fails
  counts as let through. Of XHTTP sessions: a POST that is still reading its body, or a
  connection still opening, when its session is torn down (XhttpSession has both); POSTs
  of both modes on one session.
* PortManager: bind and registration of a TCP server are one step; links on the
  panel's port are port 0; MTProto ports belong to Mtproto; at most one `sync_all`
  at a time; a restart finds the last table (Persistence says what it finds).
* Mtproto: the two start modes are one attempt; waiting for a stopped process's port
  is a delay without effect; the control port; an instance that is replaced before its
  watcher ran leaves its port in `_used_ports` (modelled) until the panel restarts;
  `listen_port` is not updated by the ad tag's fall-back port.
* XhttpSession: opening and the drain of the payload sent with the header are one
  await; one GET per session at a time; a cancelled pump is resumed before any
  connection is made; a drain's effect on the buffer.
* Persistence: settings, nodes and node keys are saved like the password and have no entry of their own; the
  expiry of sessions is a logout.
* CoreSync: an inbound is its link; the text of the configurations, downloads, logs; a
  sync's failure to write the file.
* NodeLink: one peer in the run; a snapshot is a version number and the parts it holds; the
  filtering inside a part; the panel's own role towards its clients.
* Streams: ciphers, key derivation, masks and padding lengths are data; the choice among
  several Shadowsocks links; the panel does not consult its replay filter; a client that
  stops reading.
* Zeus: the bytes of SOCKS5 are one step; the random password and the port's choice; a
  transport that outlives its handler, which only delays a deletion.
* Updater: the cached version display, the history file, the comparison of version texts.

## 7. Plan

What is left, in the order of its use:
1. Steps of the liveness arguments that are safety: which actions leave a waiting
   coroutine, request or sync where it is, as theorems beside the checked liveness.
2. In PortManager, a `sync_all` beside a second one: the model has one at a time, and the
   theorem says nothing of a sync that a handler overlaps.

## 8. Not modelled

Pages (`pages.py`: text), the installer and tests, `central.py` and the system statistics
(I/O without state others read), `telemt.py` (imported by nothing), link, subscription and
configuration formatting, header parsing of VLESS and Trojan (pure functions of one
message).
