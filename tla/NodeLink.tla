------------------------------ MODULE NodeLink -------------------------------
(***************************************************************************)
(* Linked panels.  A panel gives out keys (NODE_KEYS); another one, this   *)
(* module's own, connects to it with one (NODES), polls its snapshot       *)
(* through a cache, and forwards writes to it.  Every exchange is an HTTP  *)
(* request that may time out before or after the peer has acted on it.     *)
(***************************************************************************)
EXTENDS Naturals, FiniteSets

CONSTANTS
  Ids,        \* node ids
  Hosts,      \* the panels one can connect to
  Keys,       \* keys they give out
  KeyHost,    \* the panel written in each key
  NODE_SHARE_PARTS,  \* of which "links" holds what is written, and "logs" is not shared by default
  Jobs,       \* bound: requests under way
  MaxWrites,  \* bound: writes a panel takes
  Backups,    \* tables of nodes in this panel's backup files
  None, Deleted

DefaultShare == NODE_SHARE_PARTS \ {"logs"}

Node == [key : Keys, enabled : BOOLEAN, share : SUBSET NODE_SHARE_PARTS, twin : BOOLEAN]

ASSUME NodeLinkAssumption ==
  /\ KeyHost \in [Keys -> Hosts] /\ MaxWrites \in Nat
  /\ Backups \subseteq [Ids -> {None} \union Node]
  /\ "links" \in NODE_SHARE_PARTS
  /\ {None, Deleted} \intersect (Ids \union Keys) = {}

(* In the table t, see OneNodePerHost. *)
OnePerHost(t) ==
  \A i, n \in Ids :
    i # n /\ t[i] # None /\ t[n] # None /\ KeyHost[t[i].key] = KeyHost[t[n].key]
      => t[i].twin \/ t[n].twin

(* A backup file is what a panel exported. *)
ASSUME BackupsAssumption == \A t \in Backups : OnePerHost(t)

VARIABLES
  nodes,      \* NODES: key, enabled, share; twin: see OneNodePerHost
  cache,      \* _NODE_CACHE, the entries younger than NODE_CACHE_TTL
  job,        \* the requests to peers, and the coroutines that wait for them
  node_keys,  \* NODE_KEYS of the peers
  version,    \* how many writes each peer has applied
  confirmed   \* history: the latest one a peer has confirmed to this panel

vars == <<nodes, cache, job, node_keys, version, confirmed>>

NodeKey == [share : SUBSET NODE_SHARE_PARTS, can_manage : BOOLEAN, revoked : BOOLEAN]
Entry == [id : Ids, key : Keys, parts : SUBSET NODE_SHARE_PARTS,
          got : SUBSET NODE_SHARE_PARTS, version : 0..MaxWrites, late : BOOLEAN]

(* at: gathered, then sent, authorised and answered; waits: the panel still *)
(* listens for the answer; late: the cache was cleared since it began.      *)
IdleJob == [kind |-> None, at |-> "idle", id |-> None, key |-> None, parts |-> {}, got |-> {},
            version |-> 0, waits |-> FALSE, late |-> FALSE, twin |-> FALSE]
Job == [kind : {None, "fetch", "fresh", "write", "connect"},
        at : {"idle", "gathered", "sent", "authorised", "answered"},
        id : Ids \union {None}, key : Keys \union {None},
        parts : SUBSET NODE_SHARE_PARTS, got : SUBSET NODE_SHARE_PARTS,
        version : 0..MaxWrites, waits : BOOLEAN, late : BOOLEAN, twin : BOOLEAN]

TypeOK ==
  /\ nodes \in [Ids -> {None} \union Node]
  /\ cache \subseteq Entry
  /\ \A e, f \in cache : e.id = f.id /\ e.parts = f.parts => e = f
  /\ job \in [Jobs -> Job]
  /\ node_keys \in [Keys -> {None, Deleted} \union NodeKey]
  /\ version \in [Hosts -> 0..MaxWrites] /\ confirmed \in [Hosts -> 0..MaxWrites]

Init ==
  /\ nodes = [i \in Ids |-> None] /\ cache = {}
  /\ job = [j \in Jobs |-> IdleJob]
  /\ node_keys = [k \in Keys |-> None]
  /\ version = [h \in Hosts |-> 0] /\ confirmed = [h \in Hosts |-> 0]

Key(k) == node_keys[k] \notin {None, Deleted}
HostOf(i) == KeyHost[nodes[i].key]

(* No other coroutine and no entry speaks of node i. *)
FreshId(i) == nodes[i] = None /\ (\A j \in Jobs : job[j].id # i) /\ \A e \in cache : e.id # i

(* _NODE_CACHE.clear(), with the jobs J otherwise. *)
Clears(J) ==
  /\ cache' = {}
  /\ job' = [j \in Jobs |-> IF J[j].waits /\ J[j].kind \in {"fetch", "fresh"}
                            THEN [J[j] EXCEPT !.late = TRUE] ELSE J[j]]
------------------------------------------------------------------------------
(* The keys a peer gives out, by its own administrator. *)

create_node_key(k) ==
  /\ node_keys[k] = None
  /\ \E m \in BOOLEAN :
       node_keys' = [node_keys EXCEPT ![k] = [share |-> DefaultShare, can_manage |-> m,
                                              revoked |-> FALSE]]
  /\ UNCHANGED <<nodes, cache, job, version, confirmed>>

update_node_key(k) ==
  /\ Key(k)
  /\ \/ \E s \in SUBSET NODE_SHARE_PARTS : node_keys' = [node_keys EXCEPT ![k].share = s]
     \/ node_keys' = [node_keys EXCEPT ![k].can_manage = ~@]
     \/ node_keys' = [node_keys EXCEPT ![k].revoked = ~@]
  /\ UNCHANGED <<nodes, cache, job, version, confirmed>>

revoke_node_key(k) ==
  /\ Key(k)
  /\ node_keys' = [node_keys EXCEPT ![k] = Deleted]
  /\ UNCHANGED <<nodes, cache, job, version, confirmed>>
(* The peer imports a backup with a key that was deleted since.             *)
peer_import(k) ==
  /\ node_keys[k] = Deleted
  /\ node_keys' = [node_keys EXCEPT ![k] = [share |-> DefaultShare, can_manage |-> TRUE,
                                            revoked |-> FALSE]]
  /\ UNCHANGED <<nodes, cache, job, version, confirmed>>
------------------------------------------------------------------------------
(* The peer's side of a request. *)

(* A refusal changes nothing here: who waits for it reports it.             *)
Answers(j, ok) ==
  job' = [job EXCEPT ![j] = IF @.waits /\ ok THEN [@ EXCEPT !.at = "answered"] ELSE IdleJob]

require_node_key(k) == Key(k) /\ ~node_keys[k].revoked

(* The key is checked when the request comes, and what the key may do.      *)
Authorised(j) ==
  LET k == job[j].key IN
  /\ job[j].at = "sent" /\ job[j].kind \in {"write", "connect"}
  /\ IF require_node_key(k) /\ (job[j].kind = "write" => node_keys[k].can_manage)
     THEN job' = [job EXCEPT ![j].at = "authorised"]
     ELSE Answers(j, FALSE)
  /\ UNCHANGED <<nodes, cache, node_keys, version, confirmed>>

(* node_handshake, once its body is there: the password is the one the key  *)
(* asks for, or it asks for none; a key deleted by then asks for none.      *)
node_handshake(j, right) ==
  /\ job[j].at = "authorised" /\ job[j].kind = "connect"
  /\ Answers(j, Key(job[j].key) => right)
  /\ UNCHANGED <<nodes, cache, node_keys, version, confirmed>>

(* node_update_link and the others, and the handler that each of them calls. *)
node_write(j) ==
  LET h == KeyHost[job[j].key] IN
  /\ job[j].at = "authorised" /\ job[j].kind = "write"
  /\ version[h] < MaxWrites
  /\ version' = [version EXCEPT ![h] = @ + 1]
  /\ job' = [job EXCEPT ![j] =
               IF @.waits THEN [@ EXCEPT !.at = "answered", !.version = version[h] + 1]
               ELSE IdleJob]
  /\ UNCHANGED <<nodes, cache, node_keys, confirmed>>

(* The handler refuses what is asked (a link that is gone, a bad value). *)
node_write_refused(j) ==
  /\ job[j].at = "authorised" /\ job[j].kind = "write"
  /\ Answers(j, FALSE)
  /\ UNCHANGED <<nodes, cache, node_keys, version, confirmed>>

node_snapshot(j) ==
  LET k == job[j].key IN
  /\ job[j].at = "sent" /\ job[j].kind \in {"fetch", "fresh"}
  /\ IF require_node_key(k) /\ job[j].waits
     THEN job' = [job EXCEPT ![j].at = "answered",
                             ![j].got = job[j].parts \intersect node_keys[k].share,
                             ![j].version = version[KeyHost[k]]]
     ELSE Answers(j, FALSE)
  /\ UNCHANGED <<nodes, cache, node_keys, version, confirmed>>

(* The request is lost, or the answer, or it is too late: the panel gives   *)
(* up, and the peer may act all the same.                                   *)
TimesOut(j) ==
  /\ job[j].waits /\ job[j].at \in {"sent", "authorised", "answered"}
  /\ \/ job' = [job EXCEPT ![j] = IdleJob]
     \/ /\ job[j].at # "answered" /\ job[j].kind = "write"
        /\ job' = [job EXCEPT ![j].waits = FALSE, ![j].id = None]
  /\ UNCHANGED <<nodes, cache, node_keys, version, confirmed>>
------------------------------------------------------------------------------
(* connect_node, update_node, disconnect_node *)

(* Mutant: whether the panel is connected already is not looked at. *)
ConnectUnchecked(j, k) ==
  /\ job[j].at = "idle" /\ node_keys[k] # None
  /\ job' = [job EXCEPT ![j] = [IdleJob EXCEPT !.kind = "connect", !.at = "sent", !.key = k,
                                               !.waits = TRUE]]
  /\ UNCHANGED <<nodes, cache, node_keys, version, confirmed>>

Connecting(j, h) == job[j].kind = "connect" /\ job[j].waits /\ KeyHost[job[j].key] = h

connect_node(j, k) ==
  LET h == KeyHost[k]
      others == {x \in Jobs : Connecting(x, h)}
  IN
  /\ job[j].at = "idle" /\ node_keys[k] # None
  /\ \A i \in Ids : nodes[i] # None => HostOf(i) # h
  /\ job' = [x \in Jobs |->
               IF x = j THEN [IdleJob EXCEPT !.kind = "connect", !.at = "sent", !.key = k,
                                             !.waits = TRUE, !.twin = others # {}]
               ELSE IF x \in others THEN [job[x] EXCEPT !.twin = TRUE] ELSE job[x]]
  /\ UNCHANGED <<nodes, cache, node_keys, version, confirmed>>

Connected(j) ==
  /\ job[j].at = "answered" /\ job[j].kind = "connect"
  /\ \E i \in Ids :
       /\ FreshId(i)
       /\ nodes' = [nodes EXCEPT ![i] = [key |-> job[j].key, enabled |-> TRUE,
                                         share |-> DefaultShare, twin |-> job[j].twin]]
  /\ Clears([job EXCEPT ![j] = IdleJob])
  /\ UNCHANGED <<node_keys, version, confirmed>>

update_node(i) ==
  /\ nodes[i] # None
  /\ \/ nodes' = [nodes EXCEPT ![i].enabled = ~@]
     \/ \E s \in SUBSET NODE_SHARE_PARTS : nodes' = [nodes EXCEPT ![i].share = s]
  /\ Clears(job)
  /\ UNCHANGED <<node_keys, version, confirmed>>

disconnect_node(i) ==
  /\ nodes[i] # None
  /\ nodes' = [nodes EXCEPT ![i] = None]
  /\ Clears(job)
  /\ UNCHANGED <<node_keys, version, confirmed>>
backup_import ==
  /\ nodes' \in Backups
  /\ Clears([j \in Jobs |-> IF job[j].kind = "connect" THEN [job[j] EXCEPT !.twin = TRUE] ELSE job[j]])
  /\ UNCHANGED <<node_keys, version, confirmed>>
------------------------------------------------------------------------------
(* _fetch_node_snapshot.  nodes_aggregate fetches the enabled nodes through *)
(* the cache, sub_group_subscription those it needs, afresh; both from a    *)
(* copy of NODES whose share parts are NODES' own.                          *)

Gathers(j, i, kind) ==
  /\ job[j].at = "idle" /\ nodes[i] # None
  /\ kind = "fetch" => nodes[i].enabled
  /\ job' = [job EXCEPT ![j] = [IdleJob EXCEPT !.kind = kind, !.at = "gathered", !.id = i,
                                  !.key = nodes[i].key, !.parts = nodes[i].share, !.waits = TRUE]]
  /\ UNCHANGED <<nodes, cache, node_keys, version, confirmed>>

nodes_aggregate(j, i) == Gathers(j, i, "fetch")
sub_group_subscription(j, i) == Gathers(j, i, "fresh")

FetchBegins(j) ==
  LET i == job[j].id
      parts == IF nodes[i] = None THEN job[j].parts ELSE nodes[i].share
      cached == \E e \in cache : e.id = i /\ e.parts = parts
  IN
  /\ job[j].at = "gathered"
  /\ job' = [job EXCEPT ![j] = IF parts = {} \/ (cached /\ job[j].kind = "fetch") THEN IdleJob
                               ELSE [@ EXCEPT !.at = "sent", !.parts = parts]]
  /\ UNCHANGED <<nodes, cache, node_keys, version, confirmed>>

FetchEnds(j) ==
  LET i == job[j].id
      old == {e \in cache : e.id = i /\ e.parts = job[j].parts}
      new == [id |-> i, key |-> job[j].key, parts |-> job[j].parts, got |-> job[j].got,
              version |-> job[j].version, late |-> job[j].late]
  IN
  /\ job[j].at = "answered" /\ job[j].kind \in {"fetch", "fresh"}
  /\ cache' = (cache \ old) \union {new}
  /\ job' = [job EXCEPT ![j] = IdleJob]
  /\ UNCHANGED <<nodes, node_keys, version, confirmed>>

(* NODE_CACHE_TTL has passed since the answer came. *)
CacheAges(e) ==
  /\ cache' = cache \ {e}
  /\ UNCHANGED <<nodes, job, node_keys, version, confirmed>>
------------------------------------------------------------------------------
(* _proxy_node_link_write and its like *)

proxy_write(j, i) ==
  /\ job[j].at = "idle" /\ nodes[i] # None
  /\ job' = [job EXCEPT ![j] = [IdleJob EXCEPT !.kind = "write", !.at = "sent", !.id = i,
                                               !.key = nodes[i].key, !.waits = TRUE]]
  /\ UNCHANGED <<nodes, cache, node_keys, version, confirmed>>

(* Mutant: the cache is left as it is. *)
WriteEndsCached(j) ==
  LET h == KeyHost[job[j].key] IN
  /\ job[j].at = "answered" /\ job[j].kind = "write"
  /\ confirmed' = [confirmed EXCEPT ![h] = IF @ > job[j].version THEN @ ELSE job[j].version]
  /\ job' = [job EXCEPT ![j] = IdleJob]
  /\ UNCHANGED <<nodes, cache, node_keys, version>>

WriteEnds(j) ==
  LET h == KeyHost[job[j].key] IN
  /\ job[j].at = "answered" /\ job[j].kind = "write"
  /\ confirmed' = [confirmed EXCEPT ![h] = IF @ > job[j].version THEN @ ELSE job[j].version]
  /\ Clears([job EXCEPT ![j] = IdleJob])
  /\ UNCHANGED <<nodes, node_keys, version>>

Next ==
  \/ \E k \in Keys : create_node_key(k) \/ update_node_key(k) \/ revoke_node_key(k)
                     \/ peer_import(k)
  \/ \E j \in Jobs :
       \/ Authorised(j) \/ node_write(j) \/ node_write_refused(j) \/ node_snapshot(j)
       \/ \E right \in BOOLEAN : node_handshake(j, right)
       \/ TimesOut(j) \/ Connected(j) \/ FetchBegins(j) \/ FetchEnds(j) \/ WriteEnds(j)
       \/ \E k \in Keys : connect_node(j, k)
       \/ \E i \in Ids : nodes_aggregate(j, i) \/ sub_group_subscription(j, i) \/ proxy_write(j, i)
  \/ \E i \in Ids : update_node(i) \/ disconnect_node(i)
  \/ backup_import
  \/ \E e \in cache : CacheAges(e)

Spec == Init /\ [][Next]_vars
------------------------------------------------------------------------------
(* What the dashboard shows of a node from the cache is of a node that is   *)
(* still there, has the parts it is to show, and includes every write that  *)
(* was confirmed to this panel; only an answer that was under way when the  *)
(* cache was cleared may still bring in older data, for the cache's         *)
(* lifetime (_NODE_CACHE.clear in each handler, the parts in its keys).     *)
CacheIsCurrent ==
  \A e \in cache : ~e.late =>
    /\ nodes[e.id] # None /\ nodes[e.id].share = e.parts
    /\ "links" \in e.got => e.version >= confirmed[KeyHost[e.key]]

(* A panel is connected at most once, unless two connects to it were under  *)
(* way together, or one while a backup was imported: the check precedes the *)
(* handshake (connect_node).                                                *)
OneNodePerHost == OnePerHost(nodes)
==============================================================================
