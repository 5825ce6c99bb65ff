-------------------------------- MODULE Trojan --------------------------------
(***************************************************************************)
(* Who a Trojan client is: _TrojanHashCache, the table from the hashes of  *)
(* passwords to the uuids of links, against the link table it is built     *)
(* from.  A client's first frame carries only a hash; the WebSocket tunnel *)
(* and the XHTTP sessions both ask the cache whose it is.                  *)
(*                                                                         *)
(* LINKS_LOCK is never held across an await, so a first frame is looked up *)
(* and answered without suspension.  A hash stands for its uuid.           *)
(***************************************************************************)
EXTENDS Integers, FiniteSets

CONSTANT Uids   \* link uuids, which are the passwords of their links

VARIABLES
  links,         \* LINKS: "fresh" until generated or imported, "deleted" after
  cache,         \* _cache: the uuids whose hash it holds
  snapshot_len,  \* _snapshot_len: how many links LINKS had when it was built
  tunnels,       \* uuids with tunnels: entries of connections (trojan-ws)
  sessions       \* uuids with an XHTTP session past its header

vars == <<links, cache, snapshot_len, tunnels, sessions>>

Listed == {"allowed", "refused"}   \* what is_link_allowed says of an entry

Links == {u \in Uids : links[u] \in Listed}

Init ==
  /\ links \in [Uids -> Listed \union {"fresh"}]   \* load_state
  /\ cache = {} /\ snapshot_len = -1
  /\ tunnels = {} /\ sessions = {}

cacheVars == <<cache, snapshot_len>>
clients == <<tunnels, sessions>>

(* generate_uuid never repeats itself: only an import brings a uuid back.   *)
create_link(u) ==
  /\ links[u] = "fresh"
  /\ links' = [links EXCEPT ![u] = "allowed"]
  /\ UNCHANGED <<cacheVars, clients>>

delete_link(u) ==
  /\ links[u] \in Listed
  /\ links' = [links EXCEPT ![u] = "deleted"]
  /\ UNCHANGED <<cacheVars, clients>>

(* An edit, the end of a quota or of a term.                                *)
ChangeLink(u, state) ==
  /\ links[u] \in Listed /\ state \in Listed
  /\ links' = [links EXCEPT ![u] = state]
  /\ UNCHANGED <<cacheVars, clients>>

(* The backup's links replace those of the table.                           *)
backup_import(backup) ==
  /\ links' = [u \in Uids |-> IF u \in backup THEN "allowed"
                              ELSE IF links[u] = "fresh" THEN "fresh" ELSE "deleted"]
  /\ UNCHANGED <<cacheVars, clients>>

(* What a lookup finds the hash of: a cache of another size than the table  *)
(* is built anew first.                                                     *)
Known == IF snapshot_len # Cardinality(Links) THEN Links ELSE cache

find_uuid == cache' = Known /\ snapshot_len' = Cardinality(Links)

(* A tunnel's first frame: the cache says whose it is, the table whether it *)
(* may pass.                                                                *)
FirstFrame(u) ==
  /\ find_uuid
  /\ tunnels' = IF u \in Known /\ links[u] = "allowed" THEN tunnels \union {u} ELSE tunnels
  /\ UNCHANGED <<links, sessions>>

(* The header of an XHTTP session: its link was checked when the session    *)
(* was requested, here the hash must be one the cache knows.                *)
SessionHeader(u) ==
  /\ links[u] # "fresh"
  /\ find_uuid
  /\ sessions' = IF u \in Known THEN sessions \union {u} ELSE sessions
  /\ UNCHANGED <<links, tunnels>>

(* The last tunnel, or session, of a link ends.                             *)
TunnelEnds(u) ==
  /\ u \in tunnels /\ tunnels' = tunnels \ {u}
  /\ UNCHANGED <<links, cacheVars, sessions>>

SessionEnds(u) ==
  /\ u \in sessions /\ sessions' = sessions \ {u}
  /\ UNCHANGED <<links, cacheVars, tunnels>>

(* The panel restarts: the table was saved, the cache was not.              *)
Restart ==
  /\ cache' = {} /\ snapshot_len' = -1
  /\ tunnels' = {} /\ sessions' = {}
  /\ UNCHANGED links

Next ==
  \/ \E u \in Uids :
       \/ create_link(u) \/ delete_link(u)
       \/ \E state \in Listed : ChangeLink(u, state)
       \/ FirstFrame(u) \/ SessionHeader(u)
       \/ TunnelEnds(u) \/ SessionEnds(u)
  \/ \E backup \in SUBSET Uids : backup_import(backup)
  \/ Restart

Spec == Init /\ [][Next]_vars

(* The cache follows LINKS (its docstring: a link added or removed must     *)
(* invalidate it): at any time the lookup knows every link of the table, so *)
(* that no client of an allowed link is turned away for a wrong password.   *)
ListedIsFound == Links \subseteq Known
==============================================================================
