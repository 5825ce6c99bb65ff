--------------------------- MODULE NodeLink_proofs ---------------------------
(***************************************************************************)
(* Proofs about NodeLink: what the cache shows is current, and a panel is  *)
(* connected once, for every set of nodes, panels, keys and jobs.          *)
(***************************************************************************)
EXTENDS NodeLink, TLAPS

(* A request carries a key, and whoever asks for a snapshot or connects     *)
(* listens until the job ends.                                              *)
Listens ==
  \A j \in Jobs :
    /\ job[j].waits => job[j].at # "idle"
    /\ job[j].at # "idle" =>
         /\ job[j].key \in Keys
         /\ job[j].kind \in {"fetch", "fresh", "connect"} => job[j].waits
         /\ job[j].kind \in {"fetch", "fresh"} => job[j].id \in Ids
         /\ job[j].at = "gathered" => job[j].kind \in {"fetch", "fresh"}

Fetches(j) == job[j].at # "idle" /\ job[j].kind \in {"fetch", "fresh"} /\ ~job[j].late

(* What a fetch under way is to bring, if no write cleared the cache since. *)
FetchIsCurrent ==
  \A j \in Jobs : Fetches(j) =>
    /\ nodes[job[j].id] # None
    /\ job[j].at # "gathered" => nodes[job[j].id].share = job[j].parts
    /\ job[j].at = "answered" /\ "links" \in job[j].got
         => job[j].version >= confirmed[KeyHost[job[j].key]]

(* A peer has applied the writes it confirms. *)
ConfirmedIsApplied ==
  /\ \A h \in Hosts : confirmed[h] <= version[h]
  /\ \A j \in Jobs : job[j].at = "answered" /\ job[j].kind = "write"
                       => job[j].version <= version[KeyHost[job[j].key]]

(* A connect that is not marked is alone, and to a panel not yet connected. *)
ConnectIsAlone ==
  \A j \in Jobs, h \in Hosts : Connecting(j, h) /\ ~job[j].twin =>
    /\ \A x \in Jobs \ {j} : ~Connecting(x, h)
    /\ \A i \in Ids : nodes[i] # None => HostOf(i) # h

IInv == TypeOK /\ Listens /\ FetchIsCurrent /\ ConfirmedIsApplied /\ ConnectIsAlone
        /\ CacheIsCurrent /\ OneNodePerHost

LEMMA IdleJobType == IdleJob \in Job
  BY NodeLinkAssumption DEF IdleJob, Job

(* Clearing the cache marks every fetch under way and touches nothing else. *)
LEMMA ClearsMarks ==
  ASSUME NEW J \in [Jobs -> Job], Clears(J),
         \A j \in Jobs : J[j].at # "idle" /\ J[j].kind \in {"fetch", "fresh", "connect"}
                           => J[j].waits
  PROVE  /\ cache' = {} /\ job' \in [Jobs -> Job]
         /\ \A j \in Jobs :
              /\ ~Fetches(j)'
              /\ job'[j].at = J[j].at /\ job'[j].kind = J[j].kind /\ job'[j].id = J[j].id
              /\ job'[j].key = J[j].key /\ job'[j].version = J[j].version
              /\ job'[j].waits = J[j].waits /\ job'[j].twin = J[j].twin
  <1>1. cache' = {}
    BY DEF Clears
  <1>2. job' \in [Jobs -> Job]
    <2>1. \A j \in Jobs : [J[j] EXCEPT !.late = TRUE] \in Job
      <3>1. ASSUME NEW r \in Job PROVE [r EXCEPT !.late = TRUE] \in Job
        BY DEF Job
      <3> QED BY <3>1
    <2> QED BY <2>1 DEF Clears
  <1>3. ASSUME NEW j \in Jobs
        PROVE  /\ ~Fetches(j)'
               /\ job'[j].at = J[j].at /\ job'[j].kind = J[j].kind /\ job'[j].id = J[j].id
               /\ job'[j].key = J[j].key /\ job'[j].version = J[j].version
               /\ job'[j].waits = J[j].waits /\ job'[j].twin = J[j].twin
    <2>1. J[j] \in Job
      OBVIOUS
    <2>2. job'[j] = IF J[j].waits /\ J[j].kind \in {"fetch", "fresh"}
                    THEN [J[j] EXCEPT !.late = TRUE] ELSE J[j]
      BY DEF Clears
    <2> QED BY <2>1, <2>2 DEF Fetches, Job
  <1> QED BY <1>1, <1>2, <1>3

LEMMA InitHolds == Init => IInv
  <1> SUFFICES ASSUME Init PROVE IInv
    OBVIOUS
  <1>1. TypeOK
    BY NodeLinkAssumption, IdleJobType DEF Init, TypeOK
  <1>2. \A j \in Jobs : job[j].at = "idle" /\ job[j].waits = FALSE
    BY DEF Init, IdleJob
  <1>3. Listens /\ FetchIsCurrent /\ ConnectIsAlone
    BY <1>2 DEF Listens, FetchIsCurrent, ConnectIsAlone, Fetches, Connecting
  <1>4. ConfirmedIsApplied
    BY <1>2, NodeLinkAssumption DEF Init, ConfirmedIsApplied
  <1>5. CacheIsCurrent /\ OneNodePerHost
    BY DEF Init, CacheIsCurrent, OneNodePerHost, OnePerHost
  <1> QED BY <1>1, <1>3, <1>4, <1>5 DEF IInv

KeyStep(k) == create_node_key(k) \/ update_node_key(k) \/ revoke_node_key(k) \/ peer_import(k)

LEMMA KeyStepPreserves ==
  ASSUME IInv, NEW k \in Keys, KeyStep(k)
  PROVE  IInv'
  <1>1. UNCHANGED <<nodes, cache, job, version, confirmed>>
    BY DEF KeyStep, create_node_key, update_node_key, revoke_node_key, peer_import
  <1>2. node_keys' \in [Keys -> {None, Deleted} \union NodeKey]
    <2>1. node_keys \in [Keys -> {None, Deleted} \union NodeKey]
      BY DEF IInv, TypeOK
    <2>2. CASE create_node_key(k)
      BY <2>1, <2>2 DEF create_node_key, NodeKey, DefaultShare
    <2>3. CASE update_node_key(k)
      <3>1. node_keys[k] \in NodeKey
        BY <2>1, <2>3 DEF update_node_key, Key
      <3>2. CASE \E s \in SUBSET NODE_SHARE_PARTS : node_keys' = [node_keys EXCEPT ![k].share = s]
        <4> PICK s \in SUBSET NODE_SHARE_PARTS : node_keys' = [node_keys EXCEPT ![k].share = s]
          BY <3>2
        <4>1. [node_keys[k] EXCEPT !.share = s] \in NodeKey
          BY <3>1 DEF NodeKey
        <4> QED BY <4>1, <2>1
      <3>3. CASE node_keys' = [node_keys EXCEPT ![k].can_manage = ~@]
        <4>1. [node_keys[k] EXCEPT !.can_manage = ~@] \in NodeKey
          BY <3>1 DEF NodeKey
        <4> QED BY <3>3, <4>1, <2>1
      <3>4. CASE node_keys' = [node_keys EXCEPT ![k].revoked = ~@]
        <4>1. [node_keys[k] EXCEPT !.revoked = ~@] \in NodeKey
          BY <3>1 DEF NodeKey
        <4> QED BY <3>4, <4>1, <2>1
      <3> QED BY <2>3, <3>2, <3>3, <3>4 DEF update_node_key
    <2>4. CASE revoke_node_key(k)
      BY <2>1, <2>4 DEF revoke_node_key
    <2>5. CASE peer_import(k)
      BY <2>1, <2>5 DEF peer_import, NodeKey, DefaultShare
    <2> QED BY <2>2, <2>3, <2>4, <2>5 DEF KeyStep
  <1>3. TypeOK'
    BY <1>1, <1>2 DEF IInv, TypeOK
  <1> QED
    BY <1>1, <1>3 DEF IInv, Listens, FetchIsCurrent, Fetches, ConfirmedIsApplied, ConnectIsAlone,
       Connecting, HostOf, CacheIsCurrent, OneNodePerHost, OnePerHost

(* What a job j that becomes r must satisfy, everything else as it is.      *)
Follows(j, r) ==
  /\ r \in Job
  /\ r.waits => r.at # "idle"
  /\ r.at # "idle" =>
       /\ r.key \in Keys
       /\ r.kind \in {"fetch", "fresh", "connect"} => r.waits
       /\ r.kind \in {"fetch", "fresh"} => r.id \in Ids
       /\ r.at = "gathered" => r.kind \in {"fetch", "fresh"}
  /\ r.at # "idle" /\ r.kind \in {"fetch", "fresh"} /\ ~r.late =>
       /\ nodes[r.id] # None
       /\ r.at # "gathered" => nodes[r.id].share = r.parts
       /\ r.at = "answered" /\ "links" \in r.got => r.version >= confirmed[KeyHost[r.key]]
  /\ r.at = "answered" /\ r.kind = "write" => r.version <= version[KeyHost[r.key]]
  /\ r.kind = "connect" /\ r.waits =>
       /\ job[j].kind = "connect" /\ job[j].waits
       /\ r.key = job[j].key /\ r.twin = job[j].twin

LEMMA JobStepKeeps ==
  ASSUME IInv, NEW j \in Jobs, NEW r, Follows(j, r), job' = [job EXCEPT ![j] = r],
         UNCHANGED <<nodes, node_keys, version, confirmed>>
  PROVE  /\ job' \in [Jobs -> Job] /\ Listens' /\ FetchIsCurrent' /\ ConfirmedIsApplied'
         /\ ConnectIsAlone' /\ OneNodePerHost'
  <1> USE DEF IInv
  <1>1. job' \in [Jobs -> Job]
    BY DEF TypeOK, Follows
  <1>2. \A x \in Jobs : job'[x] = IF x = j THEN r ELSE job[x]
    BY DEF TypeOK
  <1>3. Listens'
    BY <1>2 DEF Listens, Follows
  <1>4. FetchIsCurrent'
    BY <1>2 DEF FetchIsCurrent, Fetches, Follows
  <1>5. ConfirmedIsApplied'
    BY <1>2 DEF ConfirmedIsApplied, Follows
  <1>6. \A x \in Jobs, h \in Hosts : Connecting(x, h)' => Connecting(x, h)
                                                     /\ job'[x].twin = job[x].twin
    BY <1>2 DEF Connecting, Follows
  <1>7. ConnectIsAlone'
    BY <1>6 DEF ConnectIsAlone, HostOf
  <1>8. OneNodePerHost'
    BY DEF OneNodePerHost, OnePerHost
  <1> QED BY <1>1, <1>3, <1>4, <1>5, <1>7, <1>8

LEMMA JobStepPreserves ==
  ASSUME IInv, NEW j \in Jobs, NEW r, Follows(j, r), job' = [job EXCEPT ![j] = r],
         UNCHANGED <<nodes, cache, node_keys, version, confirmed>>
  PROVE  IInv'
  <1>1. /\ job' \in [Jobs -> Job] /\ Listens' /\ FetchIsCurrent' /\ ConfirmedIsApplied'
        /\ ConnectIsAlone' /\ OneNodePerHost'
    BY JobStepKeeps
  <1>2. TypeOK' /\ CacheIsCurrent'
    BY <1>1 DEF IInv, TypeOK, CacheIsCurrent
  <1> QED BY <1>1, <1>2 DEF IInv

LEMMA IdleFollows == ASSUME NEW j \in Jobs PROVE Follows(j, IdleJob)
  BY IdleJobType DEF Follows, IdleJob

(* A refusal ends the job, an answer leaves it as it is but answered.       *)
LEMMA AnswersPreserves ==
  ASSUME IInv, NEW j \in Jobs, NEW ok \in BOOLEAN, Answers(j, ok),
         job[j].at # "idle", ok => job[j].kind = "connect",
         UNCHANGED <<nodes, cache, node_keys, version, confirmed>>
  PROVE  IInv'
  <1> DEFINE r == IF job[j].waits /\ ok THEN [job[j] EXCEPT !.at = "answered"] ELSE IdleJob
  <1>1. job' = [job EXCEPT ![j] = r]
    BY DEF Answers
  <1>2. job[j] \in Job /\ job[j].key \in Keys
    BY DEF IInv, TypeOK, Listens
  <1>3. Follows(j, r)
    <2>1. CASE job[j].waits /\ ok
      BY <1>2, <2>1 DEF Follows, Job
    <2>2. CASE ~(job[j].waits /\ ok)
      BY <2>2, IdleFollows
    <2> QED BY <2>1, <2>2
  <1> HIDE DEF r
  <1> QED BY <1>1, <1>3, JobStepPreserves

LEMMA AuthorisedPreserves ==
  ASSUME IInv, NEW j \in Jobs, Authorised(j) PROVE IInv'
  <1>1. CASE Answers(j, FALSE)
    BY <1>1, AnswersPreserves DEF Authorised
  <1>2. CASE job' = [job EXCEPT ![j].at = "authorised"]
    <2> DEFINE r == [job[j] EXCEPT !.at = "authorised"]
    <2>1. job[j] \in Job
      BY DEF IInv, TypeOK
    <2>2. job[j].at = "sent" /\ job[j].kind \in {"write", "connect"}
      BY DEF Authorised
    <2>3. job[j].key \in Keys /\ (job[j].kind = "connect" => job[j].waits)
      BY <2>2 DEF IInv, Listens
    <2>4. Follows(j, r)
      BY <2>1, <2>2, <2>3 DEF Follows, Job
    <2>5. job' = [job EXCEPT ![j] = r]
      BY <1>2
    <2> HIDE DEF r
    <2> QED BY <2>4, <2>5, JobStepPreserves DEF Authorised
  <1> QED BY <1>1, <1>2 DEF Authorised

LEMMA HandshakePreserves ==
  ASSUME IInv, NEW j \in Jobs, NEW right \in BOOLEAN, node_handshake(j, right) PROVE IInv'
  <1>1. (Key(job[j].key) => right) \in BOOLEAN
    OBVIOUS
  <1>2. Answers(j, Key(job[j].key) => right) /\ job[j].at # "idle" /\ job[j].kind = "connect"
    BY DEF node_handshake
  <1>3. PICK ok \in BOOLEAN : ok = (Key(job[j].key) => right)
    BY <1>1
  <1>4. Answers(j, ok)
    BY <1>2, <1>3 DEF Answers
  <1> QED BY <1>2, <1>4, AnswersPreserves DEF node_handshake

LEMMA RefusedPreserves ==
  ASSUME IInv, NEW j \in Jobs, node_write_refused(j) PROVE IInv'
  BY AnswersPreserves DEF node_write_refused

(* The answer is as the peer is now, which has applied what it confirmed.   *)
LEMMA SnapshotPreserves ==
  ASSUME IInv, NEW j \in Jobs, node_snapshot(j) PROVE IInv'
  <1>1. CASE Answers(j, FALSE)
    BY <1>1, AnswersPreserves DEF node_snapshot
  <1>2. CASE require_node_key(job[j].key) /\ job[j].waits
    <2> DEFINE k == job[j].key
               r == [job[j] EXCEPT !.at = "answered", !.got = job[j].parts \intersect node_keys[k].share,
                                   !.version = version[KeyHost[k]]]
    <2>1. job[j] \in Job /\ job[j].at = "sent" /\ job[j].kind \in {"fetch", "fresh"}
      BY DEF IInv, TypeOK, node_snapshot
    <2>2. job' = [job EXCEPT ![j] = r]
      BY <1>2 DEF node_snapshot
    <2>3. k \in Keys
      BY <2>1 DEF IInv, Listens
    <2>4. version[KeyHost[k]] \in 0..MaxWrites /\ confirmed[KeyHost[k]] <= version[KeyHost[k]]
      BY <2>3, NodeLinkAssumption DEF IInv, TypeOK, ConfirmedIsApplied
    <2>5. /\ r \in Job /\ r.at = "answered" /\ r.kind = job[j].kind /\ r.waits
          /\ r.late = job[j].late /\ r.id = job[j].id /\ r.parts = job[j].parts
          /\ r.key = k /\ r.version = version[KeyHost[k]]
      BY <1>2, <2>1, <2>4 DEF Job
    <2>6. /\ job[j].id \in Ids
          /\ ~job[j].late => /\ nodes[job[j].id] # None
                             /\ nodes[job[j].id].share = job[j].parts
      BY <2>1 DEF IInv, FetchIsCurrent, Fetches, Listens
    <2>7. version[KeyHost[k]] >= confirmed[KeyHost[k]]
      BY <2>3, <2>4, NodeLinkAssumption DEF IInv, TypeOK
    <2> HIDE DEF r
    <2>8. Follows(j, r)
      BY <2>1, <2>3, <2>5, <2>6, <2>7 DEF Follows
    <2> QED BY <2>2, <2>8, JobStepPreserves DEF node_snapshot
  <1> QED BY <1>1, <1>2 DEF node_snapshot

LEMMA TimesOutPreserves ==
  ASSUME IInv, NEW j \in Jobs, TimesOut(j) PROVE IInv'
  <1>1. CASE job' = [job EXCEPT ![j] = IdleJob]
    BY <1>1, IdleFollows, JobStepPreserves DEF TimesOut
  <1>2. CASE /\ job[j].at # "answered" /\ job[j].kind = "write"
             /\ job' = [job EXCEPT ![j].waits = FALSE, ![j].id = None]
    <2> DEFINE r == [job[j] EXCEPT !.waits = FALSE, !.id = None]
    <2>1. job[j] \in Job /\ job[j].at \in {"sent", "authorised"} /\ job[j].key \in Keys
      BY <1>2 DEF IInv, TypeOK, Listens, TimesOut
    <2>2. job' = [job EXCEPT ![j] = r]
      BY <1>2
    <2>3. Follows(j, r)
      BY <1>2, <2>1 DEF Follows, Job
    <2> HIDE DEF r
    <2> QED BY <2>2, <2>3, JobStepPreserves DEF TimesOut
  <1> QED BY <1>1, <1>2 DEF TimesOut

LEMMA GathersPreserves ==
  ASSUME IInv, NEW j \in Jobs, NEW i \in Ids, NEW kind \in {"fetch", "fresh"}, Gathers(j, i, kind)
  PROVE  IInv'
  <1> DEFINE r == [IdleJob EXCEPT !.kind = kind, !.at = "gathered", !.id = i,
                                  !.key = nodes[i].key, !.parts = nodes[i].share, !.waits = TRUE]
  <1>1. nodes[i].key \in Keys /\ nodes[i].share \subseteq NODE_SHARE_PARTS
    BY DEF IInv, TypeOK, Node, Gathers
  <1>2. job' = [job EXCEPT ![j] = r]
    BY DEF Gathers
  <1>3. r \in Job
    BY <1>1, IdleJobType DEF Job
  <1>4. /\ r.at = "gathered" /\ r.kind = kind /\ r.waits /\ r.id = i
        /\ r.key \in Keys
    BY <1>1 DEF IdleJob
  <1>5. nodes[i] # None
    BY DEF Gathers
  <1> HIDE DEF r
  <1>6. Follows(j, r)
    BY <1>3, <1>4, <1>5 DEF Follows
  <1> QED BY <1>2, <1>6, JobStepPreserves DEF Gathers

LEMMA FetchBeginsPreserves ==
  ASSUME IInv, NEW j \in Jobs, FetchBegins(j) PROVE IInv'
  <1> DEFINE i == job[j].id
             parts == IF nodes[i] = None THEN job[j].parts ELSE nodes[i].share
             r == [job[j] EXCEPT !.at = "sent", !.parts = parts]
  <1>1. CASE job' = [job EXCEPT ![j] = IdleJob]
    BY <1>1, IdleFollows, JobStepPreserves DEF FetchBegins
  <1>2. CASE job' = [job EXCEPT ![j] = r]
    <2>1. /\ job[j] \in Job /\ job[j].at = "gathered" /\ job[j].key \in Keys
          /\ job[j].kind \in {"fetch", "fresh"} /\ job[j].waits /\ i \in Ids
      BY DEF IInv, TypeOK, Listens, FetchBegins
    <2>2. parts \subseteq NODE_SHARE_PARTS
      BY <2>1 DEF IInv, TypeOK, Node, Job
    <2>3. ~job[j].late => nodes[i] # None /\ nodes[i].share = parts
      BY <2>1 DEF IInv, FetchIsCurrent, Fetches
    <2> HIDE DEF parts
    <2>4. /\ r \in Job /\ r.at = "sent" /\ r.kind = job[j].kind /\ r.waits
          /\ r.late = job[j].late /\ r.id = i /\ r.parts = parts /\ r.key = job[j].key
      BY <2>1, <2>2 DEF Job
    <2> HIDE DEF r
    <2>5. Follows(j, r)
      BY <2>1, <2>3, <2>4 DEF Follows
    <2> QED BY <1>2, <2>5, JobStepPreserves DEF FetchBegins
  <1> QED BY <1>1, <1>2 DEF FetchBegins

LEMMA ProxyWritePreserves ==
  ASSUME IInv, NEW j \in Jobs, NEW i \in Ids, proxy_write(j, i) PROVE IInv'
  <1> DEFINE r == [IdleJob EXCEPT !.kind = "write", !.at = "sent", !.id = i,
                                  !.key = nodes[i].key, !.waits = TRUE]
  <1>1. nodes[i].key \in Keys /\ nodes[i].share \subseteq NODE_SHARE_PARTS
    BY DEF IInv, TypeOK, Node, proxy_write
  <1>2. job' = [job EXCEPT ![j] = r]
    BY DEF proxy_write
  <1>3. /\ r \in Job /\ r.at = "sent" /\ r.kind = "write" /\ r.key \in Keys
    <2>1. r \in Job
      BY <1>1, IdleJobType DEF Job
    <2> QED BY <1>1, <2>1 DEF IdleJob
  <1> HIDE DEF r
  <1>4. Follows(j, r)
    BY <1>3 DEF Follows
  <1> QED BY <1>2, <1>4, JobStepPreserves DEF proxy_write

(* A peer applies a write, and answers if the panel still listens.          *)
LEMMA NodeWritePreserves ==
  ASSUME IInv, NEW j \in Jobs, node_write(j) PROVE IInv'
  <1> DEFINE h == KeyHost[job[j].key]
             r == IF job[j].waits THEN [job[j] EXCEPT !.at = "answered", !.version = version[h] + 1]
                  ELSE IdleJob
  <1>1. job[j] \in Job /\ job[j].at = "authorised" /\ job[j].kind = "write" /\ job[j].key \in Keys
    BY DEF IInv, TypeOK, Listens, node_write
  <1>2. h \in Hosts /\ version[h] \in Nat /\ version[h] + 1 \in 0..MaxWrites
    BY <1>1, NodeLinkAssumption DEF IInv, TypeOK, node_write
  <1>3. version' = [version EXCEPT ![h] = version[h] + 1] /\ job' = [job EXCEPT ![j] = r]
    BY DEF node_write
  <1>4. UNCHANGED <<nodes, cache, node_keys, confirmed>>
    BY DEF node_write
  <1>5. /\ r \in Job
        /\ r.at # "idle" => /\ r.at = "answered" /\ r.kind = "write" /\ r.key = job[j].key
                            /\ r.version = version[h] + 1
        /\ ~(r.kind = "connect" /\ r.waits) /\ (r.waits => r.at # "idle")
    <2>1. CASE job[j].waits
      BY <1>1, <1>2, <2>1 DEF Job
    <2>2. CASE ~job[j].waits
      BY <2>2, IdleJobType DEF IdleJob
    <2> QED BY <2>1, <2>2
  <1> HIDE DEF r, h
  <1>6. TypeOK'
    BY <1>2, <1>3, <1>4, <1>5 DEF IInv, TypeOK
  <1>7. \A x \in Jobs : job'[x] = IF x = j THEN r ELSE job[x]
    BY <1>3 DEF IInv, TypeOK
  <1>8. \A g \in Hosts : version'[g] = (IF g = h THEN version[h] + 1 ELSE version[g])
                         /\ version[g] \in Nat /\ confirmed[g] \in Nat
    BY <1>2, <1>3, NodeLinkAssumption DEF IInv, TypeOK
  <1>9. Listens' /\ FetchIsCurrent'
    BY <1>1, <1>4, <1>5, <1>7 DEF IInv, Listens, FetchIsCurrent, Fetches
  <1>10. ConfirmedIsApplied'
    <2>1. \A g \in Hosts : confirmed'[g] <= version'[g] /\ version[g] <= version'[g]
      BY <1>2, <1>4, <1>8 DEF IInv, ConfirmedIsApplied
    <2>2. ASSUME NEW x \in Jobs, job'[x].at = "answered", job'[x].kind = "write"
          PROVE  job'[x].version <= version'[KeyHost[job'[x].key]]
      <3>1. CASE x = j
        <4>1. job'[x].version = version[h] + 1 /\ KeyHost[job'[x].key] = h
          BY <1>5, <1>7, <2>2, <3>1 DEF h
        <4> QED BY <1>2, <1>8, <4>1
      <3>2. CASE x # j
        <4>1. job'[x] = job[x] /\ job[x].key \in Keys /\ job[x].version \in Nat
          BY <1>7, <2>2, <3>2, NodeLinkAssumption DEF IInv, TypeOK, Listens, Job
        <4>2. KeyHost[job[x].key] \in Hosts
          BY <4>1, NodeLinkAssumption
        <4>3. job[x].version <= version[KeyHost[job[x].key]]
          BY <2>2, <4>1 DEF IInv, ConfirmedIsApplied
        <4> QED BY <1>8, <1>2, <2>1, <4>1, <4>2, <4>3
      <3> QED BY <3>1, <3>2
    <2> QED BY <2>1, <2>2 DEF ConfirmedIsApplied
  <1>11. ConnectIsAlone'
    <2>1. \A x \in Jobs, g \in Hosts : Connecting(x, g)' => Connecting(x, g) /\ job'[x] = job[x]
      BY <1>5, <1>7 DEF Connecting
    <2> QED BY <1>4, <2>1 DEF IInv, ConnectIsAlone, HostOf
  <1> QED BY <1>4, <1>6, <1>9, <1>10, <1>11 DEF IInv, CacheIsCurrent, OneNodePerHost, OnePerHost

(* Two connects to one panel mark each other.                               *)
LEMMA ConnectPreserves ==
  ASSUME IInv, NEW j \in Jobs, NEW k \in Keys, connect_node(j, k) PROVE IInv'
  <1> DEFINE h == KeyHost[k]
             others == {x \in Jobs : Connecting(x, h)}
             r == [IdleJob EXCEPT !.kind = "connect", !.at = "sent", !.key = k,
                                  !.waits = TRUE, !.twin = others # {}]
  <1>1. job' = [x \in Jobs |-> IF x = j THEN r
                               ELSE IF x \in others THEN [job[x] EXCEPT !.twin = TRUE] ELSE job[x]]
    BY DEF connect_node
  <1>2. UNCHANGED <<nodes, cache, node_keys, version, confirmed>>
        /\ \A i \in Ids : nodes[i] # None => HostOf(i) # h
    BY DEF connect_node
  <1>3. r \in Job
    <2>1. (others # {}) \in BOOLEAN
      OBVIOUS
    <2> HIDE DEF others
    <2> QED BY <2>1, IdleJobType DEF Job
  <1>4. /\ r.at = "sent" /\ r.kind = "connect" /\ r.key = k /\ r.waits
        /\ r.twin = (others # {})
    BY DEF IdleJob
  <1> HIDE DEF r
  <1>5. \A x \in Jobs \ {j} : /\ job'[x] \in Job
                              /\ job'[x] = [job[x] EXCEPT !.twin = job'[x].twin]
                              /\ x \in others => job'[x].twin
                              /\ x \notin others => job'[x] = job[x]
    <2>1. ASSUME NEW x \in Jobs \ {j}
          PROVE  [job[x] EXCEPT !.twin = TRUE] \in Job /\ job[x] \in Job
      <3>1. job[x] \in Job
        BY DEF IInv, TypeOK
      <3> QED BY <3>1 DEF Job
    <2> HIDE DEF others
    <2> QED BY <1>1, <2>1 DEF Job
  <1>6. job'[j] = r
    BY <1>1
  <1>7. \A x \in Jobs \ {j} : /\ job'[x].at = job[x].at /\ job'[x].kind = job[x].kind
                              /\ job'[x].id = job[x].id /\ job'[x].key = job[x].key
                              /\ job'[x].parts = job[x].parts /\ job'[x].got = job[x].got
                              /\ job'[x].version = job[x].version /\ job'[x].waits = job[x].waits
                              /\ job'[x].late = job[x].late /\ (job[x].twin => job'[x].twin)
    <2> TAKE x \in Jobs \ {j}
    <2>1. job[x] \in Job
      BY DEF IInv, TypeOK
    <2>2. PICK b : b = job'[x].twin
      OBVIOUS
    <2>3. job'[x] = [job[x] EXCEPT !.twin = b] /\ (job[x].twin => b)
      BY <1>5, <2>2
    <2> QED BY <2>1, <2>2, <2>3 DEF Job
  <1>8. TypeOK'
    <2>1. job' \in [Jobs -> Job]
      <3> HIDE DEF others
      <3> QED BY <1>1, <1>3, <1>5, <1>6
    <2> QED BY <1>2, <2>1 DEF IInv, TypeOK
  <1>9. Listens' /\ FetchIsCurrent' /\ ConfirmedIsApplied'
    BY <1>2, <1>4, <1>6, <1>7 DEF IInv, Listens, FetchIsCurrent, Fetches, ConfirmedIsApplied
  <1>10. ConnectIsAlone'
    <2>1. \A x \in Jobs \ {j}, g \in Hosts : Connecting(x, g)' <=> Connecting(x, g)
      BY <1>7 DEF Connecting
    <2>2. \A g \in Hosts : Connecting(j, g)' <=> g = h
      BY <1>4, <1>6 DEF Connecting
    <2>3. SUFFICES ASSUME NEW x \in Jobs, NEW g \in Hosts, Connecting(x, g)', ~job'[x].twin
                   PROVE  /\ \A y \in Jobs \ {x} : ~Connecting(y, g)'
                          /\ \A i \in Ids : nodes[i] # None => HostOf(i) # g
      BY <1>2 DEF ConnectIsAlone, HostOf
    <2>4. CASE x = j
      <3>1. others = {} /\ g = h
        BY <1>4, <1>6, <2>2, <2>3, <2>4
      <3> QED BY <1>2, <2>1, <2>4, <3>1
    <2>5. CASE x # j
      <3>1. Connecting(x, g) /\ ~job[x].twin /\ x \notin others
        BY <1>5, <1>7, <2>1, <2>3, <2>5
      <3>2. g # h
        BY <3>1
      <3> QED BY <2>1, <2>2, <3>1, <3>2 DEF IInv, ConnectIsAlone
    <2> QED BY <2>4, <2>5
  <1> QED BY <1>2, <1>8, <1>9, <1>10 DEF IInv, CacheIsCurrent, OneNodePerHost, OnePerHost

(* A job that a handler which clears the cache leaves under way.            *)
Stays(j, r) ==
  /\ r \in Job
  /\ r.at # "idle" =>
       /\ r.at = job[j].at /\ r.kind = job[j].kind /\ r.id = job[j].id /\ r.key = job[j].key
       /\ r.version = job[j].version /\ r.waits = job[j].waits
  /\ r.waits =>
       /\ r.at # "idle" /\ r.kind = job[j].kind /\ r.key = job[j].key /\ job[j].waits
       /\ job[j].twin => r.twin

(* ... and the table of nodes it leaves: no second node for a panel, nor a  *)
(* first one for a panel that a connect which is not marked is to add.      *)
LEMMA ClearsPreserves ==
  ASSUME IInv, NEW J \in [Jobs -> Job], Clears(J), \A j \in Jobs : Stays(j, J[j]),
         nodes' \in [Ids -> {None} \union Node], OneNodePerHost',
         \A j \in Jobs, i \in Ids :
           J[j].kind = "connect" /\ J[j].waits /\ ~J[j].twin /\ nodes'[i] # None
             => HostOf(i)' # KeyHost[J[j].key],
         confirmed' \in [Hosts -> 0..MaxWrites], \A h \in Hosts : confirmed'[h] <= version[h],
         UNCHANGED <<node_keys, version>>
  PROVE  IInv'
  <1>1. \A j \in Jobs : J[j].at # "idle" /\ J[j].kind \in {"fetch", "fresh", "connect"}
                          => J[j].waits
    BY DEF IInv, Listens, Stays
  <1>2. cache' = {} /\ job' \in [Jobs -> Job]
    BY <1>1, ClearsMarks
  <1>3. \A j \in Jobs :
          /\ ~Fetches(j)'
          /\ job'[j].at = J[j].at /\ job'[j].kind = J[j].kind /\ job'[j].id = J[j].id
          /\ job'[j].key = J[j].key /\ job'[j].version = J[j].version
          /\ job'[j].waits = J[j].waits /\ job'[j].twin = J[j].twin
    BY <1>1, ClearsMarks
  <1>4. TypeOK' /\ CacheIsCurrent'
    BY <1>2 DEF IInv, TypeOK, CacheIsCurrent
  <1>5. Listens'
    BY <1>3 DEF IInv, Listens, Stays
  <1>6. FetchIsCurrent'
    BY <1>3 DEF FetchIsCurrent
  <1>7. ConfirmedIsApplied'
    BY <1>3 DEF IInv, ConfirmedIsApplied, Stays
  <1>8. ConnectIsAlone'
    <2>1. SUFFICES ASSUME NEW j \in Jobs, NEW h \in Hosts, Connecting(j, h)', ~job'[j].twin
                   PROVE  /\ \A x \in Jobs \ {j} : ~Connecting(x, h)'
                          /\ \A i \in Ids : nodes'[i] # None => HostOf(i)' # h
      BY DEF ConnectIsAlone
    <2>2. J[j].kind = "connect" /\ J[j].waits /\ KeyHost[J[j].key] = h /\ ~J[j].twin
      BY <1>3, <2>1 DEF Connecting
    <2>3. \A x \in Jobs, g \in Hosts : Connecting(x, g)' => Connecting(x, g)
      BY <1>3 DEF Connecting, Stays
    <2>4. ~job[j].twin
      BY <2>2 DEF Stays
    <2>5. \A x \in Jobs \ {j} : ~Connecting(x, h)'
      BY <2>1, <2>3, <2>4 DEF IInv, ConnectIsAlone
    <2> QED BY <2>2, <2>5
  <1> QED BY <1>4, <1>5, <1>6, <1>7, <1>8 DEF IInv

LEMMA EveryJobStays ==
  ASSUME IInv, NEW j \in Jobs PROVE Stays(j, job[j]) /\ Stays(j, IdleJob)
  BY IdleJobType DEF IInv, TypeOK, Listens, Stays, IdleJob

(* With a job that ended, the others stay as they are.                      *)
LEMMA OthersStay ==
  ASSUME IInv, NEW j \in Jobs
  PROVE  /\ [job EXCEPT ![j] = IdleJob] \in [Jobs -> Job]
         /\ \A x \in Jobs : Stays(x, [job EXCEPT ![j] = IdleJob][x])
  BY EveryJobStays, IdleJobType DEF IInv, TypeOK

(* A connect that is not marked is to a panel that is not connected.        *)
LEMMA UnmarkedIsFirst ==
  ASSUME IInv, NEW j \in Jobs, job[j].kind = "connect", job[j].waits, ~job[j].twin,
         NEW n \in Ids, nodes[n] # None
  PROVE  HostOf(n) # KeyHost[job[j].key]
  <1>1. KeyHost[job[j].key] \in Hosts /\ Connecting(j, KeyHost[job[j].key])
    BY NodeLinkAssumption DEF IInv, Listens, Connecting
  <1> QED BY <1>1 DEF IInv, ConnectIsAlone

(* The node that is added is the only one of its panel or is marked, and    *)
(* every other connect to that panel is.                                    *)
LEMMA ConnectedPreserves ==
  ASSUME IInv, NEW j \in Jobs, Connected(j) PROVE IInv'
  <1> DEFINE J == [job EXCEPT ![j] = IdleJob]
             h == KeyHost[job[j].key]
  <1>1. PICK i \in Ids :
          /\ FreshId(i)
          /\ nodes' = [nodes EXCEPT ![i] = [key |-> job[j].key, enabled |-> TRUE,
                                            share |-> DefaultShare, twin |-> job[j].twin]]
    BY DEF Connected
  <1>2. /\ job[j] \in Job /\ job[j].key \in Keys /\ job[j].kind = "connect" /\ job[j].waits
        /\ Clears(J) /\ UNCHANGED <<node_keys, version, confirmed>>
    BY DEF IInv, TypeOK, Listens, Connected
  <1>3. J \in [Jobs -> Job] /\ \A x \in Jobs : Stays(x, J[x])
    BY OthersStay
  <1>4. h \in Hosts /\ Connecting(j, h)
    BY <1>2, NodeLinkAssumption DEF Connecting
  <1>5. nodes' \in [Ids -> {None} \union Node]
    BY <1>1, <1>2 DEF IInv, TypeOK, Node, Job, DefaultShare
  <1>6. /\ \A n \in Ids \ {i} : nodes'[n] = nodes[n]
        /\ nodes'[i].key = job[j].key /\ nodes'[i].twin = job[j].twin /\ HostOf(i)' = h
    BY <1>1 DEF IInv, TypeOK, HostOf
  <1>7. ~job[j].twin => \A n \in Ids : nodes[n] # None => HostOf(n) # h
    BY <1>4 DEF IInv, ConnectIsAlone
  <1>8. OneNodePerHost'
    BY <1>6, <1>7 DEF IInv, OneNodePerHost, OnePerHost, HostOf
  <1>9. ASSUME NEW x \in Jobs, NEW n \in Ids,
               J[x].kind = "connect", J[x].waits, ~J[x].twin, nodes'[n] # None
        PROVE  HostOf(n)' # KeyHost[J[x].key]
    <2>1. x # j
      BY <1>9 DEF IInv, TypeOK, IdleJob
    <2>2. J[x] = job[x]
      BY <2>1 DEF IInv, TypeOK
    <2> DEFINE g == KeyHost[job[x].key]
    <2>3. g \in Hosts /\ Connecting(x, g)
      BY <1>9, <2>2, NodeLinkAssumption DEF IInv, Listens, Connecting
    <2>4. g # h
      BY <1>4, <1>9, <2>1, <2>2, <2>3 DEF IInv, ConnectIsAlone
    <2>5. nodes[n] # None => HostOf(n) # g
      BY <1>9, <2>2, <2>3 DEF IInv, ConnectIsAlone
    <2>6. CASE n = i
      BY <1>6, <2>2, <2>4, <2>6
    <2>7. CASE n # i
      BY <1>6, <1>9, <2>2, <2>5, <2>7 DEF HostOf
    <2> QED BY <2>6, <2>7
  <1>10. confirmed' \in [Hosts -> 0..MaxWrites] /\ \A g \in Hosts : confirmed'[g] <= version[g]
    BY <1>2 DEF IInv, TypeOK, ConfirmedIsApplied
  <1> HIDE DEF J
  <1> QED BY <1>2, <1>3, <1>5, <1>8, <1>9, <1>10, ClearsPreserves

LEMMA UpdatePreserves ==
  ASSUME IInv, NEW i \in Ids, update_node(i) PROVE IInv'
  <1>1. nodes[i] \in Node /\ nodes[i] # None /\ nodes \in [Ids -> {None} \union Node]
    BY DEF IInv, TypeOK, update_node
  <1>2. /\ nodes' \in [Ids -> {None} \union Node]
        /\ \A n \in Ids \ {i} : nodes'[n] = nodes[n]
        /\ nodes'[i].key = nodes[i].key /\ nodes'[i].twin = nodes[i].twin
    <2>1. CASE nodes' = [nodes EXCEPT ![i].enabled = ~@]
      <3>1. [nodes[i] EXCEPT !.enabled = ~@] \in Node
        BY <1>1 DEF Node
      <3> QED BY <1>1, <2>1, <3>1 DEF Node
    <2>2. CASE \E s \in SUBSET NODE_SHARE_PARTS : nodes' = [nodes EXCEPT ![i].share = s]
      <3> PICK s \in SUBSET NODE_SHARE_PARTS : nodes' = [nodes EXCEPT ![i].share = s]
        BY <2>2
      <3>1. [nodes[i] EXCEPT !.share = s] \in Node
        BY <1>1 DEF Node
      <3> QED BY <1>1, <3>1 DEF Node
    <2> QED BY <2>1, <2>2 DEF update_node
  <1>3. Clears(job) /\ UNCHANGED <<node_keys, version, confirmed>>
    BY DEF update_node
  <1>4. OneNodePerHost'
    BY <1>1, <1>2 DEF IInv, OneNodePerHost, OnePerHost
  <1>5. \A n \in Ids : nodes'[n] # None => nodes[n] # None /\ HostOf(n)' = HostOf(n)
    BY <1>1, <1>2 DEF HostOf
  <1>6. /\ job \in [Jobs -> Job] /\ \A j \in Jobs : Stays(j, job[j])
        /\ confirmed' \in [Hosts -> 0..MaxWrites] /\ \A h \in Hosts : confirmed'[h] <= version[h]
    BY <1>3, EveryJobStays DEF IInv, TypeOK, ConfirmedIsApplied
  <1>7. ASSUME NEW j \in Jobs, NEW n \in Ids,
               job[j].kind = "connect", job[j].waits, ~job[j].twin, nodes'[n] # None
        PROVE  HostOf(n)' # KeyHost[job[j].key]
    BY <1>5, <1>7, UnmarkedIsFirst
  <1> QED BY <1>2, <1>3, <1>4, <1>6, <1>7, ClearsPreserves

LEMMA DisconnectPreserves ==
  ASSUME IInv, NEW i \in Ids, disconnect_node(i) PROVE IInv'
  <1>1. /\ nodes' = [nodes EXCEPT ![i] = None] /\ Clears(job)
        /\ UNCHANGED <<node_keys, version, confirmed>>
    BY DEF disconnect_node
  <1>2. nodes' \in [Ids -> {None} \union Node]
        /\ \A n \in Ids : nodes'[n] # None => nodes'[n] = nodes[n]
    BY <1>1 DEF IInv, TypeOK
  <1>3. OneNodePerHost'
    BY <1>2 DEF IInv, OneNodePerHost, OnePerHost
  <1>4. /\ job \in [Jobs -> Job] /\ \A j \in Jobs : Stays(j, job[j])
        /\ confirmed' \in [Hosts -> 0..MaxWrites] /\ \A h \in Hosts : confirmed'[h] <= version[h]
    BY <1>1, EveryJobStays DEF IInv, TypeOK, ConfirmedIsApplied
  <1>5. ASSUME NEW j \in Jobs, NEW n \in Ids,
               job[j].kind = "connect", job[j].waits, ~job[j].twin, nodes'[n] # None
        PROVE  HostOf(n)' # KeyHost[job[j].key]
    BY <1>2, <1>5, UnmarkedIsFirst DEF HostOf
  <1> QED BY <1>1, <1>2, <1>3, <1>4, <1>5, ClearsPreserves

(* A backup has one node for each panel, and every connect is marked.       *)
LEMMA ImportPreserves ==
  ASSUME IInv, backup_import PROVE IInv'
  <1> DEFINE J == [j \in Jobs |-> IF job[j].kind = "connect" THEN [job[j] EXCEPT !.twin = TRUE]
                                  ELSE job[j]]
  <1>1. nodes' \in Backups /\ Clears(J) /\ UNCHANGED <<node_keys, version, confirmed>>
    BY DEF backup_import
  <1>2. nodes' \in [Ids -> {None} \union Node] /\ OneNodePerHost'
    BY <1>1, NodeLinkAssumption, BackupsAssumption DEF OneNodePerHost, OnePerHost
  <1>3. ASSUME NEW j \in Jobs
        PROVE  J[j] \in Job /\ Stays(j, J[j]) /\ (J[j].kind = "connect" => J[j].twin)
    <2>1. job[j] \in Job
      BY DEF IInv, TypeOK
    <2>2. CASE job[j].kind = "connect"
      <3>1. J[j] = [job[j] EXCEPT !.twin = TRUE]
        BY <2>2
      <3> HIDE DEF J
      <3>2. /\ J[j] \in Job /\ J[j].at = job[j].at /\ J[j].kind = job[j].kind
            /\ J[j].id = job[j].id /\ J[j].key = job[j].key /\ J[j].version = job[j].version
            /\ J[j].waits = job[j].waits /\ J[j].twin
        BY <2>1, <3>1 DEF Job
      <3> QED BY <3>2 DEF Stays, IInv, Listens
    <2>3. CASE job[j].kind # "connect"
      BY <2>3, <2>1, EveryJobStays
    <2> QED BY <2>2, <2>3
  <1>4. J \in [Jobs -> Job]
    <2>1. \A j \in Jobs : J[j] \in Job
      BY <1>3
    <2> QED BY <2>1
  <1>5. confirmed' \in [Hosts -> 0..MaxWrites] /\ \A h \in Hosts : confirmed'[h] <= version[h]
    BY <1>1 DEF IInv, TypeOK, ConfirmedIsApplied
  <1> HIDE DEF J
  <1> QED BY <1>1, <1>2, <1>3, <1>4, <1>5, ClearsPreserves

(* A write that is confirmed has been applied, and the cache is emptied.    *)
LEMMA WriteEndsPreserves ==
  ASSUME IInv, NEW j \in Jobs, WriteEnds(j) PROVE IInv'
  <1> DEFINE J == [job EXCEPT ![j] = IdleJob]
             h == KeyHost[job[j].key]
  <1>1. /\ confirmed' = [confirmed EXCEPT ![h] = IF confirmed[h] > job[j].version THEN confirmed[h]
                                                 ELSE job[j].version]
        /\ Clears(J) /\ UNCHANGED <<nodes, node_keys, version>>
        /\ job[j].at = "answered" /\ job[j].kind = "write"
    BY DEF WriteEnds
  <1>2. J \in [Jobs -> Job] /\ \A x \in Jobs : Stays(x, J[x])
    BY OthersStay
  <1>3. job[j].version \in 0..MaxWrites /\ job[j].version <= version[h]
    BY <1>1 DEF IInv, TypeOK, Job, ConfirmedIsApplied
  <1>4. confirmed' \in [Hosts -> 0..MaxWrites] /\ \A g \in Hosts : confirmed'[g] <= version[g]
    BY <1>1, <1>3 DEF IInv, TypeOK, ConfirmedIsApplied
  <1>5. nodes' \in [Ids -> {None} \union Node] /\ OneNodePerHost'
    BY <1>1 DEF IInv, TypeOK, OneNodePerHost, OnePerHost
  <1>6. ASSUME NEW x \in Jobs, NEW n \in Ids,
               J[x].kind = "connect", J[x].waits, ~J[x].twin, nodes'[n] # None
        PROVE  HostOf(n)' # KeyHost[J[x].key]
    <2>1. x # j
      BY <1>6 DEF IInv, TypeOK, IdleJob
    <2>2. J[x] = job[x]
      BY <2>1 DEF IInv, TypeOK
    <2>3. HostOf(n)' = HostOf(n)
      BY <1>1 DEF HostOf
    <2> QED BY <1>1, <1>6, <2>2, <2>3, UnmarkedIsFirst
  <1> HIDE DEF J, h
  <1> QED BY <1>1, <1>2, <1>4, <1>5, <1>6, ClearsPreserves

(* What comes in is current unless the cache was cleared since it began.    *)
LEMMA FetchEndsPreserves ==
  ASSUME IInv, NEW j \in Jobs, FetchEnds(j) PROVE IInv'
  <1> DEFINE i == job[j].id
             old == {e \in cache : e.id = i /\ e.parts = job[j].parts}
             new == [id |-> i, key |-> job[j].key, parts |-> job[j].parts, got |-> job[j].got,
                     version |-> job[j].version, late |-> job[j].late]
  <1>1. /\ job[j] \in Job /\ job[j].key \in Keys /\ i \in Ids
        /\ job[j].at = "answered" /\ job[j].kind \in {"fetch", "fresh"}
    BY DEF IInv, TypeOK, Listens, FetchEnds
  <1>2. /\ cache' = (cache \ old) \union {new} /\ job' = [job EXCEPT ![j] = IdleJob]
        /\ UNCHANGED <<nodes, node_keys, version, confirmed>>
    BY DEF FetchEnds
  <1>3. /\ job' \in [Jobs -> Job] /\ Listens' /\ FetchIsCurrent' /\ ConfirmedIsApplied'
        /\ ConnectIsAlone' /\ OneNodePerHost'
    BY <1>2, IdleFollows, JobStepKeeps
  <1>4. new \in Entry
    BY <1>1 DEF Job, Entry
  <1>5. /\ new.id = i /\ new.key = job[j].key /\ new.parts = job[j].parts
        /\ new.got = job[j].got /\ new.version = job[j].version /\ new.late = job[j].late
    OBVIOUS
  <1> HIDE DEF new
  <1>6. TypeOK'
    <2>1. \A e, f \in cache' : e.id = f.id /\ e.parts = f.parts => e = f
      BY <1>2, <1>5 DEF IInv, TypeOK
    <2> QED BY <1>2, <1>3, <1>4, <2>1 DEF IInv, TypeOK
  <1>7. CacheIsCurrent'
    <2>1. ~new.late => /\ nodes[new.id] # None /\ nodes[new.id].share = new.parts
                       /\ "links" \in new.got => new.version >= confirmed[KeyHost[new.key]]
      BY <1>1, <1>5 DEF IInv, FetchIsCurrent, Fetches
    <2> QED BY <1>2, <2>1 DEF IInv, CacheIsCurrent
  <1> QED BY <1>3, <1>6, <1>7 DEF IInv

LEMMA CacheAgesPreserves ==
  ASSUME IInv, NEW e \in cache, CacheAges(e) PROVE IInv'
  <1>1. cache' \subseteq cache /\ UNCHANGED <<nodes, job, node_keys, version, confirmed>>
    BY DEF CacheAges
  <1>2. TypeOK' /\ CacheIsCurrent'
    BY <1>1 DEF IInv, TypeOK, CacheIsCurrent
  <1> QED
    BY <1>1, <1>2 DEF IInv, Listens, FetchIsCurrent, Fetches, ConfirmedIsApplied, ConnectIsAlone,
       Connecting, HostOf, OneNodePerHost, OnePerHost

LEMMA NextPreserves == IInv /\ [Next]_vars => IInv'
  <1> SUFFICES ASSUME IInv, [Next]_vars PROVE IInv'
    OBVIOUS
  <1>1. ASSUME NEW k \in Keys, KeyStep(k) PROVE IInv'
    BY <1>1, KeyStepPreserves
  <1>2. ASSUME NEW j \in Jobs,
               Authorised(j) \/ node_write(j) \/ node_write_refused(j) \/ node_snapshot(j)
               \/ \E right \in BOOLEAN : node_handshake(j, right)
        PROVE  IInv'
    BY <1>2, AuthorisedPreserves, NodeWritePreserves, RefusedPreserves, SnapshotPreserves,
       HandshakePreserves
  <1>3. ASSUME NEW j \in Jobs,
               TimesOut(j) \/ Connected(j) \/ FetchBegins(j) \/ FetchEnds(j) \/ WriteEnds(j)
               \/ \E k \in Keys : connect_node(j, k)
        PROVE  IInv'
    BY <1>3, TimesOutPreserves, ConnectedPreserves, FetchBeginsPreserves, FetchEndsPreserves,
       WriteEndsPreserves, ConnectPreserves
  <1>4. ASSUME NEW j \in Jobs, NEW i \in Ids,
               nodes_aggregate(j, i) \/ sub_group_subscription(j, i) \/ proxy_write(j, i)
        PROVE  IInv'
    BY <1>4, GathersPreserves, ProxyWritePreserves DEF nodes_aggregate, sub_group_subscription
  <1>5. ASSUME NEW i \in Ids, update_node(i) \/ disconnect_node(i) PROVE IInv'
    BY <1>5, UpdatePreserves, DisconnectPreserves
  <1>6. CASE backup_import
    BY <1>6, ImportPreserves
  <1>7. ASSUME NEW e \in cache, CacheAges(e) PROVE IInv'
    BY <1>7, CacheAgesPreserves
  <1>8. CASE UNCHANGED vars
    BY <1>8 DEF vars, IInv, TypeOK, Listens, FetchIsCurrent, Fetches, ConfirmedIsApplied,
       ConnectIsAlone, Connecting, HostOf, CacheIsCurrent, OneNodePerHost, OnePerHost
  <1> QED BY <1>1, <1>2, <1>3, <1>4, <1>5, <1>6, <1>7, <1>8 DEF Next, KeyStep

LEMMA Inductive == Spec => []IInv
  BY InitHolds, NextPreserves, PTL DEF Spec

(* Every variable keeps its type, and the cache holds one entry for a node  *)
(* and its parts.                                                           *)
THEOREM TypeCorrect == Spec => []TypeOK
  <1>1. IInv => TypeOK
    BY DEF IInv
  <1> QED BY <1>1, Inductive, PTL

(* However many panels, nodes, keys and requests there are, what the cache  *)
(* shows is of a node that is there, as it is shared, with every write that *)
(* was confirmed, unless it was under way when the cache was cleared.       *)
THEOREM CacheIsAlwaysCurrent == Spec => []CacheIsCurrent
  <1>1. IInv => CacheIsCurrent
    BY DEF IInv
  <1> QED BY <1>1, Inductive, PTL

(* A panel is connected once, unless two connects or a connect and an       *)
(* import of a backup were under way together.                              *)
THEOREM AlwaysOneNodePerHost == Spec => []OneNodePerHost
  <1>1. IInv => OneNodePerHost
    BY DEF IInv
  <1> QED BY <1>1, Inductive, PTL
============================================================================
