--------------------------- MODULE CoreSync_proofs ---------------------------
(***************************************************************************)
(* Proofs about CoreSync: as long as syncs do not overlap, the panel knows *)
(* every process that serves, and a finished sync leaves behind what the   *)
(* links ask for, for any links, syncs and processes.                      *)
(***************************************************************************)
EXTENDS CoreSync, TLAPS

Works(y) == sync[y].at \in {"installing", "stopping", "spawning", "settling"}

(* On its way to a new process, not only to the end of the old one.         *)
Restarts(y) == Works(y) /\ (sync[y].at = "stopping" => sync[y].restart)

(* The cores whose turn is not over.                                        *)
Pending(y, c) == Active(y) /\ \E n \in sync[y].i..Len(CoreOrder) : CoreOrder[n] = c

(* A sync that is at work is at the turn of a core.                         *)
Turns ==
  \A y \in Syncs :
    /\ Active(y) => sync[y].i \in 1..(Len(CoreOrder) + 1)
    /\ Works(y) => sync[y].i \in 1..Len(CoreOrder)
    /\ sync[y].at = "settling" => sync[y].proc \in Procs

Alone == \A y, z \in Syncs : Active(y) /\ Active(z) => y = z

(* A sync that restarts a core has written its file, and the panel has      *)
(* forgotten the old process before the new one is made.                    *)
SyncOK(y) ==
  /\ Works(y) /\ ~Restarts(y) => sync[y].snap[Core(y)] = {}
  /\ Works(y) /\ sync[y].at # "installing" => state[Core(y)] = None
  /\ Restarts(y) =>
       /\ sync[y].snap[Core(y)] # {}
       /\ cfg_file[Core(y)] = write_core_config(Core(y), sync[y].snap[Core(y)])
  /\ sync[y].at = "settling" /\ proc[sync[y].proc].st \in Alive =>
       /\ proc[sync[y].proc].core = Core(y)
       /\ proc[sync[y].proc].st \in Serving
       /\ proc[sync[y].proc].st = "up" => proc[sync[y].proc].serves = cfg_file[Core(y)]

(* A process that serves is its core's, or about to be.                     *)
Known(p) ==
  proc[p].st \in Serving =>
    \/ proc[p].core \in Cores /\ state[proc[p].core] = p
    \/ \E y \in Syncs : sync[y].at = "settling" /\ sync[y].proc = p /\ Core(y) = proc[p].core

(* The core's process serves what its hash stands for, or is to read it.    *)
StateOK(c) ==
  state[c] # None /\ proc[state[c]].st \in Alive =>
    /\ proc[state[c]].core = c /\ proc[state[c]].st \in Serving
    /\ c \in failed \/ (\E y \in Syncs : sync[y].at = "installing" /\ Core(y) = c) \/
         /\ proc[state[c]].st = "up" => proc[state[c]].serves = cfg_hash[c]
         /\ proc[state[c]].st = "starting" => cfg_file[c] = cfg_hash[c]

Asked == \E y \in Syncs : sync[y].at = "asked"

(* A sync goes by the links as they are, until another one is asked for.    *)
SnapOK == \A y \in Syncs, c \in Cores : Pending(y, c) => sync[y].snap[c] = OfCore(c)

(* A core whose turn is over runs as its links ask.                         *)
Right(c) ==
  c \in failed \/ (\E y \in Syncs : Pending(y, c)) \/
    IF OfCore(c) = {} THEN ~is_running(c) ELSE is_running(c) /\ cfg_hash[c] = Wanted(c)

Good ==
  /\ Alone
  /\ \A y \in Syncs : SyncOK(y)
  /\ \A p \in Procs : Known(p)
  /\ \A c \in Cores : StateOK(c)
  /\ ~stale /\ ~Asked => SnapOK /\ \A c \in Cores : Right(c)

IInv ==
  /\ TypeOK /\ Turns
  /\ \A p \in Procs : proc[p].st \in Alive => proc[p].core \in Cores
  /\ ~lost => Good

Sync == [at : {"idle", "asked", "next", "installing", "stopping", "spawning", "settling"},
         i : 0..Len(CoreOrder) + 1, snap : [Cores -> SUBSET Uids],
         proc : Procs \union {None}, restart : BOOLEAN]
Proc == [core : Cores \union {None}, st : {"none"} \union Alive, serves : SUBSET Uids]

LEMMA CoreOf == \A n \in 1..Len(CoreOrder) : CoreOrder[n] \in Cores
  BY CoreSyncAssumption DEF Cores

LEMMA IdleSyncType == IdleSync \in Sync
  BY CoreSyncAssumption DEF IdleSync, Sync, Cores

LEMMA Consequences == IInv => SyncedIsRight /\ NoStray
  <1> SUFFICES ASSUME IInv PROVE SyncedIsRight /\ NoStray
    OBVIOUS
  <1>1. NoStray
    <2> SUFFICES ASSUME ~lost, NEW p \in Procs, proc[p].st \in Serving
                 PROVE  /\ Owned(p)
                        /\ \A q \in Procs : proc[q].st \in Serving /\ proc[q].core = proc[p].core
                                              => q = p
      BY DEF NoStray
    <2>1. Good /\ Known(p)
      BY DEF IInv, Good
    <2>2. Owned(p)
      BY <2>1 DEF Known, Owned
    <2>3. ASSUME NEW q \in Procs, proc[q].st \in Serving, proc[q].core = proc[p].core
          PROVE  q = p
      <3>1. Known(q)
        BY <2>1 DEF Good
      <3>2. \A y \in Syncs : sync[y].at = "settling" => Active(y) /\ state[Core(y)] = None
        BY <2>1 DEF Good, SyncOK, Works, Active
      <3>3. \A y, z \in Syncs : sync[y].at = "settling" /\ sync[z].at = "settling" => y = z
        BY <2>1, <3>2 DEF Good, Alone
      <3> QED BY <2>1, <2>3, <3>1, <3>2, <3>3, CoreSyncAssumption DEF Known
    <2> QED BY <2>2, <2>3
  <1>2. SyncedIsRight
    <2> SUFFICES ASSUME ~lost, Quiet, ~stale, NEW c \in Cores \ failed
                 PROVE  IF OfCore(c) = {} THEN ~is_running(c)
                        ELSE /\ is_running(c)
                             /\ proc[state[c]].st = "up" => proc[state[c]].serves = Wanted(c)
                             /\ proc[state[c]].st = "starting" => cfg_file[c] = Wanted(c)
      BY DEF SyncedIsRight
    <2>1. Good
      BY DEF IInv
    <2>2. ~Asked /\ \A y \in Syncs : ~Pending(y, c) /\ sync[y].at # "installing"
      BY DEF Quiet, Asked, Pending, Active
    <2>3. Right(c) /\ StateOK(c)
      BY <2>1, <2>2 DEF Good
    <2> QED BY <2>2, <2>3 DEF Right, StateOK, is_running, IsAlive
  <1> QED BY <1>1, <1>2
------------------------------------------------------------------------------
(* What a step of sync y changes among the syncs.                           *)
Moves(y) ==
  /\ Active(y) /\ sync' \in [Syncs -> Sync] /\ Turns'
  /\ \A z \in Syncs \ {y} : sync'[z] = sync[z]
  /\ sync'[y].at # "asked"
  /\ \A d \in Cores : Pending(y, d)' => Pending(y, d) /\ sync'[y].snap[d] = sync[y].snap[d]

TypesRest ==
  /\ cfg_file \in [Cores -> SUBSET Uids]
  /\ state \in [Cores -> Procs \union {None}]
  /\ cfg_hash \in [Cores -> (SUBSET Uids) \union {None}]
  /\ proc \in [Procs -> Proc]
  /\ \A p \in Procs : proc[p].st \in Alive => proc[p].core \in Cores
  /\ failed \subseteq Cores

LEMMA Types ==
  TypeOK /\ (\A p \in Procs : proc[p].st \in Alive => proc[p].core \in Cores)
         <=> /\ links \in Links /\ sync \in [Syncs -> Sync] /\ TypesRest
             /\ stale \in BOOLEAN /\ lost \in BOOLEAN
             /\ \A y \in Syncs : Active(y) => sync[y].i # 0
  BY DEF TypeOK, Sync, Proc, TypesRest, Active

LEMMA StepPreserves ==
  ASSUME IInv, NEW y \in Syncs, Moves(y), UNCHANGED <<links, stale, lost>>, TypesRest',
         ~lost => /\ SyncOK(y)' /\ (\A p \in Procs : Known(p)') /\ (\A c \in Cores : StateOK(c)')
                  /\ ~stale /\ ~Asked => \A c \in Cores : Right(c)'
  PROVE  IInv'
  <1>1. TypeOK'
    <2>1. (\A z \in Syncs : Active(z) => sync[z].i # 0)'
      BY DEF Moves, Turns
    <2> QED BY <2>1, Types DEF IInv, Moves, TypeOK, TypesRest, Sync, Proc, Active
  <1>2. ASSUME ~lost PROVE Good'
    <2>1. Good
      BY <1>2 DEF IInv
    <2>2. \A z \in Syncs \ {y} : ~Active(z)
      BY <2>1 DEF Good, Alone, Moves
    <2>3. \A z \in Syncs \ {y} : sync'[z] = sync[z] /\ ~Active(z)'
      BY <2>2 DEF Moves, Active
    <2>4. Alone'
      BY <2>3 DEF Alone
    <2>5. \A z \in Syncs : SyncOK(z)'
      <3>1. \A z \in Syncs \ {y} : SyncOK(z)'
        BY <2>3 DEF SyncOK, Works, Restarts, Active
      <3> QED BY <1>2, <3>1
    <2>6. Asked' <=> Asked
      BY <2>3 DEF Asked, Moves, Active
    <2>7. ~stale /\ ~Asked => SnapOK'
      <3>1. SUFFICES ASSUME ~stale, ~Asked, NEW z \in Syncs, NEW c \in Cores, Pending(z, c)'
                     PROVE  sync'[z].snap[c] = OfCore(c)
        BY DEF SnapOK, OfCore
      <3>2. z = y
        BY <2>3, <3>1 DEF Pending
      <3>3. SnapOK
        BY <2>1, <3>1 DEF Good
      <3> QED BY <3>1, <3>2, <3>3 DEF SnapOK, Moves
    <2> QED BY <1>2, <2>4, <2>5, <2>6, <2>7 DEF Good
  <1> QED BY <1>1, <1>2 DEF IInv, Moves, TypesRest

(* What a step of y leaves alone of another core.                           *)
Untouched(y, d) ==
  /\ state'[d] = state[d] /\ cfg_file'[d] = cfg_file[d] /\ cfg_hash'[d] = cfg_hash[d]
  /\ d \in failed' <=> d \in failed
  /\ state[d] # None => /\ proc'[state[d]].st = proc[state[d]].st
                        /\ proc'[state[d]].core = proc[state[d]].core
                        /\ proc'[state[d]].serves = proc[state[d]].serves
  /\ Pending(y, d)' <=> Pending(y, d)

LEMMA OtherCores ==
  ASSUME IInv, ~lost, NEW y \in Syncs, Moves(y), UNCHANGED links,
         NEW d \in Cores, Core(y) # d, Untouched(y, d)
  PROVE  StateOK(d)' /\ (Right(d) => Right(d)')
  <1>1. Good
    BY DEF IInv
  <1>2. \A z \in Syncs \ {y} : ~Active(z) /\ sync'[z] = sync[z]
    BY <1>1 DEF Good, Alone, Moves
  <1>3. StateOK(d)'
    BY <1>1, <1>2 DEF Good, StateOK, Untouched, Active
  <1>4. Right(d) => Right(d)'
    <2>1. (\E z \in Syncs : Pending(z, d)) => Pending(y, d)
      BY <1>2 DEF Pending
    <2>2. OfCore(d)' = OfCore(d) /\ Wanted(d)' = Wanted(d)
      BY DEF OfCore, Wanted, write_core_config
    <2>3. is_running(d)' <=> is_running(d)
      BY DEF is_running, IsAlive, Untouched
    <2> QED BY <2>1, <2>2, <2>3 DEF Right, Untouched
  <1> QED BY <1>3, <1>4

LEMMA LenType == Len(CoreOrder) \in Nat
  BY CoreSyncAssumption

(* The turn of the next core begins.                                        *)
LEMMA NextCoreMoves ==
  ASSUME IInv, NEW y \in Syncs, Active(y), sync[y].i \in 1..Len(CoreOrder), NextCore(y)
  PROVE  /\ Moves(y) /\ sync'[y].at = "next"
         /\ \A d \in Cores : Pending(y, d)' <=> Pending(y, d) /\ d # Core(y)
         /\ \A d \in Cores : ~(d = Core(y) /\ Pending(y, d)')
  <1> DEFINE c == Core(y)
             r == [sync[y] EXCEPT !.at = "next", !.i = @ + 1, !.proc = None, !.snap[c] = {}]
  <1>1. sync[y] \in Sync /\ c \in Cores /\ sync \in [Syncs -> Sync]
    BY CoreOf DEF IInv, TypeOK, Sync, Core
  <1>2. sync' = [sync EXCEPT ![y] = r]
    BY DEF NextCore
  <1>3. sync[y].i + 1 \in 0..Len(CoreOrder) + 1 /\ sync[y].i + 1 \in 1..(Len(CoreOrder) + 1)
    BY LenType
  <1>4. [sync[y].snap EXCEPT ![c] = {}] \in [Cores -> SUBSET Uids]
    BY <1>1 DEF Sync
  <1>5. /\ r \in Sync /\ r.at = "next" /\ r.i = sync[y].i + 1
        /\ r.snap = [sync[y].snap EXCEPT ![c] = {}]
    BY <1>1, <1>3, <1>4 DEF Sync
  <1> HIDE DEF r
  <1>6. sync'[y] = r /\ sync' \in [Syncs -> Sync] /\ \A z \in Syncs \ {y} : sync'[z] = sync[z]
    BY <1>1, <1>2, <1>5
  <1>7. Turns'
    BY <1>3, <1>5, <1>6 DEF IInv, Turns, Active, Works
  <1>8. ASSUME NEW d \in Cores
        PROVE  Pending(y, d)' <=> Pending(y, d) /\ d # c
    <2>1. Pending(y, d)' <=> \E n \in (sync[y].i + 1)..Len(CoreOrder) : CoreOrder[n] = d
      BY <1>5, <1>6 DEF Pending, Active
    <2>2. Pending(y, d) <=> \E n \in sync[y].i..Len(CoreOrder) : CoreOrder[n] = d
      BY DEF Pending
    <2>3. CoreOrder[sync[y].i] = c
      BY DEF Core
    <2> QED BY <2>1, <2>2, <2>3, CoreSyncAssumption, LenType
  <1>9. \A d \in Cores \ {c} : r.snap[d] = sync[y].snap[d]
    BY <1>1, <1>5 DEF Sync
  <1> QED BY <1>5, <1>6, <1>7, <1>8, <1>9 DEF Moves

(* The sync goes on with the same core.                                     *)
LEMMA WorkMoves ==
  ASSUME IInv, NEW y \in Syncs, Active(y), sync[y].i \in 1..Len(CoreOrder),
         NEW r \in Sync, r.i = sync[y].i, r.snap = sync[y].snap,
         r.at \in {"installing", "stopping", "spawning", "settling"},
         r.at = "settling" => r.proc \in Procs,
         sync' = [sync EXCEPT ![y] = r]
  PROVE  /\ Moves(y) /\ sync'[y] = r /\ Core(y)' = Core(y)
         /\ \A d \in Cores : Pending(y, d)' <=> Pending(y, d)
         /\ Pending(y, Core(y))'
  <1>1. sync \in [Syncs -> Sync]
    BY DEF IInv, TypeOK, Sync
  <1>2. sync'[y] = r /\ sync' \in [Syncs -> Sync] /\ \A z \in Syncs \ {y} : sync'[z] = sync[z]
    BY <1>1
  <1>3. Turns'
    BY <1>2, LenType DEF IInv, Turns, Active, Works
  <1>4. Active(y)' /\ Core(y)' = Core(y)
    BY <1>2 DEF Active, Core
  <1>5. \A d \in Cores : Pending(y, d)' <=> Pending(y, d)
    BY <1>2, <1>4 DEF Pending
  <1>6. Pending(y, Core(y))'
    BY <1>2, <1>4, LenType DEF Pending, Core
  <1> QED BY <1>2, <1>3, <1>4, <1>5, <1>6 DEF Moves
------------------------------------------------------------------------------
(* What is known of the core whose turn it is.                              *)
LEMMA AtWork ==
  ASSUME IInv, NEW y \in Syncs, Works(y) \/ (sync[y].at = "next" /\ sync[y].i <= Len(CoreOrder))
  PROVE  /\ Active(y) /\ sync[y] \in Sync /\ sync[y].i \in 1..Len(CoreOrder)
         /\ Core(y) \in Cores /\ Pending(y, Core(y))
  <1>1. Active(y) /\ sync[y] \in Sync
    BY DEF IInv, TypeOK, Sync, Active, Works
  <1>2. sync[y].i \in 1..Len(CoreOrder)
    BY <1>1, LenType DEF IInv, Turns
  <1>3. Core(y) \in Cores
    BY <1>2, CoreOf DEF Core
  <1>4. Pending(y, Core(y))
    BY <1>1, <1>2, LenType DEF Pending, Core
  <1> QED BY <1>1, <1>2, <1>3, <1>4

LEMMA OthersRest ==
  ASSUME IInv, ~lost, NEW y \in Syncs, Active(y)
  PROVE  \A z \in Syncs \ {y} : ~Active(z) /\ ~Works(z)
  BY DEF IInv, Good, Alone, Active, Works

(* A start fails: the core is marked.                                       *)
LEMMA FailsPreserves ==
  ASSUME IInv, NEW y \in Syncs, sync[y].at \in {"installing", "spawning"}, Fails(y)
  PROVE  IInv'
  <1> PICK c \in Cores : c = Core(y)
    BY AtWork DEF Works
  <1>1. Active(y) /\ sync[y].i \in 1..Len(CoreOrder)
    BY AtWork DEF Works
  <1>2. /\ NextCore(y) /\ failed' = failed \union {c}
        /\ UNCHANGED <<links, cfg_file, state, cfg_hash, proc, stale, lost>>
    BY DEF Fails
  <1>3. /\ Moves(y) /\ sync'[y].at = "next"
        /\ \A d \in Cores : Pending(y, d)' <=> Pending(y, d) /\ d # c
    BY <1>1, <1>2, NextCoreMoves
  <1>4. TypesRest'
    BY <1>1, <1>2 DEF IInv, TypeOK, TypesRest, Proc
  <1>5. ASSUME ~lost
        PROVE  /\ SyncOK(y)' /\ (\A p \in Procs : Known(p)') /\ (\A d \in Cores : StateOK(d)')
               /\ ~stale /\ ~Asked => \A d \in Cores : Right(d)'
    <2>1. Good
      BY <1>5 DEF IInv
    <2>2. SyncOK(y)'
      BY <1>3 DEF SyncOK, Works, Restarts
    <2>3. \A p \in Procs : Known(p)'
      BY <1>1, <1>2, <1>5, <2>1, OthersRest DEF Good, Known, Works
    <2>4. StateOK(c)' /\ Right(c)'
      BY <1>1, <1>2, <2>1 DEF Good, StateOK, Right
    <2>5. \A d \in Cores \ {c} : StateOK(d)' /\ (Right(d) => Right(d)')
      BY <1>2, <1>3, <1>5, OtherCores DEF Untouched
    <2> QED BY <2>1, <2>2, <2>3, <2>4, <2>5 DEF Good
  <1> QED BY <1>2, <1>3, <1>4, <1>5, StepPreserves

(* The process is told to end, or there is none: the core has none now, and *)
(* the sync waits for the old one, starts a new one, or goes on.            *)
LEMMA StopsPreserves ==
  ASSUME IInv, NEW y \in Syncs, NEW restart \in BOOLEAN,
         Stops(y, Core(y), restart),
         \/ sync[y].at = "next" /\ sync[y].i <= Len(CoreOrder) /\ ~restart
            /\ sync[y].snap[Core(y)] = {} /\ is_running(Core(y))
         \/ sync[y].at = "installing" /\ restart,
         UNCHANGED <<links, cfg_file, cfg_hash, stale, failed, lost>>
  PROVE  IInv'
  <1> PICK c \in Cores : c = Core(y)
    BY AtWork DEF Works
  <1> PICK p \in Procs \union {None} : p = state[c]
    BY DEF IInv, TypeOK
  <1> DEFINE r == IF is_running(c)
                  THEN [sync[y] EXCEPT !.at = "stopping", !.proc = p, !.restart = restart]
                  ELSE [sync[y] EXCEPT !.at = "spawning", !.proc = None]
  <1>1. Active(y) /\ sync[y] \in Sync /\ sync[y].i \in 1..Len(CoreOrder)
    BY AtWork DEF Works
  <1>2. /\ state' = [state EXCEPT ![c] = None]
        /\ proc' = IF is_running(c) THEN [proc EXCEPT ![p].st = "ending"] ELSE proc
        /\ sync' = [sync EXCEPT ![y] = r]
    BY DEF Stops, Goes
  <1>3. /\ r \in Sync /\ r.i = sync[y].i /\ r.snap = sync[y].snap
        /\ r.at = (IF is_running(c) THEN "stopping" ELSE "spawning")
        /\ is_running(c) => r.restart = restart
    BY <1>1 DEF Sync
  <1> HIDE DEF r
  <1>4. /\ Moves(y) /\ sync'[y] = r /\ Core(y)' = c
        /\ \A d \in Cores : Pending(y, d)' <=> Pending(y, d)
        /\ Pending(y, c)'
    BY <1>1, <1>2, <1>3, WorkMoves
  <1>5. /\ proc' \in [Procs -> Proc]
        /\ \A q \in Procs : ~(is_running(c) /\ q = p) => proc'[q] = proc[q]
        /\ is_running(c) => p \in Procs /\ proc'[p].st = "ending" /\ proc'[p].core = proc[p].core
                            /\ proc[p].st \in Alive
    <2>1. is_running(c) => p \in Procs
      BY <1>1 DEF is_running, IsAlive
    <2>2. proc \in [Procs -> Proc]
      BY DEF IInv, TypeOK, Proc
    <2>3. is_running(c) => [proc[p] EXCEPT !.st = "ending"] \in Proc
      BY <2>1, <2>2 DEF Proc, Alive
    <2> QED BY <1>2, <2>1, <2>2, <2>3 DEF Proc, is_running, IsAlive
  <1>6. TypesRest'
    BY <1>2, <1>5 DEF IInv, TypeOK, TypesRest, Proc
  <1>7. ASSUME ~lost
        PROVE  /\ SyncOK(y)' /\ (\A q \in Procs : Known(q)') /\ (\A d \in Cores : StateOK(d)')
               /\ ~stale /\ ~Asked => \A d \in Cores : Right(d)'
    <2>1. Good
      BY <1>7 DEF IInv
    <2>2. state'[c] = None
      BY <1>1, <1>2 DEF IInv, TypeOK
    <2>3. SyncOK(y)'
      <3>1. SyncOK(y)
        BY <2>1 DEF Good
      <3>2. restart => sync[y].snap[c] # {} /\ cfg_file[c] = write_core_config(c, sync[y].snap[c])
        BY <3>1 DEF SyncOK, Works, Restarts
      <3>3. Restarts(y)' <=> restart
        BY <1>3, <1>4 DEF Restarts, Works
      <3> QED BY <1>3, <1>4, <2>2, <3>2, <3>3 DEF SyncOK, write_core_config
    <2>4. ASSUME NEW q \in Procs PROVE Known(q)'
      <3>1. Known(q) /\ ~\E z \in Syncs : sync[z].at = "settling"
        BY <1>1, <1>7, <2>1, OthersRest DEF Good, Works
      <3>2. CASE is_running(c) /\ q = p
        BY <1>5, <3>2 DEF Known, Serving
      <3>3. CASE ~(is_running(c) /\ q = p)
        <4>1. proc'[q] = proc[q]
          BY <1>5, <3>3
        <4>2. proc[q].st \in Serving => state[proc[q].core] = q /\ proc[q].core \in Cores
          BY <3>1 DEF Known
        <4>3. proc[q].st \in Serving => proc[q].core # c
          BY <3>3, <4>2, CoreSyncAssumption DEF is_running, IsAlive, Serving, Alive
        <4> QED BY <1>2, <4>1, <4>2, <4>3 DEF Known, IInv, TypeOK
      <3> QED BY <3>2, <3>3
    <2>5. StateOK(c)' /\ Right(c)'
      BY <1>4, <2>2 DEF StateOK, Right
    <2>6. ASSUME NEW d \in Cores \ {c}
          PROVE  StateOK(d)' /\ (Right(d) => Right(d)')
      <3>1. is_running(c) => state[d] # p
        BY <1>1, <2>1 DEF Good, StateOK, is_running, IsAlive
      <3>2. Untouched(y, d)
        BY <1>2, <1>4, <1>5, <3>1 DEF Untouched, IInv, TypeOK
      <3> QED BY <1>4, <1>7, <3>2, OtherCores
    <2> QED BY <2>1, <2>3, <2>4, <2>5, <2>6 DEF Good
  <1> QED BY <1>4, <1>6, <1>7, StepPreserves

LEMMA InstalledPreserves ==
  ASSUME IInv, NEW y \in Syncs, Installed(y) PROVE IInv'
  BY StopsPreserves DEF Installed

(* One core's turn: it is stopped, or left alone, or to be restarted.       *)
LEMMA SyncCorePreserves ==
  ASSUME IInv, NEW y \in Syncs, SyncCore(y) PROVE IInv'
  <1> PICK c \in Cores : c = Core(y)
    BY AtWork DEF SyncCore
  <1> DEFINE snap == sync[y].snap[c]
             inbounds == write_core_config(c, snap)
  <1>1. /\ Active(y) /\ sync[y] \in Sync /\ sync[y].i \in 1..Len(CoreOrder) /\ Pending(y, c)
        /\ sync[y].at = "next" /\ sync[y].i <= Len(CoreOrder)
        /\ snap \in SUBSET Uids /\ inbounds \in SUBSET Uids
    BY AtWork DEF SyncCore, Sync, write_core_config
  <1>2. UNCHANGED <<links, cfg_hash, stale, failed, lost>>
    BY DEF SyncCore
  <1>3. ASSUME ~lost
        PROVE  /\ Good /\ \A z \in Syncs : ~Works(z)
               /\ ~stale /\ ~Asked => snap = OfCore(c) /\ inbounds = Wanted(c)
    <2>1. Good
      BY <1>3 DEF IInv
    <2>2. \A z \in Syncs : ~Works(z)
      BY <1>1, <1>3, OthersRest DEF Works
    <2>3. ~stale /\ ~Asked => snap = OfCore(c)
      BY <1>1, <2>1 DEF Good, SnapOK
    <2> QED BY <2>1, <2>2, <2>3 DEF Wanted
  <1>4. CASE snap = {} /\ is_running(c)
    <2>1. Stops(y, c, FALSE) /\ UNCHANGED cfg_file
      BY <1>4 DEF SyncCore
    <2> QED BY <1>1, <1>2, <1>4, <2>1, StopsPreserves
  <1>5. CASE snap = {} /\ ~is_running(c)
    <2>1. NextCore(y) /\ UNCHANGED <<cfg_file, state, proc>>
      BY <1>5 DEF SyncCore
    <2>2. /\ Moves(y) /\ sync'[y].at = "next"
          /\ \A d \in Cores : Pending(y, d)' <=> Pending(y, d) /\ d # c
      BY <1>1, <2>1, NextCoreMoves
    <2>3. TypesRest'
      BY <1>2, <2>1 DEF IInv, TypeOK, TypesRest, Proc
    <2>4. ASSUME ~lost
          PROVE  /\ SyncOK(y)' /\ (\A p \in Procs : Known(p)') /\ (\A d \in Cores : StateOK(d)')
                 /\ ~stale /\ ~Asked => \A d \in Cores : Right(d)'
      <3>1. SyncOK(y)'
        BY <2>2 DEF SyncOK, Works, Restarts
      <3>2. \A p \in Procs : Known(p)'
        BY <1>3, <2>1, <2>4 DEF Good, Known, Works
      <3>3. StateOK(c)'
        BY <1>2, <1>3, <1>5, <2>1, <2>4 DEF StateOK, is_running, IsAlive
      <3>4. ~stale /\ ~Asked => Right(c)'
        BY <1>2, <1>3, <1>5, <2>1, <2>4 DEF Right, is_running, IsAlive, OfCore
      <3>5. \A d \in Cores \ {c} : StateOK(d)' /\ (Right(d) => Right(d)')
        BY <1>2, <2>1, <2>2, <2>4, OtherCores DEF Untouched
      <3> QED BY <1>3, <2>4, <3>1, <3>2, <3>3, <3>4, <3>5 DEF Good
    <2> QED BY <1>2, <2>2, <2>3, <2>4, StepPreserves
  <1>6. CASE snap # {} /\ is_running(c) /\ cfg_hash[c] = inbounds
    <2>1. NextCore(y) /\ cfg_file' = [cfg_file EXCEPT ![c] = inbounds] /\ UNCHANGED <<state, proc>>
      BY <1>6 DEF SyncCore
    <2>2. /\ Moves(y) /\ sync'[y].at = "next"
          /\ \A d \in Cores : Pending(y, d)' <=> Pending(y, d) /\ d # c
      BY <1>1, <2>1, NextCoreMoves
    <2>3. TypesRest' /\ cfg_file'[c] = inbounds /\ \A d \in Cores \ {c} : cfg_file'[d] = cfg_file[d]
      BY <1>1, <1>2, <2>1 DEF IInv, TypeOK, TypesRest, Proc
    <2>4. ASSUME ~lost
          PROVE  /\ SyncOK(y)' /\ (\A p \in Procs : Known(p)') /\ (\A d \in Cores : StateOK(d)')
                 /\ ~stale /\ ~Asked => \A d \in Cores : Right(d)'
      <3>1. SyncOK(y)'
        BY <2>2 DEF SyncOK, Works, Restarts
      <3>2. \A p \in Procs : Known(p)'
        BY <1>3, <2>1, <2>4 DEF Good, Known, Works
      <3>3. StateOK(c)'
        BY <1>2, <1>3, <1>6, <2>1, <2>3, <2>4 DEF Good, StateOK, Works
      <3>4. ~stale /\ ~Asked => Right(c)'
        <4>1. ~stale /\ ~Asked => OfCore(c)' # {} /\ Wanted(c)' = inbounds
          BY <1>2, <1>3, <1>6, <2>4 DEF OfCore, Wanted, write_core_config
        <4> QED BY <1>2, <1>6, <2>1, <4>1 DEF Right, is_running, IsAlive
      <3>5. \A d \in Cores \ {c} : StateOK(d)' /\ (Right(d) => Right(d)')
        BY <1>2, <2>1, <2>2, <2>3, <2>4, OtherCores DEF Untouched
      <3> QED BY <1>3, <2>4, <3>1, <3>2, <3>3, <3>4, <3>5 DEF Good
    <2> QED BY <1>2, <2>2, <2>3, <2>4, StepPreserves
  <1>7. CASE snap # {} /\ ~(is_running(c) /\ cfg_hash[c] = inbounds)
    <2> DEFINE r == [sync[y] EXCEPT !.at = "installing", !.proc = None]
    <2>1. /\ sync' = [sync EXCEPT ![y] = r] /\ cfg_file' = [cfg_file EXCEPT ![c] = inbounds]
          /\ UNCHANGED <<state, proc>>
      BY <1>7 DEF SyncCore, Goes
    <2>2. r \in Sync /\ r.i = sync[y].i /\ r.snap = sync[y].snap /\ r.at = "installing"
      BY <1>1 DEF Sync
    <2> HIDE DEF r
    <2>3. /\ Moves(y) /\ sync'[y] = r /\ Core(y)' = c
          /\ \A d \in Cores : Pending(y, d)' <=> Pending(y, d)
          /\ Pending(y, c)'
      BY <1>1, <2>1, <2>2, WorkMoves
    <2>4. TypesRest' /\ cfg_file'[c] = inbounds /\ \A d \in Cores \ {c} : cfg_file'[d] = cfg_file[d]
      BY <1>1, <1>2, <2>1 DEF IInv, TypeOK, TypesRest, Proc
    <2>5. ASSUME ~lost
          PROVE  /\ SyncOK(y)' /\ (\A p \in Procs : Known(p)') /\ (\A d \in Cores : StateOK(d)')
                 /\ ~stale /\ ~Asked => \A d \in Cores : Right(d)'
      <3>1. SyncOK(y)'
        BY <1>7, <2>2, <2>3, <2>4 DEF SyncOK, Works, Restarts, write_core_config
      <3>2. \A p \in Procs : Known(p)'
        BY <1>3, <2>1, <2>5 DEF Good, Known, Works
      <3>3. StateOK(c)' /\ Right(c)'
        BY <1>3, <2>1, <2>2, <2>3, <2>5 DEF Good, StateOK, Right
      <3>4. \A d \in Cores \ {c} : StateOK(d)' /\ (Right(d) => Right(d)')
        BY <1>2, <2>1, <2>3, <2>4, <2>5, OtherCores DEF Untouched
      <3> QED BY <1>3, <2>5, <3>1, <3>2, <3>3, <3>4 DEF Good
    <2> QED BY <1>2, <2>3, <2>4, <2>5, StepPreserves
  <1> QED BY <1>4, <1>5, <1>6, <1>7

LEMMA SyncEndsPreserves ==
  ASSUME IInv, NEW y \in Syncs, SyncEnds(y) PROVE IInv'
  <1>1. /\ sync[y].at = "next" /\ sync[y].i > Len(CoreOrder)
        /\ sync' = [sync EXCEPT ![y] = IdleSync] /\ sync \in [Syncs -> Sync]
        /\ UNCHANGED <<links, cfg_file, state, cfg_hash, proc, stale, failed, lost>>
    BY DEF SyncEnds, IInv, TypeOK, Sync
  <1>2. Active(y) /\ \A d \in Cores : ~Pending(y, d)
    BY <1>1, LenType DEF Active, Pending, IInv, Turns
  <1>3. sync'[y].at = "idle" /\ \A z \in Syncs \ {y} : sync'[z] = sync[z]
    BY <1>1 DEF IdleSync
  <1>4. Moves(y)
    <2>1. sync' \in [Syncs -> Sync]
      BY <1>1, IdleSyncType
    <2>2. Turns'
      BY <1>3 DEF IInv, Turns, Active, Works
    <2> QED BY <1>2, <1>3, <2>1, <2>2 DEF Moves, Pending, Active
  <1>5. TypesRest'
    BY <1>1 DEF IInv, TypeOK, TypesRest, Proc
  <1>6. ASSUME ~lost
        PROVE  /\ SyncOK(y)' /\ (\A p \in Procs : Known(p)') /\ (\A d \in Cores : StateOK(d)')
               /\ ~stale /\ ~Asked => \A d \in Cores : Right(d)'
    <2>1. Good /\ \A z \in Syncs : ~Works(z)
      BY <1>1, <1>2, <1>6, OthersRest DEF IInv, Works
    <2>2. SyncOK(y)'
      BY <1>3 DEF SyncOK, Works, Restarts
    <2>3. \A p \in Procs : Known(p)'
      BY <1>1, <2>1 DEF Good, Known, Works
    <2>4. \A d \in Cores : StateOK(d)'
      BY <1>1, <2>1 DEF Good, StateOK, Works
    <2>5. \A d \in Cores : Right(d) => Right(d)'
      <3>1. \A z \in Syncs \ {y}, d \in Cores : Pending(z, d)' <=> Pending(z, d)
        BY <1>3 DEF Pending, Active
      <3> QED BY <1>1, <1>2, <1>3, <3>1 DEF Right, OfCore, is_running, IsAlive, Wanted,
                                         write_core_config
    <2> QED BY <1>6, <2>1, <2>2, <2>3, <2>4, <2>5 DEF Good
  <1> QED BY <1>1, <1>4, <1>5, <1>6, StepPreserves

(* The old process is out of the way: a new one is made, or the core has    *)
(* no links and does not run.                                               *)
LEMMA StoppedPreserves ==
  ASSUME IInv, NEW y \in Syncs, Stopped(y) PROVE IInv'
  <1> PICK c \in Cores : c = Core(y)
    BY AtWork DEF Works, Stopped
  <1>1. /\ Active(y) /\ sync[y] \in Sync /\ sync[y].i \in 1..Len(CoreOrder) /\ Pending(y, c)
        /\ sync[y].at = "stopping" /\ Works(y)
        /\ UNCHANGED <<links, cfg_file, state, cfg_hash, proc, stale, lost>>
    BY AtWork DEF Stopped, Works
  <1>2. ASSUME ~lost
        PROVE  /\ Good /\ SyncOK(y) /\ state[c] = None
               /\ \A z \in Syncs : ~(sync[z].at \in {"installing", "settling"})
               /\ ~stale /\ ~Asked => sync[y].snap[c] = OfCore(c)
    BY <1>1, <1>2, OthersRest DEF IInv, Good, SyncOK, Works, SnapOK
  <1>3. CASE sync[y].restart
    <2> DEFINE r == [sync[y] EXCEPT !.at = "spawning", !.proc = None]
    <2>1. sync' = [sync EXCEPT ![y] = r] /\ failed' = failed
      BY <1>3 DEF Stopped, Goes
    <2>2. r \in Sync /\ r.i = sync[y].i /\ r.snap = sync[y].snap /\ r.at = "spawning"
      BY <1>1 DEF Sync
    <2> HIDE DEF r
    <2>3. /\ Moves(y) /\ sync'[y] = r /\ Core(y)' = c
          /\ \A d \in Cores : Pending(y, d)' <=> Pending(y, d)
          /\ Pending(y, c)'
      BY <1>1, <2>1, <2>2, WorkMoves
    <2>4. TypesRest'
      BY <1>1, <2>1 DEF IInv, TypeOK, TypesRest, Proc
    <2>5. ASSUME ~lost
          PROVE  /\ SyncOK(y)' /\ (\A p \in Procs : Known(p)') /\ (\A d \in Cores : StateOK(d)')
                 /\ ~stale /\ ~Asked => \A d \in Cores : Right(d)'
      <3>1. SyncOK(y)'
        BY <1>1, <1>2, <1>3, <2>2, <2>3, <2>5 DEF SyncOK, Works, Restarts, write_core_config
      <3>2. \A p \in Procs : Known(p)'
        BY <1>1, <1>2, <2>5 DEF Good, Known
      <3>3. StateOK(c)' /\ Right(c)'
        BY <1>1, <1>2, <2>3, <2>5 DEF StateOK, Right
      <3>4. \A d \in Cores \ {c} : StateOK(d)' /\ (Right(d) => Right(d)')
        BY <1>1, <2>1, <2>3, <2>5, OtherCores DEF Untouched
      <3> QED BY <1>2, <2>5, <3>1, <3>2, <3>3, <3>4 DEF Good
    <2> QED BY <1>1, <2>3, <2>4, <2>5, StepPreserves
  <1>4. CASE ~sync[y].restart
    <2>1. NextCore(y) /\ failed' = failed \ {c}
      BY <1>4 DEF Stopped
    <2>2. /\ Moves(y) /\ sync'[y].at = "next"
          /\ \A d \in Cores : Pending(y, d)' <=> Pending(y, d) /\ d # c
      BY <1>1, <2>1, NextCoreMoves
    <2>3. TypesRest'
      BY <1>1, <2>1 DEF IInv, TypeOK, TypesRest, Proc
    <2>4. ASSUME ~lost
          PROVE  /\ SyncOK(y)' /\ (\A p \in Procs : Known(p)') /\ (\A d \in Cores : StateOK(d)')
                 /\ ~stale /\ ~Asked => \A d \in Cores : Right(d)'
      <3>1. SyncOK(y)'
        BY <2>2 DEF SyncOK, Works, Restarts
      <3>2. \A p \in Procs : Known(p)'
        BY <1>1, <1>2, <2>4 DEF Good, Known
      <3>3. StateOK(c)'
        BY <1>1, <1>2, <2>4 DEF StateOK
      <3>4. ~stale /\ ~Asked => Right(c)'
        <4>1. sync[y].snap[c] = {}
          BY <1>1, <1>2, <1>4, <2>4 DEF SyncOK, Restarts, Works
        <4>2. ~stale /\ ~Asked => OfCore(c)' = {}
          BY <1>1, <1>2, <2>4, <4>1 DEF OfCore
        <4>3. ~is_running(c)'
          BY <1>1, <1>2, <2>4 DEF is_running, IsAlive
        <4> QED BY <4>2, <4>3 DEF Right
      <3>5. \A d \in Cores \ {c} : StateOK(d)' /\ (Right(d) => Right(d)')
        BY <1>1, <2>1, <2>2, <2>4, OtherCores DEF Untouched
      <3> QED BY <1>2, <2>4, <3>1, <3>2, <3>3, <3>4, <3>5 DEF Good
    <2> QED BY <1>1, <2>2, <2>3, <2>4, StepPreserves
  <1> QED BY <1>3, <1>4

(* A new process, which no one knows but the sync.                          *)
LEMMA SpawnsPreserves ==
  ASSUME IInv, NEW y \in Syncs, Spawns(y) PROVE IInv'
  <1> PICK c \in Cores : c = Core(y)
    BY AtWork DEF Works, Spawns
  <1>1. /\ Active(y) /\ sync[y] \in Sync /\ sync[y].i \in 1..Len(CoreOrder)
        /\ sync[y].at = "spawning" /\ Works(y)
        /\ UNCHANGED <<links, cfg_file, state, cfg_hash, stale, failed, lost>>
    BY AtWork DEF Spawns, Works
  <1>2. PICK p \in Procs :
          /\ FreeProc(p)
          /\ proc' = [proc EXCEPT ![p] = [NoProc EXCEPT !.core = c, !.st = "starting"]]
          /\ sync' = [sync EXCEPT ![y].at = "settling", ![y].proc = p]
    BY DEF Spawns
  <1> DEFINE r == [sync[y] EXCEPT !.at = "settling", !.proc = p]
             new == [NoProc EXCEPT !.core = c, !.st = "starting"]
  <1>3. r \in Sync /\ r.i = sync[y].i /\ r.snap = sync[y].snap /\ r.at = "settling" /\ r.proc = p
    BY <1>1 DEF Sync
  <1>4. sync' = [sync EXCEPT ![y] = r]
    BY <1>2
  <1> HIDE DEF r
  <1>5. /\ Moves(y) /\ sync'[y] = r /\ Core(y)' = c
        /\ \A d \in Cores : Pending(y, d)' <=> Pending(y, d)
        /\ Pending(y, c)'
    BY <1>1, <1>3, <1>4, WorkMoves
  <1>6. new \in Proc /\ new.st = "starting" /\ new.core = c
    BY DEF NoProc, Proc, Alive
  <1>7. proc' \in [Procs -> Proc] /\ proc'[p] = new /\ \A q \in Procs \ {p} : proc'[q] = proc[q]
    BY <1>2, <1>6 DEF IInv, TypeOK, Proc
  <1> HIDE DEF new
  <1>8. TypesRest'
    <2>1. TypesRest
      BY Types DEF IInv
    <2> QED BY <1>1, <1>6, <1>7, <2>1 DEF TypesRest
  <1>9. ASSUME ~lost
        PROVE  /\ SyncOK(y)' /\ (\A q \in Procs : Known(q)') /\ (\A d \in Cores : StateOK(d)')
               /\ ~stale /\ ~Asked => \A d \in Cores : Right(d)'
    <2>1. /\ Good /\ SyncOK(y) /\ state[c] = None
          /\ \A z \in Syncs : sync[z].at # "settling"
      BY <1>1, <1>9, OthersRest DEF IInv, Good, SyncOK, Works
    <2>2. SyncOK(y)'
      <3>1. sync[y].snap[c] # {} /\ cfg_file[c] = write_core_config(c, sync[y].snap[c])
        BY <1>1, <2>1 DEF SyncOK, Restarts
      <3> QED BY <1>1, <1>3, <1>5, <1>6, <1>7, <2>1, <3>1
              DEF SyncOK, Works, Restarts, write_core_config, Serving
    <2>3. ASSUME NEW q \in Procs PROVE Known(q)'
      <3>1. CASE q = p
        BY <1>3, <1>5, <1>6, <1>7, <3>1 DEF Known
      <3>2. CASE q # p
        BY <1>1, <1>7, <2>1, <3>2 DEF Good, Known
      <3> QED BY <3>1, <3>2
    <2>4. StateOK(c)' /\ Right(c)'
      BY <1>1, <1>5, <2>1 DEF StateOK, Right
    <2>5. ASSUME NEW d \in Cores \ {c}
          PROVE  StateOK(d)' /\ (Right(d) => Right(d)')
      <3>1. state[d] # p /\ state[d] \in Procs \union {None}
        BY <1>2 DEF FreeProc, IInv, TypeOK
      <3>2. Untouched(y, d)
        BY <1>1, <1>5, <1>7, <3>1 DEF Untouched
      <3> QED BY <1>1, <1>5, <1>9, <3>2, OtherCores
    <2> QED BY <1>9, <2>1, <2>2, <2>3, <2>4, <2>5 DEF Good
  <1> QED BY <1>1, <1>5, <1>8, <1>9, StepPreserves

(* The process is recorded with what its file holds, or it is dead.         *)
LEMMA SettlesPreserves ==
  ASSUME IInv, NEW y \in Syncs, Settles(y) PROVE IInv'
  <1> PICK c \in Cores : c = Core(y)
    BY AtWork DEF Works, Settles
  <1> PICK p \in Procs : p = sync[y].proc
    BY DEF IInv, Turns, Settles
  <1> DEFINE inbounds == write_core_config(c, sync[y].snap[c])
  <1>1. /\ Active(y) /\ sync[y] \in Sync /\ sync[y].i \in 1..Len(CoreOrder) /\ Pending(y, c)
        /\ sync[y].at = "settling" /\ Works(y) /\ Restarts(y) /\ NextCore(y)
        /\ UNCHANGED <<links, cfg_file, proc, stale, lost>>
        /\ inbounds \in SUBSET Uids
    BY AtWork DEF Settles, Works, Restarts, Sync, write_core_config
  <1>2. IF IsAlive(p)
        THEN /\ state' = [state EXCEPT ![c] = p] /\ cfg_hash' = [cfg_hash EXCEPT ![c] = inbounds]
             /\ failed' = failed \ {c}
        ELSE failed' = failed \union {c} /\ UNCHANGED <<state, cfg_hash>>
    BY DEF Settles
  <1>3. /\ Moves(y) /\ sync'[y].at = "next"
        /\ \A d \in Cores : Pending(y, d)' <=> Pending(y, d) /\ d # c
    BY <1>1, NextCoreMoves
  <1>4. /\ TypesRest'
        /\ \A d \in Cores \ {c} : state'[d] = state[d] /\ cfg_hash'[d] = cfg_hash[d]
        /\ IsAlive(p) => state'[c] = p /\ cfg_hash'[c] = inbounds
    <2>1. TypesRest
      BY Types DEF IInv
    <2> HIDE DEF inbounds
    <2>2. CASE IsAlive(p)
      BY <1>1, <1>2, <2>1, <2>2 DEF TypesRest
    <2>3. CASE ~IsAlive(p)
      BY <1>1, <1>2, <2>1, <2>3 DEF TypesRest
    <2> QED BY <2>2, <2>3
  <1>5. ASSUME ~lost
        PROVE  /\ SyncOK(y)' /\ (\A q \in Procs : Known(q)') /\ (\A d \in Cores : StateOK(d)')
               /\ ~stale /\ ~Asked => \A d \in Cores : Right(d)'
    <2>1. /\ Good /\ SyncOK(y) /\ state[c] = None
          /\ \A z \in Syncs \ {y} : sync[z].at # "settling"
          /\ ~stale /\ ~Asked => sync[y].snap[c] = OfCore(c)
      BY <1>1, <1>5, OthersRest DEF IInv, Good, SyncOK, Works, SnapOK
    <2>2. sync[y].snap[c] # {} /\ cfg_file[c] = inbounds
      BY <1>1, <2>1 DEF SyncOK
    <2>3. proc[p].st \in Alive => /\ proc[p].core = c /\ proc[p].st \in Serving
                                  /\ proc[p].st = "up" => proc[p].serves = inbounds
      BY <1>1, <2>1, <2>2 DEF SyncOK
    <2>4. SyncOK(y)'
      BY <1>3 DEF SyncOK, Works, Restarts
    <2>5. ASSUME NEW q \in Procs PROVE Known(q)'
      <3>1. CASE q = p
        BY <1>1, <1>4, <2>3, <3>1, CoreSyncAssumption DEF Known, IsAlive, Serving, Alive
      <3>2. CASE q # p
        <4>1. proc[q].st \in Serving => /\ state[proc[q].core] = q /\ proc[q].core \in Cores
                                        /\ proc[q].core # c
          BY <1>1, <2>1, <3>2, CoreSyncAssumption DEF Good, Known
        <4> QED BY <1>1, <1>4, <4>1 DEF Known
      <3> QED BY <3>1, <3>2
    <2>6. StateOK(c)'
      BY <1>1, <1>2, <1>4, <2>1, <2>2, <2>3 DEF StateOK
    <2>7. ~stale /\ ~Asked => Right(c)'
      <3>1. CASE IsAlive(p)
        <4>1. ~stale /\ ~Asked => OfCore(c)' # {} /\ Wanted(c)' = inbounds
          BY <1>1, <2>1, <2>2 DEF OfCore, Wanted, write_core_config
        <4> QED BY <1>1, <1>4, <3>1, <4>1 DEF Right, is_running, IsAlive
      <3>2. CASE ~IsAlive(p)
        BY <1>2, <3>2 DEF Right
      <3> QED BY <3>1, <3>2
    <2>8. ASSUME NEW d \in Cores \ {c} PROVE StateOK(d)' /\ (Right(d) => Right(d)')
      <3>1. Untouched(y, d)
        BY <1>1, <1>2, <1>3, <1>4 DEF Untouched
      <3> QED BY <1>1, <1>3, <1>5, <3>1, OtherCores
    <2> QED BY <1>5, <2>1, <2>4, <2>5, <2>6, <2>7, <2>8 DEF Good
  <1> QED BY <1>1, <1>3, <1>4, <1>5, StepPreserves
------------------------------------------------------------------------------
(* The processes.  No sync moves.                                           *)

LEMMA ProcPreserves ==
  ASSUME IInv, NEW p \in Procs, proc[p].st \in Alive,
         proc' \in [Procs -> Proc], \A q \in Procs \ {p} : proc'[q] = proc[q],
         \/ /\ proc'[p].st = "none"
            /\ failed' = failed \union {c \in Cores : state[c] = p}
         \/ /\ proc[p].st = "starting" /\ proc'[p].st = "up"
            /\ proc'[p].core = proc[p].core /\ proc'[p].serves = cfg_file[proc[p].core]
            /\ failed' = failed,
         UNCHANGED <<links, cfg_file, state, cfg_hash, sync, stale, lost>>
  PROVE  IInv'
  <1>1. /\ TypeOK' /\ Turns'
        /\ (\A q \in Procs : proc[q].st \in Alive => proc[q].core \in Cores)'
    BY DEF IInv, TypeOK, Turns, Active, Works, Proc, Alive
  <1>2. ASSUME ~lost PROVE Good'
    <2>1. Good
      BY <1>2 DEF IInv
    <2>2. Alone'
      BY <2>1 DEF Good, Alone, Active
    <2>3. ASSUME NEW y \in Syncs PROVE SyncOK(y)'
      <3>1. SyncOK(y) /\ (sync[y].at = "settling" => sync[y].proc \in Procs)
        BY <2>1 DEF Good, IInv, Turns
      <3>2. (Works(y) <=> Works(y)') /\ (Restarts(y) <=> Restarts(y)') /\ Core(y)' = Core(y)
        BY DEF Works, Restarts, Core
      <3>3. CASE sync[y].at = "settling" /\ sync[y].proc = p
        BY <3>1, <3>2, <3>3 DEF SyncOK, write_core_config, Serving, Alive
      <3>4. CASE ~(sync[y].at = "settling" /\ sync[y].proc = p)
        BY <3>1, <3>2, <3>4 DEF SyncOK, write_core_config
      <3> QED BY <3>3, <3>4
    <2>4. ASSUME NEW q \in Procs PROVE Known(q)'
      <3>1. Known(q)
        BY <2>1 DEF Good
      <3>2. proc'[q].st \in Serving => proc[q].st \in Serving /\ proc'[q].core = proc[q].core
        BY DEF Serving
      <3> QED BY <3>1, <3>2 DEF Known, Core
    <2>5. ASSUME NEW c \in Cores PROVE StateOK(c)'
      <3>1. StateOK(c) /\ state[c] \in Procs \union {None}
        BY <2>1 DEF Good, IInv, TypeOK
      <3>2. CASE state[c] = p
        BY <3>1, <3>2 DEF StateOK, Alive, Serving, Core
      <3>3. CASE state[c] # p
        BY <3>1, <3>3 DEF StateOK, Core
      <3> QED BY <3>2, <3>3
    <2>6. ~stale /\ ~Asked => SnapOK'
      BY <2>1 DEF Good, SnapOK, Pending, Active, OfCore
    <2>7. ASSUME NEW c \in Cores, Right(c) PROVE Right(c)'
      <3>1. state[c] \in Procs \union {None}
        BY DEF IInv, TypeOK
      <3>2. (\E y \in Syncs : Pending(y, c))' <=> \E y \in Syncs : Pending(y, c)
        BY DEF Pending, Active
      <3>3. OfCore(c)' = OfCore(c) /\ Wanted(c)' = Wanted(c)
        BY DEF OfCore, Wanted, write_core_config
      <3>4. c \in failed => c \in failed'
        OBVIOUS
      <3>5. c \in failed' \/ (is_running(c)' <=> is_running(c))
        BY <3>1 DEF is_running, IsAlive, Alive
      <3> QED BY <2>7, <3>2, <3>3, <3>4, <3>5 DEF Right
    <2> QED BY <2>1, <2>2, <2>3, <2>4, <2>5, <2>6, <2>7 DEF Good, Asked
  <1> QED BY <1>1, <1>2 DEF IInv

LEMMA NoProcType == NoProc \in Proc /\ NoProc.st = "none"
  BY DEF NoProc, Proc

LEMMA ProcBindsPreserves ==
  ASSUME IInv, NEW p \in Procs, ProcBinds(p) PROVE IInv'
  <1>1. /\ proc[p] \in Proc /\ proc \in [Procs -> Proc] /\ proc[p].st = "starting"
        /\ UNCHANGED <<links, cfg_file, state, cfg_hash, sync, stale, lost>>
    BY DEF IInv, TypeOK, Proc, ProcBinds
  <1>2. CASE Dies(p)
    BY <1>1, <1>2, NoProcType, ProcPreserves DEF Dies, Alive
  <1>3. CASE /\ proc' = [proc EXCEPT ![p].st = "up", ![p].serves = cfg_file[proc[p].core]]
             /\ UNCHANGED failed
    <2> DEFINE r == [proc[p] EXCEPT !.st = "up", !.serves = cfg_file[proc[p].core]]
    <2>1. proc[p].core \in Cores
      BY <1>1 DEF IInv, Alive
    <2>2. r \in Proc /\ r.st = "up" /\ r.core = proc[p].core /\ r.serves = cfg_file[proc[p].core]
      BY <1>1, <2>1 DEF Proc, Alive, IInv, TypeOK
    <2>3. proc' = [proc EXCEPT ![p] = r]
      BY <1>3
    <2> HIDE DEF r
    <2>4. UNCHANGED failed
      BY <1>3
    <2> QED BY <1>1, <2>2, <2>3, <2>4, ProcPreserves DEF Alive
  <1> QED BY <1>2, <1>3 DEF ProcBinds

LEMMA ProcEndsPreserves ==
  ASSUME IInv, NEW p \in Procs, ProcEnds(p) PROVE IInv'
  BY NoProcType, ProcPreserves DEF ProcEnds, Dies, IsAlive, IInv, TypeOK, Proc
------------------------------------------------------------------------------
(* Handlers, the first step of a sync, and restarts.                        *)

LEMMA HandlerPreserves ==
  ASSUME IInv, Rest, links' \in Links, stale' \in BOOLEAN, UNCHANGED lost,
         \/ Asks
         \/ UNCHANGED sync /\ (stale' \/ (stale' = stale /\ \A c \in Cores : OfCore(c)' = OfCore(c)))
  PROVE  IInv'
  <1>1. UNCHANGED <<cfg_file, state, cfg_hash, proc, failed, lost>>
    BY DEF Rest
  <1>2. /\ sync' \in [Syncs -> Sync]
        /\ \A y \in Syncs :
             /\ sync'[y] = sync[y] \/ (sync[y].at = "idle" /\ sync'[y].at = "asked")
             /\ Active(y)' <=> Active(y)
             /\ Active(y) => sync'[y] = sync[y]
        /\ Asks => Asked'
    <2>1. sync \in [Syncs -> Sync]
      BY DEF IInv, TypeOK, Sync
    <2>2. CASE Asks
      <3>1. PICK y \in Syncs : sync[y].at = "idle" /\ sync' = [sync EXCEPT ![y].at = "asked"]
        BY <2>2 DEF Asks
      <3> DEFINE r == [sync[y] EXCEPT !.at = "asked"]
      <3>2. r \in Sync /\ r.at = "asked"
        BY <2>1 DEF Sync
      <3>3. sync' = [sync EXCEPT ![y] = r]
        BY <3>1
      <3> HIDE DEF r
      <3> QED BY <2>1, <3>1, <3>2, <3>3 DEF Active, Asked
    <2>3. CASE UNCHANGED sync /\ ~Asks
      BY <2>1, <2>3 DEF Active
    <2> QED BY <2>2, <2>3
  <1>3. \A y \in Syncs : /\ Works(y)' <=> Works(y)
                         /\ Works(y) => sync'[y] = sync[y]
    BY <1>2 DEF Works, Active
  <1>4. /\ TypeOK' /\ Turns'
        /\ (\A p \in Procs : proc[p].st \in Alive => proc[p].core \in Cores)'
    BY <1>1, <1>2, <1>3 DEF IInv, TypeOK, Turns, Active, Works, Sync
  <1>5. ASSUME ~lost PROVE Good'
    <2>1. Good
      BY <1>5 DEF IInv
    <2>2. Alone'
      BY <1>2, <2>1 DEF Good, Alone
    <2>3. \A y \in Syncs : SyncOK(y)'
      <3>1. ASSUME NEW y \in Syncs, Works(y) PROVE SyncOK(y)'
        BY <1>1, <1>3, <2>1, <3>1 DEF Good, SyncOK, Restarts, Works, Core, write_core_config
      <3>2. ASSUME NEW y \in Syncs, ~Works(y) PROVE SyncOK(y)'
        <4>1. ~Works(y)'
          BY <1>3, <3>2
        <4> QED BY <4>1 DEF SyncOK, Restarts, Works
      <3> QED BY <3>1, <3>2
    <2>4. \A p \in Procs : Known(p)'
      BY <1>1, <1>3, <2>1 DEF Good, Known, Core, Works
    <2>5. \A c \in Cores : StateOK(c)'
      BY <1>1, <1>3, <2>1 DEF Good, StateOK, Core, Works
    <2>6. ~stale' /\ ~Asked' => SnapOK' /\ \A c \in Cores : Right(c)'
      <3> SUFFICES ASSUME ~stale', ~Asked' PROVE SnapOK' /\ \A c \in Cores : Right(c)'
        OBVIOUS
      <3>1. /\ sync' = sync /\ ~Asked /\ ~stale /\ \A c \in Cores : OfCore(c)' = OfCore(c)
        BY <1>2 DEF Asked
      <3> QED BY <1>1, <2>1, <3>1 DEF Good, SnapOK, Right, Pending, Active, is_running, IsAlive,
                                      Wanted, write_core_config
    <2> QED BY <2>2, <2>3, <2>4, <2>5, <2>6 DEF Good
  <1> QED BY <1>1, <1>4, <1>5 DEF IInv

LEMMA UnicornNotCore == Unicorn \notin Cores
  BY CoreSyncAssumption DEF Unicorn

LEMMA HandlersPreserve == ASSUME IInv, Handlers PROVE IInv'
  <1>1. links \in Links /\ stale \in BOOLEAN
    BY DEF IInv, TypeOK
  <1>2. ASSUME NEW u \in Uids, NEW c \in Cores \union {Unicorn}, create_link(u, c) PROVE IInv'
    <2>1. links' \in Links
      BY <1>1, <1>2 DEF create_link, Links
    <2> QED BY <1>2, <2>1, HandlerPreserves DEF create_link, Rest
  <1>3. ASSUME NEW u \in Uids, update_link(u) PROVE IInv'
    <2>1. links[u] \in [core : Cores \union {Unicorn}, active : BOOLEAN] /\ links[u] # None
      BY <1>1, <1>3 DEF update_link, Links
    <2> DEFINE l == [links[u] EXCEPT !.active = ~@]
    <2>2. l \in [core : Cores \union {Unicorn}, active : BOOLEAN] /\ l.core = links[u].core
      BY <2>1
    <2>3. links' = [links EXCEPT ![u] = l]
      BY <1>3 DEF update_link
    <2> HIDE DEF l
    <2>4. links' \in Links
      BY <1>1, <2>2, <2>3 DEF Links
    <2>5. CASE \E v \in Uids : links[v] # None /\ links[v].core # Unicorn
      BY <1>3, <2>4, <2>5, HandlerPreserves DEF update_link, Rest
    <2>6. CASE ~\E v \in Uids : links[v] # None /\ links[v].core # Unicorn
      <3>1. \A v \in Uids : links'[v] # None => links'[v].core = Unicorn
        BY <1>1, <2>1, <2>2, <2>3, <2>6 DEF Links
      <3>2. \A c \in Cores : OfCore(c)' = OfCore(c)
        BY <2>6, <3>1, UnicornNotCore DEF OfCore
      <3> QED BY <1>1, <1>3, <2>4, <2>6, <3>2, HandlerPreserves DEF update_link, Rest
    <2> QED BY <2>5, <2>6
  <1>4. ASSUME NEW u \in Uids, delete_link(u) PROVE IInv'
    <2>1. links' \in Links
      BY <1>1, <1>4 DEF delete_link, Links
    <2> QED BY <1>4, <2>1, HandlerPreserves DEF delete_link, Rest
  <1>5. CASE backup_import
    BY <1>5, CoreSyncAssumption, HandlerPreserves DEF backup_import, Rest
  <1>6. CASE resync
    BY <1>1, <1>6, HandlerPreserves DEF resync, Rest
  <1> QED BY <1>2, <1>3, <1>4, <1>5, <1>6 DEF Handlers

LEMMA EveryCoreHasATurn == \A c \in Cores : \E n \in 1..Len(CoreOrder) : CoreOrder[n] = c
  BY DEF Cores

(* The lists of the links are made while no other sync is at work, or the   *)
(* two overlap from now on.                                                 *)
LEMMA SyncBeginsPreserves ==
  ASSUME IInv, NEW y \in Syncs, SyncBegins(y) PROVE IInv'
  <1> DEFINE snap == [c \in Cores |-> OfCore(c)']
             r == [IdleSync EXCEPT !.at = "next", !.i = 1, !.snap = snap]
  <1>1. /\ links' = _migrate_invalid_core_links /\ sync' = [sync EXCEPT ![y] = r]
        /\ lost' = (lost \/ \E z \in Syncs : Active(z))
        /\ UNCHANGED <<cfg_file, state, cfg_hash, proc, stale, failed>>
        /\ sync[y].at = "asked"
    BY DEF SyncBegins
  <1>2. links' \in Links
    <2>1. links \in Links
      BY DEF IInv, TypeOK
    <2>2. ASSUME NEW u \in Uids, links[u] # None
          PROVE  [links[u] EXCEPT !.core = Unicorn]
                   \in [core : Cores \union {Unicorn}, active : BOOLEAN]
      BY <2>1, <2>2 DEF Links
    <2> QED BY <1>1, <2>1, <2>2 DEF _migrate_invalid_core_links, Links
  <1>3. snap \in [Cores -> SUBSET Uids]
    BY DEF OfCore
  <1>4. r \in Sync /\ r.at = "next" /\ r.i = 1 /\ r.snap = snap
    <2> HIDE DEF snap
    <2>1. 1 \in 0..Len(CoreOrder) + 1
      BY LenType
    <2> QED BY <1>3, <2>1, IdleSyncType DEF Sync
  <1>5. \A c \in Cores : snap[c] = OfCore(c)'
    OBVIOUS
  <1> HIDE DEF r, snap
  <1>6. /\ sync' \in [Syncs -> Sync] /\ sync'[y] = r
        /\ \A z \in Syncs \ {y} : sync'[z] = sync[z]
    BY <1>1, <1>4 DEF IInv, TypeOK, Sync
  <1>7. Turns'
    BY <1>4, <1>6, LenType DEF IInv, Turns, Active, Works
  <1>8. /\ TypeOK'
        /\ (\A p \in Procs : proc[p].st \in Alive => proc[p].core \in Cores)'
    <2>1. (\A z \in Syncs : Active(z) => sync[z].i # 0)'
      BY <1>7, LenType DEF Turns
    <2>2. TypesRest'
      BY <1>1 DEF IInv, TypeOK, TypesRest, Proc
    <2>3. stale' \in BOOLEAN /\ lost' \in BOOLEAN
      BY <1>1 DEF IInv, TypeOK
    <2> QED BY <1>2, <1>6, <2>1, <2>2, <2>3 DEF TypeOK, TypesRest, Active, Sync, Proc
  <1>9. ASSUME ~lost' PROVE Good'
    <2>1. Good /\ \A z \in Syncs : ~Active(z) /\ ~Works(z)
      BY <1>1, <1>9 DEF IInv, Active, Works
    <2>2. \A z \in Syncs \ {y} : ~Active(z)'
      BY <1>6, <2>1 DEF Active
    <2>3. \A z \in Syncs : ~Works(z)'
      BY <1>4, <1>6, <2>1 DEF Works
    <2>4. Alone'
      BY <2>2 DEF Alone
    <2>5. \A z \in Syncs : SyncOK(z)'
      BY <2>3 DEF SyncOK, Restarts, Works
    <2>6. \A p \in Procs : Known(p)'
      BY <1>1, <2>1 DEF Good, Known, Works
    <2>7. \A c \in Cores : StateOK(c)'
      BY <1>1, <2>1 DEF Good, StateOK, Works
    <2>8. SnapOK'
      BY <1>4, <1>5, <1>6, <2>2 DEF SnapOK, Pending
    <2>9. \A c \in Cores : Right(c)'
      <3>1. \A c \in Cores : Pending(y, c)'
        BY <1>4, <1>6, EveryCoreHasATurn DEF Pending, Active
      <3> QED BY <3>1 DEF Right
    <2> QED BY <2>4, <2>5, <2>6, <2>7, <2>8, <2>9 DEF Good
  <1> QED BY <1>7, <1>8, <1>9 DEF IInv

(* No sync is at work, one is asked for, and no core has a process.         *)
LEMMA FreshPanel ==
  ASSUME NEW y \in Syncs, NEW s, s = [[z \in Syncs |-> IdleSync] EXCEPT ![y].at = "asked"]
  PROVE  /\ s \in [Syncs -> Sync] /\ s[y].at = "asked"
         /\ \A z \in Syncs : s[z].at \in {"idle", "asked"}
  <1> DEFINE r == [IdleSync EXCEPT !.at = "asked"]
  <1>1. r \in Sync /\ r.at = "asked"
    BY IdleSyncType DEF Sync
  <1>2. s = [z \in Syncs |-> IF z = y THEN r ELSE IdleSync]
    OBVIOUS
  <1>3. IdleSync.at = "idle"
    BY DEF IdleSync
  <1> HIDE DEF r
  <1> QED BY <1>1, <1>2, <1>3, IdleSyncType

Fresh ==
  /\ TypesRest /\ links \in Links /\ stale \in BOOLEAN /\ lost \in BOOLEAN
  /\ sync \in [Syncs -> Sync] /\ \E y \in Syncs : sync[y].at = "asked"
  /\ \A z \in Syncs : sync[z].at \in {"idle", "asked"}
  /\ \A c \in Cores : state[c] = None
  /\ ~lost => \A p \in Procs : proc[p].st \notin Alive

LEMMA FreshIsGood == Fresh => IInv
  <1> SUFFICES ASSUME Fresh PROVE IInv
    OBVIOUS
  <1>1. \A z \in Syncs : ~Active(z) /\ ~Works(z)
    BY DEF Fresh, Active, Works
  <1>2. TypeOK /\ Turns
    BY <1>1, Types DEF Fresh, Turns, Works
  <1>3. ~lost => Good
    <2>1. Alone /\ \A z \in Syncs : SyncOK(z)
      BY <1>1 DEF Alone, SyncOK, Restarts, Works
    <2>2. ~lost => \A p \in Procs : Known(p)
      BY DEF Fresh, Known, Serving, Alive
    <2> QED BY <2>1, <2>2 DEF Fresh, Good, StateOK, Asked
  <1> QED BY <1>2, <1>3 DEF Fresh, IInv, TypesRest

LEMMA FreshNext == Fresh' => IInv'
  BY FreshIsGood, PTL

LEMMA InitHolds == Init => IInv
  <1> SUFFICES ASSUME Init PROVE IInv
    OBVIOUS
  <1>1. PICK y \in Syncs : sync = [[z \in Syncs |-> IdleSync] EXCEPT ![y].at = "asked"]
    BY DEF Init
  <1>2. /\ sync \in [Syncs -> Sync] /\ sync[y].at = "asked"
        /\ \A z \in Syncs : sync[z].at \in {"idle", "asked"}
    BY <1>1, FreshPanel
  <1>3. links \in Links
    BY CoreSyncAssumption DEF Init, Links
  <1>4. TypesRest
    BY NoProcType DEF Init, TypesRest, Alive
  <1>5. /\ stale \in BOOLEAN /\ lost \in BOOLEAN /\ \A c \in Cores : state[c] = None
        /\ \A p \in Procs : proc[p].st \notin Alive
    BY NoProcType DEF Init, Alive
  <1> QED BY <1>2, <1>3, <1>4, <1>5, FreshIsGood DEF Fresh

LEMMA RestartPreserves == ASSUME IInv, Restart PROVE IInv'
  <1>1. PICK y \in Syncs : sync' = [[z \in Syncs |-> IdleSync] EXCEPT ![y].at = "asked"]
    BY DEF Restart
  <1>2. /\ sync' \in [Syncs -> Sync] /\ sync'[y].at = "asked"
        /\ \A z \in Syncs : sync'[z].at \in {"idle", "asked"}
    BY <1>1, FreshPanel
  <1>3. /\ state' = [c \in Cores |-> None] /\ cfg_hash' = [c \in Cores |-> None]
        /\ stale' = FALSE /\ failed' = {} /\ UNCHANGED <<links, cfg_file>>
        /\ \/ proc' = [p \in Procs |-> NoProc] /\ lost' = FALSE
           \/ UNCHANGED proc /\ lost' = (\E p \in Procs : IsAlive(p))
    BY DEF Restart
  <1>4. TypesRest
    BY Types DEF IInv
  <1>5. TypesRest' /\ lost' \in BOOLEAN /\ (~lost => \A p \in Procs : proc[p].st \notin Alive)'
    <2>1. CASE proc' = [p \in Procs |-> NoProc] /\ lost' = FALSE
      BY <1>3, <1>4, <2>1, NoProcType DEF TypesRest, Alive
    <2>2. CASE UNCHANGED proc /\ lost' = (\E p \in Procs : IsAlive(p))
      BY <1>3, <1>4, <2>2, CoreSyncAssumption DEF TypesRest, IsAlive
    <2> QED BY <1>3, <2>1, <2>2
  <1>6. links' \in Links /\ stale' \in BOOLEAN /\ (\A c \in Cores : state[c] = None)'
    BY <1>3 DEF IInv, TypeOK
  <1> QED BY <1>2, <1>5, <1>6, FreshNext DEF Fresh

LEMMA NextPreserves == IInv /\ [Next]_vars => IInv'
  <1> SUFFICES ASSUME IInv, [Next]_vars PROVE IInv'
    OBVIOUS
  <1>1. ASSUME NEW y \in Syncs, Turn(y) PROVE IInv'
    BY <1>1, SyncCorePreserves, SyncEndsPreserves DEF Turn
  <1>2. ASSUME NEW y \in Syncs, Goings(y) PROVE IInv'
    <2>1. CASE InstallFails(y) \/ StartFails(y)
      BY <2>1, FailsPreserves DEF InstallFails, StartFails
    <2> QED BY <1>2, <2>1, SyncBeginsPreserves, InstalledPreserves, StoppedPreserves,
               SpawnsPreserves, SettlesPreserves DEF Goings
  <1>3. ASSUME NEW p \in Procs, ProcBinds(p) \/ ProcEnds(p) PROVE IInv'
    BY <1>3, ProcBindsPreserves, ProcEndsPreserves
  <1>4. CASE Handlers
    BY <1>4, HandlersPreserve
  <1>5. CASE Restart
    BY <1>5, RestartPreserves
  <1>6. CASE UNCHANGED vars
    <2>1. TypeOK' /\ Turns' /\ (\A p \in Procs : proc[p].st \in Alive => proc[p].core \in Cores)'
      BY <1>6 DEF IInv, TypeOK, Turns, Active, Works, vars
    <2>2. Good => Good'
      BY <1>6 DEF Good, Alone, SyncOK, Works, Restarts, Core, Known, StateOK, SnapOK, Pending, Active,
         Right, OfCore, Wanted, write_core_config, is_running, IsAlive, Asked, vars
    <2> QED BY <1>6, <2>1, <2>2 DEF IInv, vars
  <1> QED BY <1>1, <1>2, <1>3, <1>4, <1>5, <1>6 DEF Next

LEMMA Inductive == Spec => []IInv
  BY InitHolds, NextPreserves, PTL DEF Spec

(* The types of the panel's tables, its syncs and its processes.            *)
THEOREM TypeCorrect == Spec => []TypeOK
  <1>1. IInv => TypeOK
    BY DEF IInv
  <1> QED BY <1>1, Inductive, PTL

(* However many links, syncs and processes there are: while syncs do not    *)
(* overlap, a finished one leaves each core as its links ask, unless its    *)
(* start failed or it died.                                                 *)
THEOREM FinishedSyncIsRight == Spec => []SyncedIsRight
  BY Consequences, Inductive, PTL

(* ... and every process that serves is known, and alone for its core.      *)
THEOREM NoStrayProcess == Spec => []NoStray
  BY Consequences, Inductive, PTL
============================================================================
