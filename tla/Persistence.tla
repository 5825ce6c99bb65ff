----------------------------- MODULE Persistence -----------------------------
(***************************************************************************)
(* The panel's tables and the file that keeps them: the handlers of links, *)
(* groups, sessions and backups, save_state with its lock, the debounced   *)
(* schedule_save, crashes, and the start of the panel.                     *)
(*                                                                         *)
(* A save copies the tables (their entries by reference), awaits the       *)
(* opening of a temporary file, serialises, awaits the write and replaces  *)
(* the file.  Handlers change entries in place, or put new ones, meanwhile.*)
(***************************************************************************)
EXTENDS Naturals, Sequences, FiniteSets

CONSTANTS
  Uids,         \* links
  DefaultUid,   \* the one made by ensure_default_link
  Subs,         \* groups
  Pw,           \* the entry password_hash (settings are written alike)
  Tokens,       \* sessions of the dashboard
  Backups,      \* the links of the backups that are imported
  Handlers,     \* bound: handlers that await something, at the same time
  MaxChanges,   \* bound: changes of the tables
  MaxBoots,     \* bound: restarts of the panel
  None

ASSUME PersistenceAssumption ==
  /\ DefaultUid \in Uids /\ MaxChanges \in Nat /\ MaxBoots \in Nat
  /\ Pw \notin Uids \union Subs /\ Uids \intersect Subs = {}
  /\ None \notin Subs \union Handlers /\ Backups \subseteq SUBSET Uids

VARIABLES
  mem,        \* LINKS, SUBS and AUTH["password_hash"], by key
  file,       \* the contents of rvg_state.json
  copy,       \* data of the save that is under way
  shared,     \* entries of copy that are still the objects of the tables
  lock,       \* the callers of save_state at SAVE_LOCK; its head holds it
  at,         \* where the holder is
  debounce,   \* where the loop of schedule_save is; _save_pending unless "off"
  again,      \* _save_dirty_again
  sessions,   \* SESSIONS: the password version each session was opened with
  work,       \* the handlers that await something
  live,       \* links with a connection that was charged
  phase,      \* of the panel
  n,          \* changes so far: the version a change writes
  since,      \* history: values of the entries since the save began
  unsaved,    \* history: entries changed by a path that saves nothing
  acked,      \* history: the last password whose change was confirmed
  lost,       \* history: the newest of those that the disk has failed, or 0
  boots       \* history: starts of the panel

vars == <<mem, file, copy, shared, lock, at, debounce, again, sessions, work,
          live, phase, n, since, unsaved, acked, lost, boots>>

Keys == Uids \union Subs \union {Pw}
Absent == None
Versions == 0..MaxChanges

Link(s, v) == [sub |-> s, val |-> v]
LinkVals == {Absent} \union [sub : Subs \union {None}, val : Versions]
SubVals == {Absent} \union SUBSET Uids

Blank == [k \in Keys |-> IF k = Pw THEN 0 ELSE Absent]
NoSave == [k \in Keys |-> {}]
Idle == [op |-> "idle", key |-> None, sub |-> None, tok |-> None, pw |-> 0]
Callers == {"spawned", "debounce", "password", "import", "stop"}

TypedTables(m) ==
  /\ DOMAIN m = Keys /\ m[Pw] \in Versions
  /\ \A u \in Uids : m[u] \in LinkVals
  /\ \A s \in Subs : m[s] \in SubVals

TypeOK ==
  /\ \A m \in {mem, file, copy} : TypedTables(m)
  /\ shared \subseteq Uids \union Subs
  /\ lock \in Seq(Callers \X (Handlers \union {None}))
  /\ at \in {"free", "opening", "writing"}
  /\ debounce \in {"off", "sleeping", "saving"} /\ again \in BOOLEAN
  /\ sessions \in [Tokens -> Versions \union {None}]
  /\ work \in [Handlers -> [op : {"idle", "create", "update", "delete", "password", "import",
                                  "saving"},
                            key : Uids \union {None}, sub : Subs \union {None},
                            tok : Tokens \union {None}, pw : Versions]]
  /\ live \subseteq Uids /\ phase \in {"up", "stopping", "stopped", "failed"}
  /\ n \in Versions /\ {acked, lost} \subseteq Versions /\ boots \in 0..MaxBoots
  /\ DOMAIN since = Keys /\ unsaved \subseteq Keys

(* ensure_default_link, on the tables m; it spawns a save if it adds one. *)
WithDefault(m, v) ==
  IF m[DefaultUid] = Absent THEN [m EXCEPT ![DefaultUid] = Link(None, v)] ELSE m

Saver(c) == <<c, None>>

Starts(m) ==
  /\ mem' = WithDefault(m, n)
  /\ lock' = IF mem' = m THEN << >> ELSE <<Saver("spawned")>>
  /\ copy' = Blank /\ shared' = {} /\ at' = "free"
  /\ debounce' = "off" /\ again' = FALSE
  /\ sessions' = [t \in Tokens |-> None]
  /\ work' = [h \in Handlers |-> Idle]
  /\ live' = {} /\ phase' = "up" /\ since' = NoSave /\ unsaved' = {}

(* The file an earlier panel left: none, or one whose groups have all links. *)
Stored ==
  [k \in Keys |-> IF k \in Uids THEN Link(None, 0) ELSE IF k \in Subs THEN Uids ELSE 0]

Init ==
  /\ file \in {Blank, Stored} /\ mem = WithDefault(file, 0)
  /\ lock = IF mem = file THEN << >> ELSE <<Saver("spawned")>>
  /\ copy = Blank /\ shared = {} /\ at = "free"
  /\ debounce = "off" /\ again = FALSE
  /\ sessions = [t \in Tokens |-> None]
  /\ work = [h \in Handlers |-> Idle]
  /\ live = {} /\ phase = "up" /\ since = NoSave /\ unsaved = {}
  /\ n = 0 /\ acked = 0 /\ lost = 0 /\ boots = 0
------------------------------------------------------------------------------
(* Changes of the tables. *)

Counts == n < MaxChanges /\ n' = n + 1

(* The tables become m; the entries K are taken out, or replaced by new     *)
(* objects, and those that a save has copied keep their last value there.   *)
Sets(m, K) ==
  /\ mem' = m
  /\ copy' = [k \in Keys |-> IF k \in K \intersect shared THEN mem[k] ELSE copy[k]]
  /\ shared' = shared \ K
  /\ since' = IF at = "free" THEN NoSave ELSE [k \in Keys |-> since[k] \union {m[k]}]
  /\ UNCHANGED <<file, at>>

SpawnSave == lock' = Append(lock, Saver("spawned"))

schedule_save ==
  IF debounce = "off" THEN debounce' = "sleeping" /\ again' = FALSE
                      ELSE again' = TRUE /\ UNCHANGED debounce

Present(k) == mem[k] # Absent

(* m with link u in the list of group s, or out of it. *)
Joined(m, u, s) ==
  IF s \in Subs /\ m[s] # Absent THEN [m EXCEPT ![s] = @ \union {u}] ELSE m
Left(m, u, s) ==
  IF s \in Subs /\ m[s] # Absent THEN [m EXCEPT ![s] = @ \ {u}] ELSE m

Edited(u, v) == [mem EXCEPT ![u].val = v]

Rest == UNCHANGED <<sessions, live, phase, unsaved, acked, lost, boots>>
NoDebounce == UNCHANGED <<debounce, again>>
------------------------------------------------------------------------------
(* save_state, for the head of the queue at SAVE_LOCK. *)

(* What the entries of the copy hold now. *)
Content == [k \in Keys |-> IF k \in shared THEN mem[k] ELSE copy[k]]

(* The tables are copied: keys, and references to the entries. *)
SaveBegins ==
  /\ lock # << >> /\ at = "free"
  /\ at' = "opening"
  /\ copy' = mem /\ shared' = {k \in Uids \union Subs : Present(k)}
  /\ since' = [k \in Keys |-> {mem[k]}]
  /\ UNCHANGED <<mem, file, lock, n, work>> /\ NoDebounce /\ Rest

(* The temporary file is open: json.dumps sees the entries as they are now. *)
SaveOpens ==
  /\ at = "opening"
  /\ at' = "writing"
  /\ copy' = Content /\ shared' = {}
  /\ UNCHANGED <<mem, file, lock, since, n, work>> /\ NoDebounce /\ Rest

(* Mutant: the loop of schedule_save ends without asking. *)
ResumesOnce(c, h) ==
  /\ debounce' = IF c = "debounce" THEN "off" ELSE debounce
  /\ work' = IF h = None THEN work ELSE [work EXCEPT ![h] = Idle]
  /\ UNCHANGED again

(* What the caller does next.  schedule_save asks whether it was called     *)
(* meanwhile; a handler answers.                                            *)
Resumes(c, h) ==
  /\ IF c = "debounce"
     THEN again' = FALSE /\ debounce' = IF again THEN "sleeping" ELSE "off"
     ELSE NoDebounce
  /\ work' = IF h = None THEN work ELSE [work EXCEPT ![h] = Idle]

SaveReturns(how) ==
  LET c == Head(lock)[1]
      h == Head(lock)[2]
  IN
  /\ lock' = Tail(lock) /\ at' = "free"
  /\ copy' = Blank /\ shared' = {} /\ since' = NoSave
  /\ Resumes(c, h)
  /\ phase' = IF c = "stop" THEN how ELSE phase
  /\ UNCHANGED <<mem, n, sessions, live, boots>>

(* save_state returns to api_change_password, which answers "ok". *)
Confirms ==
  acked' = IF Head(lock)[1] = "password" THEN work[Head(lock)[2]].pw ELSE acked

(* tmp.replace: all of it, or nothing. *)
SaveEnds ==
  /\ at = "writing"
  /\ file' = copy
  /\ Confirms
  /\ lost' = IF copy[Pw] >= lost THEN 0 ELSE lost
  /\ unsaved' = {k \in unsaved : copy[k] # mem[k]}
  /\ SaveReturns("stopped")

(* Mutant: a failed write is put in the file's place nevertheless. *)
SaveFailsHalfway ==
  /\ at = "writing"
  /\ file' = Blank
  /\ unsaved' = unsaved \union {k \in Keys : mem[k] # Blank[k]}
  /\ SaveReturns("failed")
  /\ UNCHANGED <<acked, lost>>

(* An error of the disk is logged, and the save is over: its caller goes on *)
(* as after any other.                                                      *)
SaveFails ==
  /\ at # "free"
  /\ unsaved' = unsaved \union {k \in Keys : mem[k] # file[k]}
  /\ Confirms
  /\ lost' = IF Head(lock)[1] = "password" THEN acked' ELSE lost
  /\ SaveReturns("failed")
  /\ UNCHANGED file

(* schedule_save after SAVE_DEBOUNCE_SECONDS. *)
DebounceWakes ==
  /\ debounce = "sleeping"
  /\ debounce' = "saving" /\ lock' = Append(lock, Saver("debounce"))
  /\ UNCHANGED <<mem, file, copy, shared, at, again, since, n, work>> /\ Rest
------------------------------------------------------------------------------
(* Handlers of links.  Those of MTProto links await a process in between.  *)

Fresh(u) == ~Present(u) /\ u # DefaultUid /\ \A h \in Handlers : work[h].key # u
Free(h) == work[h] = Idle
Begins(h, op, u, s) == work' = [work EXCEPT ![h] = [Idle EXCEPT !.op = op, !.key = u, !.sub = s]]
Ends(h) == work' = [work EXCEPT ![h] = Idle]
NoWork == UNCHANGED work

(* The end of _create_link_core: the link, and its place in the group. *)
Inserts(u, s) ==
  /\ Counts
  /\ Sets(Joined([mem EXCEPT ![u] = Link(s, n')], u, s), {})
  /\ SpawnSave /\ NoDebounce /\ Rest

create_link(u, s) == Fresh(u) /\ Inserts(u, s) /\ NoWork

create_mtproto(h, u, s) ==
  /\ Fresh(u) /\ Free(h)
  /\ Begins(h, "create", u, s)
  /\ UNCHANGED <<mem, file, copy, shared, lock, at, since, n>> /\ NoDebounce /\ Rest

CreateEnds(h) ==
  /\ work[h].op = "create"
  /\ Inserts(work[h].key, work[h].sub)
  /\ Ends(h)

(* start_instance raises: the request is refused. *)
CreateFails(h) ==
  /\ work[h].op = "create"
  /\ Ends(h)
  /\ UNCHANGED <<mem, file, copy, shared, lock, at, since, n>> /\ NoDebounce /\ Rest

(* The link's entry is edited in place, and may move to another group. *)
Moved(u, s, v) ==
  IF s = mem[u].sub THEN Edited(u, v)
  ELSE Joined(Left([Edited(u, v) EXCEPT ![u].sub = s], u, mem[u].sub), u, s)

update_link(u, s) ==
  /\ Present(u) /\ Counts
  /\ Sets(Moved(u, s, n'), {})
  /\ SpawnSave /\ NoDebounce /\ NoWork /\ Rest

(* A bad or taken port is refused after other fields were assigned, and     *)
(* before any save.                                                         *)
UpdateRefused(u) ==
  /\ Present(u) /\ Counts
  /\ Sets(Edited(u, n'), {})
  /\ unsaved' = unsaved \union {u}
  /\ UNCHANGED <<lock, sessions, live, phase, acked, lost, boots>> /\ NoDebounce /\ NoWork

update_mtproto(h, u, s) ==
  /\ Present(u) /\ Free(h) /\ Counts
  /\ Sets(Moved(u, s, n'), {})
  /\ Begins(h, "update", u, mem[u].sub)
  /\ UNCHANGED lock /\ NoDebounce /\ Rest

(* The new port is written, or, if the start failed, the link deactivated. *)
UpdateEnds(h) ==
  LET u == work[h].key IN
  /\ work[h].op = "update"
  /\ IF Present(u) THEN Counts /\ Sets(Edited(u, n'), {})
                   ELSE UNCHANGED <<mem, file, copy, shared, at, since, n>>
  /\ SpawnSave /\ Ends(h) /\ NoDebounce /\ Rest

(* What handler h has changed, or is about to: a link and its groups. *)
Touched(h, k) ==
  LET u == work[h].key IN
  k \in {u, work[h].sub} \/ (u # None /\ Present(u) /\ k = mem[u].sub)

(* A restart on another port that fails raises, and saves nothing. *)
UpdateRaises(h) ==
  /\ work[h].op = "update"
  /\ Ends(h)
  /\ unsaved' = unsaved \union {k \in Uids \union Subs : Touched(h, k)}
  /\ UNCHANGED <<mem, file, copy, shared, lock, at, since, n>> /\ NoDebounce
  /\ UNCHANGED <<sessions, live, phase, acked, lost, boots>>

delete_link(u) ==
  /\ Present(u) /\ Counts
  /\ Sets(Left([mem EXCEPT ![u] = Absent], u, mem[u].sub), {u})
  /\ SpawnSave /\ NoDebounce /\ NoWork /\ Rest

(* The group keeps the link while its process is stopped. *)
delete_mtproto(h, u) ==
  /\ Present(u) /\ Free(h) /\ Counts
  /\ Sets([mem EXCEPT ![u] = Absent], {u})
  /\ Begins(h, "delete", u, mem[u].sub)
  /\ UNCHANGED lock /\ NoDebounce /\ Rest

DeleteEnds(h) ==
  /\ work[h].op = "delete"
  /\ Sets(Left(mem, work[h].key, work[h].sub), {})
  /\ SpawnSave /\ Ends(h) /\ UNCHANGED n /\ NoDebounce /\ Rest
------------------------------------------------------------------------------
(* Handlers of groups. *)

create_sub(s) ==
  /\ ~Present(s) /\ Counts
  /\ Sets([mem EXCEPT ![s] = {}], {})
  /\ SpawnSave /\ NoDebounce /\ NoWork /\ Rest

(* A new list of links, in place; the links' own sub_id stays. *)
update_sub(s, list) ==
  /\ Present(s) /\ mem[s] # list /\ Counts
  /\ Sets([mem EXCEPT ![s] = list], {})
  /\ SpawnSave /\ NoDebounce /\ NoWork /\ Rest

delete_sub(s) ==
  /\ Present(s) /\ Counts
  /\ Sets([k \in Keys |-> IF k = s THEN Absent
                          ELSE IF k \in Uids /\ Present(k) /\ mem[k].sub = s
                               THEN [mem[k] EXCEPT !.sub = None] ELSE mem[k]], {s})
  /\ SpawnSave /\ NoDebounce /\ NoWork /\ Rest

assign_link_to_sub(s, u, add) ==
  LET m == IF Present(u) THEN [mem EXCEPT ![u].sub = IF add THEN s ELSE None] ELSE mem IN
  /\ Present(s) /\ Counts
  /\ Sets(IF add THEN Joined(m, u, s) ELSE Left(m, u, s), {})
  /\ SpawnSave /\ NoDebounce /\ NoWork /\ Rest
------------------------------------------------------------------------------
(* Sessions and the password. *)

login(t) ==
  /\ sessions[t] = None
  /\ sessions' = [sessions EXCEPT ![t] = mem[Pw]]
  /\ UNCHANGED <<mem, file, copy, shared, lock, at, since, n, live, phase, unsaved, acked, lost, boots>>
  /\ NoDebounce /\ NoWork

(* A logout, or the end of SESSION_TTL. *)
logout(t) ==
  /\ sessions[t] # None
  /\ sessions' = [sessions EXCEPT ![t] = None]
  /\ UNCHANGED <<mem, file, copy, shared, lock, at, since, n, live, phase, unsaved, acked, lost, boots>>
  /\ NoDebounce /\ NoWork

(* require_auth has passed; the body, with the current password, is awaited. *)
change_password(h, t) ==
  /\ Free(h) /\ sessions[t] # None
  /\ work' = [work EXCEPT ![h] = [Idle EXCEPT !.op = "password", !.tok = t, !.pw = mem[Pw]]]
  /\ UNCHANGED <<mem, file, copy, shared, lock, at, since, n>> /\ NoDebounce /\ Rest

(* Mutant: the other sessions stay. *)
KeepsSessions(t) == sessions' = [sessions EXCEPT ![t] = n']

OnlySession(t) == sessions' = [x \in Tokens |-> IF x = t THEN n' ELSE None]

(* Mutant: a save that is under way is taken for one's own. *)
JoinsSave(h, c) ==
  /\ work' = [work EXCEPT ![h] = [Idle EXCEPT !.op = "saving", !.pw = n']]
  /\ lock' = IF lock # << >> /\ Head(lock)[2] = None THEN [lock EXCEPT ![1] = <<c, h>>]
             ELSE Append(lock, <<c, h>>)

(* The handler waits, as c, for its own save. *)
Saving(h, c) ==
  /\ work' = [work EXCEPT ![h] = [Idle EXCEPT !.op = "saving", !.pw = n']]
  /\ lock' = Append(lock, <<c, h>>)

PasswordChanges(h) ==
  /\ work[h].op = "password" /\ work[h].pw = mem[Pw] /\ Counts
  /\ Sets([mem EXCEPT ![Pw] = n'], {})
  /\ OnlySession(work[h].tok)
  /\ Saving(h, "password")
  /\ NoDebounce /\ UNCHANGED <<live, phase, unsaved, acked, lost, boots>>

PasswordRefused(h) ==
  /\ work[h].op = "password" /\ work[h].pw # mem[Pw]
  /\ Ends(h)
  /\ UNCHANGED <<mem, file, copy, shared, lock, at, since, n>> /\ NoDebounce /\ Rest

(* require_auth has passed; the body is awaited, then mtproto.stop_all. *)
backup_import(h, t) ==
  /\ Free(h) /\ sessions[t] # None
  /\ work' = [work EXCEPT ![h] = [Idle EXCEPT !.op = "import", !.tok = t]]
  /\ UNCHANGED <<mem, file, copy, shared, lock, at, since, n>> /\ NoDebounce /\ Rest

(* A backup of links L without groups.  With its password the session that  *)
(* imports becomes the only one, also if it has ended meanwhile.            *)
ImportReplaces(h, L, keep_password) ==
  /\ work[h].op = "import" /\ Counts
  /\ Sets([k \in Keys |-> IF k = Pw THEN (IF keep_password THEN mem[Pw] ELSE n')
                          ELSE IF k \in L THEN Link(None, n') ELSE Absent], Uids \union Subs)
  /\ IF keep_password THEN UNCHANGED sessions ELSE OnlySession(work[h].tok)
  /\ Saving(h, "import")
  /\ NoDebounce /\ UNCHANGED <<live, phase, unsaved, acked, lost, boots>>

(* No backup, or one without tables. *)
ImportRefused(h) ==
  /\ work[h].op = "import"
  /\ Ends(h)
  /\ UNCHANGED <<mem, file, copy, shared, lock, at, since, n>> /\ NoDebounce /\ Rest
------------------------------------------------------------------------------
(* Connections. *)

(* check_and_use; the connection's end is what saves it. *)
Charge(u) ==
  /\ Present(u) /\ Counts
  /\ Sets(Edited(u, n'), {})
  /\ live' = live \union {u}
  /\ UNCHANGED <<lock, sessions, phase, unsaved, acked, lost, boots>> /\ NoDebounce /\ NoWork

(* VLESS and Shadowsocks over WebSocket spawn a save, Trojan, VMess and raw *)
(* Shadowsocks schedule one, an XHTTP session does neither.                 *)
ConnectionEnds(u) ==
  /\ u \in live /\ live' = live \ {u}
  /\ \/ SpawnSave /\ NoDebounce /\ UNCHANGED unsaved
     \/ schedule_save /\ UNCHANGED <<lock, unsaved>>
     \/ unsaved' = unsaved \union {u} /\ NoDebounce /\ UNCHANGED lock
  /\ UNCHANGED <<mem, file, copy, shared, at, since, n, sessions, phase, acked, lost, boots>> /\ NoWork
------------------------------------------------------------------------------
(* Stop, crash, start. *)

(* The server stops once it has answered its requests. *)
shutdown ==
  /\ phase = "up" /\ \A h \in Handlers : Free(h)
  /\ phase' = "stopping" /\ lock' = Append(lock, Saver("stop"))
  /\ UNCHANGED <<mem, file, copy, shared, at, since, n, sessions, live, unsaved, acked, lost, boots>>
  /\ NoDebounce /\ NoWork

(* The process ends, by itself or not (an update replaces it by exec), and  *)
(* the panel starts: load_state, which logs a file it cannot read, and      *)
(* ensure_default_link.                                                     *)
Restart ==
  /\ boots < MaxBoots /\ boots' = boots + 1
  /\ \E m \in {file, Blank} : Starts(m) /\ lost' = IF m = file THEN lost ELSE acked
  /\ UNCHANGED <<file, n, acked>>

Serves ==
  \/ \E u \in Uids, s \in Subs \union {None} : create_link(u, s) \/ update_link(u, s)
  \/ \E u \in Uids : UpdateRefused(u) \/ delete_link(u)
  \/ \E h \in Handlers, u \in Uids, s \in Subs \union {None} :
       create_mtproto(h, u, s) \/ update_mtproto(h, u, s)
  \/ \E h \in Handlers, u \in Uids : delete_mtproto(h, u)
  \/ \E s \in Subs : create_sub(s) \/ delete_sub(s)
  \/ \E s \in Subs, list \in SUBSET Uids : update_sub(s, list)
  \/ \E s \in Subs, u \in Uids, add \in BOOLEAN : assign_link_to_sub(s, u, add)
  \/ \E t \in Tokens : login(t) \/ logout(t)
  \/ \E h \in Handlers, t \in Tokens :
       change_password(h, t) \/ backup_import(h, t)

WorkEnds(h) ==
  CreateEnds(h) \/ CreateFails(h) \/ UpdateEnds(h) \/ UpdateRaises(h) \/ DeleteEnds(h)
    \/ PasswordChanges(h) \/ PasswordRefused(h)
    \/ ImportRefused(h) \/ \E L \in Backups, keep \in BOOLEAN : ImportReplaces(h, L, keep)

Running == phase \in {"up", "stopping"}

Next ==
  \/ phase = "up" /\ (Serves \/ shutdown)
  \/ /\ Running
     /\ \/ SaveBegins \/ SaveOpens \/ SaveEnds \/ SaveFails \/ DebounceWakes
        \/ \E h \in Handlers : WorkEnds(h)
        \/ \E u \in Uids : Charge(u) \/ ConnectionEnds(u)
  \/ Restart

Spec == Init /\ [][Next]_vars

Fairness ==
  /\ WF_vars(Running /\ (SaveBegins \/ SaveOpens \/ SaveEnds))
  /\ WF_vars(Running /\ DebounceWakes)
  /\ \A h \in Handlers : WF_vars(WorkEnds(h))

FairSpec == Spec /\ Fairness
------------------------------------------------------------------------------
(* The file is a register for each entry: whatever handlers do between the  *)
(* copy of the tables and their serialisation, and wherever the panel       *)
(* crashes, no save writes a value older than its own beginning, and the    *)
(* panel starts with what the file has.                                     *)
Promise == INSTANCE Durable WITH disk <- file, Default <- {DefaultUid}
ImplementsDurable == Promise!Spec

Unsaved(k) == file[k] # mem[k]

(* A handler that has not finished, or the end of a charged connection,     *)
(* will see to entry k.                                                     *)
InHand(k) ==
  \/ k \in live
  \/ \E h \in Handlers : work[h].op \in {"update", "delete"} /\ Touched(h, k)

(* Every change is saved in the end, whatever calls of the debounced save   *)
(* fall into its pause or into the save itself, once no handler or charged  *)
(* connection has the entry in hand - except what refused updates, XHTTP    *)
(* sessions and disk errors leave behind.                                   *)
ChangesReachDisk ==
  \A k \in Keys :
    Unsaved(k) ~> ~Unsaved(k) \/ k \in unsaved \/ InHand(k) \/ ~Running

(* A password whose change was confirmed is not undone by a crash, nor by   *)
(* a save that began earlier and ends later - unless the disk has failed    *)
(* it: its own save, whose error save_state keeps to itself, or the reading *)
(* of the file when the panel started.                                      *)
PasswordDurable == file[Pw] >= acked \/ acked <= lost

(* No session outlives the password it was opened with: a new password      *)
(* closes all sessions but the one that sets it, whatever handlers are past *)
(* their authentication by then.  Such a handler opens its own session      *)
(* again, if it has been closed while it waited, with the password it sets  *)
(* (api_change_password, backup_import).                                    *)
SessionsOfCurrentPassword ==
  \A t \in Tokens : sessions[t] # None => sessions[t] = mem[Pw]
==============================================================================
