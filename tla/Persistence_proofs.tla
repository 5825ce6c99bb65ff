-------------------------- MODULE Persistence_proofs --------------------------
(***************************************************************************)
(* Proofs about Persistence: the panel's file is a regular register for    *)
(* each entry (the refinement of Durable), and no session outlives its     *)
(* password.  Nothing here depends on the bounds.                          *)
(***************************************************************************)
EXTENDS Persistence, TLAPS

IsTable(m) == m = [k \in Keys |-> m[k]]

(* What handlers that await have in hand.                                   *)
WorkInv ==
  /\ work = [h \in Handlers |-> work[h]]
  /\ \A h \in Handlers : work[h].op \in {"create", "update", "delete"} => work[h].key \in Uids

(* A save's copy holds, or shares, values of its own time.                  *)
SaveInv ==
  /\ at \in {"free", "opening", "writing"}
  /\ since = [k \in Keys |-> since[k]]
  /\ at = "free" => since = NoSave
  /\ at # "free" => \A k \in Keys : /\ mem[k] \in since[k]
                                    /\ k \notin shared => copy[k] \in since[k]
  /\ at = "writing" => shared = {}

IInv ==
  /\ IsTable(mem) /\ IsTable(file) /\ IsTable(copy)
  /\ n \in Nat /\ boots \in Nat
  /\ WorkInv /\ SaveInv

(* The handlers' steps, as far as the file and the tables see them.         *)
TablesRest == UNCHANGED <<mem, file, copy, shared, at, since, boots>>

Changes(m, K) == Sets(m, K) /\ IsTable(m) /\ UNCHANGED boots

SessionInv ==
  sessions = [t \in Tokens |-> sessions[t]] /\ SessionsOfCurrentPassword

(* A new password has a new number.                                         *)
PasswordStep ==
  /\ n' \in Nat /\ n' >= n
  /\ mem'[Pw] = mem[Pw] \/ (mem'[Pw] = n' /\ n' > n)

(* What a step of a handler does.                                           *)
HandlerStep ==
  /\ TablesRest \/ \E m : \E K : Changes(m, K)
  /\ PasswordStep /\ WorkInv' /\ SessionInv'
------------------------------------------------------------------------------
(* Tables stay tables, and links and groups are not the password.           *)
LEMMA KeysFacts ==
  /\ Uids \subseteq Keys /\ Subs \subseteq Keys /\ Pw \in Keys
  /\ DefaultUid \in Keys \ {Pw}
  /\ \A u \in Uids : u # Pw
  /\ \A s \in Subs : s # Pw
BY PersistenceAssumption DEF PersistenceAssumption, Keys

LEMMA EntryReplaced ==
  ASSUME NEW m, IsTable(m), NEW j \in Keys, NEW v
  PROVE  /\ IsTable([m EXCEPT ![j] = v])
         /\ [m EXCEPT ![j] = v][j] = v
         /\ \A k \in Keys \ {j} : [m EXCEPT ![j] = v][k] = m[k]
BY DEF IsTable

LEMMA EditedFacts ==
  ASSUME IsTable(mem), NEW u \in Uids, NEW v
  PROVE  IsTable(Edited(u, v)) /\ Edited(u, v)[Pw] = mem[Pw]
BY KeysFacts DEF Edited, IsTable

LEMMA JoinedFacts ==
  ASSUME NEW m, IsTable(m), NEW u, NEW s
  PROVE  /\ IsTable(Joined(m, u, s)) /\ Joined(m, u, s)[Pw] = m[Pw]
         /\ IsTable(Left(m, u, s)) /\ Left(m, u, s)[Pw] = m[Pw]
<1>1. CASE s \in Subs
  <2>1. s \in Keys /\ s # Pw /\ Pw \in Keys
    BY <1>1, KeysFacts
  <2>2. \A v : IsTable([m EXCEPT ![s] = v]) /\ [m EXCEPT ![s] = v][Pw] = m[Pw]
    BY <2>1, EntryReplaced
  <2> QED
    BY <2>2 DEF Joined, Left
<1>2. CASE s \notin Subs
  BY <1>2 DEF Joined, Left
<1> QED
  BY <1>1, <1>2

LEMMA MovedFacts ==
  ASSUME IsTable(mem), NEW u \in Uids, NEW s, NEW v
  PROVE  IsTable(Moved(u, s, v)) /\ Moved(u, s, v)[Pw] = mem[Pw]
<1> DEFINE e == Edited(u, v)
           f == [e EXCEPT ![u].sub = s]
           g == Left(f, u, mem[u].sub)
<1>1. IsTable(e) /\ e[Pw] = mem[Pw]
  BY EditedFacts
<1>2. IsTable(f) /\ f[Pw] = mem[Pw]
  <2> HIDE DEF e
  <2> QED BY <1>1, KeysFacts DEF IsTable
<1>3. IsTable(g) /\ g[Pw] = mem[Pw]
  <2> HIDE DEF f
  <2> QED BY <1>2, JoinedFacts
<1>4. IsTable(Joined(g, u, s)) /\ Joined(g, u, s)[Pw] = mem[Pw]
  <2> HIDE DEF g
  <2> QED BY <1>3, JoinedFacts
<1> QED
  BY <1>1, <1>4 DEF Moved

LEMMA WithDefaultFacts ==
  ASSUME NEW m, IsTable(m), NEW v
  PROVE  /\ IsTable(WithDefault(m, v))
         /\ \A k \in Keys \ {DefaultUid} : WithDefault(m, v)[k] = m[k]
BY KeysFacts, EntryReplaced DEF WithDefault

LEMMA BlankIsTable == IsTable(Blank)
BY DEF IsTable, Blank
------------------------------------------------------------------------------
(* The handlers, one by one.  Most change the tables and leave the password *)
(* and the sessions alone.                                                  *)
LEMMA CountsFacts == ASSUME IInv, Counts PROVE n' \in Nat /\ n' > n /\ n' >= n
BY DEF IInv, Counts

LEMMA OrdinaryChange ==
  ASSUME IInv, SessionInv, NEW m, NEW K, Sets(m, K), IsTable(m), m[Pw] = mem[Pw],
         UNCHANGED <<sessions, boots>>, n' \in Nat, n' >= n, WorkInv'
  PROVE  HandlerStep
<1>1. Changes(m, K)
  BY DEF Changes
<1>2. mem'[Pw] = mem[Pw]
  BY DEF Sets
<1> QED
  BY <1>1, <1>2 DEF HandlerStep, PasswordStep, SessionInv, SessionsOfCurrentPassword

LEMMA OrdinaryRest ==
  ASSUME IInv, SessionInv, UNCHANGED <<mem, file, copy, shared, at, since, boots, n, sessions>>, WorkInv'
  PROVE  HandlerStep
BY DEF HandlerStep, PasswordStep, TablesRest, SessionInv, SessionsOfCurrentPassword, IInv

LEMMA WorkFacts ==
  ASSUME WorkInv
  PROVE  /\ UNCHANGED work => WorkInv'
         /\ \A h \in Handlers : Ends(h) => WorkInv'
         /\ \A h \in Handlers, u \in Uids : \A op, s : Begins(h, op, u, s) => WorkInv'
         /\ \A h \in Handlers : \A c : Saving(h, c) => WorkInv'
<1>1. UNCHANGED work => WorkInv'
  BY DEF WorkInv
<1>2. ASSUME NEW h \in Handlers, Ends(h) PROVE WorkInv'
  BY <1>2 DEF WorkInv, Ends, Idle
<1>3. ASSUME NEW h \in Handlers, NEW u \in Uids, NEW op, NEW s, Begins(h, op, u, s)
      PROVE  WorkInv'
  BY <1>3 DEF WorkInv, Begins, Idle
<1>4. ASSUME NEW h \in Handlers, NEW c, Saving(h, c) PROVE WorkInv'
  BY <1>4 DEF WorkInv, Saving, Idle
<1> QED
  BY <1>1, <1>2, <1>3, <1>4

LEMMA LinkHandlers ==
  ASSUME IInv, SessionInv, NEW u \in Uids, NEW s \in Subs \union {None}
  PROVE  create_link(u, s) \/ update_link(u, s) \/ UpdateRefused(u) \/ delete_link(u) \/ Charge(u)
           => HandlerStep
<1> USE DEF IInv
<1>1. CASE create_link(u, s)
  <2>1. Inserts(u, s) /\ WorkInv' /\ UNCHANGED <<sessions, boots>>
    BY <1>1, WorkFacts DEF create_link, NoWork, Inserts, Rest
  <2>2. PICK m : m = [mem EXCEPT ![u] = Link(s, n')]
    OBVIOUS
  <2>3. IsTable(m) /\ m[Pw] = mem[Pw]
    BY <2>2, KeysFacts DEF IsTable
  <2>4. IsTable(Joined(m, u, s)) /\ Joined(m, u, s)[Pw] = mem[Pw]
    BY <2>3, JoinedFacts
  <2> QED
    BY <2>1, <2>2, <2>4, CountsFacts, OrdinaryChange DEF Inserts
<1>2. CASE update_link(u, s)
  BY <1>2, WorkFacts, MovedFacts, CountsFacts, OrdinaryChange DEF update_link, NoWork, Rest
<1>3. CASE UpdateRefused(u)
  BY <1>3, WorkFacts, EditedFacts, CountsFacts, OrdinaryChange DEF UpdateRefused, NoWork
<1>4. CASE delete_link(u)
  <2>1. PICK m : m = [mem EXCEPT ![u] = Absent]
    OBVIOUS
  <2>2. IsTable(m) /\ m[Pw] = mem[Pw]
    BY <2>1, KeysFacts DEF IsTable
  <2>3. \A g : IsTable(Left(m, u, g)) /\ Left(m, u, g)[Pw] = mem[Pw]
    BY <2>2, JoinedFacts
  <2> QED
    BY <1>4, <2>1, <2>3, WorkFacts, CountsFacts, OrdinaryChange DEF delete_link, NoWork, Rest
<1>5. CASE Charge(u)
  BY <1>5, WorkFacts, EditedFacts, CountsFacts, OrdinaryChange DEF Charge, NoWork
<1> QED
  BY <1>1, <1>2, <1>3, <1>4, <1>5

LEMMA MtprotoHandlers ==
  ASSUME IInv, SessionInv, NEW h \in Handlers, NEW u \in Uids, NEW s \in Subs \union {None}
  PROVE  create_mtproto(h, u, s) \/ update_mtproto(h, u, s) \/ delete_mtproto(h, u) => HandlerStep
<1> USE DEF IInv
<1>1. CASE create_mtproto(h, u, s)
  BY <1>1, WorkFacts, OrdinaryRest DEF create_mtproto, Rest
<1>2. CASE update_mtproto(h, u, s)
  BY <1>2, WorkFacts, MovedFacts, CountsFacts, OrdinaryChange DEF update_mtproto, Rest
<1>3. CASE delete_mtproto(h, u)
  <2>1. PICK m : m = [mem EXCEPT ![u] = Absent]
    OBVIOUS
  <2>2. IsTable(m) /\ m[Pw] = mem[Pw]
    BY <2>1, KeysFacts DEF IsTable
  <2> QED
    BY <1>3, <2>1, <2>2, WorkFacts, CountsFacts, OrdinaryChange DEF delete_mtproto, Rest
<1> QED
  BY <1>1, <1>2, <1>3

LEMMA WorkEnding ==
  ASSUME IInv, SessionInv, NEW h \in Handlers
  PROVE  WorkEnds(h) => HandlerStep
<1> USE DEF IInv
<1>1. CASE CreateEnds(h)
  <2>1. PICK u, s : u = work[h].key /\ s = work[h].sub
    OBVIOUS
  <2>2. u \in Uids /\ Inserts(u, s) /\ WorkInv' /\ UNCHANGED <<sessions, boots>>
    BY <1>1, <2>1, WorkFacts DEF CreateEnds, Inserts, Rest, WorkInv
  <2>3. PICK m : m = [mem EXCEPT ![u] = Link(s, n')]
    OBVIOUS
  <2>4. IsTable(m) /\ m[Pw] = mem[Pw]
    BY <2>2, <2>3, KeysFacts DEF IsTable
  <2>5. IsTable(Joined(m, u, s)) /\ Joined(m, u, s)[Pw] = mem[Pw]
    BY <2>4, JoinedFacts
  <2> QED
    BY <2>2, <2>3, <2>5, CountsFacts, OrdinaryChange DEF Inserts
<1>2. CASE CreateFails(h)
  BY <1>2, WorkFacts, OrdinaryRest DEF CreateFails, Rest
<1>3. CASE UpdateEnds(h)
  <2>1. work[h].key \in Uids /\ WorkInv' /\ UNCHANGED <<sessions, boots>>
    BY <1>3, WorkFacts DEF UpdateEnds, Rest, WorkInv
  <2>2. CASE Present(work[h].key)
    BY <1>3, <2>1, <2>2, EditedFacts, CountsFacts, OrdinaryChange DEF UpdateEnds
  <2>3. CASE ~Present(work[h].key)
    BY <1>3, <2>1, <2>3, OrdinaryRest DEF UpdateEnds
  <2> QED
    BY <2>2, <2>3
<1>4. CASE UpdateRaises(h)
  BY <1>4, WorkFacts, OrdinaryRest DEF UpdateRaises
<1>5. CASE DeleteEnds(h)
  <2>1. \A u, s : IsTable(Left(mem, u, s)) /\ Left(mem, u, s)[Pw] = mem[Pw]
    BY JoinedFacts
  <2> QED
    BY <1>5, <2>1, WorkFacts, OrdinaryChange DEF DeleteEnds, Rest
<1>6. CASE PasswordChanges(h)
  <2>1. PICK m : m = [mem EXCEPT ![Pw] = n']
    OBVIOUS
  <2>2. IsTable(m) /\ m[Pw] = n' /\ Sets(m, {}) /\ n' \in Nat /\ n' > n /\ UNCHANGED boots
    <3>1. IsTable(m) /\ m[Pw] = n'
      BY <2>1, KeysFacts DEF IsTable
    <3> QED BY <1>6, <2>1, <3>1, CountsFacts DEF PasswordChanges
  <2>3. Changes(m, {}) /\ mem'[Pw] = n' /\ WorkInv' /\ OnlySession(work[h].tok)
    BY <1>6, <2>2, WorkFacts DEF PasswordChanges, Changes, Sets
  <2>4. SessionInv'
    BY <2>3 DEF SessionInv, SessionsOfCurrentPassword, OnlySession
  <2> QED
    BY <2>2, <2>3, <2>4 DEF HandlerStep, PasswordStep
<1>7. CASE PasswordRefused(h) \/ ImportRefused(h)
  BY <1>7, WorkFacts, OrdinaryRest DEF PasswordRefused, ImportRefused, Rest
<1>8. ASSUME NEW L, NEW keep \in BOOLEAN, ImportReplaces(h, L, keep) PROVE HandlerStep
  <2>1. PICK m : m = [k \in Keys |-> IF k = Pw THEN (IF keep THEN mem[Pw] ELSE n')
                          ELSE IF k \in L THEN Link(None, n') ELSE Absent]
    OBVIOUS
  <2>2. IsTable(m) /\ m[Pw] = IF keep THEN mem[Pw] ELSE n'
    BY <2>1, KeysFacts DEF IsTable
  <2>3. /\ Sets(m, Uids \union Subs) /\ UNCHANGED boots /\ n' \in Nat /\ n' > n /\ WorkInv'
        /\ IF keep THEN UNCHANGED sessions ELSE OnlySession(work[h].tok)
    BY <1>8, <2>1, CountsFacts, WorkFacts DEF ImportReplaces
  <2>4. Changes(m, Uids \union Subs) /\ mem' = m
    BY <2>2, <2>3 DEF Changes, Sets
  <2>5. SessionInv'
    BY <2>2, <2>3, <2>4 DEF SessionInv, SessionsOfCurrentPassword, OnlySession
  <2> QED
    BY <2>2, <2>3, <2>4, <2>5 DEF HandlerStep, PasswordStep
<1> QED
  BY <1>1, <1>2, <1>3, <1>4, <1>5, <1>6, <1>7, <1>8 DEF WorkEnds

LEMMA GroupHandlers ==
  ASSUME IInv, SessionInv, NEW s \in Subs
  PROVE  /\ create_sub(s) \/ delete_sub(s) => HandlerStep
         /\ \A list \in SUBSET Uids : update_sub(s, list) => HandlerStep
         /\ \A u \in Uids, add \in BOOLEAN : assign_link_to_sub(s, u, add) => HandlerStep
<1> USE DEF IInv
<1>1. \A v : IsTable([mem EXCEPT ![s] = v]) /\ [mem EXCEPT ![s] = v][Pw] = mem[Pw]
  BY KeysFacts, EntryReplaced
<1>2. create_sub(s) => HandlerStep
  BY <1>1, WorkFacts, CountsFacts, OrdinaryChange DEF create_sub, NoWork, Rest
<1>3. ASSUME delete_sub(s) PROVE HandlerStep
  <2>1. PICK m : m = [k \in Keys |-> IF k = s THEN Absent
                          ELSE IF k \in Uids /\ Present(k) /\ mem[k].sub = s
                               THEN [mem[k] EXCEPT !.sub = None] ELSE mem[k]]
    OBVIOUS
  <2>2. IsTable(m)
    BY <2>1 DEF IsTable
  <2>3. m[Pw] = mem[Pw]
    <3>1. Pw \in Keys /\ Pw # s /\ Pw \notin Uids
      BY KeysFacts
    <3> QED BY <2>1, <3>1
  <2> QED
    BY <1>3, <2>1, <2>2, <2>3, WorkFacts, CountsFacts, OrdinaryChange DEF delete_sub, NoWork, Rest
<1>4. ASSUME NEW list \in SUBSET Uids, update_sub(s, list) PROVE HandlerStep
  BY <1>1, <1>4, WorkFacts, CountsFacts, OrdinaryChange DEF update_sub, NoWork, Rest
<1>5. ASSUME NEW u \in Uids, NEW add \in BOOLEAN, assign_link_to_sub(s, u, add) PROVE HandlerStep
  <2>1. PICK m : m = IF Present(u) THEN [mem EXCEPT ![u].sub = IF add THEN s ELSE None] ELSE mem
    OBVIOUS
  <2>2. IsTable(m) /\ m[Pw] = mem[Pw]
    <3>1. PICK v : v = [mem[u] EXCEPT !.sub = IF add THEN s ELSE None]
      OBVIOUS
    <3>2. IsTable([mem EXCEPT ![u] = v]) /\ [mem EXCEPT ![u] = v][Pw] = mem[Pw]
      BY KeysFacts, EntryReplaced
    <3>3. m = IF Present(u) THEN [mem EXCEPT ![u] = v] ELSE mem
      BY <2>1, <3>1
    <3> QED BY <3>2, <3>3
  <2>3. PICK l : l = IF add THEN Joined(m, u, s) ELSE Left(m, u, s)
    OBVIOUS
  <2>4. IsTable(l) /\ l[Pw] = mem[Pw]
    BY <2>2, <2>3, JoinedFacts
  <2> QED
    BY <1>5, <2>1, <2>3, <2>4, WorkFacts, CountsFacts, OrdinaryChange
    DEF assign_link_to_sub, NoWork, Rest
<1> QED
  BY <1>2, <1>3, <1>4, <1>5

LEMMA SessionHandlers ==
  ASSUME IInv, SessionInv, NEW t \in Tokens
  PROVE  /\ login(t) \/ logout(t) => HandlerStep
         /\ \A h \in Handlers : change_password(h, t) \/ backup_import(h, t) => HandlerStep
<1> USE DEF IInv
<1>1. ASSUME login(t) \/ logout(t) PROVE HandlerStep
  <2>1. TablesRest /\ n' = n /\ WorkInv'
    BY <1>1, WorkFacts DEF login, logout, TablesRest, NoWork
  <2>2. SessionInv'
    BY <1>1, <2>1 DEF login, logout, SessionInv, SessionsOfCurrentPassword, TablesRest
  <2> QED
    BY <2>1, <2>2 DEF HandlerStep, PasswordStep, TablesRest
<1>2. ASSUME NEW h \in Handlers, change_password(h, t) \/ backup_import(h, t)
      PROVE  HandlerStep
  <2>1. WorkInv'
    BY <1>2 DEF change_password, backup_import, WorkInv, Idle
  <2> QED
    BY <1>2, <2>1, OrdinaryRest DEF change_password, backup_import, Rest
<1> QED
  BY <1>1, <1>2

LEMMA OtherSteps ==
  ASSUME IInv, SessionInv
  PROVE  /\ shutdown \/ DebounceWakes => HandlerStep
         /\ \A u \in Uids : ConnectionEnds(u) => HandlerStep
BY WorkFacts, OrdinaryRest
DEF IInv, shutdown, DebounceWakes, ConnectionEnds, NoWork, Rest

LEMMA HandlersStep ==
  ASSUME IInv, SessionInv, Next, ~SaveBegins, ~SaveOpens, ~SaveEnds, ~SaveFails, ~Restart
  PROVE  HandlerStep
<1>1. CASE Serves
  BY <1>1, LinkHandlers, MtprotoHandlers, GroupHandlers, SessionHandlers DEF Serves
<1>2. CASE \E h \in Handlers : WorkEnds(h)
  BY <1>2, WorkEnding
<1>3. CASE \E u \in Uids : Charge(u) \/ ConnectionEnds(u)
  <2>1. ASSUME NEW u \in Uids, Charge(u) PROVE HandlerStep
    <3>1. None \in Subs \union {None}
      OBVIOUS
    <3> QED BY <2>1, <3>1, LinkHandlers
  <2> QED
    BY <1>3, <2>1, OtherSteps
<1> QED
  BY <1>1, <1>2, <1>3, OtherSteps DEF Next
------------------------------------------------------------------------------
(* The invariant.                                                           *)
LEMMA HandlerKeepsInv == ASSUME IInv, HandlerStep PROVE IInv'
<1>1. n' \in Nat /\ WorkInv'
  BY DEF HandlerStep, PasswordStep
<1>2. CASE TablesRest
  BY <1>1, <1>2 DEF IInv, TablesRest, IsTable, SaveInv
<1>3. ASSUME NEW m, NEW K, Changes(m, K) PROVE IInv'
  <2>1. /\ mem' = m /\ IsTable(m) /\ UNCHANGED <<file, at, boots>>
        /\ copy' = [k \in Keys |-> IF k \in K \intersect shared THEN mem[k] ELSE copy[k]]
        /\ shared' = shared \ K
        /\ since' = IF at = "free" THEN NoSave ELSE [k \in Keys |-> since[k] \union {m[k]}]
    BY <1>3 DEF Changes, Sets
  <2>2. IsTable(mem)' /\ IsTable(file)' /\ IsTable(copy)' /\ (boots \in Nat)'
    BY <2>1 DEF IInv, IsTable
  <2>3. SaveInv'
    BY <2>1 DEF IInv, SaveInv
  <2> QED
    BY <1>1, <2>2, <2>3 DEF IInv
<1> QED
  BY <1>2, <1>3 DEF HandlerStep

LEMMA SaveReturnsFacts ==
  ASSUME IInv, SessionInv, NEW how, SaveReturns(how), IsTable(file')
  PROVE  IInv' /\ SessionInv' /\ UNCHANGED <<mem, boots>> /\ since' = NoSave
<1>1. WorkInv'
  <2>1. work' = work \/ \E h : work' = [work EXCEPT ![h] = Idle]
    BY DEF SaveReturns, Resumes
  <2> QED
    BY <2>1 DEF IInv, WorkInv, Idle
<1>2. SaveInv'
  BY DEF SaveReturns, SaveInv, NoSave
<1>3. copy' = Blank /\ UNCHANGED <<mem, n, sessions, boots>> /\ since' = NoSave
  BY DEF SaveReturns
<1> QED
  BY <1>1, <1>2, <1>3, BlankIsTable DEF IInv, IsTable, SessionInv, SessionsOfCurrentPassword

LEMMA SaveStepsFacts ==
  ASSUME IInv, SessionInv, SaveBegins \/ SaveOpens \/ SaveEnds \/ SaveFails
  PROVE  IInv' /\ SessionInv'
<1>1. CASE SaveBegins
  <2>1. SessionInv' /\ n' \in Nat /\ boots' \in Nat /\ WorkInv'
    BY <1>1 DEF SaveBegins, Rest, IInv, WorkInv, SessionInv, SessionsOfCurrentPassword
  <2>2. IsTable(mem)' /\ IsTable(file)' /\ IsTable(copy)'
    BY <1>1 DEF SaveBegins, IInv, IsTable
  <2>3. SaveInv'
    BY <1>1 DEF SaveBegins, SaveInv
  <2> QED
    BY <2>1, <2>2, <2>3 DEF IInv
<1>2. CASE SaveOpens
  <2>1. SessionInv' /\ n' \in Nat /\ boots' \in Nat /\ WorkInv'
    BY <1>2 DEF SaveOpens, Rest, IInv, WorkInv, SessionInv, SessionsOfCurrentPassword
  <2>2. IsTable(mem)' /\ IsTable(file)' /\ IsTable(copy)'
    BY <1>2 DEF SaveOpens, Content, IInv, IsTable
  <2>3. SaveInv'
    BY <1>2 DEF SaveOpens, Content, IInv, SaveInv
  <2> QED
    BY <2>1, <2>2, <2>3 DEF IInv
<1>3. CASE SaveEnds
  BY <1>3, SaveReturnsFacts DEF SaveEnds, IInv, IsTable
<1>4. CASE SaveFails
  BY <1>4, SaveReturnsFacts DEF SaveFails, IInv, IsTable
<1> QED
  BY <1>1, <1>2, <1>3, <1>4

LEMMA RestartFacts ==
  ASSUME IInv, Restart
  PROVE  /\ IInv' /\ SessionInv'
         /\ \E m \in {file, Blank} : \A k \in Keys \ {DefaultUid} : mem'[k] = m[k]
         /\ since' = NoSave /\ boots' # boots /\ UNCHANGED file
<1>1. PICK m \in {file, Blank} : Starts(m)
  BY DEF Restart
<1>2. IsTable(m)
  BY BlankIsTable DEF IInv
<1>3. IsTable(mem)' /\ \A k \in Keys \ {DefaultUid} : mem'[k] = m[k]
  BY <1>1, <1>2, WithDefaultFacts DEF Starts, IsTable
<1>4. IsTable(file)' /\ IsTable(copy)' /\ n' \in Nat /\ boots' \in Nat /\ boots' # boots
  BY <1>1, BlankIsTable DEF Restart, Starts, IInv, IsTable
<1>5. WorkInv' /\ SaveInv'
  BY <1>1 DEF Starts, WorkInv, SaveInv, NoSave, Idle
<1>6. SessionInv'
  BY <1>1 DEF Starts, SessionInv, SessionsOfCurrentPassword
<1> QED
  BY <1>1, <1>3, <1>4, <1>5, <1>6 DEF IInv, Restart, Starts

LEMMA InitFacts ==
  ASSUME Init
  PROVE  IInv /\ SessionInv /\ \A k \in Keys \ {DefaultUid} : mem[k] = file[k]
<1>1. IsTable(file)
  BY DEF Init, Stored, Blank, IsTable
<1>2. IsTable(mem) /\ \A k \in Keys \ {DefaultUid} : mem[k] = file[k]
  BY <1>1, WithDefaultFacts DEF Init
<1>3. IsTable(copy) /\ n \in Nat /\ boots \in Nat
  BY BlankIsTable DEF Init
<1>4. WorkInv /\ SaveInv /\ SessionInv
  BY DEF Init, NoSave, WorkInv, SaveInv, Idle, SessionInv, SessionsOfCurrentPassword
<1> QED
  BY <1>1, <1>2, <1>3, <1>4 DEF IInv

LEMMA Inductive == ASSUME IInv, SessionInv, [Next]_vars PROVE IInv' /\ SessionInv'
<1>1. CASE UNCHANGED vars
  BY <1>1 DEF vars, IInv, IsTable, WorkInv, SaveInv, SessionInv, SessionsOfCurrentPassword
<1>2. CASE SaveBegins \/ SaveOpens \/ SaveEnds \/ SaveFails
  BY <1>2, SaveStepsFacts
<1>3. CASE Restart
  BY <1>3, RestartFacts
<1>4. CASE HandlerStep
  BY <1>4, HandlerKeepsInv DEF HandlerStep
<1> QED
  BY <1>1, <1>2, <1>3, <1>4, HandlersStep

LEMMA Invariance == Spec => [](IInv /\ SessionInv)
<1>1. Init => IInv /\ SessionInv
  BY InitFacts
<1>2. IInv /\ SessionInv /\ [Next]_vars => (IInv /\ SessionInv)'
  BY Inductive
<1> QED
  BY <1>1, <1>2, PTL DEF Spec

(* No session outlives the password it was opened with, also when handlers  *)
(* that had passed their authentication change it afterwards; the session   *)
(* of such a handler is opened again with the password that it sets.        *)
THEOREM SessionsFollowPassword == Spec => []SessionsOfCurrentPassword
<1>1. SessionInv => SessionsOfCurrentPassword
  BY DEF SessionInv
<1> QED
  BY <1>1, Invariance, PTL
------------------------------------------------------------------------------
(* The refinement.                                                          *)
LEMMA SinceNonempty == ASSUME IInv, at # "free" PROVE since # NoSave
<1>1. mem[Pw] \in since[Pw] /\ Pw \in Keys
  BY KeysFacts DEF IInv, SaveInv
<1> QED
  BY <1>1 DEF NoSave

LEMMA HandlerImplements == ASSUME IInv, HandlerStep PROVE [Promise!Next]_(Promise!vars)
<1>1. CASE TablesRest
  BY <1>1 DEF TablesRest, Promise!vars
<1>2. ASSUME NEW m, NEW K, Changes(m, K) PROVE [Promise!Next]_(Promise!vars)
  <2>1. /\ mem' = m /\ IsTable(m) /\ UNCHANGED <<file, boots>>
        /\ since' = IF at = "free" THEN NoSave ELSE [k \in Keys |-> since[k] \union {m[k]}]
    BY <1>2 DEF Changes, Sets
  <2>2. since = NoSave <=> at = "free"
    BY SinceNonempty DEF IInv, SaveInv
  <2>3. CASE mem' # mem
    <3>1. Promise!Change
      BY <2>1, <2>2, <2>3 DEF Promise!Change, Promise!NoSave, NoSave
    <3> QED BY <3>1 DEF Promise!Next
  <2>4. CASE mem' = mem /\ at = "free"
    BY <2>1, <2>2, <2>4 DEF Promise!vars
  <2>5. CASE mem' = mem /\ at # "free"
    <3>1. since' = [k \in Keys |-> since[k]]
      BY <2>1, <2>5 DEF IInv, SaveInv
    <3>2. since = [k \in Keys |-> since[k]]
      BY DEF IInv, SaveInv
    <3> QED BY <2>1, <2>5, <3>1, <3>2 DEF Promise!vars
  <2> QED
    BY <2>3, <2>4, <2>5
<1> QED
  BY <1>1, <1>2 DEF HandlerStep

LEMMA SaveImplements ==
  ASSUME IInv, SessionInv, SaveBegins \/ SaveOpens \/ SaveEnds \/ SaveFails
  PROVE  [Promise!Next]_(Promise!vars)
<1>1. CASE SaveBegins
  <2>1. Promise!Begin
    BY <1>1 DEF SaveBegins, Rest, IInv, SaveInv, Promise!Begin, Promise!NoSave, NoSave
  <2> QED BY <2>1 DEF Promise!Next
<1>2. CASE SaveOpens
  BY <1>2 DEF SaveOpens, Rest, Promise!vars
<1>3. CASE SaveEnds
  <2>1. at = "writing" /\ file' = copy /\ UNCHANGED <<mem, boots>> /\ since' = NoSave
    BY <1>3 DEF SaveEnds, SaveReturns
  <2>2. since # NoSave /\ \A k \in Keys : copy[k] \in since[k]
    BY <2>1, SinceNonempty DEF IInv, SaveInv
  <2>3. Promise!Commit
    BY <2>1, <2>2 DEF Promise!Commit, Promise!NoSave, NoSave
  <2> QED BY <2>3 DEF Promise!Next
<1>4. CASE SaveFails
  <2>1. Promise!Abandon
    BY <1>4, SinceNonempty DEF SaveFails, SaveReturns, Promise!Abandon, Promise!NoSave, NoSave
  <2> QED BY <2>1 DEF Promise!Next
<1> QED
  BY <1>1, <1>2, <1>3, <1>4

LEMMA RestartImplements == ASSUME IInv, Restart PROVE Promise!Start
BY RestartFacts DEF Promise!Start, Promise!NoSave, NoSave

(* Whatever handlers, saves, disk errors and crashes do, the file is a      *)
(* register for each entry that a save writes with a value of its own time, *)
(* and from which the panel starts.                                         *)
THEOREM FileIsRegister == Spec => ImplementsDurable
<1>1. Init => Promise!Init
  BY InitFacts DEF Init, Promise!Init, Promise!NoSave, NoSave
<1>2. ASSUME IInv, SessionInv, [Next]_vars PROVE [Promise!Next]_(Promise!vars)
  <2>1. CASE UNCHANGED vars
    BY <2>1 DEF vars, Promise!vars
  <2>2. CASE SaveBegins \/ SaveOpens \/ SaveEnds \/ SaveFails
    BY <1>2, <2>2, SaveImplements
  <2>3. CASE Restart
    BY <1>2, <2>3, RestartImplements DEF Promise!Next
  <2>4. CASE HandlerStep
    BY <1>2, <2>4, HandlerImplements
  <2> QED
    BY <1>2, <2>1, <2>2, <2>3, <2>4, HandlersStep
<1> QED
  BY <1>1, <1>2, Invariance, PTL DEF Spec, ImplementsDurable, Promise!Spec
------------------------------------------------------------------------------
(* Confirmed passwords.  Password numbers only grow while the panel runs,   *)
(* so it is enough that a save which confirms one began after the change:   *)
(* its handler queued for it then, waits, and is in the queue once.  Of a   *)
(* password that the disk has failed the invariant says nothing, until a    *)
(* save has written one that is not older.                                  *)
Waiters == Callers \X (Handlers \union {None})

QueueInv ==
  /\ lock \in Seq(Waiters) /\ (at # "free" => lock # << >>)
  /\ \A h \in Handlers : work[h].pw \in Nat
  /\ \A i \in 1..Len(lock) : lock[i][2] \in Handlers => work[lock[i][2]].op = "saving"
  /\ \A i, j \in 1..Len(lock) : lock[i][2] \in Handlers /\ lock[i][2] = lock[j][2] => i = j
  /\ \A i \in 1..Len(lock) :
       lock[i][1] = "password" => lock[i][2] \in Handlers /\ work[lock[i][2]].pw <= mem[Pw]

PasswordInv ==
  /\ mem[Pw] \in Nat /\ mem[Pw] <= n /\ file[Pw] \in Nat /\ file[Pw] <= n
  /\ acked \in Nat /\ acked <= n /\ lost \in Nat
  /\ acked > lost => acked <= mem[Pw] /\ acked <= file[Pw]
  /\ at # "free" =>
       \A v \in since[Pw] :
         /\ v \in Nat /\ v <= mem[Pw] /\ (acked > lost => acked <= v)
         /\ lock[1][1] = "password" => work[lock[1][2]].pw <= v

(* What a handler's step does to the queue: a handler that waits in it stays *)
(* as it is, and one that joins it was not in it.                           *)
QueueStep ==
  /\ UNCHANGED <<acked, lost>>
  /\ \A h \in Handlers : work'[h].pw \in Nat
  /\ \A h \in Handlers : work[h].op = "saving" => work'[h] = work[h]
  /\ \/ lock' = lock
     \/ \E c \in Callers \ {"password"} : lock' = Append(lock, <<c, None>>)
     \/ \E c \in Callers, h \in Handlers :
          /\ lock' = Append(lock, <<c, h>>)
          /\ work[h].op # "saving" /\ work'[h].op = "saving"
          /\ c = "password" => work'[h].pw <= mem'[Pw]
------------------------------------------------------------------------------
LEMMA IdleFacts == Idle.op = "idle" /\ Idle.pw = 0
BY DEF Idle

LEMMA QueueWork ==
  ASSUME IInv, QueueInv
  PROVE  /\ UNCHANGED work => /\ \A h \in Handlers : work'[h].pw \in Nat
                              /\ \A h \in Handlers : work[h].op = "saving" => work'[h] = work[h]
         /\ \A g \in Handlers : work[g].op # "saving" /\ Ends(g) =>
              /\ \A h \in Handlers : work'[h].pw \in Nat
              /\ \A h \in Handlers : work[h].op = "saving" => work'[h] = work[h]
         /\ \A g \in Handlers : \A op, u, s : Free(g) /\ Begins(g, op, u, s) =>
              /\ \A h \in Handlers : work'[h].pw \in Nat
              /\ \A h \in Handlers : work[h].op = "saving" => work'[h] = work[h]
<1>1. CASE UNCHANGED work
  BY <1>1 DEF QueueInv
<1>2. ASSUME NEW g \in Handlers, work[g].op # "saving", Ends(g)
      PROVE  /\ \A h \in Handlers : work'[h].pw \in Nat
             /\ \A h \in Handlers : work[h].op = "saving" => work'[h] = work[h]
  BY <1>2, IdleFacts DEF Ends, QueueInv, IInv, WorkInv
<1>3. ASSUME NEW g \in Handlers, NEW op, NEW u, NEW s, Free(g), Begins(g, op, u, s)
      PROVE  /\ \A h \in Handlers : work'[h].pw \in Nat
             /\ \A h \in Handlers : work[h].op = "saving" => work'[h] = work[h]
  <2>1. PICK w : w = [Idle EXCEPT !.op = op, !.key = u, !.sub = s]
    OBVIOUS
  <2>2. w.pw = 0
    BY <2>1 DEF Idle
  <2>3. work' = [work EXCEPT ![g] = w] /\ work[g].op # "saving"
    BY <1>3, <2>1, IdleFacts DEF Begins, Free
  <2> QED
    BY <2>2, <2>3 DEF QueueInv, IInv, WorkInv
<1> QED
  BY <1>1, <1>2, <1>3

LEMMA SavingFacts ==
  ASSUME IInv, QueueInv, n' \in Nat, NEW g \in Handlers, NEW c \in Callers,
         work[g].op # "saving", Saving(g, c), UNCHANGED <<acked, lost>>, c = "password" => mem'[Pw] = n'
  PROVE  QueueStep
<1>1. PICK w : w = [Idle EXCEPT !.op = "saving", !.pw = n']
  OBVIOUS
<1>2. w.op = "saving" /\ w.pw = n'
  BY <1>1 DEF Idle
<1>3. work' = [work EXCEPT ![g] = w] /\ lock' = Append(lock, <<c, g>>)
  BY <1>1 DEF Saving
<1>4. work'[g] = w /\ \A h \in Handlers \ {g} : work'[h] = work[h]
  BY <1>3 DEF IInv, WorkInv
<1> QED
  BY <1>2, <1>3, <1>4 DEF QueueStep, QueueInv

LEMMA SpawnFacts ==
  SpawnSave => \E c \in Callers \ {"password"} : lock' = Append(lock, <<c, None>>)
BY DEF SpawnSave, Saver, Callers

LEMMA ServesQueues == ASSUME IInv, QueueInv, mem[Pw] \in Nat, Serves PROVE QueueStep
<1>1. CASE \E u \in Uids, s \in Subs \union {None} : create_link(u, s) \/ update_link(u, s)
  BY <1>1, QueueWork, SpawnFacts
  DEF create_link, Inserts, update_link, NoWork, Rest, QueueStep
<1>2. CASE \E u \in Uids : UpdateRefused(u) \/ delete_link(u)
  BY <1>2, QueueWork, SpawnFacts DEF UpdateRefused, delete_link, NoWork, Rest, QueueStep
<1>3. CASE \E h \in Handlers, u \in Uids, s \in Subs \union {None} :
             create_mtproto(h, u, s) \/ update_mtproto(h, u, s)
  BY <1>3, QueueWork DEF create_mtproto, update_mtproto, Rest, QueueStep
<1>4. CASE \E h \in Handlers, u \in Uids : delete_mtproto(h, u)
  BY <1>4, QueueWork DEF delete_mtproto, Rest, QueueStep
<1>5. CASE \E s \in Subs : create_sub(s) \/ delete_sub(s)
  BY <1>5, QueueWork, SpawnFacts DEF create_sub, delete_sub, NoWork, Rest, QueueStep
<1>6. CASE \E s \in Subs, list \in SUBSET Uids : update_sub(s, list)
  BY <1>6, QueueWork, SpawnFacts DEF update_sub, NoWork, Rest, QueueStep
<1>7. CASE \E s \in Subs, u \in Uids, add \in BOOLEAN : assign_link_to_sub(s, u, add)
  BY <1>7, QueueWork, SpawnFacts DEF assign_link_to_sub, NoWork, Rest, QueueStep
<1>8. CASE \E t \in Tokens : login(t) \/ logout(t)
  BY <1>8, QueueWork DEF login, logout, NoWork, QueueStep
<1>9. ASSUME NEW h \in Handlers, NEW t \in Tokens, change_password(h, t), mem[Pw] \in Nat
      PROVE  QueueStep
  <2>1. PICK w : w = [Idle EXCEPT !.op = "password", !.tok = t, !.pw = mem[Pw]]
    OBVIOUS
  <2>2. w.pw \in Nat
    BY <1>9, <2>1 DEF Idle
  <2>3. /\ work' = [work EXCEPT ![h] = w] /\ work[h].op # "saving"
        /\ UNCHANGED <<lock, acked, lost>>
    BY <1>9, <2>1, IdleFacts DEF change_password, Free, Rest
  <2> QED
    BY <2>2, <2>3 DEF QueueStep, QueueInv, IInv, WorkInv
<1>10. ASSUME NEW h \in Handlers, NEW t \in Tokens, backup_import(h, t)
       PROVE  QueueStep
  <2>1. PICK w : w = [Idle EXCEPT !.op = "import", !.tok = t]
    OBVIOUS
  <2>2. w.pw = 0
    BY <2>1 DEF Idle
  <2>3. /\ work' = [work EXCEPT ![h] = w] /\ work[h].op # "saving"
        /\ UNCHANGED <<lock, acked, lost>>
    BY <1>10, <2>1, IdleFacts DEF backup_import, Free, Rest
  <2> QED
    BY <2>2, <2>3 DEF QueueStep, QueueInv, IInv, WorkInv
<1> QED
  BY <1>1, <1>2, <1>3, <1>4, <1>5, <1>6, <1>7, <1>8, <1>9, <1>10 DEF Serves

LEMMA WorkEndsQueues ==
  ASSUME IInv, QueueInv, NEW h \in Handlers, WorkEnds(h)
  PROVE  QueueStep
<1>1. CASE CreateEnds(h) \/ UpdateEnds(h) \/ DeleteEnds(h)
  BY <1>1, QueueWork, SpawnFacts DEF CreateEnds, Inserts, UpdateEnds, DeleteEnds, Rest, QueueStep
<1>2. CASE CreateFails(h) \/ UpdateRaises(h) \/ PasswordRefused(h) \/ ImportRefused(h)
  BY <1>2, QueueWork DEF CreateFails, UpdateRaises, PasswordRefused, ImportRefused, Rest,
                         QueueStep
<1>3. CASE PasswordChanges(h)
  <2>1. mem'[Pw] = n'
    BY <1>3, KeysFacts DEF PasswordChanges, Sets, IInv, IsTable
  <2>2. /\ work[h].op # "saving" /\ Saving(h, "password") /\ UNCHANGED <<acked, lost>>
        /\ n' \in Nat /\ "password" \in Callers
    BY <1>3, CountsFacts DEF PasswordChanges, Callers
  <2> QED
    BY <2>1, <2>2, SavingFacts
<1>4. ASSUME NEW L, NEW keep \in BOOLEAN, ImportReplaces(h, L, keep) PROVE QueueStep
  <2>1. /\ work[h].op # "saving" /\ Saving(h, "import") /\ UNCHANGED <<acked, lost>>
        /\ n' \in Nat /\ "import" \in Callers
    BY <1>4, CountsFacts DEF ImportReplaces, Callers
  <2> QED
    BY <2>1, SavingFacts
<1> QED
  BY <1>1, <1>2, <1>3, <1>4 DEF WorkEnds

LEMMA OthersQueue ==
  ASSUME IInv, QueueInv,
         \/ shutdown \/ DebounceWakes
         \/ \E u \in Uids : Charge(u) \/ ConnectionEnds(u)
  PROVE  QueueStep
<1>1. CASE shutdown \/ DebounceWakes
  BY <1>1, QueueWork DEF shutdown, DebounceWakes, NoWork, Rest, Saver, Callers, QueueStep
<1>2. CASE \E u \in Uids : Charge(u)
  BY <1>2, QueueWork DEF Charge, NoWork, QueueStep
<1>3. CASE \E u \in Uids : ConnectionEnds(u)
  BY <1>3, QueueWork, SpawnFacts DEF ConnectionEnds, NoWork, QueueStep
<1> QED
  BY <1>1, <1>2, <1>3

LEMMA HandlersQueue ==
  ASSUME IInv, QueueInv, PasswordInv, Next,
         ~SaveBegins, ~SaveOpens, ~SaveEnds, ~SaveFails, ~Restart
  PROVE  QueueStep
BY ServesQueues, WorkEndsQueues, OthersQueue DEF Next, PasswordInv

LEMMA HandlerKeepsPassword ==
  ASSUME IInv, QueueInv, PasswordInv, HandlerStep, QueueStep
  PROVE  QueueInv' /\ PasswordInv'
<1>1. /\ PasswordStep /\ UNCHANGED <<at, file, acked, lost>> /\ n \in Nat
      /\ mem'[Pw] \in Nat /\ mem[Pw] <= mem'[Pw] /\ mem'[Pw] <= n'
  BY DEF HandlerStep, PasswordStep, QueueStep, TablesRest, Changes, Sets, PasswordInv, IInv
<1>2. at # "free" => \A v \in since'[Pw] : v \in since[Pw] \/ v = mem'[Pw]
  <2>1. CASE TablesRest
    BY <2>1 DEF TablesRest
  <2>2. ASSUME NEW m, NEW K, Changes(m, K), at # "free"
        PROVE  \A v \in since'[Pw] : v \in since[Pw] \/ v = mem'[Pw]
    BY <2>2, KeysFacts DEF Changes, Sets
  <2> QED
    BY <2>1, <2>2 DEF HandlerStep
<1>3. /\ lock \in Seq(Waiters) /\ lock' \in Seq(Waiters) /\ Len(lock) <= Len(lock')
      /\ \A i \in 1..Len(lock) : lock'[i] = lock[i]
  <2>1. lock \in Seq(Waiters)
    BY DEF QueueInv
  <2>2. lock' = lock \/ \E w \in Waiters : lock' = Append(lock, w)
    BY DEF QueueStep, Waiters
  <2> QED BY <2>1, <2>2
<1>4. \A i \in 1..Len(lock) :
        lock[i][2] \in Handlers => work'[lock[i][2]] = work[lock[i][2]]
  BY DEF QueueStep, QueueInv
<1>5. ASSUME NEW i \in 1..Len(lock), lock[i][1] = "password"
      PROVE  lock[i][2] \in Handlers /\ work'[lock[i][2]].pw <= mem'[Pw]
  <2>1. /\ lock[i][2] \in Handlers /\ work[lock[i][2]].pw <= mem[Pw]
        /\ work[lock[i][2]].pw \in Nat
    BY <1>5 DEF QueueInv
  <2> QED BY <1>1, <1>4, <2>1 DEF PasswordInv
(* Whatever a save that runs now may write bounds the head of the queue.    *)
<1>p. ASSUME at # "free", NEW v \in since'[Pw]
      PROVE  /\ v \in Nat /\ v <= mem'[Pw] /\ (acked > lost => acked <= v)
             /\ lock[1][1] = "password" => work'[lock[1][2]].pw <= v
  <2>1. v \in Nat /\ v <= mem'[Pw] /\ (acked > lost => acked <= v)
    BY <1>1, <1>2, <1>p DEF PasswordInv, PasswordStep
  <2>2. 1 \in 1..Len(lock)
    BY <1>3, <1>p DEF QueueInv
  <2>3. ASSUME lock[1][1] = "password" PROVE work'[lock[1][2]].pw <= v
    <3>1. lock[1][2] \in Handlers /\ work'[lock[1][2]] = work[lock[1][2]]
          /\ work[lock[1][2]].pw \in Nat /\ work[lock[1][2]].pw <= mem[Pw]
      BY <1>4, <2>2, <2>3 DEF QueueInv
    <3>2. CASE v = mem'[Pw]
      BY <1>1, <3>1, <3>2 DEF PasswordInv
    <3>3. CASE v \in since[Pw]
      BY <1>p, <2>3, <3>1, <3>3 DEF PasswordInv
    <3> QED BY <1>2, <1>p, <3>2, <3>3
  <2> QED BY <2>1, <2>3
<1>q. /\ mem'[Pw] \in Nat /\ mem'[Pw] <= n' /\ file'[Pw] \in Nat /\ file'[Pw] <= n'
      /\ acked' \in Nat /\ acked' <= n' /\ lost' \in Nat
      /\ acked' > lost' => acked' <= mem'[Pw] /\ acked' <= file'[Pw]
  BY <1>1 DEF PasswordInv, PasswordStep
<1>6. CASE lock' = lock
  <2>1. QueueInv'
    BY <1>1, <1>3, <1>4, <1>6, <1>5 DEF QueueInv, QueueStep
  <2>2. PasswordInv'
    BY <1>1, <1>6, <1>p, <1>q DEF PasswordInv
  <2> QED BY <2>1, <2>2
<1>7. ASSUME NEW w \in Waiters, lock' = Append(lock, w),
             w[2] \in Handlers => /\ work[w[2]].op # "saving" /\ work'[w[2]].op = "saving"
                                  /\ w[1] = "password" => work'[w[2]].pw <= mem'[Pw],
             w[1] = "password" => w[2] \in Handlers
      PROVE  QueueInv' /\ PasswordInv'
  <2>1. Len(lock') = Len(lock) + 1 /\ lock'[Len(lock) + 1] = w /\ Len(lock) \in Nat
    BY <1>3, <1>7
  <2>2. \A i \in 1..Len(lock) : lock[i][2] \in Handlers => lock[i][2] # w[2]
    BY <1>7 DEF QueueInv
  <2>3. \A i \in 1..Len(lock') : i \in 1..Len(lock) \/ i = Len(lock) + 1
    BY <2>1
  <2>4. QueueInv'
    <3>1. \A i \in 1..Len(lock') : lock'[i][2] \in Handlers => work'[lock'[i][2]].op = "saving"
      BY <1>3, <1>4, <1>7, <2>1, <2>3 DEF QueueInv
    <3>2. \A i, j \in 1..Len(lock') :
            lock'[i][2] \in Handlers /\ lock'[i][2] = lock'[j][2] => i = j
      BY <1>3, <2>1, <2>2, <2>3 DEF QueueInv
    <3>3. \A i \in 1..Len(lock') : lock'[i][1] = "password" =>
            lock'[i][2] \in Handlers /\ work'[lock'[i][2]].pw <= mem'[Pw]
      BY <1>3, <1>7, <1>5, <2>1, <2>3
    <3>4. /\ lock' \in Seq(Waiters) /\ (at' # "free" => lock' # << >>)
          /\ \A h \in Handlers : work'[h].pw \in Nat
      BY <1>3, <2>1 DEF QueueStep
    <3> QED
      BY <3>1, <3>2, <3>3, <3>4 DEF QueueInv
  <2>5. at # "free" => lock # << >> /\ lock'[1] = lock[1] /\ 1 \in 1..Len(lock)
    BY <1>3 DEF QueueInv
  <2>6. PasswordInv'
    BY <1>1, <1>p, <1>q, <2>5 DEF PasswordInv
  <2> QED BY <2>4, <2>6
<1>8. CASE \E c \in Callers \ {"password"} : lock' = Append(lock, <<c, None>>)
  <2>1. None \notin Handlers
    BY PersistenceAssumption DEF PersistenceAssumption
  <2> QED BY <1>7, <1>8, <2>1 DEF Waiters
<1>9. CASE \E c \in Callers, h \in Handlers :
             /\ lock' = Append(lock, <<c, h>>)
             /\ work[h].op # "saving" /\ work'[h].op = "saving"
             /\ c = "password" => work'[h].pw <= mem'[Pw]
  BY <1>7, <1>9 DEF Waiters
<1> QED
  BY <1>6, <1>8, <1>9 DEF QueueStep

LEMMA SaveReturnsQueue ==
  ASSUME IInv, QueueInv, NEW how, at # "free", SaveReturns(how)
  PROVE  QueueInv'
<1>1. /\ lock \in Seq(Waiters) /\ lock # << >> /\ lock' = Tail(lock)
      /\ lock' \in Seq(Waiters) /\ Len(lock') = Len(lock) - 1
      /\ \A i \in 1..Len(lock') : i + 1 \in 1..Len(lock) /\ lock'[i] = lock[i + 1]
      /\ 1 \in 1..Len(lock) /\ Len(lock) \in Nat /\ Head(lock) = lock[1]
  BY DEF QueueInv, SaveReturns
<1>2. /\ at' = "free" /\ mem' = mem
      /\ work' = IF lock[1][2] = None THEN work ELSE [work EXCEPT ![lock[1][2]] = Idle]
  BY <1>1 DEF SaveReturns, Resumes
<1>3. \A h \in Handlers : h # lock[1][2] => work'[h] = work[h]
  BY <1>2 DEF IInv, WorkInv
<1>4. \A i \in 1..Len(lock') : lock'[i][2] \in Handlers => lock'[i][2] # lock[1][2]
  BY <1>1 DEF QueueInv
<1>5. \A h \in Handlers : work'[h].pw \in Nat
  BY <1>2, <1>3, IdleFacts DEF QueueInv, IInv, WorkInv
<1>6. \A i \in 1..Len(lock') : lock'[i][2] \in Handlers => work'[lock'[i][2]] = work[lock'[i][2]]
  BY <1>3, <1>4
<1>7. \A i \in 1..Len(lock') : lock'[i][2] \in Handlers => work'[lock'[i][2]].op = "saving"
  BY <1>1, <1>6 DEF QueueInv
<1>8. \A i, j \in 1..Len(lock') : lock'[i][2] \in Handlers /\ lock'[i][2] = lock'[j][2] => i = j
  <2>1. ASSUME NEW i \in 1..Len(lock'), NEW j \in 1..Len(lock'),
               lock'[i][2] \in Handlers, lock'[i][2] = lock'[j][2]
        PROVE  i = j
    <3>1. i + 1 = j + 1
      BY <1>1, <2>1 DEF QueueInv
    <3> QED BY <1>1, <3>1
  <2> QED BY <2>1
<1>9. \A i \in 1..Len(lock') : lock'[i][1] = "password" =>
        lock'[i][2] \in Handlers /\ work'[lock'[i][2]].pw <= mem'[Pw]
  BY <1>1, <1>2, <1>6 DEF QueueInv
<1> QED
  BY <1>1, <1>2, <1>5, <1>7, <1>8, <1>9 DEF QueueInv

LEMMA QueueOfPanelStarted ==
  ASSUME NEW q, q = << >> \/ q = <<Saver("spawned")>>
  PROVE  /\ q \in Seq(Waiters)
         /\ \A i \in 1..Len(q) : /\ i = 1 /\ q[i][2] \notin Handlers
                                 /\ q[i][1] # "password"
<1>1. /\ Saver("spawned") \in Waiters /\ Saver("spawned")[2] \notin Handlers
      /\ Saver("spawned")[1] # "password"
  BY PersistenceAssumption DEF PersistenceAssumption, Saver, Waiters, Callers
<1>2. ASSUME NEW w \in Waiters, q = <<w>>
      PROVE  q \in Seq(Waiters) /\ \A i \in 1..Len(q) : i = 1 /\ q[i] = w
  BY <1>2
<1>3. q = << >> => q \in Seq(Waiters) /\ 1..Len(q) = {}
  OBVIOUS
<1> QED
  BY <1>1, <1>2, <1>3

LEMMA PasswordInductive ==
  ASSUME IInv, SessionInv, QueueInv, PasswordInv, [Next]_vars
  PROVE  QueueInv' /\ PasswordInv'
<1>1. CASE UNCHANGED vars
  BY <1>1 DEF vars, QueueInv, PasswordInv
<1>2. CASE SaveBegins
  <2>1. QueueInv'
    BY <1>2 DEF SaveBegins, Rest, QueueInv
  <2>2. since'[Pw] = {mem[Pw]}
    BY <1>2, KeysFacts DEF SaveBegins
  <2>3. /\ UNCHANGED <<mem, file, lock, n, work, acked, lost>>
        /\ lock[1][1] = "password" => work[lock[1][2]].pw <= mem[Pw]
    BY <1>2 DEF SaveBegins, Rest, QueueInv
  <2> QED
    BY <2>1, <2>2, <2>3 DEF PasswordInv
<1>3. CASE SaveOpens
  BY <1>3 DEF SaveOpens, Rest, QueueInv, PasswordInv
<1>4. CASE SaveEnds
  <2>1. /\ at = "writing" /\ file' = copy /\ at' = "free" /\ UNCHANGED <<mem, n>>
        /\ acked' = IF lock[1][1] = "password" THEN work[lock[1][2]].pw ELSE acked
        /\ lost' = IF copy[Pw] >= lost THEN 0 ELSE lost
        /\ SaveReturns("stopped")
    BY <1>4 DEF SaveEnds, Confirms, SaveReturns, QueueInv
  <2>2. copy[Pw] \in since[Pw]
    BY <2>1, KeysFacts DEF IInv, SaveInv
  <2>3. lock[1][1] = "password" => /\ work[lock[1][2]].pw \in Nat
                                   /\ work[lock[1][2]].pw <= mem[Pw]
    BY <2>1 DEF QueueInv
  <2>4. /\ mem[Pw] \in Nat /\ mem[Pw] <= n /\ acked \in Nat /\ acked <= n /\ lost \in Nat /\ n \in Nat
        /\ copy[Pw] \in Nat /\ copy[Pw] <= mem[Pw] /\ (acked > lost => acked <= copy[Pw])
        /\ lock[1][1] = "password" => work[lock[1][2]].pw <= copy[Pw]
    BY <2>1, <2>2 DEF PasswordInv, IInv
  <2>5. /\ acked' \in Nat /\ acked' <= n /\ lost' \in Nat
        /\ acked' > lost' => acked' <= copy[Pw]
    <3>1. ASSUME lock[1][1] = "password"
          PROVE  acked' \in Nat /\ acked' <= copy[Pw] /\ lost' \in Nat
      BY <2>1, <2>3, <2>4, <3>1
    <3>2. ASSUME lock[1][1] # "password"
          PROVE  acked' = acked /\ lost' \in Nat /\ (acked' > lost' => acked' <= copy[Pw])
      BY <2>1, <2>4, <3>2
    <3> QED
      BY <2>4, <3>1, <3>2
  <2>6. PasswordInv'
    BY <2>1, <2>4, <2>5 DEF PasswordInv
  <2> QED
    BY <2>1, <2>6, SaveReturnsQueue
<1>5. CASE SaveFails
  <2>1. /\ at # "free" /\ SaveReturns("failed") /\ UNCHANGED <<file, mem, n>> /\ at' = "free"
        /\ acked' = IF lock[1][1] = "password" THEN work[lock[1][2]].pw ELSE acked
        /\ lost' = IF lock[1][1] = "password" THEN acked' ELSE lost
    BY <1>5 DEF SaveFails, Confirms, SaveReturns, QueueInv
  <2>2. lock[1][1] = "password" => work[lock[1][2]].pw \in Nat /\ work[lock[1][2]].pw <= mem[Pw]
    BY <2>1 DEF QueueInv
  <2>3. /\ mem[Pw] \in Nat /\ mem[Pw] <= n /\ file[Pw] \in Nat /\ file[Pw] <= n /\ n \in Nat
        /\ acked \in Nat /\ acked <= n /\ lost \in Nat
        /\ acked > lost => acked <= mem[Pw] /\ acked <= file[Pw]
    BY DEF PasswordInv, IInv
  <2>4. /\ acked' \in Nat /\ acked' <= n /\ lost' \in Nat
        /\ acked' > lost' => acked' <= mem[Pw] /\ acked' <= file[Pw]
    BY <2>1, <2>2, <2>3
  <2>5. PasswordInv'
    BY <2>1, <2>3, <2>4 DEF PasswordInv
  <2> QED
    BY <2>1, <2>5, SaveReturnsQueue
<1>6. CASE Restart
  <2>1. PICK m \in {file, Blank} :
          Starts(m) /\ UNCHANGED acked /\ lost' = IF m = file THEN lost ELSE acked
    BY <1>6 DEF Restart
  <2>2. IsTable(m) /\ Blank[Pw] = 0
    BY KeysFacts, BlankIsTable DEF IInv, Blank
  <2>3. mem'[Pw] = m[Pw] /\ at' = "free" /\ UNCHANGED <<file, n>>
    BY <1>6, <2>1, <2>2, KeysFacts, WithDefaultFacts DEF Starts, Restart
  <2>4. PasswordInv'
    BY <2>1, <2>2, <2>3 DEF PasswordInv, IInv
  <2>5. QueueInv'
    <3>1. lock' = << >> \/ lock' = <<Saver("spawned")>>
      BY <2>1 DEF Starts
    <3>2. \A h \in Handlers : work'[h].pw \in Nat
      BY <2>1, IdleFacts DEF Starts
    <3>3. /\ lock' \in Seq(Waiters)
          /\ \A i \in 1..Len(lock') : /\ i = 1 /\ lock'[i][2] \notin Handlers
                                      /\ lock'[i][1] # "password"
      BY <3>1, QueueOfPanelStarted
    <3> QED
      BY <2>3, <3>2, <3>3 DEF QueueInv
  <2> QED
    BY <2>4, <2>5
<1>7. CASE HandlerStep /\ QueueStep
  BY <1>7, HandlerKeepsPassword
<1> QED
  BY <1>1, <1>2, <1>3, <1>4, <1>5, <1>6, <1>7, HandlersStep, HandlersQueue

LEMMA PasswordInit == ASSUME Init PROVE QueueInv /\ PasswordInv
<1>1. IsTable(file) /\ file[Pw] = 0
  BY KeysFacts, PersistenceAssumption DEF PersistenceAssumption, Init, Stored, Blank, IsTable
<1>2. mem[Pw] = 0
  BY <1>1, KeysFacts, WithDefaultFacts DEF Init
<1>3. lock = << >> \/ lock = <<Saver("spawned")>>
  BY DEF Init
<1>4. /\ lock \in Seq(Waiters)
      /\ \A i \in 1..Len(lock) : /\ i = 1 /\ lock[i][2] \notin Handlers
                                 /\ lock[i][1] # "password"
  BY <1>3, QueueOfPanelStarted
<1>5. \A h \in Handlers : work[h].pw \in Nat
  BY IdleFacts DEF Init
<1>6. at = "free" /\ n = 0 /\ acked = 0 /\ lost = 0
  BY DEF Init
<1> QED
  BY <1>1, <1>2, <1>4, <1>5, <1>6 DEF QueueInv, PasswordInv

(* A confirmed change of the password is in the file from then on, whatever *)
(* saves were under way or queued when it was made, and across crashes,     *)
(* unless the disk failed its own save, which is confirmed all the same, or *)
(* the file could not be read when the panel started.                       *)
THEOREM ConfirmedPasswordsStay == Spec => []PasswordDurable
<1>1. Init => QueueInv /\ PasswordInv
  BY PasswordInit
<1>2. IInv /\ SessionInv /\ QueueInv /\ PasswordInv /\ [Next]_vars => QueueInv' /\ PasswordInv'
  BY PasswordInductive
<1>3. PasswordInv => PasswordDurable
  BY DEF PasswordInv, PasswordDurable
<1> QED
  BY <1>1, <1>2, <1>3, Invariance, PTL DEF Spec
==============================================================================
