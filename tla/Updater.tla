------------------------------ MODULE Updater ------------------------------
(***************************************************************************)
(* The panel's update of itself: a request starts a task that fetches the  *)
(* manifest, downloads file after file over the installed ones, writes     *)
(* version.txt, saves the state and re-executes the process.               *)
(*                                                                         *)
(* A version is a number; the file of a version is that number.            *)
(***************************************************************************)
EXTENDS Integers, FiniteSets

CONSTANTS
  Updates,     \* update tasks
  Files,       \* the program's files
  Hashed,      \* those whose entry in the manifest has a hash
  MaxVersion,  \* bound: versions published
  NoVersion    \* no manifest, no file

ASSUME UpdaterAssumption ==
  Files # {} /\ Hashed \subseteq Files /\ MaxVersion \in Nat

VARIABLES
  published,   \* what the worker offers
  disk,        \* the installed files
  version,     \* version.txt
  running,     \* update_state["running"]
  update,      \* [Updates -> pc, the manifest's version, files left, the
               \* content on its way, files written, files failed]
  overlapping, \* history: two updates ran side by side
  skipped      \* history: files whose download failed in a finished update

uvars == <<published, disk, version, running, update, overlapping, skipped>>

NoUpdate == [pc |-> "none", to |-> NoVersion, left |-> {}, file |-> NoVersion,
             content |-> NoVersion, written |-> {}, failed |-> {}]

UpdaterInit ==
  /\ published = 0
  /\ disk = [f \in Files |-> 0]
  /\ version = 0
  /\ running = FALSE
  /\ update = [u \in Updates |-> NoUpdate]
  /\ overlapping = FALSE
  /\ skipped = {}

InUpdate(u) == update[u].pc \in {"manifest", "files", "download"}

\* The worker only ever moves on.
Publishes ==
  /\ published < MaxVersion
  /\ published' = published + 1
  /\ UNCHANGED <<disk, version, running, update, overlapping, skipped>>

(***************************************************************************)
(* The request is answered once the task is created; `running` is set when *)
(* the task first runs.                                                    *)
(***************************************************************************)
api_update(u) ==
  /\ update[u].pc = "none" /\ ~running
  /\ update' = [update EXCEPT ![u].pc = "created"]
  /\ UNCHANGED <<published, disk, version, running, overlapping, skipped>>

Stops(u) == update' = [update EXCEPT ![u] = NoUpdate]

\* Up to the request for the manifest; nothing can be written, or no address
\* of a manifest is set, ends it at once.
Starts(u) ==
  /\ update[u].pc = "created"
  /\ overlapping' = (overlapping \/ \E w \in Updates : InUpdate(w))
  /\ \/ running' = TRUE  /\ update' = [update EXCEPT ![u].pc = "manifest"]
     \/ running' = FALSE /\ Stops(u)
  /\ UNCHANGED <<published, disk, version, skipped>>

\* Mutant: an early return forgets the flag.
ManifestKeepsFlag(u) ==
  /\ update[u].pc = "manifest"
  /\ \/ update' = [update EXCEPT ![u].pc = "files", ![u].to = published, ![u].left = Files]
     \/ Stops(u)
  /\ UNCHANGED <<published, disk, version, running, overlapping, skipped>>

\* The answer of the worker: a manifest, or an error or an empty list.
Manifest(u) ==
  /\ update[u].pc = "manifest"
  /\ \/ /\ update' = [update EXCEPT ![u].pc = "files", ![u].to = published, ![u].left = Files]
        /\ UNCHANGED running
     \/ running' = FALSE /\ Stops(u)
  /\ UNCHANGED <<published, disk, version, overlapping, skipped>>

\* The request of the next file is answered with what is published now.
Requests(u) ==
  /\ update[u].pc = "files"
  /\ \E f \in update[u].left :
       update' = [update EXCEPT ![u].pc = "download", ![u].file = f,
                                ![u].content = published, ![u].left = @ \ {f}]
  /\ UNCHANGED <<published, disk, version, running, overlapping, skipped>>

\* The answer arrives: a hash that does not match, or an error, fails the file.
Matches(u) ==
  update[u].file \in Hashed => update[u].content = update[u].to

Downloaded(u) ==
  /\ update[u].pc = "download"
  /\ LET f == update[u].file IN
       \/ /\ Matches(u)
          /\ disk' = [disk EXCEPT ![f] = update[u].content]
          /\ update' = [update EXCEPT ![u].pc = "files", ![u].written = @ \cup {f}]
       \/ /\ update' = [update EXCEPT ![u].pc = "files", ![u].failed = @ \cup {f}]
          /\ UNCHANGED disk
  /\ UNCHANGED <<published, version, running, overlapping, skipped>>

\* Mutant: the first file that is written counts for all.
OneWritten(u) ==
  update[u].pc = "files" /\ (update[u].left = {} \/ update[u].written # {})

AllTried(u) == update[u].pc = "files" /\ update[u].left = {}

\* Not one file was written: the update is given up.
NothingWritten(u) ==
  /\ AllTried(u) /\ update[u].written = {}
  /\ running' = FALSE
  /\ Stops(u)
  /\ UNCHANGED <<published, disk, version, overlapping, skipped>>

\* Otherwise the new version is recorded, files that failed or not, and
\* `running` is cleared before the restart.
Succeeds(u) ==
  /\ AllTried(u) /\ update[u].written # {}
  /\ version' = update[u].to
  /\ skipped' = (skipped \ update[u].written) \cup update[u].failed
  /\ running' = FALSE
  /\ update' = [update EXCEPT ![u] = [NoUpdate EXCEPT !.pc = "done"]]
  /\ UNCHANGED <<published, disk, overlapping>>

\* save_state, 1.5 seconds, os.execv; or the process dies at any time.
ProcessRestarts ==
  /\ running' = FALSE
  /\ update' = [u \in Updates |-> NoUpdate]
  /\ UNCHANGED <<published, disk, version, overlapping, skipped>>

Reexecutes(u) == update[u].pc = "done" /\ ProcessRestarts
Crash         == ProcessRestarts

UpdateStep(u) ==
  \/ Starts(u) \/ Manifest(u) \/ Requests(u) \/ Downloaded(u)
  \/ NothingWritten(u) \/ Succeeds(u) \/ Reexecutes(u)

UpdaterNext ==
  \/ Publishes \/ Crash
  \/ \E u \in Updates : api_update(u) \/ UpdateStep(u)

UpdaterSpec == UpdaterInit /\ [][UpdaterNext]_uvars

\* Downloads have timeouts and the event loop runs the tasks.
UpdaterFairness == \A u \in Updates : WF_uvars(UpdateStep(u))

(***************************************************************************)
(* Properties.                                                             *)
(***************************************************************************)
\* version.txt never runs ahead of the program: unless two updates ran side by
\* side, every file is at least as new as the recorded version, except those
\* whose download the last successful updates reported as failed.  A process
\* that dies half way leaves the old number and is offered the update again.
VersionNotAhead ==
  ~overlapping => \A f \in Files \ skipped : disk[f] >= version

\* No way out of an update leaves the flag set, which would refuse every later
\* update: the early returns clear it by themselves, a crash with the process.
FlagIsCleared == running ~> ~running
=============================================================================
