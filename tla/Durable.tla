------------------------------- MODULE Durable -------------------------------
(***************************************************************************)
(* What a panel that saves its tables in the background promises: each     *)
(* entry of the file is a regular register.  A save writes, for each       *)
(* entry, a value that the entry had since the save began, and never an    *)
(* older one; a panel that starts has what the file has.                   *)
(***************************************************************************)
CONSTANTS
  Keys,      \* the entries
  Blank,     \* the tables of a panel that has no file
  Default    \* entries that a panel which starts may add

VARIABLES
  mem,       \* the value of each entry in memory
  disk,      \* and in the file
  since,     \* values of each entry since the save under way began, or {}
  boots      \* how often the panel started

vars == <<mem, disk, since, boots>>

NoSave == [k \in Keys |-> {}]

Init == since = NoSave /\ \A k \in Keys \ Default : mem[k] = disk[k]

Change ==
  /\ mem' # mem
  /\ since' = IF since = NoSave THEN NoSave
              ELSE [k \in Keys |-> since[k] \union {mem'[k]}]
  /\ UNCHANGED <<disk, boots>>

Begin ==
  /\ since = NoSave /\ since' = [k \in Keys |-> {mem[k]}]
  /\ UNCHANGED <<mem, disk, boots>>

Commit ==
  /\ since # NoSave /\ since' = NoSave
  /\ \A k \in Keys : disk'[k] \in since[k]
  /\ UNCHANGED <<mem, boots>>

Abandon == since # NoSave /\ since' = NoSave /\ UNCHANGED <<mem, disk, boots>>

(* A file that cannot be read counts as none. *)
Start ==
  /\ \E m \in {disk, Blank} : \A k \in Keys \ Default : mem'[k] = m[k]
  /\ since' = NoSave
  /\ boots' # boots
  /\ UNCHANGED disk

Next == Change \/ Begin \/ Commit \/ Abandon \/ Start

Spec == Init /\ [][Next]_vars
==============================================================================
