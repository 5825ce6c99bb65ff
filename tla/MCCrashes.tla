------------------------------ MODULE MCCrashes ------------------------------
(***************************************************************************)
(* Mtproto and Updater for TLC, each with the fairness that its crashes,   *)
(* of child processes and of the program itself, are dealt with.  The two  *)
(* share no state, so a behaviour exercises one of them.                   *)
(***************************************************************************)
EXTENDS MCMtproto, Updater

VARIABLE component

crashVars == <<vars, uvars, component>>

CrashInit == Init /\ UpdaterInit /\ component \in {"mtproto", "updater"}

CrashNext ==
  \/ component = "mtproto" /\ Next /\ UNCHANGED <<uvars, component>>
  \/ component = "updater" /\ UpdaterNext /\ UNCHANGED <<vars, component>>

CrashSpec == CrashInit /\ [][CrashNext]_crashVars /\ Fairness /\ UpdaterFairness
==============================================================================
