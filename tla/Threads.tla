------------------------------- MODULE Threads -------------------------------
(***************************************************************************)
(* The threads of a process, and the value of a lock that is free, which   *)
(* is no thread.                                                           *)
(***************************************************************************)
CONSTANTS
  Thread,       \* The threads.
  NoThread      \* The holder of a lock that is free.

ASSUME NoThreadAssumption == NoThread \notin Thread
=============================================================================
