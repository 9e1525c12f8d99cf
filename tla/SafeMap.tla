------------------------------- MODULE SafeMap -------------------------------
(***************************************************************************)
(* What an index with a safe-mode session promises: a map, and while a     *)
(* session is open a working map that starts as a copy of it.  Work in the *)
(* session changes only the working map; a commit makes the working map    *)
(* the map, in one step, and an abort drops it.  A data pointer is the key *)
(* it was added with, or InSafeFile of it while its record lies in the     *)
(* session's value file; 0 is no pointer.                                  *)
(***************************************************************************)
EXTENDS Integers

CONSTANTS Keys, NoSession
VARIABLES map, work

InSafeFile(k) == -(k + 1)

Init == map = [k \in Keys |-> 0] /\ work = NoSession

\* A change of the map closes the session.
Add(k) ==
  map[k] = 0 /\ map' = [map EXCEPT ![k] = k] /\ work' = NoSession

Open  == work' = map /\ UNCHANGED map
Abort == work' = NoSession /\ UNCHANGED map

WorkAdd(k) ==
  /\ work # NoSession /\ work[k] = 0
  /\ work' = [work EXCEPT ![k] = InSafeFile(k)] /\ UNCHANGED map

WorkRemove(k) ==
  /\ work # NoSession
  /\ work' = [work EXCEPT ![k] = 0] /\ UNCHANGED map

\* Every record of the session has moved to the normal value file.
Commit ==
  /\ work # NoSession
  /\ map' = [k \in Keys |-> IF work[k] = InSafeFile(k) THEN k ELSE work[k]]
  /\ work' = NoSession

Next == Open \/ Abort \/ Commit \/ \E k \in Keys : Add(k) \/ WorkAdd(k) \/ WorkRemove(k)

Spec == Init /\ [][Next]_<<map, work>>

=============================================================================
