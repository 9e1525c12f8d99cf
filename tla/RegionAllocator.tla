--------------------------- MODULE RegionAllocator ---------------------------
(***************************************************************************)
(* What a MiyaDB file promises the code that allocates from it: regions    *)
(* are cut one behind the other from a single break that starts at address *)
(* 0, and clearing the file starts again at 0.  This is the specification  *)
(* that OverlayMemoryAllocator implements for the calls the database makes *)
(* (OverlayMemoryManager::allocate and ::clear).                           *)
(***************************************************************************)
EXTENDS Naturals

CONSTANT Sizes     \* the sizes callers ask for

VARIABLES
  brk,     \* first address behind every region handed out since the last clear
  live     \* regions <<start, size>> handed out since the last clear

vars == <<brk, live>>

Init == brk = 0 /\ live = {}

Allocate(size) ==
  /\ live' = live \cup {<<brk, size>>}
  /\ brk' = brk + size

Clear == brk' = 0 /\ live' = {}

Next == (\E size \in Sizes : Allocate(size)) \/ Clear

Spec == Init /\ [][Next]_vars

=============================================================================
