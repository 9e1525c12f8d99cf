------------------------------- MODULE KeyMap -------------------------------
(***************************************************************************)
(* What an index promises the storage engine: find gives the data pointer  *)
(* the key was added with until the key is removed.                        *)
(***************************************************************************)
EXTENDS Integers

CONSTANT Keys

VARIABLE map      \* map[k]: what find answers for key k; 0 is no data

Init == map = [k \in Keys |-> 0]

Others(k) == \A j \in Keys \ {k} : map'[j] = map[j]

Add(k)    == map[k] = 0 /\ map'[k] = k /\ Others(k)
Remove(k) == map'[k] = 0 /\ Others(k)

Next ==
  /\ map' \in [Keys -> Keys \cup {0}]
  /\ \E k \in Keys : Add(k) \/ Remove(k)

Spec == Init /\ [][Next]_map

=============================================================================
