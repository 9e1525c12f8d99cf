------------------------------ MODULE RemoteCall ------------------------------
(***************************************************************************)
(* What MiyaDB promises to the threads that share one client: a call is    *)
(* executed by the storage engine exactly once, and it returns only after  *)
(* it was executed.                                                        *)
(***************************************************************************)
CONSTANT Clients

VARIABLE call     \* call[c]: where client c's call stands

Init == call = [c \in Clients |-> "idle"]

Invoke(c)  == call[c] = "idle"     /\ call' = [call EXCEPT ![c] = "invoked"]
Execute(c) == call[c] = "invoked"  /\ call' = [call EXCEPT ![c] = "executed"]
Return(c)  == call[c] = "executed" /\ call' = [call EXCEPT ![c] = "idle"]

Next == \E c \in Clients : Invoke(c) \/ Execute(c) \/ Return(c)
Spec == Init /\ [][Next]_call

=============================================================================
