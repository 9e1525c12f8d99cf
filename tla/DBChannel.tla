------------------------------ MODULE DBChannel -------------------------------
(***************************************************************************)
(* How threads talk to a MiyaDB instance: two StreamBuffers (bounded FIFO  *)
(* queues under a mutex with condition variables), the database thread     *)
(* started by DatabaseManager::startWithLightMode, and any number of       *)
(* threads inside a MiyaDBSBClient or LightUTXOSet call.  A caller that    *)
(* pops somebody else's response puts it back at the tail and pops again.  *)
(*                                                                         *)
(* A query and its response are named by the calling thread: every thread  *)
(* has one call outstanding, and OneInFlight shows that nothing of an      *)
(* earlier call is left behind.  Random 32-bit QueryIDs are taken to be    *)
(* distinct.  A wait on a condition variable is the guard of its action:   *)
(* enqueue and dequeue end with notify_all on both variables, so no        *)
(* sleeper misses a wake-up.                                               *)
(***************************************************************************)
EXTENDS Naturals, Sequences, FiniteSets, Functions

CONSTANTS
  Clients,    \* threads that call the database
  Capacity,   \* DEFAULT_STREAM_BUFFER_CAPACITY
  NoClient    \* no query in the database thread's hands

ASSUME ClientsAssumption == IsFiniteSet(Clients)
ASSUME CapacityAssumption == Capacity \in Nat \ {0}
ASSUME NoClientAssumption == NoClient \notin Clients

VARIABLES
  requests,   \* StreamBuffer from the callers to the database thread
  responses,  \* StreamBuffer from the database thread to the callers
  db,         \* the query the database thread has popped and not answered yet
  pc,         \* what each caller is doing
  hold        \* the foreign response a caller has popped and not put back yet

vars == <<requests, responses, db, pc, hold>>

Init ==
  /\ requests = << >>
  /\ responses = << >>
  /\ db = NoClient
  /\ pc = [c \in Clients |-> "idle"]
  /\ hold = [c \in Clients |-> NoClient]

----------------------------------------------------------------------------
(* StreamBuffer::enqueue / dequeue without a timeout, as every caller uses *)
(* them.                                                                   *)

HasSpaceOffByOne(queue) == Len(queue) <= Capacity       \* mutant of HasSpace

HasSpace(queue) == Len(queue) < Capacity

Enqueue(queue, seg) == Append(queue, seg)

Dequeue(queue) == Tail(queue)

----------------------------------------------------------------------------
(* Callers                                                                 *)

\* A thread enters get, add, remove, safeMode, abort or commit.
Call(c) ==
  /\ pc[c] = "idle"
  /\ pc' = [pc EXCEPT ![c] = "send"]
  /\ UNCHANGED <<requests, responses, db, hold>>

\* _pushSBContainer->pushOne( querySB )
SendQuery(c) ==
  /\ pc[c] = "send"
  /\ HasSpace(requests)
  /\ requests' = Enqueue(requests, c)
  /\ pc' = [pc EXCEPT ![c] = "wait"]
  /\ UNCHANGED <<responses, db, hold>>

IsMineAlways(c, seg) == TRUE                            \* mutant of IsMine

\* responseJson["QueryID"] == queryJson["QueryID"]
IsMine(c, seg) == seg = c

\* _popSBContainer->popOne(), and the QueryID is the caller's: return.
PopOwn(c) ==
  /\ pc[c] = "wait"
  /\ responses # << >>
  /\ IsMine(c, Head(responses))
  /\ responses' = Dequeue(responses)
  /\ pc' = [pc EXCEPT ![c] = "idle"]
  /\ UNCHANGED <<requests, db, hold>>

\* popOne() gave another caller's response.
PopOther(c) ==
  /\ pc[c] = "wait"
  /\ responses # << >>
  /\ ~IsMine(c, Head(responses))
  /\ responses' = Dequeue(responses)
  /\ hold' = [hold EXCEPT ![c] = Head(responses)]
  /\ pc' = [pc EXCEPT ![c] = "putback"]
  /\ UNCHANGED <<requests, db>>

PutBackDropped(c) ==                                    \* mutant of PutBack
  /\ pc[c] = "putback"
  /\ hold' = [hold EXCEPT ![c] = NoClient]
  /\ pc' = [pc EXCEPT ![c] = "wait"]
  /\ UNCHANGED <<requests, responses, db>>

\* _popSBContainer->pushOne( responseSB ), and pop again.
PutBack(c) ==
  /\ pc[c] = "putback"
  /\ HasSpace(responses)
  /\ responses' = Enqueue(responses, hold[c])
  /\ hold' = [hold EXCEPT ![c] = NoClient]
  /\ pc' = [pc EXCEPT ![c] = "wait"]
  /\ UNCHANGED <<requests, db>>

----------------------------------------------------------------------------
(* The database thread                                                     *)

DbPopNewest ==                                          \* mutant of DbPop
  /\ db = NoClient
  /\ requests # << >>
  /\ db' = requests[Len(requests)]
  /\ requests' = SubSeq(requests, 1, Len(requests) - 1)
  /\ UNCHANGED <<responses, pc, hold>>

\* incomingSBC->popOne(); the query is parsed and the engine executes it.
DbPop ==
  /\ db = NoClient
  /\ requests # << >>
  /\ db' = Head(requests)
  /\ requests' = Dequeue(requests)
  /\ UNCHANGED <<responses, pc, hold>>

DbPushNoWait ==                                         \* mutant of DbPush
  /\ db # NoClient
  /\ responses' = IF HasSpace(responses) THEN Enqueue(responses, db) ELSE responses
  /\ db' = NoClient
  /\ UNCHANGED <<requests, pc, hold>>

\* outgoingSBC->pushOne(): one response, a failure too, for each popped query.
DbPush ==
  /\ db # NoClient
  /\ HasSpace(responses)
  /\ responses' = Enqueue(responses, db)
  /\ db' = NoClient
  /\ UNCHANGED <<requests, pc, hold>>

----------------------------------------------------------------------------
Client(c) == SendQuery(c) \/ PopOwn(c) \/ PopOther(c) \/ PutBack(c)

Next == (\E c \in Clients : Call(c) \/ Client(c)) \/ DbPop \/ DbPush

Spec == Init /\ [][Next]_vars

\* Threads keep running: the database thread and every thread inside a call are
\* scheduled again and again.  Nothing forces a thread to make a call, and the
\* mutex gives no turn to a thread whose wait is only now and then over.
Fairness ==
  /\ WF_vars(DbPop)
  /\ WF_vars(DbPush)
  /\ \A c \in Clients : WF_vars(Client(c))

FairSpec == Spec /\ Fairness

----------------------------------------------------------------------------
(* Properties                                                              *)

\* Both buffers hold at most Capacity segments, and a caller holds a foreign
\* segment exactly while it is putting it back.
TypeOK ==
  /\ requests \in Seq(Clients) /\ Len(requests) <= Capacity
  /\ responses \in Seq(Clients) /\ Len(responses) <= Capacity
  /\ db \in Clients \cup {NoClient}
  /\ pc \in [Clients -> {"idle", "send", "wait", "putback"}]
  /\ hold \in [Clients -> Clients \cup {NoClient}]
  /\ \A c \in Clients : hold[c] # NoClient <=> pc[c] = "putback"

Waiting(c) == pc[c] \in {"wait", "putback"}
InHand(c)  == \E d \in Clients : hold[d] = c

\* Where a segment of client c can be.
Somewhere(c) == c \in Range(requests) \/ c = db \/ c \in Range(responses) \/ InHand(c)

\* No segment of c is in two places.
OnlyOnce(c) ==
  /\ c \in Range(requests) => c # db /\ c \notin Range(responses) /\ ~InHand(c)
  /\ c = db => c \notin Range(responses) /\ ~InHand(c)
  /\ c \in Range(responses) => ~InHand(c)

NoCopies ==
  /\ IsInjective(requests)
  /\ IsInjective(responses)
  /\ \A c, d \in Clients : hold[c] = hold[d] => c = d \/ hold[c] = NoClient

\* Putting foreign responses back loses and duplicates nothing: a thread that
\* waits has exactly one query or response on its way, every other thread has
\* none.
OneInFlight ==
  /\ NoCopies
  /\ \A c \in Clients : (Waiting(c) <=> Somewhere(c)) /\ OnlyOnce(c)

IInv == TypeOK /\ OneInFlight

\* Some thread inside the database or inside a call can take its next step.
CanMove ==
  \/ db = NoClient /\ requests # << >>
  \/ db # NoClient /\ HasSpace(responses)
  \/ \E c \in Clients :
       \/ pc[c] = "send" /\ HasSpace(requests)
       \/ pc[c] = "wait" /\ responses # << >>
       \/ pc[c] = "putback" /\ HasSpace(responses)

\* The blocking queues never stop everybody: while a call is under way, not all
\* of the database thread and the callers sleep in enqueue or dequeue, however
\* many callers share the buffers.
NeverAllAsleep == (\E c \in Clients : pc[c] # "idle") => CanMove

\* The channel implements RemoteCall: the engine executes a call when the
\* database thread pops its query.
CallState(c) ==
  IF pc[c] = "idle" THEN "idle"
  ELSE IF pc[c] = "send" \/ c \in Range(requests) THEN "invoked" ELSE "executed"
Remote == INSTANCE RemoteCall WITH call <- [c \in Clients |-> CallState(c)]
RemoteSpec == Remote!Spec

\* Callers inside a call.
Busy == {c \in Clients : pc[c] # "idle"}

\* Every call is executed, and its response reaches the response buffer or a
\* caller's hands, if from some time on no more callers are inside a call than a
\* buffer has space for.  The call may have been made before that, while the
\* buffers were full and responses went round.
EveryCallExecuted ==
  <>[](Cardinality(Busy) <= Capacity) =>
    \A c \in Clients : pc[c] = "send" ~> CallState(c) = "executed"

=============================================================================
