--------------------------- MODULE DBChannelProofs ----------------------------
(***************************************************************************)
(* Proofs about DBChannel, for any finite set of calling threads and any   *)
(* buffer capacity: nothing is lost or duplicated, not everybody sleeps,   *)
(* and the channel implements RemoteCall.                                  *)
(***************************************************************************)
EXTENDS DBChannel, SequenceTheorems, FiniteSetTheorems, TLAPS

\* dequeue is Tail; the facts below are stated about Tail.
USE DEF Dequeue

\* What enqueue does to a buffer without repetitions that does not hold the
\* segment yet.
LEMMA EnqueueFacts ==
  ASSUME NEW S, NEW s \in Seq(S), NEW e \in S
  PROVE  /\ Append(s, e) \in Seq(S)
         /\ Len(Append(s, e)) = Len(s) + 1
         /\ Range(Append(s, e)) = Range(s) \cup {e}
         /\ IsInjective(s) /\ e \notin Range(s) => IsInjective(Append(s, e))
<1>1. /\ Append(s, e) \in Seq(S)
      /\ Len(Append(s, e)) = Len(s) + 1
      /\ \A i \in 1 .. Len(s) : Append(s, e)[i] = s[i]
      /\ Append(s, e)[Len(s) + 1] = e
  BY AppendProperties
<1>2. DOMAIN s = 1 .. Len(s) /\ Len(s) \in Nat /\ DOMAIN Append(s, e) = 1 .. Len(s) + 1
  BY <1>1
<1>3. Range(Append(s, e)) = Range(s) \cup {e}
  BY <1>1, <1>2 DEF Range
<1>4. ASSUME IsInjective(s), e \notin Range(s) PROVE IsInjective(Append(s, e))
  BY <1>1, <1>2, <1>4 DEF IsInjective, Range
<1> QED BY <1>1, <1>3, <1>4

\* What dequeue does to a non-empty buffer without repetitions.
LEMMA DequeueFacts ==
  ASSUME NEW S, NEW s \in Seq(S), s # << >>
  PROVE  /\ Head(s) \in S /\ Head(s) \in Range(s)
         /\ Tail(s) \in Seq(S)
         /\ Len(Tail(s)) = Len(s) - 1 /\ Len(s) \in Nat
         /\ IsInjective(s) => IsInjective(Tail(s)) /\ Range(Tail(s)) = Range(s) \ {Head(s)}
<1>1. /\ Head(s) \in S
      /\ Tail(s) \in Seq(S)
      /\ Len(Tail(s)) = Len(s) - 1
      /\ \A i \in 1 .. Len(Tail(s)) : Tail(s)[i] = s[i + 1]
  BY HeadTailProperties
<1>2. DOMAIN s = 1 .. Len(s) /\ Len(s) \in Nat /\ Len(s) >= 1 /\ Head(s) = s[1]
  OBVIOUS
<1>3. DOMAIN Tail(s) = 1 .. Len(s) - 1
  BY <1>1, <1>2
<1>4. Head(s) \in Range(s)
  BY <1>2 DEF Range
<1>5. ASSUME IsInjective(s) PROVE IsInjective(Tail(s))
  BY <1>1, <1>2, <1>3, <1>5 DEF IsInjective
<1>6. ASSUME IsInjective(s) PROVE Range(Tail(s)) = Range(s) \ {Head(s)}
  <2>1. ASSUME NEW x \in Range(Tail(s)) PROVE x \in Range(s) \ {Head(s)}
    <3>1. PICK i \in 1 .. Len(s) - 1 : x = Tail(s)[i]
      BY <1>3, <2>1 DEF Range
    <3>2. x = s[i + 1] /\ i + 1 \in 1 .. Len(s) /\ i + 1 # 1
      BY <1>1, <1>2, <3>1
    <3> QED BY <1>2, <1>6, <3>2 DEF Range, IsInjective
  <2>2. ASSUME NEW x \in Range(s) \ {Head(s)} PROVE x \in Range(Tail(s))
    <3>1. PICK i \in 1 .. Len(s) : x = s[i]
      BY <1>2, <2>2 DEF Range
    <3>2. i # 1
      BY <1>2, <2>2, <3>1
    <3>3. i - 1 \in 1 .. Len(s) - 1 /\ Tail(s)[i - 1] = s[(i - 1) + 1] /\ (i - 1) + 1 = i
      BY <1>1, <1>2, <3>1, <3>2
    <3> QED BY <1>3, <3>1, <3>3 DEF Range
  <2> QED BY <2>1, <2>2
<1> QED BY <1>1, <1>2, <1>4, <1>5, <1>6

----------------------------------------------------------------------------
LEMMA InitIInv == Init => IInv
<1> SUFFICES ASSUME Init PROVE IInv
  OBVIOUS
<1>1. Range(<< >>) = {} /\ IsInjective(<< >>)
  BY DEF Range, IsInjective
<1>2. TypeOK
  BY CapacityAssumption, NoClientAssumption DEF Init, TypeOK
<1>3. NoCopies
  BY <1>1 DEF Init, NoCopies
<1>4. ASSUME NEW c \in Clients PROVE (Waiting(c) <=> Somewhere(c)) /\ OnlyOnce(c)
  BY <1>1, NoClientAssumption DEF Init, Waiting, Somewhere, OnlyOnce, InHand
<1> QED BY <1>2, <1>3, <1>4 DEF IInv, OneInFlight

LEMMA CallStep == ASSUME IInv, NEW c \in Clients, Call(c) PROVE IInv'
<1> USE DEF IInv, Call
<1>1. TypeOK'
  BY DEF TypeOK
<1>2. NoCopies'
  BY DEF NoCopies, OneInFlight
<1>3. ASSUME NEW d \in Clients PROVE ((Waiting(d) <=> Somewhere(d)) /\ OnlyOnce(d))'
  BY DEF OneInFlight, TypeOK, Waiting, Somewhere, OnlyOnce, InHand
<1> QED BY <1>1, <1>2, <1>3 DEF OneInFlight

LEMMA SendQueryStep == ASSUME IInv, NEW c \in Clients, SendQuery(c) PROVE IInv'
<1> USE DEF IInv, SendQuery
<1>0. ~Waiting(c) /\ ~Somewhere(c)
  BY DEF OneInFlight, Waiting
<1>1. /\ requests' \in Seq(Clients)
      /\ Len(requests') <= Capacity
      /\ Range(requests') = Range(requests) \cup {c}
      /\ IsInjective(requests')
  BY <1>0, EnqueueFacts, CapacityAssumption
     DEF TypeOK, HasSpace, Enqueue, OneInFlight, NoCopies, Somewhere
<1>2. TypeOK'
  BY <1>1 DEF TypeOK
<1>3. NoCopies'
  BY <1>1 DEF NoCopies, OneInFlight
<1>4. ASSUME NEW d \in Clients PROVE ((Waiting(d) <=> Somewhere(d)) /\ OnlyOnce(d))'
  BY <1>0, <1>1 DEF OneInFlight, TypeOK, Waiting, Somewhere, OnlyOnce, InHand
<1> QED BY <1>2, <1>3, <1>4 DEF OneInFlight

LEMMA PopOwnStep == ASSUME IInv, NEW c \in Clients, PopOwn(c) PROVE IInv'
<1> USE DEF IInv, PopOwn
<1>1. /\ responses' \in Seq(Clients)
      /\ Len(responses') <= Capacity
      /\ c \in Range(responses)
      /\ Range(responses') = Range(responses) \ {c}
      /\ IsInjective(responses')
  BY DequeueFacts, CapacityAssumption DEF TypeOK, OneInFlight, NoCopies, IsMine
<1>2. TypeOK'
  BY <1>1 DEF TypeOK
<1>3. NoCopies'
  BY <1>1 DEF NoCopies, OneInFlight
<1>4. ASSUME NEW d \in Clients PROVE ((Waiting(d) <=> Somewhere(d)) /\ OnlyOnce(d))'
  BY <1>1 DEF OneInFlight, TypeOK, Waiting, Somewhere, OnlyOnce, InHand
<1> QED BY <1>2, <1>3, <1>4 DEF OneInFlight

LEMMA PopOtherStep == ASSUME IInv, NEW c \in Clients, PopOther(c) PROVE IInv'
<1> USE DEF IInv, PopOther
<1> DEFINE h == Head(responses)
<1>1. /\ responses' \in Seq(Clients)
      /\ Len(responses') <= Capacity
      /\ h \in Clients /\ h \in Range(responses)
      /\ Range(responses') = Range(responses) \ {h}
      /\ IsInjective(responses')
  BY DequeueFacts, CapacityAssumption DEF TypeOK, OneInFlight, NoCopies
<1>2. hold' = [hold EXCEPT ![c] = h] /\ hold[c] = NoClient /\ h # NoClient
  BY <1>1, NoClientAssumption DEF TypeOK
<1> HIDE DEF h
<1>3. TypeOK'
  BY <1>1, <1>2 DEF TypeOK
<1>4. ~InHand(h) /\ \A d \in Clients : hold[d] # h
  BY <1>1 DEF OneInFlight, OnlyOnce, InHand
<1>5. NoCopies'
  BY <1>1, <1>2, <1>4 DEF NoCopies, OneInFlight, TypeOK
<1>6. \A d \in Clients : InHand(d)' <=> InHand(d) \/ d = h
  BY <1>1, <1>2, NoClientAssumption DEF InHand, TypeOK
<1>7. ASSUME NEW d \in Clients PROVE ((Waiting(d) <=> Somewhere(d)) /\ OnlyOnce(d))'
  BY <1>1, <1>6 DEF OneInFlight, TypeOK, Waiting, Somewhere, OnlyOnce
<1> QED BY <1>3, <1>5, <1>7 DEF OneInFlight

LEMMA PutBackStep == ASSUME IInv, NEW c \in Clients, PutBack(c) PROVE IInv'
<1> USE DEF IInv, PutBack
<1> DEFINE h == hold[c]
<1>1. h \in Clients /\ h # NoClient /\ InHand(h)
  BY DEF TypeOK, InHand
<1>2. h \notin Range(responses)
  BY <1>1 DEF OneInFlight, OnlyOnce
<1>3. /\ responses' \in Seq(Clients)
      /\ Len(responses') <= Capacity
      /\ Range(responses') = Range(responses) \cup {h}
      /\ IsInjective(responses')
  BY <1>1, <1>2, EnqueueFacts, CapacityAssumption
     DEF TypeOK, HasSpace, Enqueue, OneInFlight, NoCopies
<1>4. hold' = [hold EXCEPT ![c] = NoClient]
  OBVIOUS
<1>5. TypeOK'
  BY <1>3, <1>4 DEF TypeOK
<1>6. NoCopies'
  BY <1>3, <1>4 DEF NoCopies, OneInFlight, TypeOK
<1>7. \A d \in Clients : InHand(d)' <=> InHand(d) /\ d # h
  BY <1>1, <1>4, NoClientAssumption DEF InHand, TypeOK, OneInFlight, NoCopies
<1> HIDE DEF h
<1>8. ASSUME NEW d \in Clients PROVE ((Waiting(d) <=> Somewhere(d)) /\ OnlyOnce(d))'
  BY <1>1, <1>3, <1>7 DEF OneInFlight, TypeOK, Waiting, Somewhere, OnlyOnce
<1> QED BY <1>5, <1>6, <1>8 DEF OneInFlight

LEMMA DbPopStep == ASSUME IInv, DbPop PROVE IInv'
<1> USE DEF IInv, DbPop
<1>1. /\ requests' \in Seq(Clients)
      /\ Len(requests') <= Capacity
      /\ db' \in Clients /\ db' \in Range(requests)
      /\ Range(requests') = Range(requests) \ {db'}
      /\ IsInjective(requests')
  BY DequeueFacts, CapacityAssumption DEF TypeOK, OneInFlight, NoCopies
<1>2. TypeOK'
  BY <1>1 DEF TypeOK
<1>3. NoCopies'
  BY <1>1 DEF NoCopies, OneInFlight
<1>4. ASSUME NEW d \in Clients PROVE ((Waiting(d) <=> Somewhere(d)) /\ OnlyOnce(d))'
  BY <1>1, NoClientAssumption DEF OneInFlight, TypeOK, Waiting, Somewhere, OnlyOnce, InHand
<1> QED BY <1>2, <1>3, <1>4 DEF OneInFlight

LEMMA DbPushStep == ASSUME IInv, DbPush PROVE IInv'
<1> USE DEF IInv, DbPush
<1>1. db \in Clients /\ db \notin Range(responses)
  BY DEF TypeOK, OneInFlight, OnlyOnce
<1>2. /\ responses' \in Seq(Clients)
      /\ Len(responses') <= Capacity
      /\ Range(responses') = Range(responses) \cup {db}
      /\ IsInjective(responses')
  BY <1>1, EnqueueFacts, CapacityAssumption
     DEF TypeOK, HasSpace, Enqueue, OneInFlight, NoCopies
<1>3. TypeOK'
  BY <1>2 DEF TypeOK
<1>4. NoCopies'
  BY <1>2 DEF NoCopies, OneInFlight
<1>5. ASSUME NEW d \in Clients PROVE ((Waiting(d) <=> Somewhere(d)) /\ OnlyOnce(d))'
  BY <1>1, <1>2, NoClientAssumption DEF OneInFlight, TypeOK, Waiting, Somewhere, OnlyOnce, InHand
<1> QED BY <1>3, <1>4, <1>5 DEF OneInFlight

LEMMA NextIInv == IInv /\ [Next]_vars => IInv'
<1> SUFFICES ASSUME IInv, [Next]_vars PROVE IInv'
  OBVIOUS
<1>1. CASE UNCHANGED vars
  BY <1>1 DEF vars, IInv, TypeOK, OneInFlight, NoCopies, Waiting, Somewhere, OnlyOnce, InHand
<1>2. ASSUME NEW c \in Clients, Call(c) \/ Client(c) PROVE IInv'
  BY <1>2, CallStep, SendQueryStep, PopOwnStep, PopOtherStep, PutBackStep DEF Client
<1>3. CASE DbPop
  BY <1>3, DbPopStep
<1>4. CASE DbPush
  BY <1>4, DbPushStep
<1> QED BY <1>1, <1>2, <1>3, <1>4 DEF Next

\* The database channel keeps IInv: its types, and exactly one query or
\* response under way for every thread that waits in a call.
THEOREM ChannelInvariant == Spec => []IInv
<1>1. Init => IInv
  BY InitIInv
<1>2. IInv /\ [Next]_vars => IInv'
  BY NextIInv
<1> QED BY <1>1, <1>2, PTL DEF Spec

\* The two buffers hold only what callers sent and the database answered, and never more
\* than their capacity.
THEOREM ChannelTypeOK == Spec => []TypeOK
<1>1. IInv => TypeOK
  BY DEF IInv
<1> QED BY <1>1, ChannelInvariant, PTL

\* enqueue, dequeue and putting foreign responses back lose and duplicate
\* nothing.
THEOREM ChannelOneInFlight == Spec => []OneInFlight
<1>1. IInv => OneInFlight
  BY DEF IInv
<1> QED BY <1>1, ChannelInvariant, PTL

----------------------------------------------------------------------------
\* If everybody sleeps, nobody waits for a response with empty hands: all that
\* is under way would have to be in somebody's hands or in a full buffer.
LEMMA NobodyWaits ==
  ASSUME IInv, ~CanMove, NEW c \in Clients PROVE pc[c] # "wait"
<1> SUFFICES ASSUME pc[c] = "wait" PROVE FALSE
  OBVIOUS
<1>1. responses = << >>
  BY DEF CanMove
<1>2. HasSpace(responses) /\ Range(responses) = {}
  BY <1>1, CapacityAssumption DEF HasSpace, Range
<1>3. db = NoClient /\ requests = << >> /\ \A d \in Clients : pc[d] # "putback"
  BY <1>2 DEF CanMove
<1>4. Range(requests) = {} /\ \A d \in Clients : hold[d] = NoClient
  BY <1>3 DEF Range, IInv, TypeOK
<1>5. ~Somewhere(c)
  BY <1>2, <1>3, <1>4, NoClientAssumption DEF Somewhere, InHand
<1> QED BY <1>5 DEF IInv, OneInFlight, Waiting

\* If everybody sleeps, nobody is putting a response back: the callers that do
\* would hold as many responses as there are callers, and the full buffer holds
\* at least one more.
LEMMA NobodyPutsBack ==
  ASSUME IInv, ~CanMove, NEW c \in Clients PROVE pc[c] # "putback"
<1> SUFFICES ASSUME pc[c] = "putback" PROVE FALSE
  OBVIOUS
<1> DEFINE P == {d \in Clients : pc[d] = "putback"}
           r == Head(responses)
           f == [d \in P |-> hold[d]]
<1>1. responses # << >>
  <2>1. ~HasSpace(responses)
    BY DEF CanMove
  <2> QED BY <2>1, CapacityAssumption DEF HasSpace
<1>2. r \in Clients /\ r \in Range(responses)
  BY <1>1, DequeueFacts DEF IInv, TypeOK
<1>3. \A d \in Clients : Somewhere(d) => d \in P
  BY NobodyWaits DEF IInv, OneInFlight, Waiting
<1>4. r \in P
  BY <1>2, <1>3 DEF Somewhere
<1>5. f \in [P -> P \ {r}]
  <2> SUFFICES ASSUME NEW d \in P PROVE hold[d] \in P \ {r}
    OBVIOUS
  <2>1. hold[d] \in Clients /\ InHand(hold[d])
    BY DEF IInv, TypeOK, InHand
  <2>2. hold[d] \in P
    BY <1>3, <2>1 DEF Somewhere
  <2>3. hold[d] # r
    BY <1>2, <2>1 DEF IInv, OneInFlight, OnlyOnce
  <2> QED BY <2>2, <2>3
<1>6. IsFiniteSet(P) /\ IsFiniteSet(P \ {r})
  BY ClientsAssumption, FS_Subset
<1>7. Cardinality(P \ {r}) < Cardinality(P)
  <2> HIDE DEF P, r
  <2>1. Cardinality(P) \in Nat
    BY <1>6, FS_CardinalityType
  <2>2. Cardinality(P \ {r}) = Cardinality(P) - 1
    BY <1>4, <1>6, FS_RemoveElement
  <2> QED BY <2>1, <2>2
<1>8. PICK x, y \in P : x # y /\ f[x] = f[y]
  <2> HIDE DEF P, f
  <2> QED BY <1>5, <1>6, <1>7, FS_PigeonHole
<1>9. hold[x] = hold[y] /\ hold[x] # NoClient
  BY <1>8 DEF IInv, TypeOK
<1> QED BY <1>8, <1>9 DEF IInv, OneInFlight, NoCopies

\* While a call is under way, the database thread or some caller can take a
\* step, whatever the number of callers and the capacity of the buffers.
THEOREM ChannelNeverAllAsleep == Spec => []NeverAllAsleep
<1>1. IInv => NeverAllAsleep
  <2> SUFFICES ASSUME IInv, NEW c \in Clients, pc[c] # "idle", ~CanMove PROVE FALSE
    BY DEF NeverAllAsleep
  <2>1. pc[c] = "send"
    BY NobodyWaits, NobodyPutsBack DEF IInv, TypeOK
  <2>2. requests # << >>
    BY <2>1, CapacityAssumption DEF CanMove, HasSpace
  <2>3. db # NoClient
    BY <2>2 DEF CanMove
  <2>4. db \in Clients /\ Somewhere(db)
    BY <2>3 DEF IInv, TypeOK, Somewhere
  <2>5. Waiting(db)
    BY <2>4 DEF IInv, OneInFlight
  <2> QED BY <2>4, <2>5, NobodyWaits, NobodyPutsBack DEF Waiting
<1> QED BY <1>1, ChannelInvariant, PTL

----------------------------------------------------------------------------
\* A step of the channel changes the state of one call by one step of
\* RemoteCall, or of none.
LEMMA RemoteStep == IInv /\ IInv' /\ [Next]_vars => [Remote!Next]_([c \in Clients |-> CallState(c)])
<1> SUFFICES ASSUME IInv, IInv', [Next]_vars
             PROVE  [Remote!Next]_([c \in Clients |-> CallState(c)])
  OBVIOUS
<1> DEFINE cs == [c \in Clients |-> CallState(c)]
<1>A. ASSUME \A c \in Clients : CallState(c)' = CallState(c) PROVE cs' = cs
  BY <1>A
<1>B. ASSUME NEW c \in Clients, NEW v, CallState(c)' = v,
             \A d \in Clients : d # c => CallState(d)' = CallState(d)
      PROVE  cs' = [cs EXCEPT ![c] = v]
  BY <1>B
<1>1. CASE UNCHANGED vars
  BY <1>1, <1>A DEF vars, CallState
<1>2. ASSUME NEW c \in Clients, Call(c) PROVE Remote!Next
  <2>1. CallState(c) = "idle" /\ CallState(c)' = "invoked"
    BY <1>2 DEF Call, CallState, IInv, TypeOK
  <2>2. \A d \in Clients : d # c => CallState(d)' = CallState(d)
    BY <1>2 DEF Call, CallState, IInv, TypeOK
  <2> QED BY <1>B, <2>1, <2>2 DEF Remote!Next, Remote!Invoke
<1>3. ASSUME NEW c \in Clients, SendQuery(c) PROVE cs' = cs
  <2>1. Range(requests') = Range(requests) \cup {c}
    BY <1>3, EnqueueFacts DEF SendQuery, Enqueue, IInv, TypeOK
  <2> QED BY <1>3, <1>A, <2>1 DEF SendQuery, CallState, IInv, TypeOK
<1>4. ASSUME NEW c \in Clients, PopOwn(c) PROVE Remote!Next
  <2>1. c \in Range(responses)
    BY <1>4, DequeueFacts DEF PopOwn, IsMine, IInv, TypeOK
  <2>2. CallState(c) = "executed" /\ CallState(c)' = "idle"
    BY <1>4, <2>1 DEF PopOwn, CallState, IInv, TypeOK, OneInFlight, OnlyOnce
  <2>3. \A d \in Clients : d # c => CallState(d)' = CallState(d)
    BY <1>4 DEF PopOwn, CallState, IInv, TypeOK
  <2> QED BY <1>B, <2>2, <2>3 DEF Remote!Next, Remote!Return
<1>5. ASSUME NEW c \in Clients, PopOther(c) PROVE cs' = cs
  BY <1>5, <1>A DEF PopOther, CallState, IInv, TypeOK
<1>6. ASSUME NEW c \in Clients, PutBack(c) PROVE cs' = cs
  BY <1>6, <1>A DEF PutBack, CallState, IInv, TypeOK
<1>7. ASSUME DbPop PROVE Remote!Next
  <2>1. /\ Head(requests) \in Clients /\ Head(requests) \in Range(requests)
        /\ Range(requests') = Range(requests) \ {Head(requests)}
    BY <1>7, DequeueFacts DEF DbPop, IInv, TypeOK, OneInFlight, NoCopies
  <2>2. PICK c \in Clients : c = Head(requests)
    BY <2>1
  <2>3. Waiting(c)
    BY <2>1, <2>2 DEF IInv, OneInFlight, Somewhere
  <2>4. CallState(c) = "invoked" /\ CallState(c)' = "executed"
    BY <1>7, <2>1, <2>2, <2>3 DEF DbPop, CallState, Waiting
  <2>5. \A d \in Clients : d # c => CallState(d)' = CallState(d)
    BY <1>7, <2>1, <2>2 DEF DbPop, CallState
  <2> QED BY <1>B, <2>4, <2>5 DEF Remote!Next, Remote!Execute
<1>8. ASSUME DbPush PROVE cs' = cs
  BY <1>8, <1>A DEF DbPush, CallState
<1> QED BY <1>1, <1>2, <1>3, <1>4, <1>5, <1>6, <1>7, <1>8 DEF Next, Client

\* The channel implements RemoteCall: every call is executed exactly once, and
\* it returns with the response to its own query.
THEOREM ChannelRefinesRemoteCall == Spec => RemoteSpec
<1>1. Init => Remote!Init
  BY DEF Init, Remote!Init, CallState
<1> QED BY <1>1, RemoteStep, ChannelInvariant, PTL DEF Spec, RemoteSpec, Remote!Spec

=============================================================================
