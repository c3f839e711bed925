------------------------ MODULE FramePipelineProofs ------------------------
(***************************************************************************)
(* Machine-checked proofs about the frame ring and its sink registry, for  *)
(* any sinks, any ring size, any registry size and any number of frames.   *)
(*                                                                         *)
(* The invariants build on one another: TypeOK; CallInv, where the core is *)
(* with each sink; PinInv, which counts a sink's pins where they really    *)
(* are; RegistryInv, which ties the lifecycle state to both.  Each is      *)
(* proved inductive relative to the ones before it.                        *)
(***************************************************************************)
EXTENDS FramePipeline, FiniteSetTheorems, TLAPS

-----------------------------------------------------------------------------
(* Where the core is with a sink *)

(* The callback count is the consume() calls in flight; publish() and a    *)
(* hand-off are never both in the sink, because only an idle sink is       *)
(* delivered to and a hand-off keeps it busy; a frame is pending only on a *)
(* linked, busy, asynchronous sink.                                        *)
Calls(s) ==
  /\ callbacks[s] = One(prodCall[s] # "none") + One(handCall[s] # "none")
  /\ prodCall[s] # "none" => handCall[s] = "none" /\ pending[s] = NoSlot
  /\ prodCall[s] = "enter" => published \in Slots
  /\ handCall[s] # "none" => busy[s] /\ s \in AsyncSinks
  /\ handCall[s] = "enter" => handFrame[s] \in Slots
  /\ pending[s] # NoSlot => busy[s] /\ s \in linked /\ s \in AsyncSinks
  /\ s \notin AsyncSinks /\ busy[s] => prodCall[s] = "enter"
  /\ s \in linked <=> state[s] = "ATTACHED"
  /\ state[s] \in {"UNOWNED", "ATTACHING"} => callbacks[s] = 0

CallInv == \A s \in Sinks : Calls(s)

-----------------------------------------------------------------------------
(* Types *)

(* Any set of sinks is finite, so its size is a number. *)
LEMMA SinkSetFinite ==
  ASSUME NEW T, T \subseteq Sinks
  PROVE  IsFiniteSet(T) /\ Cardinality(T) \in Nat
  BY SinksAssumption, FS_Subset, FS_CardinalityType

(* publish() leaves pin counts, drop counts and refcounts natural numbers. *)
LEMMA PublishedTypes ==
  ASSUME TypeOK
  PROVE  /\ \A i \in Slots : PublishedRefcount(i) \in [Slots -> Nat]
         /\ \A s \in Sinks : PublishedPins(s) \in Nat
         /\ \A s \in Sinks : PublishedDropped(s) \in Nat
<1>1. ASSUME NEW i \in Slots PROVE PublishedRefcount(i) \in [Slots -> Nat]
  <2>1. \A j \in Slots : Cardinality(Replaced(j)) \in Nat
    BY SinkSetFinite DEF Replaced, Coalesced, TypeOK
  <2>2. Cardinality(DeliverTo \cup Coalesced) \in Nat
    BY SinkSetFinite DEF DeliverTo, Coalesced, TypeOK
  <2> QED
    BY <2>1, <2>2 DEF PublishedRefcount, TypeOK
<1>2. \A s \in Sinks : PublishedPins(s) \in Nat
  BY DEF PublishedPins, Dec, TypeOK
<1>3. \A s \in Sinks : PublishedDropped(s) \in Nat
  BY DEF PublishedDropped, TypeOK
<1> QED
  BY <1>1, <1>2, <1>3

(* sink_try_release_locked() answers one of the five sink states.          *)
LEMMA ReleasedType ==
  ASSUME NEW st \in SinkStates, NEW p, NEW c
  PROVE  Released(st, p, c) \in SinkStates
  BY DEF Released, SinkStates

(* The part of a step that put() is keeps the types of what it changes. *)
LEMMA PutTypes ==
  ASSUME TypeOK, NEW s \in Sinks, NEW i, Put(s, i)
  PROVE  /\ refcount' \in [Slots -> Nat]
         /\ pins' \in [Sinks -> Nat]
         /\ busy' \in [Sinks -> BOOLEAN]
         /\ pending' \in [Sinks -> Slots \cup {NoSlot}]
         /\ callbacks' \in [Sinks -> Nat]
         /\ state' \in [Sinks -> SinkStates]
         /\ handCall' \in [Sinks -> CallPhases]
         /\ handFrame' \in [Sinks -> Slots \cup {NoSlot}]
<1>1. \A n \in Nat : Dec(n) \in Nat
  BY DEF Dec
<1>2. Released(state[s], Dec(pins[s]), callbacks[s]) \in SinkStates
  BY ReleasedType DEF TypeOK
<1>3. BusyAfterPut(s) \in BOOLEAN /\ CallbacksAfterPut(s) \in Nat
  BY DEF BusyAfterPut, CallbacksAfterPut, TypeOK
<1> QED
  BY <1>1, <1>2, <1>3 DEF Put, TypeOK, CallPhases

(* frame_pipeline_init() on fresh storage sets every field within its      *)
(* type.                                                                   *)
LEMMA InitTypes == Init => TypeOK
  BY SizesAssumption
  DEF Init, TypeOK, SinkStates, CallPhases, Slots, NoSlot

(* Changing what a sink's thread holds of one slot keeps the type of held. *)
LEMMA HeldType ==
  ASSUME TypeOK, NEW s \in Sinks, NEW i \in Slots, NEW n \in Nat
  PROVE  [held EXCEPT ![s][i] = n] \in [Sinks -> [Slots -> Nat]]
  BY DEF TypeOK

(* No call into the pipeline takes a field out of its type: the saturating *)
(* decrements of unpin_locked() never leave Nat.                           *)
LEMMA StepTypes == TypeOK /\ CallInv /\ [Next]_vars => TypeOK'
<1> SUFFICES ASSUME TypeOK, CallInv, [Next]_vars PROVE TypeOK'
  OBVIOUS
<1> USE DEF TypeOK
<1>1. CASE Reinit
  BY <1>1 DEF Reinit, sinkVars, callVars
<1>2. CASE Acquire
  BY <1>2 DEF Acquire, sinkVars, callVars
<1>3. ASSUME NEW i \in Slots, Publish(i) PROVE TypeOK'
  BY <1>3, PublishedTypes DEF Publish, CallPhases
<1>4. ASSUME NEW s \in Sinks, NEW i \in Slots, WorkerPut(s, i) PROVE TypeOK'
  <2>1. held' \in [Sinks -> [Slots -> Nat]]
    BY <1>4 DEF WorkerPut
  <2> QED
    BY <1>4, <2>1, PutTypes DEF WorkerPut, Put
<1>5. ASSUME NEW s \in Sinks, NEW i \in Slots, WorkerGet(s, i) PROVE TypeOK'
  BY <1>5 DEF WorkerGet
<1>6. ASSUME NEW s \in Sinks, SyncConsume(s) PROVE TypeOK'
  <2>1. prodCall' \in [Sinks -> CallPhases]
    BY <1>6 DEF SyncConsume, CallPhases
  <2>2. Put(s, published) /\ UNCHANGED held
    BY <1>6 DEF SyncConsume
  <2> QED
    BY <2>1, <2>2, PutTypes DEF Put
<1>7. ASSUME NEW s \in Sinks, AsyncConsume(s) PROVE TypeOK'
  <2>1. published \in Slots
    BY <1>7 DEF AsyncConsume, CallInv, Calls
  <2>2. held' \in [Sinks -> [Slots -> Nat]]
    BY <1>7, <2>1, HeldType DEF AsyncConsume
  <2> QED
    BY <1>7, <2>2 DEF AsyncConsume, ringVars, sinkVars, CallPhases
<1>8. ASSUME NEW s \in Sinks, HandConsume(s) PROVE TypeOK'
  <2>1. handFrame[s] \in Slots
    BY <1>8 DEF HandConsume, CallInv, Calls
  <2>2. held' \in [Sinks -> [Slots -> Nat]]
    BY <1>8, <2>1, HeldType DEF HandConsume
  <2> QED
    BY <1>8, <2>2 DEF HandConsume, ringVars, sinkVars, CallPhases
<1>9. ASSUME NEW s \in Sinks, PublishEpilogue(s) \/ HandEpilogue(s)
      PROVE  TypeOK'
  <2>1. callbacks[s] - 1 \in Nat
    BY <1>9 DEF PublishEpilogue, HandEpilogue, CallInv, Calls, One, CallPhases
  <2>2. Released(state[s], pins[s], callbacks[s] - 1) \in SinkStates
    BY ReleasedType
  <2>3. /\ prodCall' \in [Sinks -> CallPhases]
        /\ handCall' \in [Sinks -> CallPhases]
    BY <1>9 DEF PublishEpilogue, HandEpilogue, CallPhases
  <2>4. Epilogue(s)
    BY <1>9 DEF PublishEpilogue, HandEpilogue
  <2>5. /\ delivered' \in [Sinks -> Nat]
        /\ callbacks' \in [Sinks -> Nat]
        /\ state' \in [Sinks -> SinkStates]
    BY <2>1, <2>2, <2>4 DEF Epilogue
  <2> QED
    BY <2>3, <2>4, <2>5 DEF Epilogue, ringVars
<1>10. ASSUME NEW s \in Sinks,
              AttachClaim(s) \/ AttachRejected(s) \/ AttachCommit(s)
       PROVE  TypeOK'
  <2>1. CASE AttachClaim(s)
    BY <2>1 DEF AttachClaim, ringVars, callVars, SinkStates
  <2>2. CASE AttachRejected(s)
    BY <2>2 DEF AttachRejected, ringVars, callVars, Dec, SinkStates
  <2>3. CASE AttachCommit(s)
    BY <2>3 DEF AttachCommit, ringVars, callVars, Dec, SinkStates
  <2> QED
    BY <1>10, <2>1, <2>2, <2>3
<1>11. ASSUME NEW s \in Sinks, DetachUnlink(s) PROVE TypeOK'
  BY <1>11 DEF DetachUnlink, DropPending, callVars, Dec, SinkStates
<1>12. ASSUME NEW s \in Sinks, DetachFinish(s) PROVE TypeOK'
  BY <1>12, ReleasedType
  DEF DetachFinish, ringVars, callVars, SinkStates, Released
<1>13. CASE UNCHANGED vars
  BY <1>13 DEF vars, ringVars, sinkVars, callVars
<1> QED
  BY <1>1, <1>2, <1>3, <1>4, <1>5, <1>6, <1>7, <1>8, <1>9, <1>10, <1>11,
     <1>12, <1>13
  DEF Next, SinkStep

-----------------------------------------------------------------------------
(* CallInv is inductive *)

(* An attach that is let in claims an UNOWNED sink while there is room.    *)
LEMMA AttachOK ==
  ASSUME TypeOK, NEW s \in Sinks, AttachAnswer(s) = OK
  PROVE  /\ SinkConsistent(s)
         /\ state[s] = "UNOWNED"
         /\ s \notin linked
         /\ pins[s] = 0
         /\ callbacks[s] = 0
         /\ Links + reserved < MaxSinks
<1>1. Links \in Nat
  BY SinkSetFinite DEF Links, TypeOK
<1>2. s \notin linked /\ SinkConsistent(s)
  BY DEF AttachAnswer, OK, ERR_ATTACHED, ERR_STATE
<1>3. state[s] \in SinkStates
  BY DEF TypeOK
<1>4. state[s] = "UNOWNED"
  BY <1>2, <1>3
  DEF AttachAnswer, OK, ERR_ATTACHED, ERR_STATE, ERR_TRANSITION, ERR_QUIESCE,
      ERR_UNDRAINED, SinkStates
<1>5. UnownedAnswer(s) = OK
  BY <1>2, <1>4 DEF AttachAnswer
<1> QED
  BY <1>1, <1>2, <1>4, <1>5, SizesAssumption
  DEF UnownedAnswer, RoomAnswer, OK, ERR_UNDRAINED, ERR_QUIESCE, ERR_FULL,
      TypeOK

(* No consume() call is under way in a pipeline that was just initialised. *)
LEMMA InitCalls == Init => CallInv
  BY DEF Init, CallInv, Calls, One, NoSlot

(* Every step keeps _busy, _callbacks and the calls under way in           *)
(* agreement: consume() runs only on behalf of a marked sink.              *)
LEMMA StepCalls == TypeOK /\ CallInv /\ [Next]_vars => CallInv'
<1> SUFFICES ASSUME TypeOK, CallInv, [Next]_vars, NEW t \in Sinks
             PROVE  Calls(t)'
  BY DEF CallInv
<1>0. Calls(t)
  BY DEF CallInv
<1> USE DEF Calls
<1>1. CASE Reinit
  BY <1>0, <1>1 DEF Reinit, sinkVars, callVars
<1>2. CASE Acquire
  BY <1>0, <1>2 DEF Acquire, sinkVars, callVars
<1>3. ASSUME NEW i \in Slots, Publish(i) PROVE Calls(t)'
  <2>1. prodCall[t] = "none"
    BY <1>3 DEF Publish, ProducerIdle
  <2>2. (handCall[t] = "none" /\ pending[t] = NoSlot) \/ busy[t]
    BY <1>0
  <2>3. CASE t \in DeliverTo
    BY <1>0, <1>3, <2>1, <2>2, <2>3
    DEF Publish, DeliverTo, Coalesced, One, TypeOK
  <2>4. CASE t \notin DeliverTo
    <3>1. /\ busy[t]' <=> busy[t]
          /\ prodCall'[t] = "none"
          /\ callbacks'[t] = callbacks[t]
          /\ pending'[t] = IF t \in Coalesced THEN i ELSE pending[t]
      BY <1>3, <2>1, <2>4 DEF Publish
    <3>2. UNCHANGED <<linked, state, handCall, handFrame>>
      BY <1>3 DEF Publish
    <3>3. t \in Coalesced => t \in linked /\ busy[t]
      BY DEF Coalesced
    <3>4. CASE t \in Coalesced
      <4>1. t \in linked /\ busy[t] /\ t \in AsyncSinks
        BY <1>0, <2>1, <3>3, <3>4
      <4> QED
        BY <1>0, <2>1, <3>1, <3>2, <4>1 DEF One
    <3>5. CASE t \notin Coalesced
      BY <1>0, <2>1, <3>1, <3>2, <3>5 DEF One
    <3> QED
      BY <3>4, <3>5
  <2> QED
    BY <2>3, <2>4
<1>4. ASSUME NEW s \in Sinks, NEW i \in Slots, WorkerPut(s, i)
      PROVE  Calls(t)'
  <2>1. CASE t # s
    BY <1>0, <1>4, <2>1 DEF WorkerPut, Put, TypeOK
  <2>2. CASE t = s /\ pending[s] # NoSlot
    <3>1. prodCall[t] = "none" /\ handCall[t] = "none"
      BY <1>0, <1>4, <2>2 DEF WorkerPut
    <3> QED
      BY <1>0, <1>4, <2>2, <3>1
      DEF WorkerPut, Put, BusyAfterPut, CallbacksAfterPut, One, TypeOK
  <2>3. CASE t = s /\ pending[s] = NoSlot
    BY <1>0, <1>4, <2>3
    DEF WorkerPut, Put, BusyAfterPut, CallbacksAfterPut, Released, One, TypeOK
  <2> QED
    BY <2>1, <2>2, <2>3
<1>5. ASSUME NEW s \in Sinks, NEW i \in Slots, WorkerGet(s, i)
      PROVE  Calls(t)'
  BY <1>0, <1>5 DEF WorkerGet
<1>6. ASSUME NEW s \in Sinks, SyncConsume(s) PROVE Calls(t)'
  BY <1>0, <1>6
  DEF SyncConsume, Put, BusyAfterPut, CallbacksAfterPut, Released, One, TypeOK
<1>7. ASSUME NEW s \in Sinks, AsyncConsume(s) PROVE Calls(t)'
  BY <1>0, <1>7 DEF AsyncConsume, ringVars, sinkVars, One, TypeOK
<1>8. ASSUME NEW s \in Sinks, HandConsume(s) PROVE Calls(t)'
  BY <1>0, <1>8 DEF HandConsume, ringVars, sinkVars, One, TypeOK
<1>9. ASSUME NEW s \in Sinks, PublishEpilogue(s) PROVE Calls(t)'
  BY <1>0, <1>9 DEF PublishEpilogue, Epilogue, ringVars, Released, One, TypeOK
<1>10. ASSUME NEW s \in Sinks, HandEpilogue(s) PROVE Calls(t)'
  BY <1>0, <1>10 DEF HandEpilogue, Epilogue, ringVars, Released, One, TypeOK
<1>11. ASSUME NEW s \in Sinks, AttachClaim(s) PROVE Calls(t)'
  BY <1>0, <1>11, AttachOK DEF AttachClaim, ringVars, callVars, TypeOK
<1>12. ASSUME NEW s \in Sinks, AttachRejected(s) PROVE Calls(t)'
  BY <1>0, <1>12 DEF AttachRejected, ringVars, callVars, TypeOK
<1>13. ASSUME NEW s \in Sinks, AttachCommit(s) PROVE Calls(t)'
  BY <1>0, <1>13 DEF AttachCommit, ringVars, callVars, One, TypeOK
<1>14. ASSUME NEW s \in Sinks, DetachUnlink(s) PROVE Calls(t)'
  BY <1>0, <1>14 DEF DetachUnlink, DropPending, callVars, One, TypeOK
<1>15. ASSUME NEW s \in Sinks, DetachFinish(s) PROVE Calls(t)'
  BY <1>0, <1>15 DEF DetachFinish, ringVars, callVars, Released, One, TypeOK
<1>16. CASE UNCHANGED vars
  BY <1>0, <1>16 DEF vars, ringVars, sinkVars, callVars
<1> QED
  BY <1>1, <1>2, <1>3, <1>4, <1>5, <1>6, <1>7, <1>8, <1>9, <1>10, <1>11,
     <1>12, <1>13, <1>14, <1>15, <1>16
  DEF Next, SinkStep

-----------------------------------------------------------------------------
(* Counting.  A function to the naturals is counted by numbering what it   *)
(* counts: the pairs <<x, n>> with n between 1 and f[x].                   *)
Tokens(D, f) == {t \in D \X (Nat \ {0}) : t[2] <= f[t[1]]}

(* Adding one on each element of A adds as many tokens as A has elements. *)
LEMMA TokensPlus ==
  ASSUME NEW D, NEW f, NEW g, NEW A, A \subseteq D, IsFiniteSet(A),
         \A x \in D : f[x] \in Nat,
         \A x \in D : g[x] = f[x] + One(x \in A)
  PROVE  /\ IsFiniteSet(Tokens(D, f)) <=> IsFiniteSet(Tokens(D, g))
         /\ IsFiniteSet(Tokens(D, f)) =>
              Cardinality(Tokens(D, g))
                = Cardinality(Tokens(D, f)) + Cardinality(A)
<1> DEFINE T == {<<x, g[x]>> : x \in A}
           b == [x \in A |-> <<x, g[x]>>]
<1>1. /\ IsFiniteSet(T)
      /\ Cardinality(T) = Cardinality(A)
  <2>1. b \in Bijection(A, T)
    BY DEF Bijection, Injection, Surjection, IsInjective
  <2> QED
    BY <2>1, FS_Bijection DEF ExistsBijection
<1>2. Tokens(D, g) = Tokens(D, f) \cup T
  <2>1. ASSUME NEW t \in Tokens(D, g) PROVE t \in Tokens(D, f) \cup T
    BY <2>1 DEF Tokens, One
  <2>2. ASSUME NEW t \in Tokens(D, f) PROVE t \in Tokens(D, g)
    BY <2>2 DEF Tokens, One
  <2>3. ASSUME NEW t \in T PROVE t \in Tokens(D, g)
    BY <2>3 DEF Tokens, One
  <2> QED
    BY <2>1, <2>2, <2>3
<1>3. Tokens(D, f) \cap T = {}
  BY DEF Tokens, One
<1>4. IsFiniteSet(Tokens(D, g)) => IsFiniteSet(Tokens(D, f))
  BY <1>2, FS_Subset
<1>5. ASSUME IsFiniteSet(Tokens(D, f))
      PROVE  /\ IsFiniteSet(Tokens(D, g))
             /\ Cardinality(Tokens(D, g))
                  = Cardinality(Tokens(D, f)) + Cardinality(A)
  <2>1. /\ IsFiniteSet(Tokens(D, g))
        /\ Cardinality(Tokens(D, g))
             = Cardinality(Tokens(D, f)) + Cardinality(T) - Cardinality({})
    BY <1>1, <1>2, <1>3, <1>5, FS_Union
  <2>2. /\ Cardinality({}) = 0
        /\ Cardinality(Tokens(D, f)) \in Nat
        /\ Cardinality(T) \in Nat
    BY <1>1, <1>5, FS_EmptySet, FS_CardinalityType
  <2> QED
    BY <1>1, <2>1, <2>2
<1> QED
  BY <1>4, <1>5

(* The same, for one element and by its effect on an exact counter n. *)
Counts(n, D, f) ==
  IsFiniteSet(Tokens(D, f)) /\ n = Cardinality(Tokens(D, f))

(* One more pin on slot i is one more in the sink's count.                 *)
LEMMA CountsUp ==
  ASSUME NEW D, NEW f, NEW g, NEW n, NEW x \in D, Counts(n, D, f),
         \A y \in D : f[y] \in Nat,
         \A y \in D : g[y] = f[y] + One(y = x)
  PROVE  Counts(n + 1, D, g)
<1>1. IsFiniteSet({x}) /\ Cardinality({x}) = 1
  BY FS_Singleton
<1>2. \A y \in D : g[y] = f[y] + One(y \in {x})
  OBVIOUS
<1> QED
  BY <1>1, <1>2, TokensPlus DEF Counts

(* A pin taken off slot i was counted, and is one less in the sink's       *)
(* count.                                                                  *)
LEMMA CountsDown ==
  ASSUME NEW D, NEW f, NEW g, NEW n, NEW x \in D, Counts(n, D, f),
         \A y \in D : g[y] \in Nat,
         \A y \in D : f[y] = g[y] + One(y = x)
  PROVE  n \in Nat \ {0} /\ Counts(n - 1, D, g)
<1>1. IsFiniteSet({x}) /\ Cardinality({x}) = 1
  BY FS_Singleton
<1>2. \A y \in D : f[y] = g[y] + One(y \in {x})
  OBVIOUS
<1>3. IsFiniteSet(Tokens(D, g)) /\ n = Cardinality(Tokens(D, g)) + 1
  BY <1>1, <1>2, TokensPlus DEF Counts
<1> QED
  BY <1>3, FS_CardinalityType DEF Counts

(* A sink whose pins do not change keeps its count.                        *)
LEMMA CountsSame ==
  ASSUME NEW D, NEW f, NEW g, NEW n, Counts(n, D, f),
         \A y \in D : g[y] = f[y]
  PROVE  Counts(n, D, g)
<1>1. Tokens(D, g) = Tokens(D, f)
  BY DEF Tokens
<1> QED
  BY <1>1 DEF Counts

(* A sink counts no pin exactly when it has none on any slot.              *)
LEMMA CountsZero ==
  ASSUME NEW D, NEW f, \A y \in D : f[y] \in Nat
  PROVE  Counts(0, D, f) <=> \A y \in D : f[y] = 0
<1>1. ASSUME Counts(0, D, f) PROVE \A y \in D : f[y] = 0
  <2>1. Tokens(D, f) = {}
    BY <1>1, FS_EmptySet DEF Counts
  <2>2. ASSUME NEW y \in D, f[y] # 0 PROVE <<y, 1>> \in Tokens(D, f)
    BY <2>2 DEF Tokens
  <2> QED
    BY <2>1, <2>2
<1>2. ASSUME \A y \in D : f[y] = 0 PROVE Counts(0, D, f)
  <2>1. Tokens(D, f) = {}
    BY <1>2 DEF Tokens
  <2> QED
    BY <2>1, FS_EmptySet DEF Counts
<1> QED
  BY <1>1, <1>2

-----------------------------------------------------------------------------
(* What each step does to the pins a sink really has on a slot *)

(* The pins a sink really has on a slot are a natural number.              *)
LEMMA PinsOnType ==
  ASSUME TypeOK, NEW s \in Sinks, NEW i \in Slots
  PROVE  PinsOn(s, i) \in Nat
  BY DEF TypeOK, PinsOn, One

(* What a sink's thread holds of a slot is a natural number, and no slot   *)
(* is NoSlot.                                                              *)
LEMMA HeldNat ==
  ASSUME TypeOK
  PROVE  \A s \in Sinks, i \in Slots : held[s][i] \in Nat /\ i # NoSlot
<1>1. \A i \in Slots : i # NoSlot
  BY SizesAssumption DEF Slots, NoSlot
<1> QED
  BY <1>1 DEF TypeOK

(* publish() gives one pin on the new slot to each sink it delivers or     *)
(* coalesces to, and takes the pin of each pending frame it replaces.      *)
LEMMA PublishEffect ==
  ASSUME TypeOK, CallInv, NEW i \in Slots, Publish(i),
         NEW t \in Sinks, NEW j \in Slots
  PROVE  PinsOn(t, j)' + One(t \in Replaced(j))
           = PinsOn(t, j) + One(j = i /\ t \in DeliverTo \cup Coalesced)
<1>1. /\ prodCall[t] = "none"
      /\ prodCall'[t] = IF t \in DeliverTo THEN "enter" ELSE "none"
      /\ pending'[t] = IF t \in Coalesced THEN i ELSE pending[t]
      /\ published' = i
      /\ UNCHANGED <<handCall, handFrame, held>>
  BY DEF Publish, ProducerIdle, TypeOK
<1>2. held[t][j] \in Nat
  BY DEF TypeOK
<1>3. CASE t \in DeliverTo
  <2>1. t \notin Coalesced
    BY <1>3 DEF DeliverTo, Coalesced
  <2> QED
    BY <1>1, <1>2, <1>3, <2>1 DEF PinsOn, One, Replaced
<1>4. CASE t \in Coalesced
  <2>1. t \notin DeliverTo
    BY <1>4 DEF DeliverTo, Coalesced
  <2> QED
    BY <1>1, <1>2, <1>4, <2>1 DEF PinsOn, One, Replaced
<1>5. CASE t \notin DeliverTo \cup Coalesced
  BY <1>1, <1>2, <1>5 DEF PinsOn, One, Replaced
<1> QED
  BY <1>3, <1>4, <1>5

(* put() from a sink's thread takes exactly one pin, the thread's own: a   *)
(* hand-off moves the pending frame without touching its pin.              *)
LEMMA WorkerPutEffect ==
  ASSUME TypeOK, CallInv, NEW s \in Sinks, NEW i \in Slots, WorkerPut(s, i),
         NEW t \in Sinks, NEW j \in Slots
  PROVE  PinsOn(t, j) = PinsOn(t, j)' + One(t = s /\ j = i)
<1>1. /\ handCall[s] = "none"
      /\ held' = [held EXCEPT ![s][i] = @ - 1]
      /\ UNCHANGED <<published, prodCall>>
      /\ Put(s, i)
  BY DEF WorkerPut, Put
<1>2. /\ pending' = [pending EXCEPT ![s] = NoSlot]
      /\ \/ /\ pending[s] # NoSlot
            /\ handCall' = [handCall EXCEPT ![s] = "enter"]
            /\ handFrame' = [handFrame EXCEPT ![s] = pending[s]]
         \/ /\ pending[s] = NoSlot
            /\ UNCHANGED <<handCall, handFrame>>
  BY <1>1 DEF Put
<1>3. held[t][j] \in Nat /\ j # NoSlot
  BY HeldNat
<1>4. held'[t][j] = IF t = s /\ j = i THEN held[t][j] - 1 ELSE held[t][j]
  BY <1>1 DEF TypeOK
<1>5. CASE t # s
  BY <1>1, <1>2, <1>3, <1>4, <1>5 DEF TypeOK, PinsOn, One
<1>6. CASE t = s
  BY <1>1, <1>2, <1>3, <1>4, <1>6 DEF TypeOK, PinsOn, One
<1> QED
  BY <1>5, <1>6

(* A consume() that puts the frame before it returns does to the pins what *)
(* put() does.                                                             *)
LEMMA SyncConsumeEffect ==
  ASSUME TypeOK, CallInv, NEW s \in Sinks, SyncConsume(s),
         NEW t \in Sinks, NEW j \in Slots
  PROVE  PinsOn(t, j) = PinsOn(t, j)' + One(t = s /\ j = published)
<1>1. /\ prodCall[s] = "enter"
      /\ prodCall' = [prodCall EXCEPT ![s] = "exit"]
      /\ pending' = [pending EXCEPT ![s] = NoSlot]
      /\ pending[s] = NoSlot
      /\ UNCHANGED <<held, published, handCall, handFrame>>
  BY DEF SyncConsume, Put, CallInv, Calls
<1>2. held[t][j] \in Nat /\ j # NoSlot
  BY HeldNat
<1> QED
  BY <1>1, <1>2 DEF TypeOK, PinsOn, One

(* get() from a sink's thread is one more pin on that slot.                *)
LEMMA WorkerGetEffect ==
  ASSUME TypeOK, NEW s \in Sinks, NEW i \in Slots, WorkerGet(s, i),
         NEW t \in Sinks, NEW j \in Slots
  PROVE  PinsOn(t, j)' = PinsOn(t, j) + One(t = s /\ j = i)
<1>1. held'[t][j] = IF t = s /\ j = i THEN held[t][j] + 1 ELSE held[t][j]
  BY DEF WorkerGet, TypeOK
<1>2. held[t][j] \in Nat
  BY DEF TypeOK
<1> QED
  BY <1>1, <1>2 DEF WorkerGet, PinsOn, One

(* Unlinking a sink drops its pending frame's pin and no other.            *)
LEMMA DetachEffect ==
  ASSUME TypeOK, NEW s \in Sinks, DetachUnlink(s),
         NEW t \in Sinks, NEW j \in Slots
  PROVE  PinsOn(t, j) = PinsOn(t, j)' + One(t = s /\ j = pending[s])
<1>1. held[t][j] \in Nat /\ j # NoSlot
  BY HeldNat
<1>2. /\ pending' = [pending EXCEPT ![s] = NoSlot]
      /\ UNCHANGED callVars
  BY DEF DetachUnlink, DropPending
<1> QED
  BY <1>1, <1>2 DEF callVars, TypeOK, PinsOn, One

(* Every other step at most moves a pin from a consume() call to the       *)
(* thread it is queued for.                                                *)
LEMMA OtherEffect ==
  ASSUME TypeOK, CallInv, NEW s \in Sinks,
         \/ Reinit \/ Acquire \/ UNCHANGED vars
         \/ AsyncConsume(s) \/ HandConsume(s)
         \/ PublishEpilogue(s) \/ HandEpilogue(s)
         \/ AttachClaim(s) \/ AttachRejected(s) \/ AttachCommit(s)
         \/ DetachFinish(s),
         NEW t \in Sinks, NEW j \in Slots
  PROVE  PinsOn(t, j)' = PinsOn(t, j)
<1>1. held[t][j] \in Nat /\ j # NoSlot
  BY HeldNat
<1>2. CASE Reinit \/ Acquire \/ UNCHANGED vars
  BY <1>2 DEF Reinit, Acquire, vars, sinkVars, callVars, PinsOn, One
<1>3. CASE AsyncConsume(s)
  <2>1. held'[t][j] = IF t = s /\ j = published
                      THEN held[t][j] + 1 ELSE held[t][j]
    BY <1>3 DEF AsyncConsume, TypeOK
  <2> QED
    BY <1>1, <1>3, <2>1 DEF AsyncConsume, sinkVars, TypeOK, PinsOn, One
<1>4. CASE HandConsume(s)
  <2>1. held'[t][j] = IF t = s /\ j = handFrame[s]
                      THEN held[t][j] + 1 ELSE held[t][j]
    BY <1>4 DEF HandConsume, TypeOK
  <2> QED
    BY <1>1, <1>4, <2>1 DEF HandConsume, sinkVars, TypeOK, PinsOn, One
<1>5. CASE PublishEpilogue(s) \/ HandEpilogue(s)
  BY <1>1, <1>5
  DEF PublishEpilogue, HandEpilogue, Epilogue, TypeOK, PinsOn, One
<1>6. CASE AttachClaim(s) \/ AttachRejected(s) \/ DetachFinish(s)
  BY <1>6
  DEF AttachClaim, AttachRejected, DetachFinish, callVars, PinsOn
<1>7. CASE AttachCommit(s)
  <2>1. pending[s] = NoSlot
    BY <1>7 DEF AttachCommit, CallInv, Calls
  <2> QED
    BY <1>1, <1>7, <2>1 DEF AttachCommit, callVars, TypeOK, PinsOn, One
<1> QED
  BY <1>2, <1>3, <1>4, <1>5, <1>6, <1>7

-----------------------------------------------------------------------------
(* PinInv: a sink's pin count is exact, and zero outside a session *)

PinsOf(s) == [i \in Slots |-> PinsOn(s, i)]

PinCount(s) ==
  /\ Counts(pins[s], Slots, PinsOf(s))
  /\ state[s] \in {"UNOWNED", "ATTACHING"} => pins[s] = 0

PinInv == \A s \in Sinks : PinCount(s)

(* A pin that exists is counted, and then the sink is in a session. *)
LEMMA PinnedInSession ==
  ASSUME TypeOK, PinInv, NEW s \in Sinks, NEW i \in Slots, PinsOn(s, i) # 0
  PROVE  pins[s] # 0 /\ state[s] \notin {"UNOWNED", "ATTACHING"}
<1>1. \A j \in Slots : PinsOf(s)[j] \in Nat
  BY PinsOnType DEF PinsOf
<1>2. PinsOf(s)[i] # 0
  BY DEF PinsOf
<1>3. ~Counts(0, Slots, PinsOf(s))
  BY <1>1, <1>2, CountsZero
<1> QED
  BY <1>3 DEF PinInv, PinCount

(* The consume() a publish or a hand-off runs, and the thread that puts,   *)
(* have a pin of their own.                                                *)
LEMMA TransitIsPinned ==
  ASSUME TypeOK, CallInv, NEW s \in Sinks
  PROVE  /\ prodCall[s] = "enter" => PinsOn(s, published) # 0
         /\ \A i \in Slots : held[s][i] > 0 => PinsOn(s, i) # 0
         /\ pending[s] # NoSlot => PinsOn(s, pending[s]) # 0
<1>1. prodCall[s] = "enter" => published \in Slots
  BY DEF CallInv, Calls
<1>2. pending[s] # NoSlot => pending[s] \in Slots
  BY DEF TypeOK
<1> QED
  BY <1>1, <1>2, HeldNat DEF PinsOn, One

(* A fresh pipeline counts no pin and has none.                            *)
LEMMA InitPins == Init => PinInv
<1> SUFFICES ASSUME Init, NEW s \in Sinks PROVE PinCount(s)
  BY DEF PinInv
<1>1. \A i \in Slots : i # NoSlot
  BY SizesAssumption DEF Slots, NoSlot
<1>2. \A i \in Slots : PinsOf(s)[i] = 0
  BY <1>1 DEF Init, PinsOf, PinsOn, One
<1>3. Counts(0, Slots, PinsOf(s))
  BY <1>2, CountsZero
<1> QED
  BY <1>3 DEF Init, PinCount

(* Every step of frame_pipeline.c keeps each sink's _pins equal to the     *)
(* pins it really has, so an unpin never saturates.                        *)
LEMMA StepPins ==
  TypeOK /\ TypeOK' /\ CallInv /\ PinInv /\ [Next]_vars => PinInv'
<1> SUFFICES ASSUME TypeOK, TypeOK', CallInv, PinInv, [Next]_vars,
                    NEW t \in Sinks
             PROVE  PinCount(t)'
  BY DEF PinInv
<1> DEFINE f == [j \in Slots |-> PinsOn(t, j)]
           g == [j \in Slots |-> PinsOn(t, j)']
           Out(st) == st \in {"UNOWNED", "ATTACHING"}
<1>0. /\ Counts(pins[t], Slots, f)
      /\ Out(state[t]) => pins[t] = 0
      /\ pins[t] \in Nat
  BY DEF PinInv, PinCount, PinsOf, TypeOK
<1>t. /\ \A j \in Slots : f[j] \in Nat /\ f[j] = PinsOn(t, j)
      /\ \A j \in Slots : g[j] \in Nat /\ g[j] = PinsOn(t, j)'
  <2>1. \A j \in Slots : PinsOn(t, j) \in Nat
    BY PinsOnType
  <2>2. \A j \in Slots : PinsOn(t, j)' \in Nat
    BY DEF PinsOn, TypeOK, One
  <2> QED
    BY <2>1, <2>2
<1> SUFFICES /\ Counts(pins'[t], Slots, g)
             /\ Out(state'[t]) => pins'[t] = 0
  BY DEF PinCount, PinsOf
<1> HIDE DEF f, g
(* One pin less, and the sink was in a session. *)
<1>d. ASSUME NEW i \in Slots, f[i] # 0, pins'[t] = Dec(pins[t]),
             \A j \in Slots : f[j] = g[j] + One(j = i)
      PROVE  Counts(pins'[t], Slots, g) /\ ~Out(state[t]) /\ pins[t] # 0
  <2>1. pins[t] \in Nat \ {0} /\ Counts(pins[t] - 1, Slots, g)
    BY <1>0, <1>t, <1>d, CountsDown
  <2> QED
    BY <1>0, <1>d, <2>1 DEF Dec
(* No change. *)
<1>n. ASSUME pins'[t] = pins[t], \A j \in Slots : g[j] = f[j]
      PROVE  Counts(pins'[t], Slots, g)
  BY <1>0, <1>n, CountsSame
<1> DEFINE Goal == /\ Counts(pins'[t], Slots, g)
                   /\ Out(state'[t]) => pins'[t] = 0
<1>1. ASSUME NEW i \in Slots, Publish(i) PROVE Goal
  <2>1. /\ pins'[t] = PublishedPins(t)
        /\ state' = state
        /\ \A j \in Slots : g[j] + One(t \in Replaced(j))
                             = f[j] + One(j = i /\ t \in DeliverTo \cup Coalesced)
    <3>1. /\ pins'[t] = PublishedPins(t)
          /\ state' = state
      BY <1>1 DEF Publish
    <3> QED
      BY <1>1, <1>t, <3>1, PublishEffect
  <2>2. t \in linked => ~Out(state[t])
    BY DEF CallInv, Calls
  <2>3. CASE t \in DeliverTo
    <3>1. t \in linked /\ pins'[t] = pins[t] + 1
      BY <2>1, <2>3 DEF DeliverTo, PublishedPins
    <3>2. \A j \in Slots : t \notin Replaced(j)
      BY <2>3 DEF Replaced, DeliverTo, Coalesced
    <3>3. \A j \in Slots : g[j] = f[j] + One(j = i)
      BY <1>t, <2>1, <2>3, <3>2 DEF One
    <3>4. Counts(pins[t] + 1, Slots, g)
      BY <1>0, <1>t, <3>3, CountsUp
    <3> QED
      BY <2>1, <2>2, <3>1, <3>4
  <2>4. CASE t \in Coalesced /\ pending[t] = NoSlot
    <3>1. t \in linked /\ t \notin DeliverTo
      BY <2>4 DEF DeliverTo, Coalesced
    <3>2. pins'[t] = pins[t] + 1
      BY <2>1, <2>4, <3>1 DEF PublishedPins
    <3>3. \A j \in Slots : t \notin Replaced(j)
      BY <2>4, HeldNat DEF Replaced
    <3>4. \A j \in Slots : g[j] = f[j] + One(j = i)
      BY <1>t, <2>1, <2>4, <3>3 DEF One
    <3>5. Counts(pins[t] + 1, Slots, g)
      BY <1>0, <1>t, <3>4, CountsUp
    <3> QED
      BY <2>1, <2>2, <3>1, <3>2, <3>5
  <2>5. CASE t \in Coalesced /\ pending[t] # NoSlot
    <3> DEFINE k == pending[t]
               h == [j \in Slots |-> f[j] - One(j = k)]
    <3>1. t \in linked /\ t \notin DeliverTo /\ k \in Slots
      BY <2>5 DEF DeliverTo, Coalesced, TypeOK
    <3>2. f[k] # 0
      BY <1>t, <2>5, <3>1, TransitIsPinned
    <3>3. \A j \in Slots : h[j] \in Nat /\ f[j] = h[j] + One(j = k)
      BY <1>t, <3>2 DEF One
    <3>4. \A j \in Slots : t \in Replaced(j) <=> j = k
      BY <2>5 DEF Replaced
    <3>5. \A j \in Slots : g[j] = h[j] + One(j = i)
      BY <1>t, <2>1, <2>5, <3>4 DEF One
    <3> HIDE DEF h
    <3>6. pins[t] \in Nat \ {0} /\ Counts(pins[t] - 1, Slots, h)
      BY <1>0, <3>1, <3>3, CountsDown
    <3>7. Counts(pins[t] - 1 + 1, Slots, g)
      BY <3>3, <3>5, <3>6, CountsUp
    <3>8. pins'[t] = pins[t] - 1 + 1
      BY <2>1, <2>5, <3>1, <3>6 DEF PublishedPins, Dec
    <3> QED
      BY <2>1, <2>2, <3>1, <3>7, <3>8
  <2>6. CASE t \notin DeliverTo \cup Coalesced
    <3>1. pins'[t] = pins[t]
      BY <2>1, <2>6 DEF PublishedPins
    <3>2. \A j \in Slots : t \notin Replaced(j)
      BY <2>6 DEF Replaced
    <3>3. \A j \in Slots : g[j] = f[j]
      BY <1>t, <2>1, <2>6, <3>2 DEF One
    <3> QED
      BY <1>0, <1>n, <2>1, <3>1, <3>3
  <2> QED
    BY <2>3, <2>4, <2>5, <2>6
<1>2. ASSUME NEW s \in Sinks, NEW i \in Slots,
             \/ WorkerPut(s, i)
             \/ SyncConsume(s) /\ i = published
      PROVE  Goal
  <2>1. Put(s, i) /\ PinsOn(s, i) # 0
    BY <1>2, TransitIsPinned, HeldNat DEF WorkerPut, SyncConsume
  <2>2. \A j \in Slots : f[j] = g[j] + One(t = s /\ j = i)
    BY <1>2, <1>t, WorkerPutEffect, SyncConsumeEffect
  <2>3. CASE t = s
    <3>1. f[i] # 0 /\ pins'[t] = Dec(pins[t])
      BY <1>t, <2>1, <2>3 DEF Put, TypeOK
    <3>2. \A j \in Slots : f[j] = g[j] + One(j = i)
      BY <2>2, <2>3
    <3>3. Counts(pins'[t], Slots, g) /\ ~Out(state[t])
      BY <1>d, <3>1, <3>2
    <3> QED
      BY <2>1, <2>3, <3>1, <3>3 DEF Put, Released, TypeOK
  <2>4. CASE t # s
    <3>1. pins'[t] = pins[t] /\ state'[t] = state[t]
      BY <2>1, <2>4 DEF Put, TypeOK
    <3>2. \A j \in Slots : g[j] = f[j]
      BY <1>t, <2>2, <2>4 DEF One
    <3> QED
      BY <1>0, <1>n, <3>1, <3>2
  <2> QED
    BY <2>3, <2>4
<1>3. ASSUME NEW s \in Sinks, NEW i \in Slots, WorkerGet(s, i) PROVE Goal
  <2>1. \A j \in Slots : g[j] = f[j] + One(t = s /\ j = i)
    BY <1>3, <1>t, WorkerGetEffect
  <2>2. /\ pins'[t] = IF t = s THEN pins[t] + 1 ELSE pins[t]
        /\ state' = state
    BY <1>3 DEF WorkerGet, TypeOK
  <2>3. CASE t = s
    <3>1. \A j \in Slots : g[j] = f[j] + One(j = i)
      BY <2>1, <2>3
    <3>2. Counts(pins[t] + 1, Slots, g)
      BY <1>0, <1>t, <3>1, CountsUp
    <3>3. ~Out(state[t])
      BY <1>3, <2>3, TransitIsPinned, PinnedInSession DEF WorkerGet
    <3> QED
      BY <2>2, <2>3, <3>2, <3>3
  <2>4. CASE t # s
    <3>1. \A j \in Slots : g[j] = f[j]
      BY <1>t, <2>1, <2>4 DEF One
    <3> QED
      BY <1>0, <1>n, <2>2, <2>4, <3>1
  <2> QED
    BY <2>3, <2>4
<1>4. ASSUME NEW s \in Sinks, DetachUnlink(s) PROVE Goal
  <2>1. \A j \in Slots : f[j] = g[j] + One(t = s /\ j = pending[s])
    BY <1>4, <1>t, DetachEffect
  <2>2. /\ pins'[t] = IF t = s /\ pending[s] # NoSlot
                      THEN Dec(pins[t]) ELSE pins[t]
        /\ state'[t] = IF t = s THEN "DETACHING" ELSE state[t]
    BY <1>4 DEF DetachUnlink, DropPending, TypeOK
  <2>3. CASE t = s /\ pending[s] # NoSlot
    <3>1. pending[s] \in Slots /\ f[pending[s]] # 0
      BY <1>t, <2>3, TransitIsPinned DEF TypeOK
    <3>2. \A j \in Slots : f[j] = g[j] + One(j = pending[s])
      BY <2>1, <2>3
    <3>3. pins'[t] = Dec(pins[t])
      BY <2>2, <2>3
    <3>4. Counts(pins'[t], Slots, g)
      BY <1>d, <3>1, <3>2, <3>3
    <3> QED
      BY <2>2, <2>3, <3>4
  <2>4. CASE t # s \/ pending[s] = NoSlot
    <3>1. \A j \in Slots : g[j] = f[j]
      BY <1>t, <2>1, <2>4, HeldNat DEF One
    <3>2. pins'[t] = pins[t]
      BY <2>2, <2>4
    <3> QED
      BY <1>0, <1>n, <2>2, <3>1, <3>2
  <2> QED
    BY <2>3, <2>4
<1>5. ASSUME NEW s \in Sinks, AttachCommit(s) PROVE Goal
  <2>1. \A j \in Slots : g[j] = f[j]
    BY <1>5, <1>t, OtherEffect
  <2>2. pins'[t] = pins[t]
    BY <1>5 DEF AttachCommit, PinInv, PinCount, TypeOK
  <2>3. state'[t] = IF t = s THEN "ATTACHED" ELSE state[t]
    BY <1>5 DEF AttachCommit, TypeOK
  <2> QED
    BY <1>0, <1>n, <2>1, <2>2, <2>3
<1>6. ASSUME NEW s \in Sinks,
             \/ Reinit \/ Acquire \/ UNCHANGED vars
             \/ AsyncConsume(s) \/ HandConsume(s)
             \/ PublishEpilogue(s) \/ HandEpilogue(s)
             \/ AttachClaim(s) \/ AttachRejected(s) \/ DetachFinish(s)
      PROVE  Goal
  <2>1. \A j \in Slots : g[j] = f[j]
    BY <1>6, <1>t, OtherEffect
  <2>2. pins'[t] = pins[t]
    BY <1>6
    DEF Reinit, Acquire, vars, AsyncConsume, HandConsume, PublishEpilogue,
        HandEpilogue, Epilogue, AttachClaim, AttachRejected, DetachFinish,
        sinkVars
  <2>3. Out(state'[t]) => pins[t] = 0
    <3>1. CASE Reinit \/ Acquire \/ UNCHANGED vars \/ AsyncConsume(s)
               \/ HandConsume(s)
      BY <1>0, <3>1
      DEF Reinit, Acquire, vars, AsyncConsume, HandConsume, sinkVars
    <3>2. CASE PublishEpilogue(s) \/ HandEpilogue(s)
      BY <1>0, <3>2
      DEF PublishEpilogue, HandEpilogue, Epilogue, Released, TypeOK
    <3>3. CASE AttachClaim(s)
      BY <1>0, <3>3, AttachOK DEF AttachClaim, TypeOK
    <3>4. CASE AttachRejected(s)
      BY <1>0, <3>4 DEF AttachRejected, TypeOK
    <3>5. CASE DetachFinish(s)
      BY <1>0, <3>5 DEF DetachFinish, Released, TypeOK
    <3> QED
      BY <1>6, <3>1, <3>2, <3>3, <3>4, <3>5
  <2> QED
    BY <1>n, <2>1, <2>2, <2>3
<1>7. ASSUME NEW s \in Sinks, SyncConsume(s) PROVE Goal
  <2>1. published \in Slots
    BY <1>7 DEF SyncConsume, CallInv, Calls
  <2> QED
    BY <1>2, <1>7, <2>1
<1> SUFFICES Goal
  OBVIOUS
<1> HIDE DEF Goal
<1>8. CASE Reinit \/ Acquire \/ UNCHANGED vars
  BY <1>6, <1>8
<1>9. ASSUME NEW s \in Sinks, SinkStep(s) PROVE Goal
  BY <1>2, <1>6, <1>7, <1>9 DEF SinkStep
<1> QED
  BY <1>1, <1>3, <1>4, <1>5, <1>6, <1>8, <1>9 DEF Next

-----------------------------------------------------------------------------
(* RegistryInv: room is reserved for every attach under way, and a sink    *)
(* drains only while something is still out                                *)

Attaching == {s \in Sinks : state[s] = "ATTACHING"}

Drains(s) == state[s] = "DRAINING" => pins[s] # 0 \/ callbacks[s] # 0

RegistryInv ==
  /\ reserved = Cardinality(Attaching)
  /\ Cardinality(linked) + reserved <= MaxSinks
  /\ \A s \in Sinks : Drains(s)

(* A fresh pipeline links nobody and reserves nothing.                     *)
LEMMA InitRegistry == Init => RegistryInv
<1> SUFFICES ASSUME Init PROVE RegistryInv
  OBVIOUS
<1>1. Attaching = {} /\ linked = {} /\ reserved = 0
  BY DEF Init, Attaching
<1>2. \A s \in Sinks : Drains(s)
  BY DEF Init, Drains
<1> QED
  BY <1>1, <1>2, FS_EmptySet, SizesAssumption DEF RegistryInv

(* A sink is DRAINING only with something still out: whichever of put()    *)
(* and the epilogue comes last settles it.                                 *)
LEMMA StepDrains ==
  ASSUME TypeOK, CallInv, RegistryInv, [Next]_vars, NEW t \in Sinks
  PROVE  Drains(t)'
<1>0. Drains(t)
  BY DEF RegistryInv
<1> USE DEF Drains
<1>1. CASE Reinit \/ Acquire \/ UNCHANGED vars
  BY <1>0, <1>1 DEF Reinit, Acquire, vars, sinkVars
<1>2. ASSUME NEW i \in Slots, Publish(i) PROVE Drains(t)'
  <2>1. state' = state
    BY <1>2 DEF Publish
  <2>2. CASE t \in linked
    BY <2>1, <2>2 DEF CallInv, Calls
  <2>3. CASE t \notin linked
    BY <1>0, <1>2, <2>1, <2>3
    DEF Publish, PublishedPins, DeliverTo, Coalesced
  <2> QED
    BY <2>2, <2>3
<1>3. ASSUME NEW s \in Sinks, NEW i \in Slots, Put(s, i) PROVE Drains(t)'
  <2>1. CASE t # s
    BY <1>0, <1>3, <2>1 DEF Put, TypeOK
  <2>2. CASE t = s /\ pending[s] # NoSlot
    BY <1>3, <2>2 DEF Put, CallInv, Calls
  <2>3. CASE t = s /\ pending[s] = NoSlot
    BY <1>3, <2>3 DEF Put, CallbacksAfterPut, Released, TypeOK
  <2> QED
    BY <2>1, <2>2, <2>3
<1>4. ASSUME NEW s \in Sinks, PublishEpilogue(s) \/ HandEpilogue(s)
      PROVE  Drains(t)'
  BY <1>0, <1>4 DEF PublishEpilogue, HandEpilogue, Epilogue, Released, TypeOK
<1>5. ASSUME NEW s \in Sinks,
             \/ AttachClaim(s) \/ AttachRejected(s) \/ AttachCommit(s)
      PROVE  Drains(t)'
  BY <1>0, <1>5 DEF AttachClaim, AttachRejected, AttachCommit, TypeOK
<1>6. ASSUME NEW s \in Sinks, DetachUnlink(s) PROVE Drains(t)'
  BY <1>0, <1>6 DEF DetachUnlink, DropPending, TypeOK
<1>7. ASSUME NEW s \in Sinks, DetachFinish(s) PROVE Drains(t)'
  BY <1>0, <1>7 DEF DetachFinish, Released, TypeOK
<1>8. ASSUME NEW s \in Sinks, AsyncConsume(s) \/ HandConsume(s)
      PROVE  Drains(t)'
  BY <1>0, <1>8 DEF AsyncConsume, HandConsume, sinkVars
<1>9. ASSUME NEW s \in Sinks, NEW i \in Slots, WorkerGet(s, i)
      PROVE  Drains(t)'
  BY <1>0, <1>9 DEF WorkerGet, TypeOK
<1>10. ASSUME NEW s \in Sinks, NEW i \in Slots, WorkerPut(s, i)
       PROVE  Drains(t)'
  BY <1>3, <1>10 DEF WorkerPut
<1>11. ASSUME NEW s \in Sinks, SyncConsume(s) PROVE Drains(t)'
  <2>1. published \in Slots /\ Put(s, published)
    BY <1>11 DEF SyncConsume, CallInv, Calls
  <2> QED
    BY <1>3, <2>1
<1> QED
  BY <1>1, <1>2, <1>4, <1>5, <1>6, <1>7, <1>8, <1>9, <1>10, <1>11
  DEF Next, SinkStep

(* The room: only the three steps of an attach, and an unlink, touch it. *)
LEMMA StepRoom ==
  ASSUME TypeOK, TypeOK', CallInv, RegistryInv, [Next]_vars
  PROVE  /\ reserved' = Cardinality(Attaching')
         /\ Cardinality(linked') + reserved' <= MaxSinks
<1>0. /\ reserved = Cardinality(Attaching)
      /\ Cardinality(linked) + reserved <= MaxSinks
      /\ reserved \in Nat /\ Cardinality(linked) \in Nat
      /\ IsFiniteSet(Attaching) /\ IsFiniteSet(linked)
  BY SinkSetFinite DEF RegistryInv, TypeOK, Attaching
<1> DEFINE Goal == /\ reserved' = Cardinality(Attaching')
                   /\ Cardinality(linked') + reserved' <= MaxSinks
<1> SUFFICES Goal
  OBVIOUS
<1>1. ASSUME NEW s \in Sinks, AttachClaim(s) PROVE Goal
  <2>1. Attaching' = Attaching \cup {s} /\ s \notin Attaching
    BY <1>1, AttachOK DEF AttachClaim, Attaching, TypeOK
  <2>2. Cardinality(Attaching') = Cardinality(Attaching) + 1
    BY <1>0, <2>1, FS_AddElement
  <2>3. Cardinality(linked) + reserved < MaxSinks
    BY <1>1, AttachOK DEF AttachClaim, Links
  <2> QED
    BY <1>0, <1>1, <2>2, <2>3, SizesAssumption DEF AttachClaim
<1>2. ASSUME NEW s \in Sinks, AttachRejected(s) \/ AttachCommit(s)
      PROVE  /\ reserved' = Cardinality(Attaching')
             /\ reserved' = reserved - 1
  <2>1. Attaching' = Attaching \ {s} /\ s \in Attaching
    BY <1>2 DEF AttachRejected, AttachCommit, Attaching, TypeOK
  <2>2. Cardinality(Attaching') = Cardinality(Attaching) - 1
    BY <1>0, <2>1, FS_RemoveElement
  <2>3. Cardinality(Attaching') \in Nat
    BY <1>0, <2>1, FS_RemoveElement, FS_CardinalityType
  <2> QED
    BY <1>0, <1>2, <2>2, <2>3 DEF AttachRejected, AttachCommit, Dec
<1>3. ASSUME NEW s \in Sinks, AttachRejected(s) PROVE Goal
  <2>1. linked' = linked
    BY <1>3 DEF AttachRejected
  <2>2. reserved' = Cardinality(Attaching') /\ reserved' = reserved - 1
    BY <1>2, <1>3
  <2>3. Cardinality(linked) + (reserved - 1) <= MaxSinks
    BY <1>0, SizesAssumption
  <2> QED
    BY <2>1, <2>2, <2>3
<1>4. ASSUME NEW s \in Sinks, AttachCommit(s) PROVE Goal
  <2>1. linked' = linked \cup {s}
    BY <1>4 DEF AttachCommit
  <2>2. s \notin linked
    BY <1>4 DEF AttachCommit, CallInv, Calls
  <2>3. Cardinality(linked') = Cardinality(linked) + 1
    BY <1>0, <2>1, <2>2, FS_AddElement
  <2>4. reserved' = Cardinality(Attaching') /\ reserved' = reserved - 1
    BY <1>2, <1>4
  <2>5. (Cardinality(linked) + 1) + (reserved - 1) <= MaxSinks
    BY <1>0, SizesAssumption
  <2> QED
    BY <2>3, <2>4, <2>5
<1>5. ASSUME NEW s \in Sinks, DetachUnlink(s) PROVE Goal
  <2>1. Attaching' = Attaching /\ reserved' = reserved
    BY <1>5 DEF DetachUnlink, Attaching, TypeOK
  <2>2. linked' = linked \ {s}
    BY <1>5 DEF DetachUnlink
  <2>3. s \in linked
    BY <1>5 DEF DetachUnlink, CallInv, Calls
  <2>4. Cardinality(linked') = Cardinality(linked) - 1
    BY <1>0, <2>2, <2>3, FS_RemoveElement
  <2>5. (Cardinality(linked) - 1) + reserved <= MaxSinks
    BY <1>0, SizesAssumption
  <2> QED
    BY <1>0, <2>1, <2>4, <2>5
<1>6. ASSUME linked' = linked, reserved' = reserved,
             \A s \in Sinks : state'[s] = "ATTACHING" <=> state[s] = "ATTACHING"
      PROVE  Goal
  <2>1. Attaching' = Attaching
    BY <1>6 DEF Attaching
  <2> QED
    BY <1>0, <1>6, <2>1
<1>7. ASSUME NEW s \in Sinks, NEW i \in Slots, Put(s, i) PROVE Goal
  BY <1>6, <1>7 DEF Put, Released, TypeOK
<1>8. ASSUME NEW s \in Sinks, Epilogue(s) PROVE Goal
  BY <1>6, <1>8 DEF Epilogue, Released, TypeOK
<1>9. ASSUME NEW s \in Sinks, DetachFinish(s) PROVE Goal
  BY <1>6, <1>9 DEF DetachFinish, Released, TypeOK
<1>10. CASE Reinit \/ Acquire \/ UNCHANGED vars
  BY <1>6, <1>10 DEF Reinit, Acquire, vars, sinkVars
<1>11. ASSUME NEW i \in Slots, Publish(i) PROVE Goal
  BY <1>6, <1>11 DEF Publish
<1>12. ASSUME NEW s \in Sinks, NEW i \in Slots, WorkerGet(s, i) PROVE Goal
  BY <1>6, <1>12 DEF WorkerGet
<1>13. ASSUME NEW s \in Sinks, AsyncConsume(s) \/ HandConsume(s) PROVE Goal
  BY <1>6, <1>13 DEF AsyncConsume, HandConsume, sinkVars
<1>14. ASSUME NEW s \in Sinks, SinkStep(s) PROVE Goal
  <2>1. SyncConsume(s) => published \in Slots /\ Put(s, published)
    BY DEF SyncConsume, CallInv, Calls
  <2> HIDE DEF Goal
  <2> QED
    BY <1>7, <1>8, <1>9, <1>13, <1>14, <2>1
    DEF SinkStep, WorkerPut, PublishEpilogue, HandEpilogue
<1> HIDE DEF Goal
<1>15. ASSUME NEW s \in Sinks,
              AttachClaim(s) \/ AttachRejected(s) \/ AttachCommit(s)
              \/ DetachUnlink(s) \/ SinkStep(s)
       PROVE  Goal
  BY <1>1, <1>3, <1>4, <1>5, <1>14, <1>15
<1> QED
  BY <1>10, <1>11, <1>12, <1>15 DEF Next

(* Every step keeps the links, the states and the reservations in          *)
(* agreement.                                                              *)
LEMMA StepRegistry ==
  TypeOK /\ TypeOK' /\ CallInv /\ RegistryInv /\ [Next]_vars => RegistryInv'
  BY StepDrains, StepRoom DEF RegistryInv

-----------------------------------------------------------------------------
(* SlotInv: a slot's reference count is exact, and the slot the camera     *)
(* fills has none                                                          *)

PinnersOf(i) == [s \in Sinks |-> PinsOn(s, i)]

SlotCount(i) ==
  /\ Counts(refcount[i], Sinks, PinnersOf(i))
  /\ slotState[i] = "FILLING" => refcount[i] = 0 /\ latest # i

SlotInv == \A i \in Slots : SlotCount(i)

(* The slots of a fresh pipeline are free.                                 *)
LEMMA InitSlots == Init => SlotInv
<1> SUFFICES ASSUME Init, NEW i \in Slots PROVE SlotCount(i)
  BY DEF SlotInv
<1>1. i # NoSlot
  BY SizesAssumption DEF Slots, NoSlot
<1>2. \A s \in Sinks : PinnersOf(i)[s] = 0
  BY <1>1 DEF Init, PinnersOf, PinsOn, One
<1>3. Counts(0, Sinks, PinnersOf(i))
  BY <1>2, CountsZero
<1> QED
  BY <1>3 DEF Init, SlotCount

(* A slot whose refcount is zero has no reader.                            *)
LEMMA UncountedSlotUnpinned ==
  ASSUME TypeOK, SlotInv, NEW i \in Slots, refcount[i] = 0
  PROVE  \A s \in Sinks : PinsOn(s, i) = 0
<1>1. \A s \in Sinks : PinnersOf(i)[s] \in Nat
  BY PinsOnType DEF PinnersOf
<1>2. \A s \in Sinks : PinnersOf(i)[s] = 0
  BY <1>1, CountsZero DEF SlotInv, SlotCount
<1> QED
  BY <1>2 DEF PinnersOf

(* Under the contract of frame_pipeline_init() no sink has a pin.          *)
LEMMA QuiescentUnpinned ==
  ASSUME TypeOK, PinInv, Quiescent, NEW s \in Sinks, NEW i \in Slots
  PROVE  PinsOn(s, i) = 0
  BY PinnedInSession DEF Quiescent

(* Every step keeps slot states, refcounts and `latest` in agreement with  *)
(* the pins.                                                               *)
LEMMA StepSlots ==
  TypeOK /\ TypeOK' /\ CallInv /\ PinInv /\ SlotInv /\ [Next]_vars => SlotInv'
<1> SUFFICES ASSUME TypeOK, TypeOK', CallInv, PinInv, SlotInv, [Next]_vars,
                    NEW j \in Slots
             PROVE  SlotCount(j)'
  BY DEF SlotInv
<1> DEFINE f == [t \in Sinks |-> PinsOn(t, j)]
           g == [t \in Sinks |-> PinsOn(t, j)']
<1>0. /\ Counts(refcount[j], Sinks, f)
      /\ slotState[j] = "FILLING" => refcount[j] = 0 /\ latest # j
      /\ refcount[j] \in Nat
  BY DEF SlotInv, SlotCount, PinnersOf, TypeOK
<1>t. /\ \A t \in Sinks : f[t] \in Nat /\ f[t] = PinsOn(t, j)
      /\ \A t \in Sinks : g[t] \in Nat /\ g[t] = PinsOn(t, j)'
  <2>1. \A t \in Sinks : PinsOn(t, j) \in Nat
    BY PinsOnType
  <2>2. \A t \in Sinks : PinsOn(t, j)' \in Nat
    BY DEF PinsOn, TypeOK, One
  <2> QED
    BY <2>1, <2>2
<1> SUFFICES /\ Counts(refcount'[j], Sinks, g)
             /\ slotState'[j] = "FILLING" => refcount'[j] = 0 /\ latest' # j
  BY DEF SlotCount, PinnersOf
<1> HIDE DEF f, g
<1>n. ASSUME refcount'[j] = refcount[j], \A t \in Sinks : g[t] = f[t]
      PROVE  Counts(refcount'[j], Sinks, g)
  BY <1>0, <1>n, CountsSame
<1> DEFINE Goal ==
      /\ Counts(refcount'[j], Sinks, g)
      /\ slotState'[j] = "FILLING" => refcount'[j] = 0 /\ latest' # j
<1> SUFFICES Goal
  OBVIOUS
(* A slot a pin is taken off was counted, so it is not being filled. *)
<1>d. ASSUME NEW s \in Sinks, f[s] # 0, refcount'[j] = Dec(refcount[j]),
             slotState'[j] = slotState[j],
             \A t \in Sinks : f[t] = g[t] + One(t = s)
      PROVE  Goal
  <2>1. refcount[j] \in Nat \ {0} /\ Counts(refcount[j] - 1, Sinks, g)
    BY <1>0, <1>t, <1>d, CountsDown
  <2> QED
    BY <1>0, <1>d, <2>1 DEF Dec
<1>1. ASSUME NEW i \in Slots, Publish(i) PROVE Goal
  <2> DEFINE A == DeliverTo \cup Coalesced
             R == Replaced(j)
             h == [t \in Sinks |-> f[t] - One(t \in R)]
  <2>1. \A t \in Sinks : g[t] + One(t \in R) = f[t] + One(j = i /\ t \in A)
    BY <1>1, <1>t, PublishEffect
  <2>2. A \subseteq Sinks /\ R \subseteq Sinks
    BY DEF DeliverTo, Coalesced, Replaced, TypeOK
  <2>3. /\ IsFiniteSet(A) /\ Cardinality(A) \in Nat
        /\ IsFiniteSet(R) /\ Cardinality(R) \in Nat
    BY <2>2, SinkSetFinite
  <2>4. \A t \in R : f[t] # 0
    <3>1. ASSUME NEW t \in R PROVE f[t] # 0
      <4>1. t \in Sinks /\ pending[t] = j
        BY <2>2 DEF Replaced
      <4> QED
        BY <1>t, <4>1, TransitIsPinned, HeldNat
    <3> QED
      BY <3>1
  <2>5. \A t \in Sinks : h[t] \in Nat /\ f[t] = h[t] + One(t \in R)
    BY <1>t, <2>4 DEF One
  <2>6. \A t \in Sinks : g[t] = h[t] + One(j = i /\ t \in A)
    BY <1>t, <2>1, <2>5 DEF One
  <2> HIDE DEF A, R, h
  <2>7. /\ IsFiniteSet(Tokens(Sinks, h))
        /\ refcount[j] = Cardinality(Tokens(Sinks, h)) + Cardinality(R)
    BY <1>0, <2>2, <2>3, <2>5, TokensPlus DEF Counts
  <2>8. Cardinality(Tokens(Sinks, h)) \in Nat
    BY <2>7, FS_CardinalityType
  <2>9. refcount'[j] = (refcount[j] - Cardinality(R))
                         + (IF j = i THEN Cardinality(A) ELSE 0)
    <3>1. refcount'[j] = PublishedRefcount(i)[j]
      BY <1>1 DEF Publish
    <3>2. Cardinality(R) <= refcount[j]
      BY <2>3, <2>7, <2>8
    <3> QED
      BY <3>1, <3>2 DEF PublishedRefcount, A, R
  <2>10. CASE j = i
    <3>1. \A t \in Sinks : g[t] = h[t] + One(t \in A)
      BY <2>6, <2>10
    <3>2. /\ IsFiniteSet(Tokens(Sinks, g))
          /\ Cardinality(Tokens(Sinks, g))
               = Cardinality(Tokens(Sinks, h)) + Cardinality(A)
      BY <2>2, <2>3, <2>5, <2>7, <3>1, TokensPlus
    <3>3. slotState'[j] = "FREE"
      BY <1>1, <2>10 DEF Publish, TypeOK
    <3> QED
      BY <2>3, <2>7, <2>8, <2>9, <2>10, <3>2, <3>3 DEF Counts
  <2>11. CASE j # i
    <3>1. \A t \in Sinks : g[t] = h[t]
      BY <2>5, <2>6, <2>11 DEF One
    <3>2. Tokens(Sinks, g) = Tokens(Sinks, h)
      BY <3>1 DEF Tokens
    <3>3. refcount'[j] = Cardinality(Tokens(Sinks, h))
      BY <2>3, <2>7, <2>8, <2>9, <2>11
    <3>4. slotState'[j] = slotState[j] /\ latest' = i
      BY <1>1, <2>11 DEF Publish, TypeOK
    <3>5. slotState[j] = "FILLING" => refcount'[j] = 0
      BY <1>0, <2>3, <2>7, <2>8, <3>3
    <3> QED
      BY <2>7, <2>11, <3>2, <3>3, <3>4, <3>5 DEF Counts
  <2> QED
    BY <2>10, <2>11
<1>2. ASSUME NEW s \in Sinks, NEW i \in Slots,
             \/ WorkerPut(s, i)
             \/ SyncConsume(s) /\ i = published
      PROVE  Goal
  <2>1. Put(s, i) /\ PinsOn(s, i) # 0
    BY <1>2, TransitIsPinned, HeldNat DEF WorkerPut, SyncConsume
  <2>2. \A t \in Sinks : f[t] = g[t] + One(t = s /\ j = i)
    BY <1>2, <1>t, WorkerPutEffect, SyncConsumeEffect
  <2>3. /\ refcount'[j] = IF j = i THEN Dec(refcount[j]) ELSE refcount[j]
        /\ UNCHANGED <<slotState, latest>>
    BY <2>1 DEF Put, TypeOK
  <2>4. CASE j = i
    <3>1. \A t \in Sinks : f[t] = g[t] + One(t = s)
      BY <2>2, <2>4
    <3> QED
      BY <1>d, <1>t, <2>1, <2>3, <2>4, <3>1
  <2>5. CASE j # i
    <3>1. \A t \in Sinks : g[t] = f[t]
      BY <1>t, <2>2, <2>5 DEF One
    <3> QED
      BY <1>0, <1>n, <2>3, <2>5, <3>1
  <2> QED
    BY <2>4, <2>5
<1>3. ASSUME NEW s \in Sinks, SyncConsume(s) PROVE Goal
  <2>1. published \in Slots
    BY <1>3 DEF SyncConsume, CallInv, Calls
  <2> HIDE DEF Goal
  <2> QED
    BY <1>2, <1>3, <2>1
<1>4. ASSUME NEW s \in Sinks, NEW i \in Slots, WorkerGet(s, i) PROVE Goal
  <2>1. \A t \in Sinks : g[t] = f[t] + One(t = s /\ j = i)
    BY <1>4, <1>t, WorkerGetEffect
  <2>2. /\ refcount'[j] = IF j = i THEN refcount[j] + 1 ELSE refcount[j]
        /\ UNCHANGED <<slotState, latest>>
    BY <1>4 DEF WorkerGet, TypeOK
  <2>3. CASE j = i
    <3>1. \A t \in Sinks : g[t] = f[t] + One(t = s)
      BY <2>1, <2>3
    <3>2. Counts(refcount[j] + 1, Sinks, g)
      BY <1>0, <1>t, <3>1, CountsUp
    <3>3. PinsOn(s, j) # 0
      BY <1>4, <2>3, TransitIsPinned DEF WorkerGet
    <3>4. refcount[j] # 0
      BY <3>3, UncountedSlotUnpinned
    <3> QED
      BY <1>0, <2>2, <2>3, <3>2, <3>4
  <2>4. CASE j # i
    <3>1. \A t \in Sinks : g[t] = f[t]
      BY <1>t, <2>1, <2>4 DEF One
    <3> QED
      BY <1>0, <1>n, <2>2, <2>4, <3>1
  <2> QED
    BY <2>3, <2>4
<1>5. ASSUME NEW s \in Sinks, DetachUnlink(s) PROVE Goal
  <2>1. \A t \in Sinks : f[t] = g[t] + One(t = s /\ j = pending[s])
    BY <1>5, <1>t, DetachEffect
  <2>2. /\ refcount'[j] = IF j = pending[s]
                          THEN Dec(refcount[j]) ELSE refcount[j]
        /\ UNCHANGED <<slotState, latest>>
    BY <1>5 DEF DetachUnlink, DropPending
  <2>3. CASE j = pending[s]
    <3>1. \A t \in Sinks : f[t] = g[t] + One(t = s)
      BY <2>1, <2>3
    <3>2. f[s] # 0
      BY <1>t, <2>3, HeldNat, TransitIsPinned
    <3> QED
      BY <1>d, <2>2, <2>3, <3>1, <3>2
  <2>4. CASE j # pending[s]
    <3>1. \A t \in Sinks : g[t] = f[t]
      BY <1>t, <2>1, <2>4 DEF One
    <3> QED
      BY <1>0, <1>n, <2>2, <2>4, <3>1
  <2> QED
    BY <2>3, <2>4
<1>6. CASE Reinit
  <2>1. \A t \in Sinks : g[t] = 0
    BY <1>6, <1>t, OtherEffect, QuiescentUnpinned DEF Reinit
  <2>2. Counts(0, Sinks, g)
    BY <1>t, <2>1, CountsZero
  <2> QED
    BY <1>6, <2>2 DEF Reinit
<1>7. CASE Acquire
  <2>1. \A t \in Sinks : g[t] = f[t]
    BY <1>7, <1>t, OtherEffect
  <2>2. refcount' = refcount /\ latest' = latest
    BY <1>7 DEF Acquire
  <2>3. slotState'[j] = "FILLING" =>
          slotState[j] = "FILLING" \/ (refcount[j] = 0 /\ latest # j)
    BY <1>7 DEF Acquire, Acquirable, TypeOK
  <2> QED
    BY <1>0, <1>n, <2>1, <2>2, <2>3
<1>8. ASSUME NEW s \in Sinks,
             \/ AsyncConsume(s) \/ HandConsume(s)
             \/ PublishEpilogue(s) \/ HandEpilogue(s)
             \/ AttachClaim(s) \/ AttachRejected(s) \/ AttachCommit(s)
             \/ DetachFinish(s)
      PROVE  Goal
  <2>1. \A t \in Sinks : g[t] = f[t]
    BY <1>8, <1>t, OtherEffect
  <2>2. UNCHANGED <<refcount, slotState, latest>>
    BY <1>8
    DEF AsyncConsume, HandConsume, PublishEpilogue, HandEpilogue, Epilogue,
        AttachClaim, AttachRejected, AttachCommit, DetachFinish, ringVars
  <2> QED
    BY <1>0, <1>n, <2>1, <2>2
<1>9. CASE UNCHANGED vars
  <2>1. \A t \in Sinks : g[t] = f[t]
    BY <1>9, <1>t, OtherEffect
  <2>2. UNCHANGED <<refcount, slotState, latest>>
    BY <1>9 DEF vars, ringVars
  <2> QED
    BY <1>0, <1>n, <2>1, <2>2
<1> HIDE DEF Goal
<1>10. ASSUME NEW s \in Sinks, SinkStep(s) PROVE Goal
  BY <1>2, <1>3, <1>8, <1>10 DEF SinkStep
<1> QED
  BY <1>1, <1>4, <1>5, <1>6, <1>7, <1>8, <1>9, <1>10 DEF Next

-----------------------------------------------------------------------------
(* DeliveryInv: what a session offered, delivered, dropped and still owes; *)
(* and that a sink without second pins holds one frame while it is busy    *)

Accounts(s) ==
  state[s] = "ATTACHED" =>
    offered[s] = delivered[s] + dropped[s] + callbacks[s]
                 + One(pending[s] # NoSlot)

OneFrame(s) ==
  s \notin Requeuers => pins[s] = One(busy[s]) + One(pending[s] # NoSlot)

DeliveryInv == \A s \in Sinks : Accounts(s) /\ OneFrame(s)

(* The session counters of a fresh pipeline are zero.                      *)
LEMMA InitDelivery == Init => DeliveryInv
  BY DEF Init, DeliveryInv, Accounts, OneFrame, One

(* Every frame a session is offered is delivered, dropped or pending:      *)
(* publish(), put()'s hand-off and detach count each once.                 *)
LEMMA StepDelivery ==
  TypeOK /\ CallInv /\ PinInv /\ DeliveryInv /\ [Next]_vars => DeliveryInv'
<1> SUFFICES ASSUME TypeOK, CallInv, PinInv, DeliveryInv, [Next]_vars,
                    NEW t \in Sinks
             PROVE  Accounts(t)' /\ OneFrame(t)'
  BY DEF DeliveryInv
<1> DEFINE Goal == Accounts(t)' /\ OneFrame(t)'
<1> SUFFICES Goal
  OBVIOUS
<1>0. Accounts(t) /\ OneFrame(t) /\ Calls(t)
  BY DEF DeliveryInv, CallInv
<1> USE DEF Accounts, OneFrame
<1>1. ASSUME NEW i \in Slots, Publish(i) PROVE Goal
  <2>1. /\ pins'[t] = PublishedPins(t)
        /\ dropped'[t] = PublishedDropped(t)
        /\ pending'[t] = IF t \in Coalesced THEN i ELSE pending[t]
        /\ busy'[t] <=> (busy[t] \/ t \in DeliverTo)
        /\ callbacks'[t] = IF t \in DeliverTo
                           THEN callbacks[t] + 1 ELSE callbacks[t]
        /\ offered'[t] = IF t \in linked THEN offered[t] + 1 ELSE offered[t]
        /\ UNCHANGED <<state, delivered>>
    BY <1>1 DEF Publish
  <2>2. /\ t \in DeliverTo <=> t \in linked /\ ~busy[t]
        /\ t \in Coalesced <=> t \in linked /\ busy[t] /\ t \in LatestSinks
        /\ t \in Skipped <=> t \in linked /\ busy[t] /\ t \notin LatestSinks
    BY DEF DeliverTo, Coalesced, Skipped, TypeOK
  <2>3. /\ t \in linked <=> state[t] = "ATTACHED"
        /\ ~busy[t] => pending[t] = NoSlot
        /\ i # NoSlot
    BY <1>0, HeldNat DEF Calls
  <2>4. /\ pins[t] \in Nat /\ dropped[t] \in Nat /\ callbacks[t] \in Nat
        /\ delivered[t] \in Nat /\ offered[t] \in Nat
    BY DEF TypeOK
  <2>5. CASE t \in DeliverTo
    BY <1>0, <2>1, <2>2, <2>3, <2>4, <2>5
    DEF PublishedPins, PublishedDropped, One
  <2>6. CASE t \in Coalesced
    <3>1. /\ busy[t] /\ busy'[t] /\ t \notin DeliverTo /\ t \notin Skipped
          /\ pending'[t] # NoSlot
      BY <2>1, <2>2, <2>3, <2>6
    <3>2. pending[t] # NoSlot => PinsOn(t, pending[t]) # 0
      BY TransitIsPinned
    <3>3. pending[t] # NoSlot => pins[t] # 0
      BY <3>2, PinnedInSession DEF TypeOK
    <3> QED
      BY <1>0, <2>1, <2>2, <2>3, <2>4, <2>6, <3>1, <3>3
      DEF PublishedPins, PublishedDropped, Dec, One
  <2>7. CASE t \in Skipped
    BY <1>0, <2>1, <2>2, <2>3, <2>4, <2>7
    DEF PublishedPins, PublishedDropped, One
  <2>8. CASE t \notin linked
    BY <1>0, <2>1, <2>2, <2>3, <2>4, <2>8
    DEF PublishedPins, PublishedDropped, One
  <2> QED
    BY <2>2, <2>5, <2>6, <2>7, <2>8
<1>2. ASSUME NEW s \in Sinks, NEW i \in Slots, Put(s, i), PinsOn(s, i) # 0
      PROVE  Goal
  <2>1. CASE t # s
    BY <1>0, <1>2, <2>1 DEF Put, TypeOK
  <2>2. CASE t = s
    <3>1. pins[t] \in Nat \ {0} /\ callbacks[t] \in Nat
      BY <1>2, <2>2, PinnedInSession DEF TypeOK
    <3>2. /\ pins'[t] = pins[t] - 1
          /\ pending'[t] = NoSlot
          /\ callbacks'[t] = callbacks[t] + One(pending[t] # NoSlot)
          /\ UNCHANGED <<offered, delivered, dropped>>
      BY <1>2, <2>2, <3>1 DEF Put, Dec, CallbacksAfterPut, One, TypeOK
    <3>b. busy'[t] = (pending[t] # NoSlot)
      BY <1>2, <2>2 DEF Put, BusyAfterPut, TypeOK
    <3>3. state'[t] = "ATTACHED" => state[t] = "ATTACHED"
      BY <1>2, <2>2 DEF Put, Released, TypeOK
    <3>4. /\ delivered[t] \in Nat /\ dropped[t] \in Nat
          /\ offered'[t] = offered[t] /\ delivered'[t] = delivered[t]
          /\ dropped'[t] = dropped[t]
      BY <3>2 DEF TypeOK
    <3>5. Accounts(t)'
      BY <1>0, <3>1, <3>2, <3>3, <3>4 DEF One
    <3>6. OneFrame(t)'
      <4> SUFFICES ASSUME t \notin Requeuers
                   PROVE  pins'[t] = One(busy'[t])
        BY <3>2 DEF One
      <4>1. pins[t] = One(busy[t]) + One(pending[t] # NoSlot)
        BY <1>0
      <4>2. CASE pending[t] # NoSlot
        <5>1. pins[t] = 2
          BY <1>0, <4>1, <4>2 DEF Calls, One
        <5>2. busy'[t]
          BY <3>b, <4>2
        <5> QED
          BY <3>2, <5>1, <5>2 DEF One
      <4>3. CASE pending[t] = NoSlot
        <5>1. pins[t] = 1
          BY <3>1, <4>1, <4>3 DEF One
        <5>2. ~busy'[t]
          BY <3>b, <4>3
        <5> QED
          BY <3>2, <5>1, <5>2 DEF One
      <4> QED
        BY <4>2, <4>3
    <3> QED
      BY <3>5, <3>6
  <2> QED
    BY <2>1, <2>2
<1>3. ASSUME NEW s \in Sinks, PublishEpilogue(s) \/ HandEpilogue(s)
      PROVE  Goal
  <2>1. Epilogue(s)
    BY <1>3 DEF PublishEpilogue, HandEpilogue
  <2>2. OneFrame(t)'
    BY <1>0, <2>1 DEF Epilogue
  <2>3. Accounts(t)'
    BY <1>0, <2>1 DEF Epilogue, Released, TypeOK, One
  <2> QED
    BY <2>2, <2>3
<1>4. ASSUME NEW s \in Sinks, AttachClaim(s) \/ AttachRejected(s)
      PROVE  Goal
  BY <1>0, <1>4 DEF AttachClaim, AttachRejected, TypeOK
<1>5. ASSUME NEW s \in Sinks, AttachCommit(s) PROVE Goal
  BY <1>0, <1>5 DEF AttachCommit, TypeOK, One
<1>6. ASSUME NEW s \in Sinks, DetachUnlink(s) PROVE Goal
  <2>1. Accounts(t)'
    BY <1>0, <1>6 DEF DetachUnlink, DropPending, TypeOK
  <2>2. OneFrame(t)'
    <3>1. pending[s] # NoSlot => pins[s] \in Nat \ {0}
      BY TransitIsPinned, PinnedInSession DEF TypeOK
    <3> QED
      BY <1>0, <1>6, <3>1 DEF DetachUnlink, DropPending, Dec, One, TypeOK
  <2> QED
    BY <2>1, <2>2
<1>7. ASSUME NEW s \in Sinks, DetachFinish(s) PROVE Goal
  BY <1>0, <1>7 DEF DetachFinish, Released, TypeOK
<1>8. ASSUME NEW s \in Sinks, NEW i \in Slots, WorkerGet(s, i) PROVE Goal
  BY <1>0, <1>8 DEF WorkerGet, TypeOK
<1>9. ASSUME NEW s \in Sinks, AsyncConsume(s) \/ HandConsume(s) PROVE Goal
  BY <1>0, <1>9 DEF AsyncConsume, HandConsume, sinkVars
<1>10. CASE Reinit \/ Acquire \/ UNCHANGED vars
  BY <1>0, <1>10 DEF Reinit, Acquire, vars, sinkVars
<1>11. ASSUME NEW s \in Sinks, SyncConsume(s) PROVE Goal
  <2>1. published \in Slots /\ Put(s, published) /\ PinsOn(s, published) # 0
    BY <1>11, TransitIsPinned DEF SyncConsume, CallInv, Calls
  <2> QED
    BY <1>2, <2>1
<1>12. ASSUME NEW s \in Sinks, NEW i \in Slots, WorkerPut(s, i) PROVE Goal
  BY <1>2, <1>12, TransitIsPinned DEF WorkerPut
<1> HIDE DEF Goal
<1>13. ASSUME NEW s \in Sinks, SinkStep(s) PROVE Goal
  BY <1>3, <1>7, <1>9, <1>11, <1>12, <1>13 DEF SinkStep
<1> QED
  BY <1>1, <1>4, <1>5, <1>6, <1>8, <1>10, <1>13 DEF Next

-----------------------------------------------------------------------------
(* The inductive invariant and what it implies *)

Inductive ==
  /\ TypeOK
  /\ CallInv
  /\ PinInv
  /\ RegistryInv
  /\ SlotInv
  /\ DeliveryInv

(* Every reachable state satisfies the inductive invariant: the locked     *)
(* sections of frame_pipeline.c preserve it in any order.                  *)
THEOREM Invariance == Spec => []Inductive
<1>1. Init => Inductive
  BY InitTypes, InitCalls, InitPins, InitRegistry, InitSlots, InitDelivery
  DEF Inductive
<1>2. Inductive /\ [Next]_vars => Inductive'
  BY StepTypes, StepCalls, StepPins, StepRegistry, StepSlots, StepDelivery
  DEF Inductive
<1> QED
  BY <1>1, <1>2, PTL DEF Spec

(* Types, for any sinks, ring and registry: in particular the callback     *)
(* count, which the epilogues decrement without a guard, never goes        *)
(* negative.                                                               *)
THEOREM TypeCorrect == Spec => []TypeOK
<1>1. Inductive => TypeOK
  BY DEF Inductive
<1> QED
  BY <1>1, Invariance, PTL

(* No interleaving makes sink_consistent_locked() answer ERR_STATE. *)
LEMMA ConsistentFromInductive == Inductive => BookkeepingConsistent
<1> SUFFICES ASSUME Inductive, NEW s \in Sinks PROVE SinkConsistent(s)
  BY DEF BookkeepingConsistent
<1>1. /\ TypeOK /\ RegistryInv /\ Calls(s) /\ PinCount(s) /\ Drains(s)
  BY DEF Inductive, CallInv, PinInv, RegistryInv
<1>2. /\ Cardinality(linked) \in Nat
      /\ IsFiniteSet(Attaching) /\ Cardinality(Attaching) \in Nat
  BY <1>1, SinkSetFinite DEF TypeOK, Attaching
<1>3. state[s] = "ATTACHING" => reserved # 0
  <2>1. state[s] = "ATTACHING" => Attaching # {}
    BY DEF Attaching
  <2> QED
    BY <1>1, <1>2, <2>1, FS_EmptySet DEF RegistryInv
<1>4. /\ reserved <= MaxSinks
      /\ Links + reserved <= MaxSinks
  BY <1>1, <1>2, SizesAssumption DEF RegistryInv, TypeOK, Links
<1>5. callbacks[s] \in Nat /\ pins[s] \in Nat
  BY <1>1 DEF TypeOK
<1> QED
  BY <1>1, <1>3, <1>4, <1>5 DEF SinkConsistent, Calls, PinCount, Drains

(* sink_consistent_locked() never finds a sink corrupt: attach, detach and *)
(* the drain check never answer ERR_STATE, whatever calls interleave.      *)
THEOREM BookkeepingHolds == Spec => []BookkeepingConsistent
  BY Invariance, ConsistentFromInductive, PTL

(* A drain check that answers 0 means that no thread is in the sink. *)
LEMMA ZeroFromInductive == Inductive => ZeroMeansOut
<1> SUFFICES ASSUME Inductive, NEW s \in Sinks,
                    \/ s \notin linked /\ SinkPins(s) = 0
                    \/ state[s] = "ATTACHING"
             PROVE  OutOfSink(s)
  BY DEF ZeroMeansOut
<1>1. TypeOK /\ CallInv /\ PinInv /\ Calls(s) /\ PinCount(s)
  BY DEF Inductive, CallInv, PinInv
<1>2. pins[s] = 0 /\ callbacks[s] = 0 /\ s \notin linked
  <2>1. CASE s \notin linked /\ SinkPins(s) = 0
    BY <1>1, <2>1
    DEF SinkPins, ERR_STATE, ERR_TRANSITION, ERR_QUIESCE, TypeOK
  <2>2. CASE state[s] = "ATTACHING"
    BY <1>1, <2>2 DEF Calls, PinCount
  <2> QED
    BY <2>1, <2>2
<1>3. prodCall[s] = "none" /\ handCall[s] = "none" /\ pending[s] = NoSlot
  BY <1>1, <1>2 DEF Calls, One
<1>4. \A i \in Slots : held[s][i] = 0
  <2>1. \A i \in Slots : PinsOn(s, i) = 0
    BY <1>1, <1>2, PinnedInSession
  <2>2. \A i \in Slots : ~(held[s][i] > 0)
    BY <1>1, <2>1, TransitIsPinned
  <2> QED
    BY <1>1, <2>2, HeldNat
<1> QED
  BY <1>3, <1>4 DEF OutOfSink

(* frame_pipeline_sink_pins() answers 0 for a detached sink only when no   *)
(* pin, no pending frame and no consume() of it is left: storage may be    *)
(* reused.                                                                 *)
THEOREM DrainCheckSound == Spec => []ZeroMeansOut
  BY Invariance, ZeroFromInductive, PTL

(* publish() and put()'s hand-off never run a sink's consume() at once. *)
LEMMA OneCallbackFromInductive == Inductive => OneCallbackPerSink
  BY DEF Inductive, CallInv, Calls, OneCallbackPerSink, One

(* A sink's consume() is never entered twice at once, although publish()   *)
(* and the hand-off of put() both call it with the lock released.          *)
THEOREM CallbacksExclusive == Spec => []OneCallbackPerSink
  BY Invariance, OneCallbackFromInductive, PTL

(* The reservation keeps overlapping attaches within the registry.  *)
LEMMA CapacityFromInductive == Inductive => CapacityRespected
  BY DEF Inductive, RegistryInv, Attaching, CapacityRespected

(* The registry and the attaches in flight never outgrow                   *)
(* FRAME_PIPELINE_MAX_SINKS: _reserved closes the window in which open()   *)
(* runs unlocked.                                                          *)
THEOREM CapacityHolds == Spec => []CapacityRespected
  BY Invariance, CapacityFromInductive, PTL

(* The camera's DMA never fills a slot somebody reads. *)
LEMMA FillingFromInductive == Inductive => FillingIsPrivate
  BY UncountedSlotUnpinned DEF Inductive, SlotInv, SlotCount, FillingIsPrivate

(* A slot the producer is filling has no reader and is not `latest`:       *)
(* frame_pipeline_acquire() never hands the DMA a slot somebody reads.     *)
THEOREM FillingPrivate == Spec => []FillingIsPrivate
  BY Invariance, FillingFromInductive, PTL

(* The session counters account for every frame offered. *)
LEMMA AccountingFromInductive == Inductive => DeliveryAccounting
  BY DEF Inductive, DeliveryInv, Accounts, DeliveryAccounting

(* delivered, dropped and the pending frame account for every frame        *)
(* published during a sink's session.                                      *)
THEOREM AccountingHolds == Spec => []DeliveryAccounting
  BY Invariance, AccountingFromInductive, PTL

(* No element is counted more often than the whole. *)
LEMMA CountBound ==
  ASSUME NEW D, NEW f, NEW n, Counts(n, D, f), \A y \in D : f[y] \in Nat,
         NEW x \in D
  PROVE  f[x] <= n
<1> DEFINE T == {<<x, k>> : k \in 1 .. f[x]}
           b == [k \in 1 .. f[x] |-> <<x, k>>]
<1>1. IsFiniteSet(1 .. f[x]) /\ Cardinality(1 .. f[x]) = f[x]
  BY FS_Interval
<1>2. b \in Bijection(1 .. f[x], T)
  BY DEF Bijection, Injection, Surjection, IsInjective
<1>3. Cardinality(T) = f[x]
  BY <1>1, <1>2, FS_Bijection DEF ExistsBijection
<1>4. T \subseteq Tokens(D, f)
  BY DEF Tokens
<1>5. Cardinality(T) <= Cardinality(Tokens(D, f))
  BY <1>4, FS_Subset DEF Counts
<1> QED
  BY <1>3, <1>5 DEF Counts

(* A count is the size of the finite set the checked invariants write it   *)
(* as.                                                                     *)
LEMMA CountedUpTo ==
  ASSUME NEW D, NEW f, NEW n \in Nat, Counts(n, D, f), \A y \in D : f[y] \in Nat
  PROVE  n = Cardinality({t \in D \X (1 .. n + 1) : t[2] <= f[t[1]]})
<1>1. \A y \in D : f[y] <= n
  BY CountBound
<1>2. {t \in D \X (1 .. n + 1) : t[2] <= f[t[1]]} = Tokens(D, f)
  BY <1>1 DEF Tokens
<1> QED
  BY <1>2 DEF Counts

(* Every pin is counted once on its slot and once on its sink. *)
LEMMA RefcountFromInductive == Inductive => RefcountExact
<1> SUFFICES ASSUME Inductive PROVE RefcountExact
  OBVIOUS
<1>1. TypeOK /\ PinInv /\ SlotInv
  BY DEF Inductive
<1>2. ASSUME NEW i \in Slots
      PROVE  refcount[i] = Cardinality(
               {t \in Sinks \X (1 .. refcount[i] + 1) : t[2] <= PinsOn(t[1], i)})
  <2>1. Counts(refcount[i], Sinks, PinnersOf(i)) /\ refcount[i] \in Nat
    BY <1>1 DEF SlotInv, SlotCount, TypeOK
  <2>2. \A s \in Sinks : PinnersOf(i)[s] \in Nat
    BY <1>1, PinsOnType DEF PinnersOf
  <2>3. refcount[i] = Cardinality(
          {t \in Sinks \X (1 .. refcount[i] + 1) : t[2] <= PinnersOf(i)[t[1]]})
    BY <2>1, <2>2, CountedUpTo
  <2> QED
    BY <2>3 DEF PinnersOf
<1>3. ASSUME NEW s \in Sinks
      PROVE  pins[s] = Cardinality(
               {t \in Slots \X (1 .. pins[s] + 1) : t[2] <= PinsOn(s, t[1])})
  <2>1. Counts(pins[s], Slots, PinsOf(s)) /\ pins[s] \in Nat
    BY <1>1 DEF PinInv, PinCount, TypeOK
  <2>2. \A i \in Slots : PinsOf(s)[i] \in Nat
    BY <1>1, PinsOnType DEF PinsOf
  <2>3. pins[s] = Cardinality(
          {t \in Slots \X (1 .. pins[s] + 1) : t[2] <= PinsOf(s)[t[1]]})
    BY <2>1, <2>2, CountedUpTo
  <2> QED
    BY <2>3 DEF PinsOf
<1> QED
  BY <1>2, <1>3 DEF RefcountExact

(* A slot's refcount is the number of pins on it and a sink's _pins the    *)
(* number it has: unpin_locked()'s saturation is never used.               *)
THEOREM RefcountsExact == Spec => []RefcountExact
  BY Invariance, RefcountFromInductive, PTL

(* A one-frame sink that is about to be given a frame has none. *)
LEMMA MailboxFromInductive == Inductive => MailboxFree
<1> SUFFICES ASSUME Inductive, NEW s \in Sinks \ Requeuers,
                    prodCall[s] = "enter" \/ handCall[s] = "enter",
                    NEW i \in Slots, held[s][i] # 0
             PROVE  FALSE
  BY DEF MailboxFree
<1>1. /\ s \in Sinks /\ TypeOK /\ CallInv /\ Calls(s) /\ PinCount(s)
      /\ OneFrame(s)
  BY SinksAssumption DEF Inductive, CallInv, PinInv, DeliveryInv
<1> DEFINE k == IF prodCall[s] = "enter" THEN published ELSE handFrame[s]
           p == pending[s]
           f == [j \in Slots |-> PinsOn(s, j)]
           h == [j \in Slots |-> f[j] - One(j = p)]
           h1 == [j \in Slots |-> h[j] - One(j = k)]
<1>2. k \in Slots /\ p \in Slots \cup {NoSlot}
  BY <1>1 DEF Calls, TypeOK
<1>3. ASSUME NEW j \in Slots
      PROVE  /\ f[j] \in Nat
             /\ f[j] >= One(j = p) + One(j = k) + One(j = i)
  <2>1. /\ held[s][j] \in Nat
        /\ held[s][j] >= One(j = i)
    BY <1>1, HeldNat DEF One
  <2>2. One(prodCall[s] = "enter" /\ published = j)
          + One(handCall[s] = "enter" /\ handFrame[s] = j) = One(j = k)
    BY <1>1 DEF Calls, One
  <2>3. f[j] = held[s][j] + One(j = p) + One(j = k)
    BY <2>1, <2>2 DEF PinsOn, One
  <2> QED
    BY <2>1, <2>3 DEF One
<1>4. /\ \A j \in Slots : /\ f[j] \in Nat /\ h[j] \in Nat /\ h1[j] \in Nat
                          /\ f[j] = h[j] + One(j = p)
                          /\ h[j] = h1[j] + One(j = k)
      /\ h1[i] # 0
  BY <1>3 DEF One
<1>5. Counts(pins[s], Slots, f) /\ pins[s] \in Nat
  BY <1>1 DEF PinCount, PinsOf, TypeOK
<1> HIDE DEF f, h, h1, k, p
<1>6. Counts(pins[s] - One(p # NoSlot), Slots, h)
  <2>1. CASE p # NoSlot
    <3>1. Counts(pins[s] - 1, Slots, h)
      BY <1>2, <1>4, <1>5, <2>1, CountsDown
    <3> QED
      BY <2>1, <3>1 DEF One
  <2>2. CASE p = NoSlot
    <3>1. \A j \in Slots : h[j] = f[j]
      BY <1>1, <1>4, <2>2, HeldNat DEF One
    <3>2. Counts(pins[s], Slots, h)
      BY <1>5, <3>1, CountsSame
    <3>3. pins[s] - One(p # NoSlot) = pins[s]
      BY <1>1, <2>2 DEF One, TypeOK
    <3> QED
      BY <3>2, <3>3
  <2> QED
    BY <2>1, <2>2
<1>7. pins[s] - One(p # NoSlot) \in {0, 1}
  BY <1>1 DEF OneFrame, One, p
<1>8. /\ pins[s] - One(p # NoSlot) \in Nat \ {0}
      /\ Counts(pins[s] - One(p # NoSlot) - 1, Slots, h1)
  BY <1>2, <1>4, <1>6, CountsDown
<1>9. pins[s] - One(p # NoSlot) - 1 = 0
  BY <1>7, <1>8
<1>10. Counts(0, Slots, h1)
  BY <1>8, <1>9
<1>11. h1[i] = 0
  BY <1>4, <1>10, CountsZero
<1> QED
  BY <1>4, <1>11

(* A non-requeuing asynchronous sink about to be called has an empty       *)
(* mailbox: one place is enough for its queue.                             *)
THEOREM MailboxHolds == Spec => []MailboxFree
  BY Invariance, MailboxFromInductive, PTL

(* No step restamps or hands to the camera a frame a sink has a pin on. *)
LEMMA StableStep ==
  ASSUME Inductive, [Next]_vars, NEW i \in Slots,
         NEW s \in Sinks, PinsOn(s, i) > 0
  PROVE  slotGen'[i] = slotGen[i] /\ slotState'[i] = "FREE"
<1>0. TypeOK /\ CallInv /\ PinInv /\ SlotInv
  BY DEF Inductive
<1>1. PinsOn(s, i) \in Nat /\ refcount[i] # 0
  BY <1>0, PinsOnType, UncountedSlotUnpinned
<1>2. slotState[i] = "FREE"
  BY <1>0, <1>1 DEF SlotInv, SlotCount, TypeOK
<1> DEFINE Goal == slotGen'[i] = slotGen[i] /\ slotState'[i] = "FREE"
<1> SUFFICES Goal
  OBVIOUS
<1>3. CASE Reinit
  BY <1>0, <1>1, <1>3, QuiescentUnpinned DEF Reinit
<1>4. CASE Acquire
  BY <1>0, <1>1, <1>2, <1>4 DEF Acquire, Acquirable, TypeOK
<1>5. ASSUME NEW j \in Slots, Publish(j) PROVE Goal
  BY <1>0, <1>2, <1>5 DEF Publish, TypeOK
<1>6. CASE UNCHANGED <<slotGen, slotState>>
  BY <1>2, <1>6
<1>7. ASSUME NEW t \in Sinks, SinkStep(t) PROVE Goal
  <2>1. UNCHANGED <<slotGen, slotState>>
    BY <1>7
    DEF SinkStep, SyncConsume, AsyncConsume, PublishEpilogue, HandConsume,
        HandEpilogue, Epilogue, WorkerPut, Put, DetachFinish, ringVars
  <2> QED
    BY <1>6, <2>1
<1>8. ASSUME NEW t \in Sinks,
             \/ \E j \in Slots : WorkerGet(t, j)
             \/ AttachClaim(t) \/ AttachRejected(t) \/ AttachCommit(t)
             \/ DetachUnlink(t)
      PROVE  Goal
  <2>1. UNCHANGED <<slotGen, slotState>>
    BY <1>8
    DEF WorkerGet, AttachClaim, AttachRejected, AttachCommit, DetachUnlink,
        ringVars
  <2> QED
    BY <1>6, <2>1
<1>9. CASE UNCHANGED vars
  BY <1>6, <1>9 DEF vars, ringVars
<1> HIDE DEF Goal
<1> QED
  BY <1>3, <1>4, <1>5, <1>7, <1>8, <1>9 DEF Next

(* No step restamps, frees or hands to the camera a frame a sink has a pin *)
(* on, from publish() to the last put().                                   *)
THEOREM FramesStable == Spec => PinnedFrameStable
<1>1. Inductive /\ [Next]_vars =>
        [\A i \in Slots :
           (\E s \in Sinks : PinsOn(s, i) > 0) =>
             slotGen'[i] = slotGen[i] /\ slotState'[i] = "FREE"]_vars
  BY StableStep
<1> QED
  BY <1>1, Invariance, PTL DEF Spec, PinnedFrameStable

=============================================================================
