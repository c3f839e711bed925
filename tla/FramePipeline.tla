---------------------------- MODULE FramePipeline ----------------------------
(***************************************************************************)
(* The camera frame ring and its sink registry: svc/camera/frame_pipeline.c *)
(* together with the callers its header prescribes.                         *)
(*                                                                         *)
(* One producer thread acquires ring slots, fills them (the camera DMA) and *)
(* publishes them.  publish() decides under the pipeline lock who gets the  *)
(* frame and calls each sink's consume() with the lock RELEASED; the sink   *)
(* gives its pin back with put(), from inside consume() (a synchronous      *)
(* sink) or later from its own thread (an asynchronous one).  Any console   *)
(* thread attaches and detaches sinks meanwhile.  Every locked section of   *)
(* the code is one action here; what happens between two locked sections    *)
(* (open(), close(), consume(), the sink's thread) interleaves freely.      *)
(*                                                                         *)
(* Abstractions.  The registry is a set: the order of the linked list only  *)
(* orders consume() calls of different sinks, which the model leaves free.  *)
(* _owner is not a variable: with one pipeline it is that pipeline exactly  *)
(* while _state is not UNOWNED, the two being assigned together.  Geometry, *)
(* frame bytes and the counters nobody decides on (captured, overruns,      *)
(* errors) are left out.                                                    *)
(***************************************************************************)
EXTENDS Integers, FiniteSets

CONSTANTS
  Sinks,        \* the struct frame_sink objects of the boards
  AsyncSinks,   \* those that queue the frame for a thread of their own
  LatestSinks,  \* those with FRAME_POLICY_LATEST; the others drop
  Requeuers,    \* async sinks whose thread may take a second pin with get()
  NSlots,       \* nslots of frame_pipeline_init()
  MaxSinks,     \* FRAME_PIPELINE_MAX_SINKS
  MaxGen        \* bound: publishes between two initialisations

ASSUME SinksAssumption ==
  /\ IsFiniteSet(Sinks)
  /\ AsyncSinks \subseteq Sinks
  /\ LatestSinks \subseteq Sinks
  /\ Requeuers \subseteq AsyncSinks
ASSUME SizesAssumption ==
  /\ NSlots \in Nat \ {0}
  /\ MaxSinks \in Nat \ {0}
  /\ MaxGen \in Nat

Slots  == 1 .. NSlots
NoSlot == 0                      \* NULL descriptor, and `latest == -1`

SinkStates == {"UNOWNED", "ATTACHING", "ATTACHED", "DETACHING", "DRAINING"}

(* Where a consume() call of a sink is: not running, entered, or past its  *)
(* body with the core's epilogue (statistics, _callbacks--) still to come. *)
CallPhases == {"none", "enter", "exit"}

VARIABLES
  slotState,   \* slot -> "FREE" or "FILLING"
  refcount,    \* slot -> pins on it
  slotGen,     \* slot -> desc.gen stamped by the last publish of it
  latest,      \* last published slot
  gen,         \* publish counter
  linked,      \* the sinks in the registry list
  reserved,    \* p->_reserved
  state,       \* sink -> s->_state
  busy,        \* sink -> s->_busy
  pending,     \* sink -> s->_pending
  pins,        \* sink -> s->_pins
  callbacks,   \* sink -> s->_callbacks
  delivered,   \* sink -> s->delivered
  dropped,     \* sink -> s->dropped
  published,   \* the slot the producer's publish() is delivering
  prodCall,    \* sink -> phase of the consume() publish() owes or runs
  handCall,    \* sink -> phase of the consume() put() owes or runs
  handFrame,   \* sink -> the frame of that hand-off
  held,        \* sink -> slot -> pins the sink's thread has to put() back
  offered      \* history: sink -> publishes that found it linked, this session

ringVars  == <<slotState, refcount, slotGen, latest, gen>>
sinkVars  == <<linked, reserved, state, busy, pending, pins, callbacks,
               delivered, dropped>>
callVars  == <<published, prodCall, handCall, handFrame, held>>
vars      == <<ringVars, sinkVars, callVars, offered>>

-----------------------------------------------------------------------------
(* Helpers.  Here and below, a definition that has a twin with the same    *)
(* parameters just above it (PinsAlone above SinkPins) is the code's; the  *)
(* twin is a mistake the code could have made, kept to see that the        *)
(* properties notice it.                                                   *)

(* The saturating decrement of unpin_locked(). *)
Dec(n) == IF n > 0 THEN n - 1 ELSE 0

(* sink_try_release_locked(): a draining sink with no pin and no callback  *)
(* left goes back to UNOWNED.                                              *)
Released(st, p, c) ==
  IF st = "DRAINING" /\ p = 0 /\ c = 0 THEN "UNOWNED" ELSE st

(* May frame_pipeline_acquire() hand out slot i? *)
AcquirableIfNotLatest(i) == slotState[i] = "FREE" /\ i # latest
Acquirable(i) == slotState[i] = "FREE" /\ refcount[i] = 0 /\ i # latest

(* The producer is between two publish() calls; it is between two of the   *)
(* consume() calls of one, which it makes one after the other.             *)
ProducerIdle == \A s \in Sinks : prodCall[s] = "none"
NextCallFree == \A s \in Sinks : prodCall[s] # "exit"

-----------------------------------------------------------------------------
(* What the entry points answer.  ERR_OWNER and ERR_PARAM need a second    *)
(* pipeline or a NULL argument and cannot arise here.                      *)

OK             == 0
ERR_FULL       == -2
ERR_ATTACHED   == -4
ERR_UNDRAINED  == -5
ERR_TRANSITION == -6
ERR_QUIESCE    == -7
ERR_STATE      == -9

Links == Cardinality(linked)

(* sink_consistent_locked(): do the state, membership and counters agree?  *)
SinkConsistent(s) ==
  /\ callbacks[s] >= 0
  /\ reserved <= MaxSinks
  /\ Links + reserved <= MaxSinks
  /\ state[s] = "UNOWNED" => s \notin linked /\ callbacks[s] = 0
  /\ state[s] = "ATTACHING" =>
       s \notin linked /\ reserved # 0 /\ pins[s] = 0 /\ callbacks[s] = 0
  /\ state[s] = "DETACHING" => s \notin linked /\ pins[s] >= 0
  /\ state[s] = "ATTACHED" => s \in linked /\ pins[s] >= 0
  /\ state[s] = "DRAINING" =>
       /\ s \notin linked
       /\ pins[s] # 0 \/ callbacks[s] # 0
       /\ pins[s] >= 0

(* attach_refusal_locked(), once the state's own answer is UNOWNED. *)
RoomAnswer == IF Links + reserved >= MaxSinks THEN ERR_FULL ELSE OK

UnownedAnswer(s) ==
  IF pins[s] # 0 THEN ERR_UNDRAINED
  ELSE IF callbacks[s] > 0 THEN ERR_QUIESCE
  ELSE RoomAnswer

AttachAnswer(s) ==
  IF s \in linked
  THEN IF state[s] \in {"ATTACHED", "UNOWNED"} THEN ERR_ATTACHED ELSE ERR_STATE
  ELSE IF ~SinkConsistent(s) THEN ERR_STATE
  ELSE CASE state[s] \in {"ATTACHING", "DETACHING"} -> ERR_TRANSITION
         [] state[s] = "DRAINING" ->
              IF callbacks[s] > 0 THEN ERR_QUIESCE ELSE ERR_UNDRAINED
         [] state[s] = "UNOWNED" -> UnownedAnswer(s)
         [] OTHER -> ERR_ATTACHED

(* frame_pipeline_sink_pins(): the drain check of every sink owner. *)
PinsAlone(s) ==
  IF ~SinkConsistent(s) THEN ERR_STATE
  ELSE IF state[s] \in {"ATTACHING", "DETACHING"} THEN ERR_TRANSITION
  ELSE pins[s]
SinkPins(s) ==
  IF ~SinkConsistent(s) THEN ERR_STATE
  ELSE IF state[s] \in {"ATTACHING", "DETACHING"} THEN ERR_TRANSITION
  ELSE IF callbacks[s] > 0 THEN ERR_QUIESCE
  ELSE pins[s]

-----------------------------------------------------------------------------
(* The producer                                                            *)

(* frame_pipeline_init() zeroes everything, linked sinks included, so its  *)
(* contract asks for a quiescent pipeline: the boards run it before the    *)
(* first attach of a stream and latch `cam_pipe_unsafe` otherwise.         *)
Quiescent ==
  /\ ProducerIdle
  /\ linked = {}
  /\ reserved = 0
  /\ \A s \in Sinks : state[s] = "UNOWNED"

Reinit ==
  /\ Quiescent
  /\ slotState' = [i \in Slots |-> "FREE"]
  /\ refcount' = [i \in Slots |-> 0]
  /\ slotGen' = [i \in Slots |-> 0]
  /\ latest' = NoSlot
  /\ gen' = 0
  /\ UNCHANGED <<sinkVars, callVars, offered>>

(* frame_pipeline_acquire(): the lowest free, unpinned, non-latest slot.   *)
(* With none the caller drops the frame and refills the slot it has.       *)
Acquire ==
  \E i \in Slots :
    /\ Acquirable(i)
    /\ \A j \in 1 .. (i - 1) : ~Acquirable(j)
    /\ slotState' = [slotState EXCEPT ![i] = "FILLING"]
    /\ UNCHANGED <<refcount, slotGen, latest, gen, sinkVars, callVars, offered>>

(* The sinks a publish hands the frame to, and those it coalesces for.     *)
DeliverToBusyToo == linked
DeliverTo == {s \in linked : ~busy[s]}
Coalesced == {s \in linked : busy[s] /\ s \in LatestSinks}
Skipped   == {s \in linked : busy[s] /\ s \notin LatestSinks}

(* Pins that coalescing takes off slot j: the pending frames it replaces.  *)
Replaced(j) == {s \in Coalesced : pending[s] = j}

PublishedRefcount(i) ==
  [j \in Slots |->
     (IF Cardinality(Replaced(j)) <= refcount[j]
      THEN refcount[j] - Cardinality(Replaced(j)) ELSE 0)
     + (IF j = i THEN Cardinality(DeliverTo \cup Coalesced) ELSE 0)]

PublishedPins(s) ==
  IF s \in DeliverTo THEN pins[s] + 1
  ELSE IF s \in Coalesced
       THEN (IF pending[s] # NoSlot THEN Dec(pins[s]) ELSE pins[s]) + 1
       ELSE pins[s]

PublishedDropped(s) ==
  IF s \in Skipped \/ (s \in Coalesced /\ pending[s] # NoSlot)
  THEN dropped[s] + 1 ELSE dropped[s]

(* frame_pipeline_publish(), its first locked section. *)
Publish(i) ==
  /\ ProducerIdle
  /\ slotState[i] = "FILLING"
  /\ gen < MaxGen
  /\ gen' = gen + 1
  /\ slotGen' = [slotGen EXCEPT ![i] = gen + 1]
  /\ slotState' = [slotState EXCEPT ![i] = "FREE"]
  /\ latest' = i
  /\ published' = i
  /\ refcount' = PublishedRefcount(i)
  /\ pins' = [s \in Sinks |-> PublishedPins(s)]
  /\ dropped' = [s \in Sinks |-> PublishedDropped(s)]
  /\ busy' = [s \in Sinks |-> busy[s] \/ s \in DeliverTo]
  /\ pending' = [s \in Sinks |-> IF s \in Coalesced THEN i ELSE pending[s]]
  /\ callbacks' = [s \in Sinks |->
       IF s \in DeliverTo THEN callbacks[s] + 1 ELSE callbacks[s]]
  /\ prodCall' = [s \in Sinks |->
       IF s \in DeliverTo THEN "enter" ELSE prodCall[s]]
  /\ offered' = [s \in Sinks |->
       IF s \in linked THEN offered[s] + 1 ELSE offered[s]]
  /\ UNCHANGED <<linked, reserved, state, delivered, handCall, handFrame, held>>

-----------------------------------------------------------------------------
(* Giving a pin back                                                       *)

(* Whether the sink stays busy: the hand-off below is a delivery of its own. *)
BusyAfterPut(s) == pending[s] # NoSlot

CallbacksAfterPut(s) ==
  IF pending[s] # NoSlot THEN callbacks[s] + 1 ELSE callbacks[s]

(* The locked section of frame_pipeline_put().  A pending frame's pin is   *)
(* transferred to a hand-off delivery, made after the unlock by the thread *)
(* that called put().                                                      *)
Put(s, i) ==
  /\ refcount' = [refcount EXCEPT ![i] = Dec(@)]
  /\ pins' = [pins EXCEPT ![s] = Dec(@)]
  /\ busy' = [busy EXCEPT ![s] = BusyAfterPut(s)]
  /\ pending' = [pending EXCEPT ![s] = NoSlot]
  /\ callbacks' = [callbacks EXCEPT ![s] = CallbacksAfterPut(s)]
  /\ \/ /\ pending[s] # NoSlot
        /\ handCall' = [handCall EXCEPT ![s] = "enter"]
        /\ handFrame' = [handFrame EXCEPT ![s] = pending[s]]
        /\ UNCHANGED state
     \/ /\ pending[s] = NoSlot
        /\ state' = [state EXCEPT
             ![s] = Released(state[s], Dec(pins[s]), callbacks[s])]
        /\ UNCHANGED <<handCall, handFrame>>
  /\ UNCHANGED <<slotState, slotGen, latest, gen, linked, reserved, delivered,
                 dropped, published, offered>>

(* The sink's thread finishes with a frame it holds.  It is one thread, so *)
(* a hand-off consume() it is inside of comes first.                       *)
WorkerPut(s, i) ==
  /\ s \in AsyncSinks
  /\ handCall[s] = "none"
  /\ held[s][i] > 0
  /\ held' = [held EXCEPT ![s][i] = @ - 1]
  /\ Put(s, i)
  /\ UNCHANGED prodCall

(* frame_pipeline_get(): the sink's thread re-queues a frame it holds, at  *)
(* most once over (bound: two pins of one sink on one frame).              *)
WorkerGet(s, i) ==
  /\ s \in Requeuers
  /\ handCall[s] = "none"
  /\ held[s][i] = 1
  /\ held' = [held EXCEPT ![s][i] = @ + 1]
  /\ refcount' = [refcount EXCEPT ![i] = @ + 1]
  /\ pins' = [pins EXCEPT ![s] = @ + 1]
  /\ UNCHANGED <<slotState, slotGen, latest, gen, linked, reserved, state, busy,
                 pending, callbacks, delivered, dropped, published, prodCall,
                 handCall, handFrame, offered>>

-----------------------------------------------------------------------------
(* consume(), outside the lock, and the core's epilogue after it           *)

(* A synchronous sink works and puts inside consume(). *)
SyncConsume(s) ==
  /\ s \notin AsyncSinks
  /\ prodCall[s] = "enter"
  /\ NextCallFree
  /\ prodCall' = [prodCall EXCEPT ![s] = "exit"]
  /\ Put(s, published)
  /\ UNCHANGED held

(* An asynchronous one leaves the frame, with its pin, to its own thread. *)
AsyncConsume(s) ==
  /\ s \in AsyncSinks
  /\ prodCall[s] = "enter"
  /\ NextCallFree
  /\ prodCall' = [prodCall EXCEPT ![s] = "exit"]
  /\ held' = [held EXCEPT ![s][published] = @ + 1]
  /\ UNCHANGED <<ringVars, sinkVars, published, handCall, handFrame, offered>>

HandConsume(s) ==
  /\ s \in AsyncSinks
  /\ handCall[s] = "enter"
  /\ handCall' = [handCall EXCEPT ![s] = "exit"]
  /\ held' = [held EXCEPT ![s][handFrame[s]] = @ + 1]
  /\ handFrame' = [handFrame EXCEPT ![s] = NoSlot]
  /\ UNCHANGED <<ringVars, sinkVars, published, prodCall, offered>>

(* The locked section after a consume() returned: the statistics and the   *)
(* callback count in one breath, then the release if it was the last.      *)
Epilogue(s) ==
  /\ delivered' = [delivered EXCEPT ![s] = @ + 1]
  /\ callbacks' = [callbacks EXCEPT ![s] = @ - 1]
  /\ state' = [state EXCEPT ![s] = Released(state[s], pins[s], callbacks[s] - 1)]
  /\ UNCHANGED <<ringVars, linked, reserved, busy, pending, pins, dropped,
                 published, handFrame, held, offered>>

PublishEpilogue(s) ==
  /\ prodCall[s] = "exit"
  /\ prodCall' = [prodCall EXCEPT ![s] = "none"]
  /\ Epilogue(s)
  /\ UNCHANGED handCall

(* The same after the hand-off put() made. *)
HandEpilogueUncounted(s) ==
  /\ handCall[s] = "exit"
  /\ handCall' = [handCall EXCEPT ![s] = "none"]
  /\ delivered' = [delivered EXCEPT ![s] = @ + 1]
  /\ UNCHANGED <<ringVars, state, linked, reserved, busy, pending, pins,
                 callbacks, dropped, published, prodCall, handFrame, held, offered>>
HandEpilogue(s) ==
  /\ handCall[s] = "exit"
  /\ handCall' = [handCall EXCEPT ![s] = "none"]
  /\ Epilogue(s)
  /\ UNCHANGED prodCall

-----------------------------------------------------------------------------
(* The registry, called by any console thread at any time                  *)

(* frame_pipeline_attach() up to the unlock before open(): the claim. *)
AttachClaim(s) ==
  /\ AttachAnswer(s) = OK
  /\ state' = [state EXCEPT ![s] = "ATTACHING"]
  /\ reserved' = reserved + 1
  /\ UNCHANGED <<ringVars, linked, busy, pending, pins, callbacks, delivered,
                 dropped, callVars, offered>>

(* open() rejected the format: the claim is undone. *)
AttachRejected(s) ==
  /\ state[s] = "ATTACHING"
  /\ state' = [state EXCEPT ![s] = "UNOWNED"]
  /\ reserved' = Dec(reserved)
  /\ UNCHANGED <<ringVars, linked, busy, pending, pins, callbacks, delivered,
                 dropped, callVars, offered>>

(* open() accepted: reset the session's bookkeeping and link the sink. *)
AttachCommit(s) ==
  /\ state[s] = "ATTACHING"
  /\ state' = [state EXCEPT ![s] = "ATTACHED"]
  /\ reserved' = Dec(reserved)
  /\ linked' = linked \cup {s}
  /\ busy' = [busy EXCEPT ![s] = FALSE]
  /\ pending' = [pending EXCEPT ![s] = NoSlot]
  /\ pins' = [pins EXCEPT ![s] = 0]
  /\ callbacks' = [callbacks EXCEPT ![s] = 0]
  /\ delivered' = [delivered EXCEPT ![s] = 0]
  /\ dropped' = [dropped EXCEPT ![s] = 0]
  /\ offered' = [offered EXCEPT ![s] = 0]
  /\ UNCHANGED <<ringVars, callVars>>

(* frame_pipeline_detach() up to close(): unlink, and drop the pending     *)
(* frame, which the sink was never given and could never put() back.       *)
ForgetPending(s) ==
  /\ pending' = [pending EXCEPT ![s] = NoSlot]
  /\ UNCHANGED <<refcount, pins>>
DropPending(s) ==
  /\ refcount' = [i \in Slots |->
       IF i = pending[s] THEN Dec(refcount[i]) ELSE refcount[i]]
  /\ pins' = [pins EXCEPT ![s] = IF pending[s] # NoSlot THEN Dec(@) ELSE @]
  /\ pending' = [pending EXCEPT ![s] = NoSlot]

DetachUnlink(s) ==
  /\ SinkConsistent(s)
  /\ state[s] = "ATTACHED"
  /\ state' = [state EXCEPT ![s] = "DETACHING"]
  /\ linked' = linked \ {s}
  /\ DropPending(s)
  /\ UNCHANGED <<slotState, slotGen, latest, gen, reserved, busy, callbacks,
                 delivered, dropped, callVars, offered>>

(* close() returned. *)
DetachFinish(s) ==
  /\ state[s] = "DETACHING"
  /\ state' = [state EXCEPT ![s] = Released("DRAINING", pins[s], callbacks[s])]
  /\ UNCHANGED <<ringVars, linked, reserved, busy, pending, pins, callbacks,
                 delivered, dropped, callVars, offered>>

-----------------------------------------------------------------------------
Init ==
  /\ slotState = [i \in Slots |-> "FREE"]
  /\ refcount = [i \in Slots |-> 0]
  /\ slotGen = [i \in Slots |-> 0]
  /\ latest = NoSlot
  /\ gen = 0
  /\ linked = {}
  /\ reserved = 0
  /\ state = [s \in Sinks |-> "UNOWNED"]
  /\ busy = [s \in Sinks |-> FALSE]
  /\ pending = [s \in Sinks |-> NoSlot]
  /\ pins = [s \in Sinks |-> 0]
  /\ callbacks = [s \in Sinks |-> 0]
  /\ delivered = [s \in Sinks |-> 0]
  /\ dropped = [s \in Sinks |-> 0]
  /\ published = NoSlot
  /\ prodCall = [s \in Sinks |-> "none"]
  /\ handCall = [s \in Sinks |-> "none"]
  /\ handFrame = [s \in Sinks |-> NoSlot]
  /\ held = [s \in Sinks |-> [i \in Slots |-> 0]]
  /\ offered = [s \in Sinks |-> 0]

SinkStep(s) ==
  \/ SyncConsume(s)
  \/ AsyncConsume(s)
  \/ PublishEpilogue(s)
  \/ HandConsume(s)
  \/ HandEpilogue(s)
  \/ \E i \in Slots : WorkerPut(s, i)
  \/ DetachFinish(s)

Next ==
  \/ Reinit
  \/ Acquire
  \/ \E i \in Slots : Publish(i)
  \/ \E s \in Sinks :
       \/ SinkStep(s)
       \/ \E i \in Slots : WorkerGet(s, i)
       \/ AttachClaim(s)
       \/ AttachRejected(s)
       \/ AttachCommit(s)
       \/ DetachUnlink(s)

Spec == Init /\ [][Next]_vars

(* The sinks keep their contract: every consume() returns, every delivered *)
(* frame is put() back, close() returns.  Nothing is assumed of the camera *)
(* or of the consoles.                                                     *)
Fairness ==
  /\ WF_vars(\E s \in Sinks : SyncConsume(s) \/ AsyncConsume(s) \/ PublishEpilogue(s))
  /\ \A s \in Sinks :
       /\ WF_vars(HandConsume(s) \/ HandEpilogue(s) \/ \E i \in Slots : WorkerPut(s, i))
       /\ WF_vars(DetachFinish(s))

FairSpec == Spec /\ Fairness

-----------------------------------------------------------------------------
(* Properties                                                              *)

TypeOK ==
  /\ slotState \in [Slots -> {"FREE", "FILLING"}]
  /\ refcount \in [Slots -> Nat]
  /\ slotGen \in [Slots -> Nat]
  /\ latest \in Slots \cup {NoSlot}
  /\ gen \in Nat
  /\ linked \subseteq Sinks
  /\ reserved \in Nat
  /\ state \in [Sinks -> SinkStates]
  /\ busy \in [Sinks -> BOOLEAN]
  /\ pending \in [Sinks -> Slots \cup {NoSlot}]
  /\ pins \in [Sinks -> Nat]
  /\ callbacks \in [Sinks -> Nat]
  /\ delivered \in [Sinks -> Nat]
  /\ dropped \in [Sinks -> Nat]
  /\ published \in Slots \cup {NoSlot}
  /\ prodCall \in [Sinks -> CallPhases]
  /\ handCall \in [Sinks -> CallPhases]
  /\ handFrame \in [Sinks -> Slots \cup {NoSlot}]
  /\ held \in [Sinks -> [Slots -> Nat]]
  /\ offered \in [Sinks -> Nat]

(* How many pins sink s has on slot i, counted where they really are: with *)
(* its thread, as the pending frame, or on a consume() not entered yet.    *)
One(b) == IF b THEN 1 ELSE 0
PinsOn(s, i) ==
  held[s][i] + One(pending[s] = i)
             + One(prodCall[s] = "enter" /\ published = i)
             + One(handCall[s] = "enter" /\ handFrame[s] = i)

(* No thread is, or is about to be, inside the sink. *)
OutOfSink(s) ==
  /\ prodCall[s] = "none"
  /\ handCall[s] = "none"
  /\ pending[s] = NoSlot
  /\ \A i \in Slots : held[s][i] = 0

(* ERR_STATE means memory corruption to every caller, and a port that gets *)
(* it stops the camera until reboot.  No interleaving of attach, detach,   *)
(* publish and put may reach a state that reads as corrupt.                *)
BookkeepingConsistent == \A s \in Sinks : SinkConsistent(s)

(* The drain check is a permission to free what consume() reads: when it   *)
(* says 0 for a sink that is not linked, no thread is inside it or on its  *)
(* way in.  open(), which resets that same state, never runs beside one.   *)
ZeroMeansOut ==
  \A s \in Sinks :
    \/ s \notin linked /\ SinkPins(s) = 0
    \/ state[s] = "ATTACHING"
    => OutOfSink(s)

(* A sink whose thread is single and puts from it never has two consume()  *)
(* calls of the core in flight, so consume() needs no lock of its own --   *)
(* although put() makes the hand-off call from another thread than         *)
(* publish() does.                                                         *)
OneCallbackPerSink ==
  \A s \in Sinks :
    /\ callbacks[s] <= 1
    /\ prodCall[s] = "none" \/ handCall[s] = "none"

(* A slot the DMA fills belongs to it alone: nobody has a pin on it and a  *)
(* pull reader's latest frame is another one.                              *)
FillingIsPrivate ==
  \A i \in Slots :
    slotState[i] = "FILLING" =>
      /\ refcount[i] = 0
      /\ latest # i
      /\ \A s \in Sinks : PinsOn(s, i) = 0

(* Every pin is counted once on the slot and once on the sink: neither the *)
(* ring loses a slot to a pin nobody can give back, nor is one recycled    *)
(* under a reader, however the saturating decrements fall.  (A pin is a    *)
(* pair <<holder, n>>; numbering one past the count cuts no excess off.)   *)
RefcountExact ==
  /\ \A i \in Slots :
       refcount[i] = Cardinality(
         {t \in Sinks \X (1 .. refcount[i] + 1) : t[2] <= PinsOn(t[1], i)})
  /\ \A s \in Sinks :
       pins[s] = Cardinality(
         {t \in Slots \X (1 .. pins[s] + 1) : t[2] <= PinsOn(s, t[1])})

(* The counters of a session account for every publish that found the sink *)
(* linked: delivered, dropped, being delivered, or pending.  In particular *)
(* the epilogue of an earlier session never writes into them.              *)
DeliveryAccounting ==
  \A s \in Sinks :
    state[s] = "ATTACHED" =>
      offered[s] = delivered[s] + dropped[s] + callbacks[s]
                   + One(pending[s] # NoSlot)

(* Attaches whose open() overlap never fill the registry past its array.   *)
CapacityRespected ==
  /\ Cardinality(linked) + reserved <= MaxSinks
  /\ reserved = Cardinality({s \in Sinks : state[s] = "ATTACHING"})

(* A sink that takes no second pin is never called again while it has a    *)
(* frame, which is what lets cam_lcd_sink.c keep one mailbox slot.         *)
MailboxFree ==
  \A s \in Sinks \ Requeuers :
    prodCall[s] = "enter" \/ handCall[s] = "enter" =>
      \A i \in Slots : held[s][i] = 0

(* A frame a sink still has a pin on is not restamped or refilled.         *)
PinnedFrameStable ==
  [][\A i \in Slots :
       (\E s \in Sinks : PinsOn(s, i) > 0) =>
         slotGen'[i] = slotGen[i] /\ slotState'[i] = "FREE"]_vars

(* Once a detach has run, the sink comes home: no pin is left that nobody  *)
(* will put back -- its pending frame's is given up with the unlinking, a  *)
(* handed-off frame's comes back with a put() -- and no release is missed  *)
(* by both of the last two parties.  The one exception is a sink that      *)
(* takes a second pin again and again for ever: get() refuses it no more   *)
(* after a detach than before.                                             *)
DrainsHome ==
  \A s \in Sinks :
    \/ (state[s] = "DRAINING") ~> (state[s] = "UNOWNED")
    \/ []<><<\E i \in Slots : WorkerGet(s, i)>>_vars
=============================================================================
