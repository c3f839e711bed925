------------------------------ MODULE CamStream ------------------------------
(***************************************************************************)
(* The life of the camera stream on f746g-disco:                            *)
(* boards/f746g-disco/port/camera/camera.c with the holder table, the       *)
(* board's hold rules (cam_hold_rules.c) and the stream generations.        *)
(*                                                                         *)
(* Consoles start, stop and power the camera off; nn joins and leaves (or   *)
(* undoes its join); `sdram test` borrows the memory; interrupts report     *)
(* errors; and one producer thread tears the stream down and re-arms it.    *)
(* Every entry point is one critical section of cam_lock, so one action;    *)
(* the producer reads the flags WITHOUT the lock and then takes it, so its  *)
(* decision and its locked step are two actions, and `camera off` is a      *)
(* sequence of four calls.                                                  *)
(*                                                                         *)
(* Abstractions.  Whether the hardware starts, answers or fails is a free   *)
(* choice (`outcome`).  A mode is one of four: the power-on default and     *)
(* another raster mode that streams RGB565, the JPEG stream, and a          *)
(* capture-only raster.  The 8 s window of rapid recoveries is a choice     *)
(* between counting on and starting over.                                   *)
(***************************************************************************)
EXTENDS CamHolders

CONSTANTS
  Consoles,     \* the console threads that run `camera off`
  GiveUp,       \* CAM_RECOVER_GIVEUP
  FirstGen,     \* the generation the camera, at rest, has reached so far
  MaxStreams,   \* bound: streams started after that
  MaxRegs       \* bound: registrations made after that

ASSUME StreamAssumption ==
  /\ GiveUp \in Nat \ {0}
  /\ FirstGen \in Gens
  /\ MaxStreams \in Nat
  /\ MaxRegs \in Nat

Modes      == {"default", "other", "jpeg", "still"}
JoinModes  == {"default", "other"}     \* cam_join_format_ok()
StreamModes == {"default", "other", "jpeg"}

VARIABLES
  tab,          \* cam_holds
  lost,         \* cam_lost
  active,       \* cam_stream_active
  stopReq,      \* cam_stop_req
  err,          \* cam_stream_err
  recPending,   \* cam_recover_pending
  rapid,        \* cam_recover_rapid
  streamGen,    \* cam_stream_gen
  doneGen,      \* cam_stream_done_gen
  colorbar,     \* cam_start_colorbar
  mode,         \* mode
  powered,      \* info.powered
  scratch,      \* cam_scratch_claimed
  startSem,     \* cam_start_sem's count
  producer,     \* where the producer thread is
  off,          \* console -> where its `camera off` is, and the stream it waits for
  joiner,       \* joiner -> where its session is: "out", "joined", "running"
  ticket,       \* joiner -> the ticket of its join
  streams,      \* history: streams started so far
  ended,        \* history: streams that had started when the last one ended
  asked,        \* history: the operator asked for the stream and has not let go
  regs          \* history: registrations so far, for the bound

boardVars   == <<tab, lost, active, stopReq, err, recPending, rapid, streamGen,
                 doneGen, colorbar, mode, powered, scratch, startSem>>
historyVars == <<streams, ended, asked, regs>>
vars == <<boardVars, producer, off, joiner, ticket, historyVars>>

ProducerPlaces == {"run", "asleep", "teardown", "recover"}
OffPlaces      == {"idle", "stop", "wait", "power"}
NoOff          == [at |-> "idle", want |-> NoGen, nth |-> 0]

holders == Who(tab)
needers == holders \ Keepers           \* cam_holders_users_locked()

(* Registrations are bounded; a join takes up to two.                       *)
Registers(n) == regs + n <= MaxRegs /\ regs' = regs + n
----------------------------------------------------------------------------
(* stream_start_locked().  "ok": the stream runs; "refused": it returned    *)
(* before the flags were reset (mode, probe, configuration); "failed": the  *)
(* hardware was not armed, after the reset.  A probe that does not find the *)
(* sensor leaves it off.                                                    *)
Outcomes == {"ok", "refused", "failed"}

StreamStart(cb, outcome) ==
  /\ outcome # "refused" => mode \in StreamModes /\ ~scratch
  /\ \/ powered' = TRUE /\ ~scratch
     \/ powered' = powered /\ outcome = "refused"
  /\ IF outcome = "refused"
       THEN UNCHANGED <<stopReq, err, colorbar>>
       ELSE stopReq' = FALSE /\ err' = FALSE /\ colorbar' = cb
  /\ IF outcome = "ok"
       THEN /\ streams < MaxStreams
            /\ active' = TRUE
            /\ streamGen' = NextGen(streamGen)
            /\ streams' = streams + 1
            /\ startSem' = startSem + 1
       ELSE UNCHANGED <<active, streamGen, streams, startSem>>
  /\ UNCHANGED <<mode, doneGen, ended, scratch>>

(* cam_holders_start_locked(): a stream whose stop is still pending is kept *)
(* as it is; `sdram test` refuses ahead of the recovery reset.              *)
HoldersStart(cb, outcome) ==
  \/ /\ active /\ outcome = "ok"
     /\ stopReq' = FALSE
     /\ UNCHANGED <<active, err, recPending, rapid, streamGen, doneGen, colorbar,
                    mode, powered, scratch, startSem, streams, ended>>
  \/ /\ ~active /\ scratch /\ outcome = "refused"
     /\ UNCHANGED <<active, stopReq, err, recPending, rapid, streamGen, doneGen,
                    colorbar, mode, powered, scratch, startSem, streams, ended>>
  \/ /\ ~active /\ ~scratch
     /\ recPending' = FALSE
     /\ rapid' = 0
     /\ StreamStart(cb, outcome)

(* cam_holders_stop_locked()                                                *)
HoldersStopRecoveryOnly ==
  /\ recPending' = FALSE
  /\ UNCHANGED stopReq
HoldersStop ==
  /\ recPending' = FALSE
  /\ stopReq' = (stopReq \/ active)

StreamKept == UNCHANGED <<active, stopReq, err, recPending, rapid, streamGen,
                          doneGen, colorbar, mode, powered, scratch, startSem,
                          streams, ended>>

(* cam_holders_lose_locked() on table t: a confirmed end.                   *)
LoseMarksOnly(t) ==
  /\ lost' = lost \cup Who(t)
  /\ tab' = t
  /\ asked' = FALSE
Lose(t) ==
  /\ lost' = lost \cup Who(t)
  /\ tab' = Clear(t)
  /\ asked' = FALSE

Forget(S) == lost' = lost \ S
----------------------------------------------------------------------------
(* camera_stream_start(): the operator.                                     *)
StartFresh(cb, outcome) ==
  LET a == Add(tab, Manual) IN
  /\ a.rc = "start"
  /\ active => cb = colorbar
  /\ Registers(1)
  /\ HoldersStart(cb, outcome)
  /\ IF outcome = "ok"
       THEN tab' = Commit(a.t) /\ Forget({Manual}) /\ asked' = TRUE
       ELSE tab' = Abort(a.t) /\ UNCHANGED <<lost, asked>>
  /\ UNCHANGED <<producer, off, joiner, ticket>>

(* A stream still winding down keeps its pattern: another one is refused.   *)
StartOtherTest(cb) ==
  LET a == Add(tab, Manual) IN
  /\ a.rc = "start"
  /\ active /\ cb # colorbar
  /\ Registers(1)
  /\ tab' = Abort(a.t)
  /\ StreamKept
  /\ UNCHANGED <<lost, asked, producer, off, joiner, ticket>>

(* Somebody holds a running stream already: registered, or refused with the *)
(* registration taken back if this call made it.                            *)
StartHeld(cb) ==
  LET a == Add(tab, Manual) IN
  /\ a.rc = "none" /\ active
  /\ Registers(1)
  /\ IF cb = colorbar
       THEN tab' = a.t /\ Forget({Manual}) /\ asked' = TRUE
       ELSE /\ tab' = IF In(tab, Manual) THEN a.t ELSE Remove(a.t, Manual).t
            /\ UNCHANGED <<lost, asked>>
  /\ StreamKept
  /\ UNCHANGED <<producer, off, joiner, ticket>>

(* Held, but down: a recovery is pending, and the start does not wait for   *)
(* it.  If it fails nothing will bring the stream back.                     *)
StartDown(cb, outcome) ==
  LET a == Add(tab, Manual) IN
  /\ a.rc = "none" /\ ~active
  /\ Registers(1)
  /\ HoldersStart(cb, outcome)
  /\ IF outcome = "ok"
       THEN tab' = a.t /\ Forget({Manual}) /\ asked' = TRUE
       ELSE Lose(a.t)
  /\ UNCHANGED <<producer, off, joiner, ticket>>

(* camera_stream_stop_gen(): refused while a holder needs the stream.       *)
StopRefused ==
  \/ Remove(tab, Manual).rc = "in_use"
  \/ (~In(tab, Manual) /\ holders # {})

StopAccepted ==
  /\ ~StopRefused
  /\ tab' = Remove(tab, Manual).t
  /\ HoldersStop
  /\ asked' = FALSE
  /\ UNCHANGED <<lost, active, err, rapid, streamGen, doneGen, colorbar, mode,
                 powered, scratch, startSem, streams, ended, regs>>

Stop == StopAccepted /\ UNCHANGED <<producer, off, joiner, ticket>>
----------------------------------------------------------------------------
(* camera_stream_join(): a holder joins, starting the stream for the        *)
(* operator as well when nothing holds it.                                  *)
Join(h, outcome) ==
  LET a == AddOrStart(tab, h, Manual) IN
  /\ joiner[h] = "out"
  /\ mode \in JoinModes
  /\ \/ /\ a.rc = "start"
        /\ Registers(2)
        /\ HoldersStart(FALSE, outcome)
        /\ IF outcome = "ok"
             THEN tab' = Commit(a.t) /\ Forget({Manual, h})
             ELSE tab' = Abort(a.t) /\ UNCHANGED lost
     \/ /\ a.rc = "none" /\ outcome = "ok"
        /\ Registers(1)
        /\ tab' = a.t /\ Forget({h})
        /\ StreamKept
  /\ joiner' = [joiner EXCEPT ![h] = IF outcome = "ok" THEN "joined" ELSE "out"]
  /\ ticket' = [ticket EXCEPT ![h] = IF outcome = "ok" THEN a.tk ELSE NoTicket]
  /\ UNCHANGED <<asked, producer, off>>

(* camera_stream_leave(): the table loses what `a` says, and the last one   *)
(* out asks for the stop.                                                   *)
Leaves(a) ==
  /\ tab' = a.t
  /\ IF a.rc = "stop" THEN HoldersStop ELSE UNCHANGED <<recPending, stopReq>>
  /\ UNCHANGED <<lost, active, err, rapid, streamGen, doneGen, colorbar, mode,
                 powered, scratch, startSem, streams, ended, asked, regs,
                 producer, off>>

(* The rest of the session's start failed: exactly what the join registered *)
(* goes, if it is still the registration the join made.                     *)
JoinUndone(h) ==
  /\ joiner[h] = "joined"
  /\ Leaves(Undo(tab, h, Manual, ticket[h]))
  /\ joiner' = [joiner EXCEPT ![h] = "out"]
  /\ ticket' = [ticket EXCEPT ![h] = NoTicket]

JoinKept(h) ==
  /\ joiner[h] = "joined"
  /\ joiner' = [joiner EXCEPT ![h] = "running"]
  /\ ticket' = [ticket EXCEPT ![h] = NoTicket]
  /\ UNCHANGED <<boardVars, historyVars, producer, off>>

Leave(h) ==
  /\ joiner[h] = "running"
  /\ Leaves(Remove(tab, h))
  /\ joiner' = [joiner EXCEPT ![h] = "out"]
  /\ UNCHANGED ticket
----------------------------------------------------------------------------
(* `camera off`: sample the stream, stop it, wait for the stream the stop   *)
(* named (or give up: ticks, Ctrl+C), then ask for the power.               *)
OffSample(c) ==
  /\ off[c].at = "idle"
  /\ off' = [off EXCEPT ![c].at = IF active THEN "stop" ELSE "power"]
  /\ UNCHANGED <<boardVars, historyVars, producer, joiner, ticket>>

OffStop(c) ==
  /\ off[c].at = "stop"
  /\ \/ /\ StopRefused
        /\ off' = [off EXCEPT ![c] = NoOff]
        /\ UNCHANGED <<boardVars, historyVars>>
     \/ /\ StopAccepted
        /\ off' = [off EXCEPT ![c] =
                     IF active THEN [at |-> "wait", want |-> streamGen, nth |-> streams]
                               ELSE [at |-> "wait", want |-> NoGen, nth |-> 0]]
  /\ UNCHANGED <<producer, joiner, ticket>>

OffEnded(c) ==
  /\ off[c].at = "wait"
  /\ Ended(doneGen, off[c].want)
  /\ off' = [off EXCEPT ![c].at = "power"]
  /\ UNCHANGED <<boardVars, historyVars, producer, joiner, ticket>>

OffGivesUp(c) ==
  /\ off[c].at = "wait"
  /\ off' = [off EXCEPT ![c] = NoOff]
  /\ UNCHANGED <<boardVars, historyVars, producer, joiner, ticket>>

(* camera_power_off(): refused while streaming and while a holder needs the *)
(* stream, even between an overrun and its recovery.                        *)
PowerOff(c) ==
  /\ off[c].at = "power"
  /\ off' = [off EXCEPT ![c] = NoOff]
  /\ IF active \/ needers # {}
       THEN UNCHANGED <<boardVars, historyVars>>
       ELSE /\ recPending' = FALSE
            /\ Lose(tab)
            /\ powered' = FALSE
            /\ mode' = "default"
            /\ UNCHANGED <<active, stopReq, err, rapid, streamGen, doneGen,
                           colorbar, scratch, startSem, streams, ended, regs>>
  /\ UNCHANGED <<producer, joiner, ticket>>
----------------------------------------------------------------------------
(* camera_set_format(): refused while the stream runs or anybody holds it.  *)
(* An unpowered sensor is probed first; a failed switch falls back to the   *)
(* default mode.                                                            *)
ModeFreeIfIdle == ~active
ModeFree == ~active /\ holders = {}

SetFormat(m) ==
  /\ ModeFree
  /\ \/ mode' = m /\ powered' = TRUE
     \/ mode' = "default" /\ powered' \in {powered, TRUE}
  /\ UNCHANGED <<tab, lost, active, stopReq, err, recPending, rapid, streamGen,
                 doneGen, colorbar, scratch, startSem, historyVars, producer,
                 off, joiner, ticket>>

(* camera_probe(), also `camera on`: refused only while the stream runs; it *)
(* power-cycles the sensor and goes back to the default mode.               *)
Probe(found) ==
  /\ ~active
  /\ mode' = "default"
  /\ powered' = found
  /\ UNCHANGED <<tab, lost, active, stopReq, err, recPending, rapid, streamGen,
                 doneGen, colorbar, scratch, startSem, historyVars, producer,
                 off, joiner, ticket>>

(* camera_scratch_claim() / camera_scratch_release() around `sdram test`.   *)
ScratchFree == ~scratch /\ ~active /\ ~recPending /\ holders = {}

ScratchClaim ==
  /\ ScratchFree
  /\ scratch' = TRUE
  /\ UNCHANGED <<tab, lost, active, stopReq, err, recPending, rapid, streamGen,
                 doneGen, colorbar, mode, powered, startSem, historyVars,
                 producer, off, joiner, ticket>>

ScratchRelease ==
  /\ scratch
  /\ scratch' = FALSE
  /\ UNCHANGED <<tab, lost, active, stopReq, err, recPending, rapid, streamGen,
                 doneGen, colorbar, mode, powered, startSem, historyVars,
                 producer, off, joiner, ticket>>

(* A terminal error: an interrupt, or a resync or re-arm that failed.       *)
StreamError ==
  /\ active /\ ~err
  /\ err' = TRUE
  /\ UNCHANGED <<tab, lost, active, stopReq, recPending, rapid, streamGen,
                 doneGen, colorbar, mode, powered, scratch, startSem,
                 historyVars, producer, off, joiner, ticket>>
----------------------------------------------------------------------------
(* The producer thread: cam_producer_entry().                               *)
ProducerSleeps ==
  /\ producer = "run" /\ ~active /\ ~recPending
  /\ producer' = "asleep"
  /\ UNCHANGED <<boardVars, historyVars, off, joiner, ticket>>

ProducerWakes ==
  /\ producer = "asleep" /\ startSem > 0
  /\ startSem' = startSem - 1
  /\ producer' = "run"
  /\ UNCHANGED <<tab, lost, active, stopReq, err, recPending, rapid, streamGen,
                 doneGen, colorbar, mode, powered, scratch, historyVars, off,
                 joiner, ticket>>

ProducerSeesStop ==
  /\ producer = "run" /\ active /\ (stopReq \/ err)
  /\ producer' = "teardown"
  /\ UNCHANGED <<boardVars, historyVars, off, joiner, ticket>>

ProducerSeesRecovery ==
  /\ producer = "run" /\ ~active /\ recPending
  /\ producer' = "recover"
  /\ UNCHANGED <<boardVars, historyVars, off, joiner, ticket>>

(* cam_teardown_proceeds()                                                  *)
TeardownUnlooked == TRUE
TeardownProceeds == err \/ (stopReq /\ holders = {})

(* cam_stream_teardown(): looks again under the lock.                       *)
Teardown ==
  /\ producer = "teardown"
  /\ producer' = "run"
  /\ IF active /\ ~TeardownProceeds
       THEN /\ stopReq' = FALSE
            /\ UNCHANGED <<active, recPending, doneGen, ended>>
       ELSE IF active
       THEN /\ recPending' = (err /\ ~stopReq)
            /\ active' = FALSE
            /\ doneGen' = streamGen
            /\ ended' = streams
            /\ UNCHANGED stopReq
       ELSE UNCHANGED <<stopReq, active, recPending, doneGen, ended>>
  /\ UNCHANGED <<tab, lost, err, rapid, streamGen, colorbar, mode, powered,
                 scratch, startSem, streams, asked, regs, off, joiner, ticket>>

(* cam_stream_recover(): re-arms at the same mode, unless a start or a stop *)
(* came between, or too many recoveries came in a row.                      *)
RecoveryCancelled == ~recPending \/ active

RapidAgain == rapid + 1
RecoveryGivesUp(n) == n >= GiveUp

Recover(outcome) ==
  /\ producer = "recover"
  /\ producer' = "run"
  /\ recPending' = FALSE
  /\ IF RecoveryCancelled
       THEN /\ outcome = "refused"
            /\ UNCHANGED <<tab, lost, active, stopReq, err, rapid, streamGen,
                           doneGen, colorbar, mode, powered, scratch, startSem,
                           streams, ended, asked>>
       ELSE \E n \in {0, RapidAgain} :
              /\ rapid' = n
              /\ IF RecoveryGivesUp(n)
                   THEN /\ outcome = "refused"
                        /\ Lose(tab)
                        /\ UNCHANGED <<active, stopReq, err, streamGen, doneGen,
                                       colorbar, mode, powered, scratch,
                                       startSem, streams, ended>>
                   ELSE /\ StreamStart(colorbar, outcome)
                        /\ IF outcome = "ok" THEN UNCHANGED <<tab, lost, asked>>
                                             ELSE Lose(tab)
  /\ UNCHANGED <<off, joiner, ticket, regs>>
----------------------------------------------------------------------------
Init ==
  /\ tab = [gen |-> [h \in Holders |-> NoGen], claimed |-> FALSE, base |-> {},
            next |-> FirstGen]
  /\ lost = {}
  /\ active = FALSE /\ stopReq = FALSE /\ err = FALSE
  /\ recPending = FALSE /\ rapid = 0
  /\ streamGen = FirstGen /\ doneGen = FirstGen
  /\ colorbar = FALSE /\ mode = "default" /\ powered = FALSE
  /\ scratch = FALSE
  /\ startSem = 0 /\ producer = "run"
  /\ off = [c \in Consoles |-> NoOff]
  /\ joiner = [h \in Joiners |-> "out"]
  /\ ticket = [h \in Joiners |-> NoTicket]
  /\ streams = 0 /\ ended = 0 /\ asked = FALSE /\ regs = 0

ProducerNext ==
  \/ ProducerSleeps
  \/ ProducerWakes
  \/ ProducerSeesStop
  \/ ProducerSeesRecovery
  \/ Teardown
  \/ \E outcome \in Outcomes : Recover(outcome)

OperatorNext ==
  \/ \E cb \in BOOLEAN, outcome \in Outcomes : StartFresh(cb, outcome)
  \/ \E cb \in BOOLEAN : StartOtherTest(cb)
  \/ \E cb \in BOOLEAN : StartHeld(cb)
  \/ \E cb \in BOOLEAN, outcome \in Outcomes : StartDown(cb, outcome)
  \/ Stop
  \/ \E m \in Modes : SetFormat(m)
  \/ \E found \in BOOLEAN : Probe(found)
  \/ ScratchClaim
  \/ ScratchRelease

OffNext(c) ==
  \/ OffSample(c)
  \/ OffStop(c)
  \/ OffEnded(c)
  \/ OffGivesUp(c)
  \/ PowerOff(c)

JoinerNext(h) ==
  \/ \E outcome \in Outcomes : Join(h, outcome)
  \/ JoinUndone(h)
  \/ JoinKept(h)
  \/ Leave(h)

Next ==
  \/ ProducerNext
  \/ OperatorNext
  \/ StreamError
  \/ \E c \in Consoles : OffNext(c)
  \/ \E h \in Joiners : JoinerNext(h)

Spec == Init /\ [][Next]_vars

(* The producer is a thread of its own, and its wait on a running stream is *)
(* bounded (CAM_PRODUCER_TICK): it runs on whether or not frames come.      *)
FairSpec == Spec /\ WF_vars(ProducerNext)
----------------------------------------------------------------------------
TypeOK ==
  /\ tab \in Tables
  /\ lost \subseteq Holders
  /\ active \in BOOLEAN /\ stopReq \in BOOLEAN /\ err \in BOOLEAN
  /\ recPending \in BOOLEAN /\ rapid \in 0 .. GiveUp
  /\ streamGen \in Gens /\ doneGen \in Gens
  /\ colorbar \in BOOLEAN /\ mode \in Modes /\ powered \in BOOLEAN
  /\ scratch \in BOOLEAN
  /\ startSem \in Nat /\ producer \in ProducerPlaces
  /\ off \in [Consoles -> [at : OffPlaces, want : Gens, nth : Nat]]
  /\ joiner \in [Joiners -> {"out", "joined", "running"}]
  /\ ticket \in [Joiners -> Tickets]
  /\ streams \in 0 .. MaxStreams /\ ended \in 0 .. streams
  /\ asked \in BOOLEAN /\ regs \in 0 .. MaxRegs

(* The base streams while, and only while, somebody holds it: a held stream *)
(* runs or is about to be recovered, an unheld one has been asked to stop   *)
(* and is never recovered, and no claim outlives the call that made it.     *)
StreamIffHeld ==
  /\ holders # {} <=> ((active /\ ~stopReq) \/ recPending)
  /\ active => ~recPending
  /\ ~tab.claimed

(* A place is kept until its owner lets go or a confirmed end takes it: the *)
(* operator who asked for the stream holds it, whatever any joiner's start, *)
(* failure or undo did meanwhile, and a joiner holds it or was marked lost. *)
PlacesKept ==
  /\ asked => In(tab, Manual)
  /\ \A h \in Joiners : joiner[h] # "out" => h \in holders \cup lost

(* A `camera off` that waits is told "ended" exactly when the very stream   *)
(* its stop named is over, whatever was started or withdrawn since, and     *)
(* across the wrap of the generations.                                      *)
WaitsForItsStream ==
  \A c \in Consoles :
    /\ off[c].at = "wait" =>
         (Ended(doneGen, off[c].want) <=> off[c].nth <= ended)
    /\ off[c].at = "power" => off[c].nth <= ended

(* nn reads RGB565 only: while a joiner holds the camera -- running, or     *)
(* between an error and its recovery -- the mode is one it can read.        *)
JoinedModeReadable == needers # {} => mode \in JoinModes

(* A stop is never lost: a stream nobody holds ends, unless it is held      *)
(* again before the producer gets to it.                                    *)
UnheldEnds ==
  \A n \in 1 .. MaxStreams :
    (active /\ streams = n /\ holders = {}) ~> (ended >= n \/ holders # {})

(* A held stream that went down comes back, or its holders are told.        *)
HeldComesBack == (holders # {} /\ ~active) ~> (active \/ holders = {})

=============================================================================
