------------------------------- MODULE NorPart -------------------------------
(***************************************************************************)
(* The external NOR flash of grove-vision-ai-v2 and everybody who uses it. *)
(*                                                                         *)
(* The part is read through a memory-mapped window, cached, under reader   *)
(* leases (port/nor/nor_flash.c); it is written by transactions that take  *)
(* the window down, under a reservation of the whole part                  *)
(* (port/nor/nor_write.c).  The decisions are the tables of                *)
(* port/nor/nor_state.c.  Its users are `nor`, `devmem`, `blob`, the NPU   *)
(* and the model loader; the camera disturbs a program on the wire, so a   *)
(* writer refuses while its datapath may be live.                          *)
(*                                                                         *)
(* One shell thread runs commands in the foreground; background jobs run   *)
(* below it without time slices, so a job only moves while the foreground  *)
(* waits.  A section with interrupts masked is one step.                   *)
(***************************************************************************)
EXTENDS Naturals, FiniteSets

CONSTANTS
  Fg,        \* the foreground shell thread
  Jobs,      \* background jobs
  N,         \* erase units of the writable part
  Patterns,  \* payloads a program may carry
  Erased,    \* a unit of 0xFF
  Junk,      \* a unit nobody asked for: half erased, half programmed, ...
  Absent,    \* no line of this unit is cached
  None,      \* no thread, no slot, no payload, no value
  Readers,   \* the lease slots commands read under, of SCAN, DEVMEM, BLOB
  MaxTxns    \* bound: transactions under one reservation

Threads == {Fg} \cup Jobs
Units   == 1..N
Values  == Patterns \cup {Erased, Junk}
Slots   == {"NPU", "SCAN", "DEVMEM", "BLOB"}
Ops     == {"cycle", "erase", "program"}

ASSUME ThreadsAssumption == Fg \notin Jobs /\ None \notin Threads \cup Slots
ASSUME PartAssumption ==
  /\ N \in Nat \ {0} /\ MaxTxns \in Nat \ {0}
  /\ Erased \notin Patterns /\ Junk \notin Patterns \cup {Erased}
  /\ Absent \notin Values /\ None \notin Values
  /\ Readers \subseteq Slots \ {"NPU"}

VARIABLES
  state,     \* the lifecycle
  live,      \* slots with a lease out
  owner,     \* whose reservation token is published; None is 0
  fail,      \* a failure reason is latched
  up,        \* the window is really mapped onto the array
  flash,     \* the array
  cache,     \* what the data cache holds of the window
  stage,     \* the 64 KB staging buffer
  cam,       \* the camera datapath may be live
  hwReady,   \* the NPU is up and keeps its lease
  pc,        \* where each thread is
  slot,      \* the lease each thread holds, or is bringing the part up for
  left,      \* transactions a writing command has left
  asked,     \* the payload a writing command has put in the staging buffer
  got,       \* the chunk a verify last copied into the staging buffer
  txn        \* the transaction: its report, and what its caller asked for

part    == <<state, live, owner, fail, up>>
data    == <<flash, cache, stage>>
threads == <<pc, slot, left, asked, got>>
vars    == <<part, data, threads, cam, hwReady, txn>>

-----------------------------------------------------------------------------
(* Who may run: the foreground whenever it likes, a job while it waits.    *)

Waits   == {"idle", "reading", "held", "tick"}
MayRun(t) == t = Fg \/ pc[Fg] \in Waits

InTxn   == {"check", "drop", "canary", "unit", "tick", "restore", "verify", "commit"}
Entering == {"enter", "lent", "reserve"}
Leased  == {"reading", "sum", "npu", "lent"}
Places  == {"idle", "bringup", "held"} \cup InTxn \cup Entering \cup Leased

(* Writing commands refuse to run in the background.                       *)
Anywhere(t) == TRUE
Foreground(t) == t = Fg

At(t, p) == pc[t] = p /\ MayRun(t)
Goto(t, p) == pc' = [pc EXCEPT ![t] = p]

(* What the bus answers: a window that is down mirrors one register.       *)
Bus(u) == IF up THEN flash[u] ELSE Junk

NoTxn == [op |-> "cycle", lo |-> 1, hi |-> 0, done |-> 0, st |-> "none",
          want |-> None, was |-> None]
Span == txn.lo .. txn.hi
Done == txn.lo .. (txn.lo + txn.done - 1)

Init ==
  /\ state = "OFF" /\ live = {} /\ owner = None /\ fail = FALSE /\ up = FALSE
  /\ flash \in [Units -> Patterns \cup {Erased}]
  /\ cache = [u \in Units |-> Absent]
  /\ stage = Junk
  /\ cam = FALSE /\ hwReady = FALSE
  /\ pc = [t \in Threads |-> "idle"]
  /\ slot = [t \in Threads |-> None]
  /\ left = [t \in Threads |-> 0]
  /\ asked = [t \in Threads |-> None]
  /\ got = [t \in Threads |-> None]
  /\ txn = NoTxn

-----------------------------------------------------------------------------
(* Reader leases.                                                          *)

AcquireTakesReserved == state \in {"XIP", "RESERVED"}
AcquireTakes == state = "XIP"

(* Where a caller of nor_acquire() goes once its lease is out.             *)
Granted(t, s) == IF left[t] > 0 THEN "lent" ELSE IF s = "NPU" THEN "npu" ELSE "reading"

(* A command that was refused, or is over, forgets what it was about.      *)
GiveUp(t) ==
  /\ Goto(t, "idle")
  /\ slot' = [slot EXCEPT ![t] = None]
  /\ left' = [left EXCEPT ![t] = 0]
  /\ asked' = [asked EXCEPT ![t] = None]

(* The first section of nor_acquire().                                     *)
Acquire(t, s) ==
  \/ /\ s \notin live /\ state = "OFF"
     /\ state' = "ENABLING"
     /\ Goto(t, "bringup") /\ slot' = [slot EXCEPT ![t] = s]
     /\ UNCHANGED <<live, left, asked>>
  \/ /\ s \notin live /\ AcquireTakes
     /\ live' = live \cup {s}
     /\ Goto(t, Granted(t, s)) /\ slot' = [slot EXCEPT ![t] = s]
     /\ UNCHANGED <<state, left, asked>>
  \/ /\ s \in live \/ ~(state = "OFF" \/ AcquireTakes)
     /\ GiveUp(t)
     /\ UNCHANGED <<state, live>>

(* `nor scan`, `devmem`, `blob list`/`info`/`read`/`verify`.               *)
StartRead(t, s) ==
  /\ At(t, "idle") /\ s \in Readers
  /\ Acquire(t, s)
  /\ UNCHANGED <<owner, fail, up, data, got, cam, hwReady, txn>>

(* A model load or a stream brings the NPU up.                             *)
StartNpu(t) ==
  /\ At(t, "idle") /\ ~hwReady
  /\ Acquire(t, "NPU")
  /\ UNCHANGED <<owner, fail, up, data, got, cam, hwReady, txn>>

(* The hardware part of the first acquire, and its second section.         *)
BringUpOk(t) ==
  /\ At(t, "bringup")
  /\ up' = TRUE /\ state' = "XIP" /\ live' = live \cup {slot[t]}
  /\ Goto(t, Granted(t, slot[t]))
  /\ UNCHANGED <<owner, fail, data, slot, left, asked, got, cam, hwReady, txn>>

BringUpFail(t) ==
  /\ At(t, "bringup")
  /\ state' = "FAULTED" /\ fail' = TRUE /\ up' \in BOOLEAN
  /\ GiveUp(t)
  /\ UNCHANGED <<live, owner, data, got, cam, hwReady, txn>>

Release(t) ==
  /\ live' = live \ {slot[t]}
  /\ slot' = [slot EXCEPT ![t] = None]

EndRead(t) ==
  /\ At(t, "reading")
  /\ Release(t) /\ Goto(t, "idle")
  /\ got' = [got EXCEPT ![t] = None]
  /\ UNCHANGED <<state, owner, fail, up, data, left, asked, cam, hwReady, txn>>

(* npu_hw_init() keeps the lease only when all of it succeeded.            *)
NpuKept(t) ==
  /\ At(t, "npu")
  /\ hwReady' = TRUE /\ slot' = [slot EXCEPT ![t] = None] /\ Goto(t, "idle")
  /\ UNCHANGED <<part, data, left, asked, got, cam, txn>>

NpuFailed(t) ==
  /\ At(t, "npu")
  /\ Release(t) /\ Goto(t, "idle")
  /\ UNCHANGED <<state, owner, fail, up, data, left, asked, got, cam, hwReady, txn>>

NpuDown(t) ==
  /\ At(t, "idle") /\ hwReady
  /\ hwReady' = FALSE /\ live' = live \ {"NPU"}
  /\ UNCHANGED <<state, owner, fail, up, data, threads, cam, txn>>

-----------------------------------------------------------------------------
(* Reads of the window.                                                    *)

(* Through the cache as it is: `nor scan`, `devmem`, a model parsed in     *)
(* place while the NPU keeps its lease.                                    *)
Cached(u) == cache' = [cache EXCEPT ![u] = IF @ = Absent THEN Bus(u) ELSE @]

ReadPlain(t, u) ==
  /\ \/ At(t, "reading") /\ slot[t] # "BLOB"
     \/ At(t, "idle") /\ hwReady
  /\ Cached(u)
  /\ UNCHANGED <<part, flash, stage, threads, cam, hwReady, txn>>

(* Invalidated first: `blob list`, `blob info`, `blob read`.               *)
ReadFresh(t, u) ==
  /\ At(t, "reading") /\ slot[t] = "BLOB"
  /\ cache' = [cache EXCEPT ![u] = Bus(u)]
  /\ UNCHANGED <<part, flash, stage, threads, cam, hwReady, txn>>

(* The writer reads back under its reservation, invalidated first.         *)
ReadReserved(t, u) ==
  /\ At(t, "held") /\ owner # None
  /\ cache' = [cache EXCEPT ![u] = Bus(u)]
  /\ UNCHANGED <<part, flash, stage, threads, cam, hwReady, txn>>

(* The CRC walk copies a chunk into the staging buffer, then sums it.      *)
VerifyCopy(t, u) ==
  /\ At(t, "reading") /\ slot[t] = "BLOB"
  /\ cache' = [cache EXCEPT ![u] = Bus(u)]
  /\ stage' = Bus(u) /\ got' = [got EXCEPT ![t] = Bus(u)]
  /\ Goto(t, "sum")
  /\ UNCHANGED <<part, flash, slot, left, asked, cam, hwReady, txn>>

VerifySum(t) ==
  /\ At(t, "sum")
  /\ Goto(t, "reading")
  /\ UNCHANGED <<part, data, slot, left, asked, got, cam, hwReady, txn>>

-----------------------------------------------------------------------------
(* A writing command takes the reservation.                                *)

(* `nor cycle`, `nor erase`, `blob erase`, `blob write`.                   *)
StartWrite(t) ==
  /\ At(t, "idle") /\ Foreground(t)
  /\ Goto(t, "enter")
  /\ \E n \in 1..MaxTxns : left' = [left EXCEPT ![t] = n]
  /\ UNCHANGED <<part, data, slot, asked, got, cam, hwReady, txn>>

(* `nor write` fills the staging buffer first.                             *)
StartNorWrite(t) ==
  /\ At(t, "idle") /\ Foreground(t)
  /\ Goto(t, "enter")
  /\ \E p \in Patterns : stage' = p /\ asked' = [asked EXCEPT ![t] = p]
  /\ left' = [left EXCEPT ![t] = 1]
  /\ UNCHANGED <<part, flash, cache, slot, got, cam, hwReady, txn>>

(* Bring the part up as a reader, under the slot its command uses, and     *)
(* hand that lease straight back.                                          *)
Enter(t, s) ==
  /\ At(t, "enter") /\ s \in {"SCAN", "BLOB"} \cap Readers
  /\ Acquire(t, s)
  /\ UNCHANGED <<owner, fail, up, data, got, cam, hwReady, txn>>

HandBack(t) ==
  /\ At(t, "lent")
  /\ Release(t) /\ Goto(t, "reserve")
  /\ UNCHANGED <<state, owner, fail, up, data, left, asked, got, cam, hwReady, txn>>

(* nor_owner_consistent(): who may own the part in which state.            *)
OwnerConsistent ==
  /\ state \in {"OFF", "ENABLING", "XIP"} => owner = None
  /\ state \in {"RESERVED", "WRITING"} => owner # None

ReserveGoes == OwnerConsistent /\ state = "XIP" /\ live = {} /\ ~cam

Reserve(t) ==
  /\ At(t, "reserve")
  /\ \/ /\ ReserveGoes
        /\ owner' = t /\ state' = "RESERVED" /\ Goto(t, "held")
        /\ UNCHANGED <<slot, left, asked>>
     \/ /\ ~ReserveGoes
        /\ GiveUp(t)
        /\ UNCHANGED <<owner, state>>
  /\ UNCHANGED <<live, fail, up, data, got, cam, hwReady, txn>>

(* `blob write` receives a chunk into the staging buffer.                  *)
Fill(t) ==
  /\ At(t, "held") /\ left[t] > 0 /\ asked[t] = None
  /\ \E p \in Patterns : stage' = p /\ asked' = [asked EXCEPT ![t] = p]
  /\ txn' = NoTxn
  /\ UNCHANGED <<part, flash, cache, pc, slot, left, got, cam, hwReady>>

UnreserveDropsHealthy == OwnerConsistent /\ state = "RESERVED"
UnreserveDrops == OwnerConsistent /\ state \in {"RESERVED", "FAULTED"}

AfterUnreserveReady == "XIP"
AfterUnreserve == IF state = "RESERVED" THEN "XIP" ELSE state

Unreserve(t) ==
  /\ At(t, "held")
  /\ IF UnreserveDrops /\ owner = t
       THEN owner' = None /\ state' = AfterUnreserve
       ELSE UNCHANGED <<owner, state>>
  /\ GiveUp(t)
  /\ txn' = NoTxn
  /\ UNCHANGED <<live, fail, up, data, got, cam, hwReady>>

-----------------------------------------------------------------------------
(* The transaction.                                                        *)

Latched == fail' = TRUE /\ state' = "FAULTED"

ClaimGoes(t) ==
  OwnerConsistent /\ state = "RESERVED" /\ owner = t /\ live = {} /\ ~cam

(* What a refused claim answers.                                           *)
ClaimRefusal(t) ==
  IF ~OwnerConsistent \/ state = "FAULTED" THEN "FAULTED"
  ELSE IF state = "RESERVED" /\ owner = t /\ live = {} THEN "CAMERA" ELSE "BUSY"

(* A staged payload is programmed; without one the part is erased, or only *)
(* taken down and up.  Requests outside the part are refused before this.  *)
Request(t) ==
  {r \in [op : Ops, lo : Units, hi : 0..N, done : {0}, st : {"OK"},
          want : Values \cup {None}, was : {flash}] :
     /\ r.op = "program" <=> asked[t] # None
     /\ IF r.op = "cycle" THEN r.lo = 1 /\ r.hi = 0 ELSE r.lo <= r.hi
     /\ r.want = CASE r.op = "cycle" -> None [] r.op = "erase" -> Erased
                    [] r.op = "program" -> asked[t]}

Claim(t) ==
  /\ At(t, "held") /\ left[t] > 0
  /\ \E r \in Request(t) :
       \/ /\ ClaimGoes(t)
          /\ state' = "WRITING" /\ txn' = r
          /\ Goto(t, IF r.op = "program" THEN "check" ELSE "drop")
          /\ UNCHANGED left
       \/ /\ ~ClaimGoes(t)
          /\ txn' = [r EXCEPT !.st = ClaimRefusal(t)]
          /\ left' = [left EXCEPT ![t] = 0]
          /\ UNCHANGED <<state, pc>>
  /\ UNCHANGED <<live, owner, fail, up, data, slot, asked, got, cam, hwReady>>

(* A read after nor_alias_invalidate() comes from the bus.                 *)
Lingering(u) == IF cache[u] = Absent THEN Bus(u) ELSE cache[u]
Fresh(u) == Bus(u)

(* The cache after the window was read over S, fresh, as far as the first  *)
(* unit that is not what it should be.                                     *)
Swept(S, bad) ==
  [u \in Units |-> IF u \notin S THEN cache[u]
                  ELSE IF \E v \in bad : v < u THEN Absent ELSE Fresh(u)]

(* A program needs erased flash, or the request is refused.                *)
CheckErased(t) ==
  /\ At(t, "check")
  /\ LET bad == {u \in Span : Fresh(u) # Erased} IN
       /\ cache' = Swept(Span, bad)
       /\ IF bad = {} THEN Goto(t, "drop") /\ UNCHANGED txn
                     ELSE Goto(t, "commit") /\ txn' = [txn EXCEPT !.st = "REFUSED"]
  /\ UNCHANGED <<part, flash, stage, slot, left, asked, got, cam, hwReady>>

Drop(t) ==
  /\ At(t, "drop")
  /\ \/ /\ up' = FALSE /\ Goto(t, "canary") /\ UNCHANGED <<state, fail, txn>>
     \/ /\ up' \in BOOLEAN /\ Goto(t, "restore") /\ Latched
        /\ txn' = [txn EXCEPT !.st = "FAULTED"]
  /\ UNCHANGED <<live, owner, data, slot, left, asked, got, cam, hwReady>>

(* The part answers with its JEDEC id, or is not asked to change anything. *)
Canary(t) ==
  /\ At(t, "canary")
  /\ \/ Goto(t, IF txn.op = "cycle" THEN "restore" ELSE "unit") /\ UNCHANGED txn
     \/ Goto(t, "restore") /\ txn' = [txn EXCEPT !.st = "NO_TRANSPORT"]
  /\ UNCHANGED <<part, data, slot, left, asked, got, cam, hwReady>>

(* The seam lets a call through only inside a transaction, and the vendor  *)
(* refuses one while the window is up.                                     *)
OnTheWire == state = "WRITING" /\ ~up

(* What the vendor's call leaves of a unit when it takes: programming only *)
(* clears bits, so anything but an erased unit becomes a mixture.          *)
Taken(u) ==
  IF txn.op = "erase" THEN Erased
  ELSE IF flash[u] = Erased THEN stage ELSE Junk

(* One call per unit.  Zero proves nothing about the array; anything else  *)
(* says that nothing was sent.                                             *)
WriteUnit(t) ==
  /\ At(t, "unit")
  /\ LET u == txn.lo + txn.done IN
     \/ /\ OnTheWire
        /\ \E v \in {Taken(u), Junk} : flash' = [flash EXCEPT ![u] = v]
        /\ txn' = [txn EXCEPT !.done = @ + 1]
        /\ Goto(t, IF txn.op = "erase" THEN "tick"
                   ELSE IF u < txn.hi THEN "unit" ELSE "restore")
     \/ /\ txn' = [txn EXCEPT !.st = "INCOMPLETE"]
        /\ Goto(t, "restore")
        /\ UNCHANGED flash
  /\ UNCHANGED <<part, cache, stage, slot, left, asked, got, cam, hwReady>>

(* The erase tick: it may print, and it may cancel.                        *)
EraseTick(t) ==
  /\ At(t, "tick")
  /\ IF txn.lo + txn.done > txn.hi
       THEN Goto(t, "restore") /\ UNCHANGED txn
       ELSE \/ Goto(t, "unit") /\ UNCHANGED txn
            \/ Goto(t, "restore") /\ txn' = [txn EXCEPT !.st = "INCOMPLETE"]
  /\ UNCHANGED <<part, data, slot, left, asked, got, cam, hwReady>>

(* What is read back: whatever was accepted, unless the window is lost.    *)
VerifyDueWhenOk == txn.st = "OK"
VerifyDue == txn.st # "FAULTED"

Restore(t) ==
  /\ At(t, "restore")
  /\ \/ /\ up' = TRUE
        /\ Goto(t, IF VerifyDue THEN "verify" ELSE "commit")
        /\ UNCHANGED <<state, fail, txn>>
     \/ /\ up' \in BOOLEAN /\ Goto(t, "commit") /\ Latched
        /\ txn' = [txn EXCEPT !.st = "FAULTED"]
  /\ UNCHANGED <<live, owner, data, slot, left, asked, got, cam, hwReady>>

(* The accepted prefix is read back, fresh, against what was sent.         *)
Verify(t) ==
  /\ At(t, "verify")
  /\ Goto(t, "commit")
  /\ LET sent == IF txn.op = "erase" THEN Erased ELSE stage
         bad  == {u \in Done : Fresh(u) # sent} IN
       /\ cache' = Swept(Done, bad)
       /\ txn' = IF bad = {} THEN txn ELSE [txn EXCEPT !.st = "FAULTED"]
  /\ UNCHANGED <<part, flash, stage, slot, left, asked, got, cam, hwReady>>

CommitOk == txn.st \in {"OK", "INCOMPLETE", "NO_TRANSPORT", "REFUSED"}

AfterCommitFree == "XIP"
AfterCommit == "RESERVED"

(* Back to the reservation, or faulted until the next reset.  A command    *)
(* stops at the first transaction that did not do all it was asked.        *)
Commit(t) ==
  /\ At(t, "commit")
  /\ IF CommitOk /\ ~fail THEN state' = AfterCommit /\ UNCHANGED fail ELSE Latched
  /\ Goto(t, "held")
  /\ left' = [left EXCEPT ![t] = IF txn.st = "OK" THEN @ - 1 ELSE 0]
  /\ asked' = [asked EXCEPT ![t] = None]
  /\ UNCHANGED <<live, owner, up, data, slot, got, cam, hwReady, txn>>

-----------------------------------------------------------------------------
(* The camera is started and stopped from a console thread.                *)

CameraStart(t) ==
  /\ At(t, "idle") /\ ~cam
  /\ cam' = TRUE
  /\ UNCHANGED <<part, data, threads, hwReady, txn>>

CameraStop(t) ==
  /\ At(t, "idle") /\ cam
  /\ cam' = FALSE
  /\ UNCHANGED <<part, data, threads, hwReady, txn>>

Reader(t) ==
  \/ \E s \in Slots : StartRead(t, s)
  \/ StartNpu(t) \/ BringUpOk(t) \/ BringUpFail(t) \/ EndRead(t)
  \/ NpuKept(t) \/ NpuFailed(t) \/ NpuDown(t)
  \/ \E u \in Units : 
       ReadPlain(t, u) \/ ReadFresh(t, u) \/ ReadReserved(t, u) \/ VerifyCopy(t, u)
  \/ VerifySum(t)

Command(t) ==
  \/ StartWrite(t) \/ StartNorWrite(t) \/ HandBack(t) \/ Reserve(t)
  \/ \E s \in Slots : Enter(t, s)

Transaction(t) ==
  \/ Fill(t) \/ Unreserve(t) \/ Claim(t) \/ CheckErased(t) \/ Drop(t) \/ Canary(t)
  \/ WriteUnit(t) \/ EraseTick(t) \/ Restore(t) \/ Verify(t) \/ Commit(t)

Next ==
  \E t \in Threads :
     Reader(t) \/ Command(t) \/ Transaction(t) \/ CameraStart(t) \/ CameraStop(t)

Spec == Init /\ [][Next]_vars

(* The foreground runs whenever it can: the vendor's calls and the console *)
(* wait return.                                                            *)
FairSpec == Spec /\ WF_vars(Transaction(Fg))

-----------------------------------------------------------------------------
(* Every variable stays in its range (enum nor_state, the lease mask, the  *)
(* write report of nor_write.h).                                           *)
Statuses == {"none", "OK", "BUSY", "REFUSED", "NO_TRANSPORT", "INCOMPLETE",
             "FAULTED", "CAMERA"}
Reports ==
  [op : Ops, lo : Units, hi : 0..N, done : Nat, st : Statuses,
   want : Values \cup {None}, was : [Units -> Values] \cup {None}]

TypeOK ==
  /\ state \in {"OFF", "ENABLING", "XIP", "RESERVED", "WRITING", "FAULTED"}
  /\ live \subseteq Slots /\ owner \in Threads \cup {None}
  /\ fail \in BOOLEAN /\ up \in BOOLEAN /\ cam \in BOOLEAN /\ hwReady \in BOOLEAN
  /\ flash \in [Units -> Values]
  /\ cache \in [Units -> Values \cup {Absent}]
  /\ stage \in Values
  /\ pc \in [Threads -> Places]
  /\ slot \in [Threads -> Slots \cup {None}]
  /\ left \in [Threads -> Nat]
  /\ asked \in [Threads -> Patterns \cup {None}]
  /\ got \in [Threads -> Values \cup {None}]
  /\ txn \in Reports

(* Whoever holds a lease (nor_acquire to nor_release, the NPU from bring-up*)
(* to teardown) has the window mapped, verified and to no writer's mercy,  *)
(* and the mask names exactly those who hold one: a writer that reads zero *)
(* readers is right, across bring-up, faults and reservations.             *)
ReadersCovered ==
  /\ state \in {"XIP", "RESERVED"} => up
  /\ live # {} => state = "XIP"
  /\ \A t1, t2 \in Threads :
       pc[t1] \in Leased /\ pc[t2] \in Leased /\ slot[t1] = slot[t2] => t1 = t2
  /\ live = {slot[t] : t \in {t \in Threads : pc[t] \in Leased}}
            \cup IF hwReady THEN {"NPU"} ELSE {}

(* nor_owner_consistent() holds at every instant, and the published token  *)
(* is that of the one thread between its reserve and its unreserve: a      *)
(* transfer of many transactions is never refused as busy half way, and a  *)
(* reservation is never left behind.                                       *)
OwnerExact ==
  /\ OwnerConsistent
  /\ \A t \in Threads : owner = t <=> pc[t] \in InTxn \cup {"held"}
  /\ \A t \in Threads : pc[t] = "held" => txn.st # "BUSY" /\ state \in {"RESERVED", "FAULTED"}

(* While the window may be read, no cached line is older than the array:   *)
(* reads that do not invalidate (`nor scan`, `devmem`, a model parsed in   *)
(* place) still see what the last transaction left.                        *)
CacheCoherent ==
  state \in {"XIP", "RESERVED"} =>
    \A u \in Units : cache[u] \in {Absent, flash[u]}

(* What a write command is told is true of the array: OK means the whole   *)
(* span holds what was asked, INCOMPLETE that the reported prefix does,    *)
(* and in both, and after every refusal, everything else is as it was.     *)
AnswerTrue ==
  \A t \in Threads : pc[t] = "held" =>
    /\ txn.st \in {"OK", "INCOMPLETE"} =>
         \A u \in Units : flash[u] = IF u \in Done THEN txn.want ELSE txn.was[u]
    /\ txn.st = "OK" => Done = Span
    /\ txn.st \in {"REFUSED", "NO_TRANSPORT", "CAMERA", "BUSY"} => flash = txn.was

(* The camera is asked about once, at the claim; for a program and a cycle *)
(* it is still off when the wire is used (issue #203).                     *)
ProgramsInTheDark ==
  \A t \in Threads : pc[t] \in InTxn /\ txn.op # "erase" => ~cam

(* A reservation is always given back, from a fault too.                   *)
PartComesBack == owner # None ~> owner = None

(* Out of FAULTED there is no way but a reset.                             *)
FaultSticks == [][state = "FAULTED" => state' = "FAULTED"]_vars

(* blob_stage.h: one user at a time.  What a verify sums is what it copied *)
(* into the staging buffer.                                                *)
StageOneUser == \A t \in Threads : pc[t] = "sum" => stage = got[t]
=============================================================================
