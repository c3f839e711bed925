--------------------------- MODULE NorPartProofs ---------------------------
(***************************************************************************)
(* What holds of the NOR part for any number of jobs, units, payloads and  *)
(* transactions: leases and reservation exclude each other, the cache      *)
(* follows the array, and a write command's answer is true.                *)
(***************************************************************************)
EXTENDS NorPart, TLAPS

(* TypeOK by its parts.                                                    *)
PartTypes ==
  /\ state \in {"OFF", "ENABLING", "XIP", "RESERVED", "WRITING", "FAULTED"}
  /\ live \subseteq Slots /\ owner \in Threads \cup {None}
  /\ fail \in BOOLEAN /\ up \in BOOLEAN /\ cam \in BOOLEAN /\ hwReady \in BOOLEAN

DataTypes ==
  /\ flash \in [Units -> Values]
  /\ cache \in [Units -> Values \cup {Absent}]
  /\ stage \in Values

ThreadTypes ==
  /\ pc \in [Threads -> Places]
  /\ slot \in [Threads -> Slots \cup {None}]
  /\ left \in [Threads -> Nat]
  /\ asked \in [Threads -> Patterns \cup {None}]
  /\ got \in [Threads -> Values \cup {None}]

Writing == InTxn \cup {"held"}

(* Jobs only read: every writing command refused the background.           *)
JobsRead ==
  \A t \in Threads :
    /\ t # Fg => pc[t] \in {"idle", "bringup", "reading", "sum", "npu"}
    /\ (pc[t] \in {"idle", "reading", "sum", "npu"} \/ t # Fg)
         => left[t] = 0 /\ asked[t] = None
    /\ pc[t] = "bringup" /\ left[t] = 0 => asked[t] = None
    /\ pc[t] \in Entering \cup InTxn => left[t] > 0

(* State, owner and the foreground's place go together.                    *)
OwnerInv ==
  /\ IF pc[Fg] \in Writing THEN owner = Fg
     ELSE owner = None /\ state \notin {"RESERVED", "WRITING"} /\ txn.st = "none"
  /\ fail <=> state = "FAULTED"
  /\ pc[Fg] = "held" => state \in {"RESERVED", "FAULTED"} /\ txn.st # "BUSY"
  /\ pc[Fg] \in {"check", "drop", "canary", "unit", "tick", "verify"} => state = "WRITING"
  /\ pc[Fg] \in {"restore", "commit"} =>
       state = "WRITING" \/ (state = "FAULTED" /\ txn.st = "FAULTED")

(* One bring-up, before the first lease.                                   *)
BringInv ==
  /\ \A t \in Threads : pc[t] = "bringup" =>
       /\ state = "ENABLING" /\ slot[t] \in Slots
       /\ IF left[t] > 0 THEN slot[t] # "NPU" ELSE slot[t] \in Readers \cup {"NPU"}
  /\ \A t1, t2 \in Threads : pc[t1] = "bringup" /\ pc[t2] = "bringup" => t1 = t2

(* The mask is the leases.                                                 *)
LeaseInv ==
  /\ live # {} => state = "XIP"
  /\ \A t \in Threads : pc[t] \in Leased => slot[t] \in live
  /\ \A t \in Threads : pc[t] \notin Leased \cup {"bringup"} => slot[t] = None
  /\ \A t \in Threads : pc[t] = "npu" <=> pc[t] \in Leased /\ slot[t] = "NPU"
  /\ hwReady => "NPU" \in live /\ \A t \in Threads : pc[t] # "npu"
  /\ \A s \in live : \/ s = "NPU" /\ hwReady
                     \/ \E t \in Threads : pc[t] \in Leased /\ slot[t] = s
  /\ \A t1, t2 \in Threads :
       pc[t1] \in Leased /\ pc[t2] \in Leased /\ slot[t1] = slot[t2] => t1 = t2

(* Where the window is.                                                    *)
WindowInv ==
  /\ state \in {"XIP", "RESERVED"} => up
  /\ pc[Fg] \in {"check", "verify"} => up
  /\ pc[Fg] = "commit" /\ txn.st # "FAULTED" => up

(* Lines of units this transaction has not touched are those of the array. *)
CacheInv ==
  /\ state \in {"OFF", "ENABLING"} => \A u \in Units : cache[u] = Absent
  /\ state \in {"XIP", "RESERVED"} => \A u \in Units : cache[u] \in {Absent, flash[u]}
  /\ pc[Fg] \in InTxn /\ state = "WRITING" =>
       \A u \in Units : cache[u] \in {Absent, flash[u]} \/ u \in Done
  /\ pc[Fg] = "commit" /\ txn.st # "FAULTED" =>
       \A u \in Units : cache[u] \in {Absent, flash[u]}

(* The transaction, place by place.                                        *)
TxnInv ==
  pc[Fg] \in InTxn =>
    /\ txn.lo + txn.done <= txn.hi + 1
    /\ txn.was \in [Units -> Values]
    /\ \A u \in Units : u \notin Done => flash[u] = txn.was[u]
    /\ pc[Fg] = "check" => txn.op = "program"
    /\ pc[Fg] \in {"check", "drop", "canary"} => txn.st = "OK" /\ txn.done = 0
    /\ pc[Fg] = "unit" => txn.lo + txn.done <= txn.hi /\ txn.op # "cycle" /\ txn.st = "OK"
    /\ pc[Fg] = "tick" => txn.op = "erase" /\ txn.st = "OK"
    /\ IF txn.op = "cycle" THEN txn.lo = 1 /\ txn.hi = 0 ELSE txn.lo <= txn.hi
    /\ pc[Fg] \in {"restore", "verify"} =>
         txn.st \in {"OK", "INCOMPLETE", "NO_TRANSPORT", "FAULTED"}
    /\ pc[Fg] = "verify" => txn.st # "FAULTED"
    /\ pc[Fg] = "commit" =>
         txn.st \in {"OK", "INCOMPLETE", "NO_TRANSPORT", "REFUSED", "FAULTED"}
    /\ pc[Fg] \in {"restore", "verify", "commit"} =>
         /\ txn.st = "OK" => txn.lo + txn.done = txn.hi + 1
         /\ txn.st \in {"NO_TRANSPORT", "REFUSED"} => txn.done = 0
    /\ pc[Fg] = "commit" /\ txn.st \in {"OK", "INCOMPLETE"} =>
         \A u \in Done : flash[u] = txn.want

(* The staging buffer is the foreground's from the fill to the commit.     *)
PayloadInv ==
  /\ asked[Fg] # None => stage = asked[Fg]
  /\ pc[Fg] \in InTxn => txn.want = CASE txn.op = "cycle" -> None
                                      [] txn.op = "erase" -> Erased
                                      [] txn.op = "program" -> stage
  /\ pc[Fg] \in InTxn /\ txn.op = "program" => asked[Fg] # None

Inv ==
  /\ TypeOK /\ JobsRead /\ OwnerInv /\ BringInv /\ LeaseInv /\ WindowInv
  /\ CacheInv /\ TxnInv /\ PayloadInv /\ AnswerTrue /\ ProgramsInTheDark

(* The empty report is one.                                                *)
LEMMA NoTxnReport == NoTxn \in Reports
BY PartAssumption DEF NoTxn, Reports, Ops, Units, Statuses

(* Every step keeps the array, the cache and the staging buffer in range.  *)
LEMMA DataTypesKept ==
  ASSUME Inv, [Next]_vars
  PROVE  DataTypes'
<1> USE ThreadsAssumption, PartAssumption DEF Inv, TypeOK, DataTypes, Values
<1>u. CASE UNCHANGED vars
  BY <1>u DEF vars, part, data, threads
<1>n. ASSUME NEW t \in Threads,
             Reader(t) \/ Command(t) \/ Transaction(t) \/ CameraStart(t) \/ CameraStop(t)
      PROVE  DataTypes'
  <2>o. CASE UNCHANGED data
    BY <2>o DEF part, data, threads
  <2>1. CASE \E u \in Units : ReadPlain(t, u)
    BY <2>1 DEF ReadPlain, Cached, Bus, At, part, threads
  <2>2. CASE \E u \in Units : ReadFresh(t, u)
    BY <2>2 DEF ReadFresh, Bus, At, part, threads
  <2>3. CASE \E u \in Units : ReadReserved(t, u)
    BY <2>3 DEF ReadReserved, Bus, At, part, threads
  <2>4. CASE \E u \in Units : VerifyCopy(t, u)
    BY <2>4 DEF VerifyCopy, Bus, Goto, At, part
  <2>5. CASE StartNorWrite(t)
    BY <2>5 DEF StartNorWrite, Foreground, Goto, At, part
  <2>6. CASE Fill(t)
    BY <2>6 DEF Fill, NoTxn, At, part
  <2>7. CASE CheckErased(t)
    BY <2>7 DEF CheckErased, Span, Fresh, Swept, Bus, Goto, At, part
  <2>8. CASE WriteUnit(t)
    BY <2>8 DEF WriteUnit, OnTheWire, Taken, Goto, At, part
  <2>9. CASE Verify(t)
    BY <2>9 DEF Verify, Done, Fresh, Swept, Bus, Goto, At, part
  <2> QED
    BY <1>n, <2>o, <2>1, <2>2, <2>3, <2>4, <2>5, <2>6, <2>7, <2>8, <2>9 DEF Reader,
       Command, Transaction, StartRead, StartNpu, BringUpOk, BringUpFail, EndRead,
       NpuKept, NpuFailed, NpuDown, VerifySum, StartWrite, HandBack, Reserve, Enter,
       Unreserve, Claim, Drop, Canary, EraseTick, Restore, Commit, CameraStart,
       CameraStop, part, data, threads, Acquire, GiveUp, Release, Latched
<1> QED BY <1>u, <1>n DEF Next

(* Every step leaves a well-typed report.                                  *)
LEMMA TxnTypesKept ==
  ASSUME Inv, [Next]_vars
  PROVE  txn' \in Reports
<1> USE ThreadsAssumption, PartAssumption DEF Inv, TypeOK, Reports, TxnInv, Statuses, Ops
<1>u. CASE UNCHANGED vars
  BY <1>u DEF vars, part, data, threads
<1>n. ASSUME NEW t \in Threads,
             Reader(t) \/ Command(t) \/ Transaction(t) \/ CameraStart(t) \/ CameraStop(t)
      PROVE  txn' \in Reports
  <2>o. CASE UNCHANGED txn
    BY <2>o DEF part, data, threads
  <2>1. CASE Fill(t)
    BY <2>1, NoTxnReport DEF Fill
  <2>2. CASE Unreserve(t)
    BY <2>2, NoTxnReport DEF Unreserve
  <2>3. CASE Claim(t)
    BY <2>3 DEF Claim, ClaimGoes, ClaimRefusal, OwnerConsistent, Request, Goto, At, data
  <2>4. CASE CheckErased(t)
    BY <2>4 DEF CheckErased, Span, Fresh, Swept, Bus, Goto, At, part
  <2>5. CASE Drop(t)
    BY <2>5 DEF Drop, Latched, Goto, At, data
  <2>6. CASE Canary(t)
    BY <2>6 DEF Canary, Goto, At, part, data
  <2>7. CASE WriteUnit(t)
    BY <2>7 DEF WriteUnit, OnTheWire, Taken, Goto, At, part
  <2>8. CASE EraseTick(t)
    BY <2>8 DEF EraseTick, Goto, At, part, data
  <2>9. CASE Restore(t)
    BY <2>9 DEF Restore, Latched, VerifyDue, Goto, At, data
  <2>10. CASE Verify(t)
    BY <2>10 DEF Verify, Done, Fresh, Swept, Bus, Goto, At, part
  <2> QED
    BY <1>n, <2>o, <2>1, <2>2, <2>3, <2>4, <2>5, <2>6, <2>7, <2>8, <2>9, <2>10 DEF
       Reader, Command, Transaction, StartRead, StartNpu, BringUpOk, BringUpFail,
       EndRead, NpuKept, NpuFailed, NpuDown, ReadPlain, ReadFresh, ReadReserved,
       VerifyCopy, VerifySum, StartWrite, StartNorWrite, HandBack, Reserve, Enter,
       Commit, CameraStart, CameraStop, part, data, threads, Acquire, GiveUp, Release,
       Latched
<1> QED BY <1>u, <1>n DEF Next

(* Every step keeps the lifecycle, the mask and the owner in range.        *)
LEMMA PartTypesKept ==
  ASSUME Inv, [Next]_vars
  PROVE  PartTypes'
<1> USE ThreadsAssumption, PartAssumption DEF Inv, TypeOK, PartTypes, Threads, BringInv,
   Slots
<1>u. CASE UNCHANGED vars
  BY <1>u DEF vars, part, data, threads
<1>n. ASSUME NEW t \in Threads,
             Reader(t) \/ Command(t) \/ Transaction(t) \/ CameraStart(t) \/ CameraStop(t)
      PROVE  PartTypes'
  <2>o. CASE UNCHANGED <<part, cam, hwReady>>
    BY <2>o DEF part, data, threads
  <2>1. CASE \E s \in Slots : StartRead(t, s)
    BY <2>1 DEF StartRead, Acquire, Granted, GiveUp, AcquireTakes, Goto, At, data
  <2>2. CASE StartNpu(t)
    BY <2>2 DEF StartNpu, Acquire, Granted, GiveUp, AcquireTakes, Goto, At, data
  <2>3. CASE BringUpOk(t)
    BY <2>3 DEF BringUpOk, Granted, Goto, At, data
  <2>4. CASE BringUpFail(t)
    BY <2>4 DEF BringUpFail, GiveUp, Goto, At, data
  <2>5. CASE EndRead(t)
    BY <2>5 DEF EndRead, Release, Goto, At, data
  <2>6. CASE NpuKept(t)
    BY <2>6 DEF NpuKept, Goto, At, part, data
  <2>7. CASE NpuFailed(t)
    BY <2>7 DEF NpuFailed, Release, Goto, At, data
  <2>8. CASE NpuDown(t)
    BY <2>8 DEF NpuDown, At, data, threads
  <2>9. CASE HandBack(t)
    BY <2>9 DEF HandBack, Release, Goto, At, data
  <2>10. CASE Reserve(t)
    BY <2>10 DEF Reserve, ReserveGoes, GiveUp, Goto, At, data
  <2>11. CASE \E s \in Slots : Enter(t, s)
    BY <2>11 DEF Enter, Acquire, Granted, GiveUp, AcquireTakes, Goto, At, data
  <2>12. CASE Unreserve(t)
    BY <2>12 DEF Unreserve, UnreserveDrops, AfterUnreserve, OwnerConsistent, GiveUp,
       NoTxn, Goto, At, data
  <2>13. CASE Claim(t)
    BY <2>13 DEF Claim, ClaimGoes, ClaimRefusal, OwnerConsistent, Request, Goto, At, data
  <2>14. CASE Drop(t)
    BY <2>14 DEF Drop, Latched, Goto, At, data
  <2>15. CASE Restore(t)
    BY <2>15 DEF Restore, Latched, VerifyDue, Goto, At, data
  <2>16. CASE Commit(t)
    BY <2>16 DEF Commit, Latched, CommitOk, AfterCommit, Goto, At, data
  <2>17. CASE CameraStart(t)
    BY <2>17 DEF CameraStart, At, part, data, threads
  <2>18. CASE CameraStop(t)
    BY <2>18 DEF CameraStop, At, part, data, threads
  <2> QED
    BY <1>n, <2>o, <2>1, <2>2, <2>3, <2>4, <2>5, <2>6, <2>7, <2>8, <2>9, <2>10, <2>11,
       <2>12, <2>13, <2>14, <2>15, <2>16, <2>17, <2>18 DEF Reader, Command, Transaction,
       ReadPlain, ReadFresh, ReadReserved, VerifyCopy, VerifySum, StartWrite,
       StartNorWrite, Fill, CheckErased, Canary, WriteUnit, EraseTick, Verify, part,
       data, threads
<1> QED BY <1>u, <1>n DEF Next

(* Every step keeps what each thread holds in range.                       *)
LEMMA ThreadTypesKept ==
  ASSUME Inv, [Next]_vars
  PROVE  ThreadTypes'
<1> USE ThreadsAssumption, PartAssumption DEF Inv, TypeOK, ThreadTypes, JobsRead,
   Values, Slots, Places, InTxn, Entering, Leased
<1>u. CASE UNCHANGED vars
  BY <1>u DEF vars, part, data, threads
<1>n. ASSUME NEW t \in Threads,
             Reader(t) \/ Command(t) \/ Transaction(t) \/ CameraStart(t) \/ CameraStop(t)
      PROVE  ThreadTypes'
  <2>o. CASE UNCHANGED threads
    BY <2>o DEF part, data, threads
  <2>1. CASE \E s \in Slots : StartRead(t, s)
    BY <2>1 DEF StartRead, Acquire, Granted, GiveUp, AcquireTakes, Goto, At, data
  <2>2. CASE StartNpu(t)
    BY <2>2 DEF StartNpu, Acquire, Granted, GiveUp, AcquireTakes, Goto, At, data
  <2>3. CASE BringUpOk(t)
    BY <2>3 DEF BringUpOk, Granted, Goto, At, data
  <2>4. CASE BringUpFail(t)
    BY <2>4 DEF BringUpFail, GiveUp, Goto, At, data
  <2>5. CASE EndRead(t)
    BY <2>5 DEF EndRead, Release, Goto, At, data
  <2>6. CASE NpuKept(t)
    BY <2>6 DEF NpuKept, Goto, At, part, data
  <2>7. CASE NpuFailed(t)
    BY <2>7 DEF NpuFailed, Release, Goto, At, data
  <2>8. CASE \E u \in Units : VerifyCopy(t, u)
    BY <2>8 DEF VerifyCopy, Bus, Goto, At, part
  <2>9. CASE VerifySum(t)
    BY <2>9 DEF VerifySum, Goto, At, part, data
  <2>10. CASE StartWrite(t)
    BY <2>10 DEF StartWrite, Foreground, Goto, At, part, data
  <2>11. CASE StartNorWrite(t)
    BY <2>11 DEF StartNorWrite, Foreground, Goto, At, part
  <2>12. CASE HandBack(t)
    BY <2>12 DEF HandBack, Release, Goto, At, data
  <2>13. CASE Reserve(t)
    BY <2>13 DEF Reserve, ReserveGoes, GiveUp, Goto, At, data
  <2>14. CASE \E s \in Slots : Enter(t, s)
    BY <2>14 DEF Enter, Acquire, Granted, GiveUp, AcquireTakes, Goto, At, data
  <2>15. CASE Fill(t)
    BY <2>15 DEF Fill, NoTxn, At, part
  <2>16. CASE Unreserve(t)
    BY <2>16 DEF Unreserve, UnreserveDrops, AfterUnreserve, OwnerConsistent, GiveUp,
       NoTxn, Goto, At, data
  <2>17. CASE Claim(t)
    BY <2>17 DEF Claim, ClaimGoes, ClaimRefusal, OwnerConsistent, Request, Goto, At, data
  <2>18. CASE CheckErased(t)
    BY <2>18 DEF CheckErased, Span, Fresh, Swept, Bus, Goto, At, part
  <2>19. CASE Drop(t)
    BY <2>19 DEF Drop, Latched, Goto, At, data
  <2>20. CASE Canary(t)
    BY <2>20 DEF Canary, Goto, At, part, data
  <2>21. CASE WriteUnit(t)
    BY <2>21 DEF WriteUnit, OnTheWire, Taken, Goto, At, part
  <2>22. CASE EraseTick(t)
    BY <2>22 DEF EraseTick, Goto, At, part, data
  <2>23. CASE Restore(t)
    BY <2>23 DEF Restore, Latched, VerifyDue, Goto, At, data
  <2>24. CASE Verify(t)
    BY <2>24 DEF Verify, Done, Fresh, Swept, Bus, Goto, At, part
  <2>25. CASE Commit(t)
    BY <2>25 DEF Commit, Latched, CommitOk, AfterCommit, Goto, At, data
  <2> QED
    BY <1>n, <2>o, <2>1, <2>2, <2>3, <2>4, <2>5, <2>6, <2>7, <2>8, <2>9, <2>10, <2>11,
       <2>12, <2>13, <2>14, <2>15, <2>16, <2>17, <2>18, <2>19, <2>20, <2>21, <2>22,
       <2>23, <2>24, <2>25 DEF Reader, Command, Transaction, NpuDown, ReadPlain,
       ReadFresh, ReadReserved, CameraStart, CameraStop, part, data, threads
<1> QED BY <1>u, <1>n DEF Next

(* A job stays a reader, and a reader has nothing left to write.           *)
LEMMA JobsReadKept ==
  ASSUME Inv, [Next]_vars
  PROVE  JobsRead'
<1> USE ThreadsAssumption, PartAssumption DEF Inv, TypeOK, JobsRead, Writing, Waits,
   InTxn, Entering, Leased, Places, Threads
<1>u. CASE UNCHANGED vars
  BY <1>u DEF vars, part, data, threads
<1>n. ASSUME NEW t \in Threads,
             Reader(t) \/ Command(t) \/ Transaction(t) \/ CameraStart(t) \/ CameraStop(t)
      PROVE  JobsRead'
  <2>o. CASE UNCHANGED threads
    BY <2>o DEF part, data, threads
  <2>1. CASE \E s \in Slots : StartRead(t, s)
    BY <2>1 DEF StartRead, Acquire, Granted, GiveUp, AcquireTakes, Goto, At, MayRun
  <2>2. CASE StartNpu(t)
    BY <2>2 DEF StartNpu, Acquire, Granted, GiveUp, AcquireTakes, Goto, At, MayRun
  <2>3. CASE BringUpOk(t)
    BY <2>3 DEF BringUpOk, Granted, Goto, At, MayRun
  <2>4. CASE BringUpFail(t)
    BY <2>4 DEF BringUpFail, GiveUp, Goto, At, MayRun
  <2>5. CASE EndRead(t)
    BY <2>5 DEF EndRead, Release, Goto, At, MayRun
  <2>6. CASE NpuKept(t)
    BY <2>6 DEF NpuKept, Goto, At, MayRun
  <2>7. CASE NpuFailed(t)
    BY <2>7 DEF NpuFailed, Release, Goto, At, MayRun
  <2>8. CASE \E u \in Units : VerifyCopy(t, u)
    BY <2>8 DEF VerifyCopy, Bus, Goto, At, MayRun
  <2>9. CASE VerifySum(t)
    BY <2>9 DEF VerifySum, Goto, At, MayRun
  <2>10. CASE StartWrite(t)
    BY <2>10 DEF StartWrite, Foreground, Goto, At, MayRun
  <2>11. CASE StartNorWrite(t)
    BY <2>11 DEF StartNorWrite, Foreground, Goto, At, MayRun
  <2>12. CASE HandBack(t)
    BY <2>12 DEF HandBack, Release, Goto, At, MayRun
  <2>13. CASE Reserve(t)
    BY <2>13 DEF Reserve, ReserveGoes, GiveUp, Goto, At, MayRun
  <2>14. CASE \E s \in Slots : Enter(t, s)
    BY <2>14 DEF Enter, Acquire, Granted, GiveUp, AcquireTakes, Goto, At, MayRun
  <2>15. CASE Fill(t)
    BY <2>15 DEF Fill, NoTxn, At, MayRun
  <2>16. CASE Unreserve(t)
    BY <2>16 DEF Unreserve, UnreserveDrops, AfterUnreserve, OwnerConsistent, GiveUp,
       NoTxn, Goto, At, MayRun
  <2>17. CASE Claim(t)
    BY <2>17 DEF Claim, ClaimGoes, ClaimRefusal, OwnerConsistent, Request, Goto, At, MayRun
  <2>18. CASE CheckErased(t)
    BY <2>18 DEF CheckErased, Span, Fresh, Swept, Bus, Goto, At, MayRun
  <2>19. CASE Drop(t)
    BY <2>19 DEF Drop, Latched, Goto, At, MayRun
  <2>20. CASE Canary(t)
    BY <2>20 DEF Canary, Goto, At, MayRun
  <2>21. CASE WriteUnit(t)
    BY <2>21 DEF WriteUnit, OnTheWire, Taken, Goto, At, MayRun
  <2>22. CASE EraseTick(t)
    BY <2>22 DEF EraseTick, Goto, At, MayRun
  <2>23. CASE Restore(t)
    BY <2>23 DEF Restore, Latched, VerifyDue, Goto, At, MayRun
  <2>24. CASE Verify(t)
    BY <2>24 DEF Verify, Done, Fresh, Swept, Bus, Goto, At, MayRun
  <2>25. CASE Commit(t)
    BY <2>25 DEF Commit, Latched, CommitOk, AfterCommit, Goto, At, MayRun
  <2> QED
    BY <1>n, <2>o, <2>1, <2>2, <2>3, <2>4, <2>5, <2>6, <2>7, <2>8, <2>9, <2>10, <2>11,
       <2>12, <2>13, <2>14, <2>15, <2>16, <2>17, <2>18, <2>19, <2>20, <2>21, <2>22,
       <2>23, <2>24, <2>25 DEF Reader, Command, Transaction, NpuDown, ReadPlain,
       ReadFresh, ReadReserved, CameraStart, CameraStop, part, data, threads
<1> QED BY <1>u, <1>n DEF Next

(* State, owner and the foreground's place move together.                  *)
LEMMA OwnerKept ==
  ASSUME Inv, [Next]_vars
  PROVE  OwnerInv'
<1> USE ThreadsAssumption, PartAssumption DEF Inv, TypeOK, Reports, Statuses, JobsRead,
   OwnerInv, BringInv, LeaseInv, TxnInv, Writing, Waits, InTxn, Entering, Leased,
   Places, Threads
<1>u. CASE UNCHANGED vars
  BY <1>u DEF vars, part, data, threads
<1>n. ASSUME NEW t \in Threads,
             Reader(t) \/ Command(t) \/ Transaction(t) \/ CameraStart(t) \/ CameraStop(t)
      PROVE  OwnerInv'
  <2>o. CASE UNCHANGED <<part, pc, txn>>
    BY <2>o DEF part, data, threads
  <2>1. CASE \E s \in Slots : StartRead(t, s)
    BY <2>1 DEF StartRead, Acquire, Granted, GiveUp, AcquireTakes, Goto, At, MayRun
  <2>2. CASE StartNpu(t)
    BY <2>2 DEF StartNpu, Acquire, Granted, GiveUp, AcquireTakes, Goto, At, MayRun
  <2>3. CASE BringUpOk(t)
    BY <2>3 DEF BringUpOk, Granted, Goto, At, MayRun
  <2>4. CASE BringUpFail(t)
    BY <2>4 DEF BringUpFail, GiveUp, Goto, At, MayRun
  <2>5. CASE EndRead(t)
    BY <2>5 DEF EndRead, Release, Goto, At, MayRun
  <2>6. CASE NpuKept(t)
    BY <2>6 DEF NpuKept, Goto, At, MayRun, part
  <2>7. CASE NpuFailed(t)
    BY <2>7 DEF NpuFailed, Release, Goto, At, MayRun
  <2>8. CASE \E u \in Units : VerifyCopy(t, u)
    BY <2>8 DEF VerifyCopy, Bus, Goto, At, MayRun, part
  <2>9. CASE VerifySum(t)
    BY <2>9 DEF VerifySum, Goto, At, MayRun, part
  <2>10. CASE StartWrite(t)
    BY <2>10 DEF StartWrite, Foreground, Goto, At, MayRun, part
  <2>11. CASE StartNorWrite(t)
    BY <2>11 DEF StartNorWrite, Foreground, Goto, At, MayRun, part
  <2>12. CASE HandBack(t)
    BY <2>12 DEF HandBack, Release, Goto, At, MayRun
  <2>13. CASE Reserve(t)
    BY <2>13 DEF Reserve, ReserveGoes, GiveUp, Goto, At, MayRun
  <2>14. CASE \E s \in Slots : Enter(t, s)
    BY <2>14 DEF Enter, Acquire, Granted, GiveUp, AcquireTakes, Goto, At, MayRun
  <2>15. CASE Fill(t)
    BY <2>15 DEF Fill, NoTxn, At, MayRun, part
  <2>16. CASE Unreserve(t)
    BY <2>16 DEF Unreserve, UnreserveDrops, AfterUnreserve, OwnerConsistent, GiveUp,
       NoTxn, Goto, At, MayRun
  <2>17. CASE Claim(t)
    BY <2>17 DEF Claim, ClaimGoes, ClaimRefusal, OwnerConsistent, Request, Goto, At, MayRun
  <2>18. CASE CheckErased(t)
    BY <2>18 DEF CheckErased, Span, Fresh, Swept, Bus, Goto, At, MayRun, part
  <2>19. CASE Drop(t)
    BY <2>19 DEF Drop, Latched, Goto, At, MayRun
  <2>20. CASE Canary(t)
    BY <2>20 DEF Canary, Goto, At, MayRun, part
  <2>21. CASE WriteUnit(t)
    BY <2>21 DEF WriteUnit, OnTheWire, Taken, Goto, At, MayRun, part
  <2>22. CASE EraseTick(t)
    BY <2>22 DEF EraseTick, Goto, At, MayRun, part
  <2>23. CASE Restore(t)
    BY <2>23 DEF Restore, Latched, VerifyDue, Goto, At, MayRun
  <2>24. CASE Verify(t)
    BY <2>24 DEF Verify, Done, Fresh, Swept, Bus, Goto, At, MayRun, part
  <2>25. CASE Commit(t)
    BY <2>25 DEF Commit, Latched, CommitOk, AfterCommit, Goto, At, MayRun
  <2> QED
    BY <1>n, <2>o, <2>1, <2>2, <2>3, <2>4, <2>5, <2>6, <2>7, <2>8, <2>9, <2>10, <2>11,
       <2>12, <2>13, <2>14, <2>15, <2>16, <2>17, <2>18, <2>19, <2>20, <2>21, <2>22,
       <2>23, <2>24, <2>25 DEF Reader, Command, Transaction, NpuDown, ReadPlain,
       ReadFresh, ReadReserved, CameraStart, CameraStop, part, data, threads
<1> QED BY <1>u, <1>n DEF Next

(* nor_acquire() lets one caller through from OFF, and nobody after it.    *)
LEMMA BringKept ==
  ASSUME Inv, [Next]_vars
  PROVE  BringInv'
<1> USE ThreadsAssumption, PartAssumption DEF Inv, TypeOK, JobsRead, OwnerInv, BringInv,
   Slots, Writing, Waits, InTxn, Entering, Leased, Places, Threads
<1>u. CASE UNCHANGED vars
  BY <1>u DEF vars, part, data, threads
<1>n. ASSUME NEW t \in Threads,
             Reader(t) \/ Command(t) \/ Transaction(t) \/ CameraStart(t) \/ CameraStop(t)
      PROVE  BringInv'
  <2>o. CASE UNCHANGED <<state, pc, slot, left>>
    BY <2>o DEF part, data, threads
  <2>1. CASE \E s \in Slots : StartRead(t, s)
    BY <2>1 DEF StartRead, Acquire, Granted, GiveUp, AcquireTakes, Goto, At, MayRun
  <2>2. CASE StartNpu(t)
    BY <2>2 DEF StartNpu, Acquire, Granted, GiveUp, AcquireTakes, Goto, At, MayRun
  <2>3. CASE BringUpOk(t)
    BY <2>3 DEF BringUpOk, Granted, Goto, At, MayRun
  <2>4. CASE BringUpFail(t)
    BY <2>4 DEF BringUpFail, GiveUp, Goto, At, MayRun
  <2>5. CASE EndRead(t)
    BY <2>5 DEF EndRead, Release, Goto, At, MayRun
  <2>6. CASE NpuKept(t)
    BY <2>6 DEF NpuKept, Goto, At, MayRun, part
  <2>7. CASE NpuFailed(t)
    BY <2>7 DEF NpuFailed, Release, Goto, At, MayRun
  <2>8. CASE \E u \in Units : VerifyCopy(t, u)
    BY <2>8 DEF VerifyCopy, Bus, Goto, At, MayRun, part
  <2>9. CASE VerifySum(t)
    BY <2>9 DEF VerifySum, Goto, At, MayRun, part
  <2>10. CASE StartWrite(t)
    BY <2>10 DEF StartWrite, Foreground, Goto, At, MayRun, part
  <2>11. CASE StartNorWrite(t)
    BY <2>11 DEF StartNorWrite, Foreground, Goto, At, MayRun, part
  <2>12. CASE HandBack(t)
    BY <2>12 DEF HandBack, Release, Goto, At, MayRun
  <2>13. CASE Reserve(t)
    BY <2>13 DEF Reserve, ReserveGoes, GiveUp, Goto, At, MayRun
  <2>14. CASE \E s \in Slots : Enter(t, s)
    BY <2>14 DEF Enter, Acquire, Granted, GiveUp, AcquireTakes, Goto, At, MayRun
  <2>15. CASE Fill(t)
    BY <2>15 DEF Fill, NoTxn, At, MayRun, part
  <2>16. CASE Unreserve(t)
    BY <2>16 DEF Unreserve, UnreserveDrops, AfterUnreserve, OwnerConsistent, GiveUp,
       NoTxn, Goto, At, MayRun
  <2>17. CASE Claim(t)
    BY <2>17 DEF Claim, ClaimGoes, ClaimRefusal, OwnerConsistent, Request, Goto, At, MayRun
  <2>18. CASE CheckErased(t)
    BY <2>18 DEF CheckErased, Span, Fresh, Swept, Bus, Goto, At, MayRun, part
  <2>19. CASE Drop(t)
    BY <2>19 DEF Drop, Latched, Goto, At, MayRun
  <2>20. CASE Canary(t)
    BY <2>20 DEF Canary, Goto, At, MayRun, part
  <2>21. CASE WriteUnit(t)
    BY <2>21 DEF WriteUnit, OnTheWire, Taken, Goto, At, MayRun, part
  <2>22. CASE EraseTick(t)
    BY <2>22 DEF EraseTick, Goto, At, MayRun, part
  <2>23. CASE Restore(t)
    BY <2>23 DEF Restore, Latched, VerifyDue, Goto, At, MayRun
  <2>24. CASE Verify(t)
    BY <2>24 DEF Verify, Done, Fresh, Swept, Bus, Goto, At, MayRun, part
  <2>25. CASE Commit(t)
    BY <2>25 DEF Commit, Latched, CommitOk, AfterCommit, Goto, At, MayRun
  <2> QED
    BY <1>n, <2>o, <2>1, <2>2, <2>3, <2>4, <2>5, <2>6, <2>7, <2>8, <2>9, <2>10, <2>11,
       <2>12, <2>13, <2>14, <2>15, <2>16, <2>17, <2>18, <2>19, <2>20, <2>21, <2>22,
       <2>23, <2>24, <2>25 DEF Reader, Command, Transaction, NpuDown, ReadPlain,
       ReadFresh, ReadReserved, CameraStart, CameraStop, part, data, threads
<1> QED BY <1>u, <1>n DEF Next

(* nor_acquire() adds one lease, to a slot that was free, or none.         *)
LEMMA AcquireKeepsLeases ==
  ASSUME Inv, NEW t \in Threads, NEW s \in Slots, pc[t] \in {"idle", "enter"},
         Acquire(t, s), left[t] > 0 => s # "NPU", UNCHANGED hwReady
  PROVE  LeaseInv'
<1> USE ThreadsAssumption DEF Inv, TypeOK, JobsRead, OwnerInv, BringInv, LeaseInv,
   Slots, Leased, Places, InTxn, Entering
<1>a. slot[t] = None /\ pc[t] \notin Leased
  OBVIOUS
<1>1. CASE s \notin live /\ state = "OFF" /\ state' = "ENABLING" /\ Goto(t, "bringup")
           /\ slot' = [slot EXCEPT ![t] = s] /\ UNCHANGED <<live, left, asked>>
  BY <1>1, <1>a DEF Goto
<1>2. CASE s \notin live /\ AcquireTakes /\ live' = live \cup {s} /\ Goto(t, Granted(t, s))
           /\ slot' = [slot EXCEPT ![t] = s] /\ UNCHANGED <<state, left, asked>>
  <2>1. pc' = [pc EXCEPT ![t] = pc'[t]] /\ pc'[t] \in Leased /\ (pc'[t] = "npu" <=> s = "NPU")
    BY <1>2 DEF Goto, Granted
  <2>2. slot'[t] = s /\ slot[t] # s /\ state' = "XIP"
    BY <1>2, <1>a DEF AcquireTakes
  <2>3. \A r \in Threads : r # t => pc'[r] = pc[r] /\ slot'[r] = slot[r]
    BY <1>2, <2>1
  <2>4. \A r \in Threads : pc[r] \in Leased => slot[r] # s
    BY <1>2
  <2>5. hwReady => s # "NPU"
    BY <1>2
  <2>6. \A q \in live' : (q = "NPU" /\ hwReady')
                         \/ \E r \in Threads : pc'[r] \in Leased /\ slot'[r] = q
    <3>1. TAKE q \in live'
    <3>2. CASE q = s
      BY <3>2, <2>1, <2>2
    <3>3. CASE q \in live
      BY <3>3, <2>3, <1>a, <2>2
    <3> QED BY <3>2, <3>3, <1>2
  <2>7. \A r1, r2 \in Threads :
          pc'[r1] \in Leased /\ pc'[r2] \in Leased /\ slot'[r1] = slot'[r2] => r1 = r2
    BY <2>2, <2>3, <2>4
  <2>8. \A r \in Threads : pc'[r] \in Leased => slot'[r] \in live'
    BY <1>2, <2>2, <2>3
  <2>9. \A r \in Threads : pc'[r] = "npu" <=> pc'[r] \in Leased /\ slot'[r] = "NPU"
    BY <2>1, <2>2, <2>3
  <2>10. hwReady' => "NPU" \in live' /\ \A r \in Threads : pc'[r] # "npu"
    BY <1>2, <2>1, <2>3, <2>5
  <2>11. \A r \in Threads : pc'[r] \notin Leased \cup {"bringup"} => slot'[r] = None
    BY <2>1, <2>3
  <2> QED BY <2>2, <2>6, <2>7, <2>8, <2>9, <2>10, <2>11
<1>3. CASE (s \in live \/ ~(state = "OFF" \/ AcquireTakes)) /\ GiveUp(t) /\ UNCHANGED <<state, live>>
  BY <1>3, <1>a DEF GiveUp, Goto
<1> QED BY <1>1, <1>2, <1>3 DEF Acquire

(* The mask stays the set of the leases.                                   *)
LEMMA LeasesKept ==
  ASSUME Inv, [Next]_vars
  PROVE  LeaseInv'
<1> USE ThreadsAssumption, PartAssumption DEF Inv, TypeOK, JobsRead, OwnerInv, BringInv,
   LeaseInv, Slots, Writing, Waits, InTxn, Entering, Leased, Places, Threads
<1>u. CASE UNCHANGED vars
  BY <1>u DEF vars, part, data, threads
<1>n. ASSUME NEW t \in Threads,
             Reader(t) \/ Command(t) \/ Transaction(t) \/ CameraStart(t) \/ CameraStop(t)
      PROVE  LeaseInv'
  <2>o. CASE UNCHANGED <<state, live, hwReady, pc, slot>>
    BY <2>o DEF part, data, threads
  <2>1. CASE \E s \in Slots : StartRead(t, s)
    BY <2>1, AcquireKeepsLeases DEF StartRead, At
  <2>2. CASE StartNpu(t)
    BY <2>2, AcquireKeepsLeases DEF StartNpu, At
  <2>3. CASE BringUpOk(t)
    BY <2>3 DEF BringUpOk, Granted, Goto, At, MayRun
  <2>4. CASE BringUpFail(t)
    BY <2>4 DEF BringUpFail, GiveUp, Goto, At, MayRun
  <2>5. CASE EndRead(t)
    BY <2>5 DEF EndRead, Release, Goto, At, MayRun
  <2>6. CASE NpuKept(t)
    BY <2>6 DEF NpuKept, Goto, At, MayRun, part
  <2>7. CASE NpuFailed(t)
    BY <2>7 DEF NpuFailed, Release, Goto, At, MayRun
  <2>8. CASE \E u \in Units : VerifyCopy(t, u)
    BY <2>8 DEF VerifyCopy, Bus, Goto, At, MayRun, part
  <2>9. CASE VerifySum(t)
    BY <2>9 DEF VerifySum, Goto, At, MayRun, part
  <2>10. CASE StartWrite(t)
    BY <2>10 DEF StartWrite, Foreground, Goto, At, MayRun, part
  <2>11. CASE StartNorWrite(t)
    BY <2>11 DEF StartNorWrite, Foreground, Goto, At, MayRun, part
  <2>12. CASE HandBack(t)
    BY <2>12 DEF HandBack, Release, Goto, At, MayRun
  <2>13. CASE Reserve(t)
    <3>1. pc[t] = "reserve" /\ slot[t] = None /\ pc' = [pc EXCEPT ![t] = pc'[t]] /\ pc'[t] \in {"held", "idle"}
      BY <2>13 DEF Reserve, At, Goto, GiveUp
    <3>2. slot' = [slot EXCEPT ![t] = None] \/ slot' = slot
      BY <2>13 DEF Reserve, GiveUp
    <3>3. live' = live /\ hwReady' = hwReady /\ (live # {} => state' = state)
      BY <2>13 DEF Reserve, ReserveGoes
    <3>4. slot' = slot
      BY <3>1, <3>2
    <3> QED BY <3>1, <3>3, <3>4
  <2>14. CASE \E s \in Slots : Enter(t, s)
    BY <2>14, AcquireKeepsLeases DEF Enter, At
  <2>15. CASE Fill(t)
    BY <2>15 DEF Fill, NoTxn, At, MayRun, part
  <2>16. CASE Unreserve(t)
    BY <2>16 DEF Unreserve, UnreserveDrops, AfterUnreserve, OwnerConsistent, GiveUp,
       NoTxn, Goto, At, MayRun
  <2>17. CASE Claim(t)
    BY <2>17 DEF Claim, ClaimGoes, ClaimRefusal, OwnerConsistent, Request, Goto, At, MayRun
  <2>18. CASE CheckErased(t)
    BY <2>18 DEF CheckErased, Span, Fresh, Swept, Bus, Goto, At, MayRun, part
  <2>19. CASE Drop(t)
    BY <2>19 DEF Drop, Latched, Goto, At, MayRun
  <2>20. CASE Canary(t)
    BY <2>20 DEF Canary, Goto, At, MayRun, part
  <2>21. CASE WriteUnit(t)
    BY <2>21 DEF WriteUnit, OnTheWire, Taken, Goto, At, MayRun, part
  <2>22. CASE EraseTick(t)
    BY <2>22 DEF EraseTick, Goto, At, MayRun, part
  <2>23. CASE Restore(t)
    BY <2>23 DEF Restore, Latched, VerifyDue, Goto, At, MayRun
  <2>24. CASE Verify(t)
    BY <2>24 DEF Verify, Done, Fresh, Swept, Bus, Goto, At, MayRun, part
  <2>25. CASE Commit(t)
    BY <2>25 DEF Commit, Latched, CommitOk, AfterCommit, Goto, At, MayRun
  <2>26. CASE NpuDown(t)
    BY <2>26 DEF NpuDown, At, MayRun, threads
  <2> QED
    BY <1>n, <2>o, <2>1, <2>2, <2>3, <2>4, <2>5, <2>6, <2>7, <2>8, <2>9, <2>10, <2>11,
       <2>12, <2>13, <2>14, <2>15, <2>16, <2>17, <2>18, <2>19, <2>20, <2>21, <2>22,
       <2>23, <2>24, <2>25, <2>26 DEF Reader, Command, Transaction, ReadPlain,
       ReadFresh, ReadReserved, CameraStart, CameraStop, part, data, threads
<1> QED BY <1>u, <1>n DEF Next

(* The window is up wherever it is read.                                   *)
LEMMA WindowKept ==
  ASSUME Inv, [Next]_vars
  PROVE  WindowInv'
<1> USE ThreadsAssumption, PartAssumption DEF Inv, TypeOK, Reports, Statuses, JobsRead,
   OwnerInv, BringInv, WindowInv, TxnInv, Writing, Waits, InTxn, Entering, Leased,
   Places, Threads
<1>u. CASE UNCHANGED vars
  BY <1>u DEF vars, part, data, threads
<1>n. ASSUME NEW t \in Threads,
             Reader(t) \/ Command(t) \/ Transaction(t) \/ CameraStart(t) \/ CameraStop(t)
      PROVE  WindowInv'
  <2>o. CASE UNCHANGED <<part, pc, txn>>
    BY <2>o DEF part, data, threads
  <2>1. CASE \E s \in Slots : StartRead(t, s)
    BY <2>1 DEF StartRead, Acquire, Granted, GiveUp, AcquireTakes, Goto, At, MayRun
  <2>2. CASE StartNpu(t)
    BY <2>2 DEF StartNpu, Acquire, Granted, GiveUp, AcquireTakes, Goto, At, MayRun
  <2>3. CASE BringUpOk(t)
    BY <2>3 DEF BringUpOk, Granted, Goto, At, MayRun
  <2>4. CASE BringUpFail(t)
    BY <2>4 DEF BringUpFail, GiveUp, Goto, At, MayRun
  <2>5. CASE EndRead(t)
    BY <2>5 DEF EndRead, Release, Goto, At, MayRun
  <2>6. CASE NpuKept(t)
    BY <2>6 DEF NpuKept, Goto, At, MayRun, part
  <2>7. CASE NpuFailed(t)
    BY <2>7 DEF NpuFailed, Release, Goto, At, MayRun
  <2>8. CASE \E u \in Units : VerifyCopy(t, u)
    BY <2>8 DEF VerifyCopy, Bus, Goto, At, MayRun, part
  <2>9. CASE VerifySum(t)
    BY <2>9 DEF VerifySum, Goto, At, MayRun, part
  <2>10. CASE StartWrite(t)
    BY <2>10 DEF StartWrite, Foreground, Goto, At, MayRun, part
  <2>11. CASE StartNorWrite(t)
    BY <2>11 DEF StartNorWrite, Foreground, Goto, At, MayRun, part
  <2>12. CASE HandBack(t)
    BY <2>12 DEF HandBack, Release, Goto, At, MayRun
  <2>13. CASE Reserve(t)
    BY <2>13 DEF Reserve, ReserveGoes, GiveUp, Goto, At, MayRun
  <2>14. CASE \E s \in Slots : Enter(t, s)
    BY <2>14 DEF Enter, Acquire, Granted, GiveUp, AcquireTakes, Goto, At, MayRun
  <2>15. CASE Fill(t)
    BY <2>15 DEF Fill, NoTxn, At, MayRun, part
  <2>16. CASE Unreserve(t)
    BY <2>16 DEF Unreserve, UnreserveDrops, AfterUnreserve, OwnerConsistent, GiveUp,
       NoTxn, Goto, At, MayRun
  <2>17. CASE Claim(t)
    BY <2>17 DEF Claim, ClaimGoes, ClaimRefusal, OwnerConsistent, Request, Goto, At, MayRun
  <2>18. CASE CheckErased(t)
    BY <2>18 DEF CheckErased, Span, Fresh, Swept, Bus, Goto, At, MayRun, part
  <2>19. CASE Drop(t)
    BY <2>19 DEF Drop, Latched, Goto, At, MayRun
  <2>20. CASE Canary(t)
    BY <2>20 DEF Canary, Goto, At, MayRun, part
  <2>21. CASE WriteUnit(t)
    BY <2>21 DEF WriteUnit, OnTheWire, Taken, Goto, At, MayRun, part
  <2>22. CASE EraseTick(t)
    BY <2>22 DEF EraseTick, Goto, At, MayRun, part
  <2>23. CASE Restore(t)
    BY <2>23 DEF Restore, Latched, VerifyDue, Goto, At, MayRun
  <2>24. CASE Verify(t)
    BY <2>24 DEF Verify, Done, Fresh, Swept, Bus, Goto, At, MayRun, part
  <2>25. CASE Commit(t)
    BY <2>25 DEF Commit, Latched, CommitOk, AfterCommit, Goto, At, MayRun
  <2> QED
    BY <1>n, <2>o, <2>1, <2>2, <2>3, <2>4, <2>5, <2>6, <2>7, <2>8, <2>9, <2>10, <2>11,
       <2>12, <2>13, <2>14, <2>15, <2>16, <2>17, <2>18, <2>19, <2>20, <2>21, <2>22,
       <2>23, <2>24, <2>25 DEF Reader, Command, Transaction, NpuDown, ReadPlain,
       ReadFresh, ReadReserved, CameraStart, CameraStop, part, data, threads
<1> QED BY <1>u, <1>n DEF Next

(* What each step of a transaction does to its report.                     *)
SameRequest ==
  /\ txn'.op = txn.op /\ txn'.lo = txn.lo /\ txn'.hi = txn.hi
  /\ txn'.want = txn.want /\ txn'.was = txn.was

(* target_is_erased(): a refusal or the way on, and nothing sent.          *)
LEMMA CheckErasedDoes ==
  ASSUME TypeOK, NEW t \in Threads, CheckErased(t)
  PROVE  /\ pc[t] = "check" /\ SameRequest /\ txn'.done = txn.done /\ flash' = flash
         /\ \/ pc'[t] = "drop" /\ txn'.st = txn.st
            \/ pc'[t] = "commit" /\ txn'.st = "REFUSED"
<1>1. txn \in Reports /\ pc \in [Threads -> Places]
  BY DEF TypeOK
<1> QED BY <1>1 DEF CheckErased, Span, Fresh, Swept, Bus, Goto, At, part, Reports,
   SameRequest

(* nor_window_drop().                                                      *)
LEMMA DropDoes ==
  ASSUME TypeOK, NEW t \in Threads, Drop(t)
  PROVE  /\ pc[t] = "drop" /\ SameRequest /\ txn'.done = txn.done /\ flash' = flash
         /\ \/ pc'[t] = "canary" /\ txn'.st = txn.st
            \/ pc'[t] = "restore" /\ txn'.st = "FAULTED"
<1>1. txn \in Reports /\ pc \in [Threads -> Places]
  BY DEF TypeOK
<1> QED BY <1>1 DEF Drop, Latched, Goto, At, data, Reports, SameRequest

(* nor_jedec_recheck().                                                    *)
LEMMA CanaryDoes ==
  ASSUME TypeOK, NEW t \in Threads, Canary(t)
  PROVE  /\ pc[t] = "canary" /\ SameRequest /\ txn'.done = txn.done /\ flash' = flash
         /\ \/ pc'[t] = "unit" /\ txn.op # "cycle" /\ txn'.st = txn.st
            \/ pc'[t] = "restore" /\ txn.op = "cycle" /\ txn'.st = txn.st
            \/ pc'[t] = "restore" /\ txn'.st = "NO_TRANSPORT"
<1>1. txn \in Reports /\ pc \in [Threads -> Places]
  BY DEF TypeOK
<1> QED BY <1>1 DEF Canary, Goto, At, part, data, Reports, SameRequest

(* erase_tick().                                                           *)
LEMMA EraseTickDoes ==
  ASSUME TypeOK, NEW t \in Threads, EraseTick(t)
  PROVE  /\ pc[t] = "tick" /\ SameRequest /\ txn'.done = txn.done /\ flash' = flash /\ cache' = cache /\ state' = state
         /\ \/ pc'[t] = "unit" /\ ~(txn.lo + txn.done > txn.hi) /\ txn'.st = txn.st
            \/ pc'[t] = "restore" /\ txn.lo + txn.done > txn.hi /\ txn'.st = txn.st
            \/ pc'[t] = "restore" /\ txn'.st = "INCOMPLETE"
<1>1. txn \in Reports /\ pc \in [Threads -> Places]
  BY DEF TypeOK
<1> QED BY <1>1 DEF EraseTick, Goto, At, part, data, Reports, SameRequest

(* nor_window_restore().                                                   *)
LEMMA RestoreDoes ==
  ASSUME TypeOK, NEW t \in Threads, Restore(t)
  PROVE  /\ pc[t] = "restore" /\ SameRequest /\ txn'.done = txn.done /\ flash' = flash
         /\ \/ pc'[t] = "verify" /\ txn.st # "FAULTED" /\ txn'.st = txn.st
            \/ pc'[t] = "commit" /\ txn.st = "FAULTED" /\ txn'.st = txn.st
            \/ pc'[t] = "commit" /\ txn'.st = "FAULTED"
<1>1. txn \in Reports /\ pc \in [Threads -> Places]
  BY DEF TypeOK
<1> QED BY <1>1 DEF Restore, Latched, VerifyDue, Goto, At, data, Reports, SameRequest

(* One call to the vendor: one unit more, or the end.                      *)
LEMMA WriteUnitDoes ==
  ASSUME TypeOK, NEW t \in Threads, WriteUnit(t)
  PROVE  /\ pc[t] = "unit" /\ SameRequest /\ cache' = cache /\ state' = state
         /\ \/ /\ txn'.done = txn.done + 1 /\ txn'.st = txn.st
               /\ \A u \in Units : u # txn.lo + txn.done => flash'[u] = flash[u]
               /\ \/ pc'[t] = "tick" /\ txn.op = "erase"
                  \/ pc'[t] = "unit" /\ txn.op # "erase" /\ txn.lo + txn.done < txn.hi
                  \/ pc'[t] = "restore" /\ txn.op # "erase" /\ ~(txn.lo + txn.done < txn.hi)
            \/ /\ txn'.done = txn.done /\ txn'.st = "INCOMPLETE" /\ flash' = flash
               /\ pc'[t] = "restore"
<1>1. txn \in Reports /\ pc \in [Threads -> Places] /\ flash \in [Units -> Values]
  BY DEF TypeOK
<1>2. CASE OnTheWire
             /\ (\E v \in {Taken(txn.lo + txn.done), Junk} :
                   flash' = [flash EXCEPT ![txn.lo + txn.done] = v])
             /\ txn' = [txn EXCEPT !.done = @ + 1]
             /\ Goto(t, IF txn.op = "erase" THEN "tick"
                        ELSE IF txn.lo + txn.done < txn.hi THEN "unit" ELSE "restore")
  <2>1. SameRequest /\ txn'.done = txn.done + 1 /\ txn'.st = txn.st
    BY <1>1, <1>2 DEF Reports, SameRequest
  <2>2. \A u \in Units : u # txn.lo + txn.done => flash'[u] = flash[u]
    BY <1>1, <1>2
  <2>3. \/ pc'[t] = "tick" /\ txn.op = "erase"
        \/ pc'[t] = "unit" /\ txn.op # "erase" /\ txn.lo + txn.done < txn.hi
        \/ pc'[t] = "restore" /\ txn.op # "erase" /\ ~(txn.lo + txn.done < txn.hi)
    BY <1>1, <1>2 DEF Goto
  <2> QED BY <2>1, <2>2, <2>3 DEF WriteUnit, At, part
<1>3. CASE txn' = [txn EXCEPT !.st = "INCOMPLETE"] /\ Goto(t, "restore") /\ UNCHANGED flash
  BY <1>1, <1>3 DEF WriteUnit, At, part, Reports, SameRequest, Goto
<1> QED BY <1>2, <1>3 DEF WriteUnit

(* CheckErased keeps the transaction's report true.                        *)
LEMMA CheckErasedKeepsTxn ==
  ASSUME TypeOK, TxnInv, Fg \in Threads, CheckErased(Fg)
  PROVE  TxnInv'
<1>1. txn \in Reports /\ txn.lo \in Nat /\ txn.hi \in Nat /\ txn.done \in Nat
  BY PartAssumption DEF TypeOK, Reports, Units
<1>2. Done' = Done /\ flash' = flash
  BY <1>1, CheckErasedDoes DEF SameRequest, Done
<1>3. pc[Fg] \in InTxn /\ SameRequest
  BY CheckErasedDoes DEF InTxn
<1>4. \A u \in Units : u \notin Done' => flash'[u] = txn'.was[u]
  BY <1>2, <1>3 DEF TxnInv, SameRequest
<1>5. txn'.was \in [Units -> Values] /\ (IF txn'.op = "cycle" THEN txn'.lo = 1 /\ txn'.hi = 0 ELSE txn'.lo <= txn'.hi)
  BY <1>3 DEF TxnInv, SameRequest
<1>6. txn'.lo + txn'.done <= txn'.hi + 1
  BY <1>1, <1>3, CheckErasedDoes DEF TxnInv, SameRequest, InTxn
<1>7. pc'[Fg] = "unit" => txn'.lo + txn'.done <= txn'.hi /\ txn'.op # "cycle" /\ txn'.st = "OK"
  BY <1>1, <1>3, CheckErasedDoes DEF TxnInv, SameRequest, InTxn
<1>8. pc'[Fg] \in {"restore", "verify", "commit"} =>
         /\ txn'.st = "OK" => txn'.lo + txn'.done = txn'.hi + 1
         /\ txn'.st \in {"NO_TRANSPORT", "REFUSED"} => txn'.done = 0
  BY <1>1, <1>3, CheckErasedDoes DEF TxnInv, SameRequest, InTxn
<1>9. pc'[Fg] = "commit" => txn'.st \notin {"OK", "INCOMPLETE"}
  BY <1>3, CheckErasedDoes DEF TxnInv
<1>10. pc'[Fg] \in {"check", "drop", "canary"} => txn'.st = "OK" /\ txn'.done = 0
  BY <1>3, CheckErasedDoes DEF TxnInv
<1>11. /\ pc'[Fg] = "check" => txn'.op = "program"
       /\ pc'[Fg] = "tick" => txn'.op = "erase" /\ txn'.st = "OK"
       /\ pc'[Fg] = "verify" => txn'.st # "FAULTED"
  BY <1>3, CheckErasedDoes DEF TxnInv, SameRequest
<1>12. /\ pc'[Fg] \in {"restore", "verify"} =>
            txn'.st \in {"OK", "INCOMPLETE", "NO_TRANSPORT", "FAULTED"}
       /\ pc'[Fg] = "commit" =>
            txn'.st \in {"OK", "INCOMPLETE", "NO_TRANSPORT", "REFUSED", "FAULTED"}
  BY <1>3, CheckErasedDoes DEF TxnInv
<1> QED BY <1>4, <1>5, <1>6, <1>7, <1>8, <1>9, <1>10, <1>11, <1>12 DEF TxnInv

(* Drop keeps the transaction's report true.                               *)
LEMMA DropKeepsTxn ==
  ASSUME TypeOK, TxnInv, Fg \in Threads, Drop(Fg)
  PROVE  TxnInv'
<1>1. txn \in Reports /\ txn.lo \in Nat /\ txn.hi \in Nat /\ txn.done \in Nat
  BY PartAssumption DEF TypeOK, Reports, Units
<1>2. Done' = Done /\ flash' = flash
  BY <1>1, DropDoes DEF SameRequest, Done
<1>3. pc[Fg] \in InTxn /\ SameRequest
  BY DropDoes DEF InTxn
<1>4. \A u \in Units : u \notin Done' => flash'[u] = txn'.was[u]
  BY <1>2, <1>3 DEF TxnInv, SameRequest
<1>5. txn'.was \in [Units -> Values] /\ (IF txn'.op = "cycle" THEN txn'.lo = 1 /\ txn'.hi = 0 ELSE txn'.lo <= txn'.hi)
  BY <1>3 DEF TxnInv, SameRequest
<1>6. txn'.lo + txn'.done <= txn'.hi + 1
  BY <1>1, <1>3, DropDoes DEF TxnInv, SameRequest, InTxn
<1>7. pc'[Fg] = "unit" => txn'.lo + txn'.done <= txn'.hi /\ txn'.op # "cycle" /\ txn'.st = "OK"
  BY <1>1, <1>3, DropDoes DEF TxnInv, SameRequest, InTxn
<1>8. pc'[Fg] \in {"restore", "verify", "commit"} =>
         /\ txn'.st = "OK" => txn'.lo + txn'.done = txn'.hi + 1
         /\ txn'.st \in {"NO_TRANSPORT", "REFUSED"} => txn'.done = 0
  BY <1>1, <1>3, DropDoes DEF TxnInv, SameRequest, InTxn
<1>9. pc'[Fg] = "commit" => txn'.st \notin {"OK", "INCOMPLETE"}
  BY <1>3, DropDoes DEF TxnInv
<1>10. pc'[Fg] \in {"check", "drop", "canary"} => txn'.st = "OK" /\ txn'.done = 0
  BY <1>3, DropDoes DEF TxnInv
<1>11. /\ pc'[Fg] = "check" => txn'.op = "program"
       /\ pc'[Fg] = "tick" => txn'.op = "erase" /\ txn'.st = "OK"
       /\ pc'[Fg] = "verify" => txn'.st # "FAULTED"
  BY <1>3, DropDoes DEF TxnInv, SameRequest
<1>12. /\ pc'[Fg] \in {"restore", "verify"} =>
            txn'.st \in {"OK", "INCOMPLETE", "NO_TRANSPORT", "FAULTED"}
       /\ pc'[Fg] = "commit" =>
            txn'.st \in {"OK", "INCOMPLETE", "NO_TRANSPORT", "REFUSED", "FAULTED"}
  BY <1>3, DropDoes DEF TxnInv
<1> QED BY <1>4, <1>5, <1>6, <1>7, <1>8, <1>9, <1>10, <1>11, <1>12 DEF TxnInv

(* Canary keeps the transaction's report true.                             *)
LEMMA CanaryKeepsTxn ==
  ASSUME TypeOK, TxnInv, Fg \in Threads, Canary(Fg)
  PROVE  TxnInv'
<1>1. txn \in Reports /\ txn.lo \in Nat /\ txn.hi \in Nat /\ txn.done \in Nat
  BY PartAssumption DEF TypeOK, Reports, Units
<1>2. Done' = Done /\ flash' = flash
  BY <1>1, CanaryDoes DEF SameRequest, Done
<1>3. pc[Fg] \in InTxn /\ SameRequest
  BY CanaryDoes DEF InTxn
<1>4. \A u \in Units : u \notin Done' => flash'[u] = txn'.was[u]
  BY <1>2, <1>3 DEF TxnInv, SameRequest
<1>5. txn'.was \in [Units -> Values] /\ (IF txn'.op = "cycle" THEN txn'.lo = 1 /\ txn'.hi = 0 ELSE txn'.lo <= txn'.hi)
  BY <1>3 DEF TxnInv, SameRequest
<1>6. txn'.lo + txn'.done <= txn'.hi + 1
  BY <1>1, <1>3, CanaryDoes DEF TxnInv, SameRequest, InTxn
<1>7. pc'[Fg] = "unit" => txn'.lo + txn'.done <= txn'.hi /\ txn'.op # "cycle" /\ txn'.st = "OK"
  BY <1>1, <1>3, CanaryDoes DEF TxnInv, SameRequest, InTxn
<1>8. pc'[Fg] \in {"restore", "verify", "commit"} =>
         /\ txn'.st = "OK" => txn'.lo + txn'.done = txn'.hi + 1
         /\ txn'.st \in {"NO_TRANSPORT", "REFUSED"} => txn'.done = 0
  BY <1>1, <1>3, CanaryDoes DEF TxnInv, SameRequest, InTxn
<1>9. pc'[Fg] = "commit" => txn'.st \notin {"OK", "INCOMPLETE"}
  BY <1>3, CanaryDoes DEF TxnInv
<1>10. pc'[Fg] \in {"check", "drop", "canary"} => txn'.st = "OK" /\ txn'.done = 0
  BY <1>3, CanaryDoes DEF TxnInv
<1>11. /\ pc'[Fg] = "check" => txn'.op = "program"
       /\ pc'[Fg] = "tick" => txn'.op = "erase" /\ txn'.st = "OK"
       /\ pc'[Fg] = "verify" => txn'.st # "FAULTED"
  BY <1>3, CanaryDoes DEF TxnInv, SameRequest
<1>12. /\ pc'[Fg] \in {"restore", "verify"} =>
            txn'.st \in {"OK", "INCOMPLETE", "NO_TRANSPORT", "FAULTED"}
       /\ pc'[Fg] = "commit" =>
            txn'.st \in {"OK", "INCOMPLETE", "NO_TRANSPORT", "REFUSED", "FAULTED"}
  BY <1>3, CanaryDoes DEF TxnInv
<1> QED BY <1>4, <1>5, <1>6, <1>7, <1>8, <1>9, <1>10, <1>11, <1>12 DEF TxnInv

(* EraseTick keeps the transaction's report true.                          *)
LEMMA EraseTickKeepsTxn ==
  ASSUME TypeOK, TxnInv, Fg \in Threads, EraseTick(Fg)
  PROVE  TxnInv'
<1>1. txn \in Reports /\ txn.lo \in Nat /\ txn.hi \in Nat /\ txn.done \in Nat
  BY PartAssumption DEF TypeOK, Reports, Units
<1>2. Done' = Done /\ flash' = flash
  BY <1>1, EraseTickDoes DEF SameRequest, Done
<1>3. pc[Fg] \in InTxn /\ SameRequest
  BY EraseTickDoes DEF InTxn
<1>4. \A u \in Units : u \notin Done' => flash'[u] = txn'.was[u]
  BY <1>2, <1>3 DEF TxnInv, SameRequest
<1>5. txn'.was \in [Units -> Values] /\ (IF txn'.op = "cycle" THEN txn'.lo = 1 /\ txn'.hi = 0 ELSE txn'.lo <= txn'.hi)
  BY <1>3 DEF TxnInv, SameRequest
<1>6. txn'.lo + txn'.done <= txn'.hi + 1
  BY <1>1, <1>3, EraseTickDoes DEF TxnInv, SameRequest, InTxn
<1>7. pc'[Fg] = "unit" => txn'.lo + txn'.done <= txn'.hi /\ txn'.op # "cycle" /\ txn'.st = "OK"
  BY <1>1, <1>3, EraseTickDoes DEF TxnInv, SameRequest, InTxn
<1>8. pc'[Fg] \in {"restore", "verify", "commit"} =>
         /\ txn'.st = "OK" => txn'.lo + txn'.done = txn'.hi + 1
         /\ txn'.st \in {"NO_TRANSPORT", "REFUSED"} => txn'.done = 0
  BY <1>1, <1>3, EraseTickDoes DEF TxnInv, SameRequest, InTxn
<1>9. pc'[Fg] = "commit" => txn'.st \notin {"OK", "INCOMPLETE"}
  BY <1>3, EraseTickDoes DEF TxnInv
<1>10. pc'[Fg] \in {"check", "drop", "canary"} => txn'.st = "OK" /\ txn'.done = 0
  BY <1>3, EraseTickDoes DEF TxnInv
<1>11. /\ pc'[Fg] = "check" => txn'.op = "program"
       /\ pc'[Fg] = "tick" => txn'.op = "erase" /\ txn'.st = "OK"
       /\ pc'[Fg] = "verify" => txn'.st # "FAULTED"
  BY <1>3, EraseTickDoes DEF TxnInv, SameRequest
<1>12. /\ pc'[Fg] \in {"restore", "verify"} =>
            txn'.st \in {"OK", "INCOMPLETE", "NO_TRANSPORT", "FAULTED"}
       /\ pc'[Fg] = "commit" =>
            txn'.st \in {"OK", "INCOMPLETE", "NO_TRANSPORT", "REFUSED", "FAULTED"}
  BY <1>3, EraseTickDoes DEF TxnInv
<1> QED BY <1>4, <1>5, <1>6, <1>7, <1>8, <1>9, <1>10, <1>11, <1>12 DEF TxnInv

(* Restore keeps the transaction's report true.                            *)
LEMMA RestoreKeepsTxn ==
  ASSUME TypeOK, TxnInv, Fg \in Threads, Restore(Fg)
  PROVE  TxnInv'
<1>1. txn \in Reports /\ txn.lo \in Nat /\ txn.hi \in Nat /\ txn.done \in Nat
  BY PartAssumption DEF TypeOK, Reports, Units
<1>2. Done' = Done /\ flash' = flash
  BY <1>1, RestoreDoes DEF SameRequest, Done
<1>3. pc[Fg] \in InTxn /\ SameRequest
  BY RestoreDoes DEF InTxn
<1>4. \A u \in Units : u \notin Done' => flash'[u] = txn'.was[u]
  BY <1>2, <1>3 DEF TxnInv, SameRequest
<1>5. txn'.was \in [Units -> Values] /\ (IF txn'.op = "cycle" THEN txn'.lo = 1 /\ txn'.hi = 0 ELSE txn'.lo <= txn'.hi)
  BY <1>3 DEF TxnInv, SameRequest
<1>6. txn'.lo + txn'.done <= txn'.hi + 1
  BY <1>1, <1>3, RestoreDoes DEF TxnInv, SameRequest, InTxn
<1>7. pc'[Fg] = "unit" => txn'.lo + txn'.done <= txn'.hi /\ txn'.op # "cycle" /\ txn'.st = "OK"
  BY <1>1, <1>3, RestoreDoes DEF TxnInv, SameRequest, InTxn
<1>8. pc'[Fg] \in {"restore", "verify", "commit"} =>
         /\ txn'.st = "OK" => txn'.lo + txn'.done = txn'.hi + 1
         /\ txn'.st \in {"NO_TRANSPORT", "REFUSED"} => txn'.done = 0
  BY <1>1, <1>3, RestoreDoes DEF TxnInv, SameRequest, InTxn
<1>9. pc'[Fg] = "commit" => txn'.st \notin {"OK", "INCOMPLETE"}
  BY <1>3, RestoreDoes DEF TxnInv
<1>10. pc'[Fg] \in {"check", "drop", "canary"} => txn'.st = "OK" /\ txn'.done = 0
  BY <1>3, RestoreDoes DEF TxnInv
<1>11. /\ pc'[Fg] = "check" => txn'.op = "program"
       /\ pc'[Fg] = "tick" => txn'.op = "erase" /\ txn'.st = "OK"
       /\ pc'[Fg] = "verify" => txn'.st # "FAULTED"
  BY <1>3, RestoreDoes DEF TxnInv, SameRequest
<1>12. /\ pc'[Fg] \in {"restore", "verify"} =>
            txn'.st \in {"OK", "INCOMPLETE", "NO_TRANSPORT", "FAULTED"}
       /\ pc'[Fg] = "commit" =>
            txn'.st \in {"OK", "INCOMPLETE", "NO_TRANSPORT", "REFUSED", "FAULTED"}
  BY <1>3, RestoreDoes DEF TxnInv
<1> QED BY <1>4, <1>5, <1>6, <1>7, <1>8, <1>9, <1>10, <1>11, <1>12 DEF TxnInv

(* WriteUnit keeps the transaction's report true.                          *)
LEMMA WriteUnitKeepsTxn ==
  ASSUME TypeOK, TxnInv, Fg \in Threads, WriteUnit(Fg)
  PROVE  TxnInv'
<1>1. txn \in Reports /\ txn.lo \in Nat /\ txn.hi \in Nat /\ txn.done \in Nat
  BY PartAssumption DEF TypeOK, Reports, Units
<1>2. \A u \in Units : u \notin Done' => u \notin Done /\ flash'[u] = flash[u]
  BY <1>1, WriteUnitDoes DEF SameRequest, Done
<1>3. pc[Fg] \in InTxn /\ SameRequest
  BY WriteUnitDoes DEF InTxn
<1>4. \A u \in Units : u \notin Done' => flash'[u] = txn'.was[u]
  BY <1>2, <1>3 DEF TxnInv, SameRequest
<1>5. txn'.was \in [Units -> Values] /\ (IF txn'.op = "cycle" THEN txn'.lo = 1 /\ txn'.hi = 0 ELSE txn'.lo <= txn'.hi)
  BY <1>3 DEF TxnInv, SameRequest
<1>6. txn'.lo + txn'.done <= txn'.hi + 1
  BY <1>1, <1>3, WriteUnitDoes DEF TxnInv, SameRequest, InTxn
<1>7. pc'[Fg] = "unit" => txn'.lo + txn'.done <= txn'.hi /\ txn'.op # "cycle" /\ txn'.st = "OK"
  BY <1>1, <1>3, WriteUnitDoes DEF TxnInv, SameRequest, InTxn
<1>8. pc'[Fg] \in {"restore", "verify", "commit"} =>
         /\ txn'.st = "OK" => txn'.lo + txn'.done = txn'.hi + 1
         /\ txn'.st \in {"NO_TRANSPORT", "REFUSED"} => txn'.done = 0
  BY <1>1, <1>3, WriteUnitDoes DEF TxnInv, SameRequest, InTxn
<1>9. pc'[Fg] = "commit" => txn'.st \notin {"OK", "INCOMPLETE"}
  BY <1>3, WriteUnitDoes DEF TxnInv
<1>10. pc'[Fg] \in {"check", "drop", "canary"} => txn'.st = "OK" /\ txn'.done = 0
  BY <1>3, WriteUnitDoes DEF TxnInv
<1>11. /\ pc'[Fg] = "check" => txn'.op = "program"
       /\ pc'[Fg] = "tick" => txn'.op = "erase" /\ txn'.st = "OK"
       /\ pc'[Fg] = "verify" => txn'.st # "FAULTED"
  BY <1>3, WriteUnitDoes DEF TxnInv, SameRequest
<1>12. /\ pc'[Fg] \in {"restore", "verify"} =>
            txn'.st \in {"OK", "INCOMPLETE", "NO_TRANSPORT", "FAULTED"}
       /\ pc'[Fg] = "commit" =>
            txn'.st \in {"OK", "INCOMPLETE", "NO_TRANSPORT", "REFUSED", "FAULTED"}
  BY <1>3, WriteUnitDoes DEF TxnInv
<1> QED BY <1>4, <1>5, <1>6, <1>7, <1>8, <1>9, <1>10, <1>11, <1>12 DEF TxnInv

(* No step leaves a line older than the array outside the span it wrote.   *)
LEMMA CacheKept ==
  ASSUME Inv, [Next]_vars
  PROVE  CacheInv'
<1> USE ThreadsAssumption, PartAssumption DEF Inv, TypeOK, Reports, Statuses, Ops,
   JobsRead, OwnerInv, BringInv, LeaseInv, WindowInv, TxnInv, Writing, Waits, InTxn,
   Entering, Leased, Places, Threads, Units, CacheInv, Values, Done, Span
<1>u. CASE UNCHANGED vars
  BY <1>u DEF vars, part, data, threads
<1>n. ASSUME NEW t \in Threads,
             Reader(t) \/ Command(t) \/ Transaction(t) \/ CameraStart(t) \/ CameraStop(t)
      PROVE  CacheInv'
  <2>o. CASE UNCHANGED <<part, data, pc, txn>>
    BY <2>o DEF part, data, threads
  <2>1. CASE \E s \in Slots : StartRead(t, s)
    BY <2>1 DEF StartRead, Acquire, Granted, GiveUp, AcquireTakes, Goto, At, MayRun, data
  <2>2. CASE StartNpu(t)
    BY <2>2 DEF StartNpu, Acquire, Granted, GiveUp, AcquireTakes, Goto, At, MayRun, data
  <2>3. CASE BringUpOk(t)
    BY <2>3 DEF BringUpOk, Granted, Goto, At, MayRun, data
  <2>4. CASE BringUpFail(t)
    BY <2>4 DEF BringUpFail, GiveUp, Goto, At, MayRun, data
  <2>5. CASE EndRead(t)
    BY <2>5 DEF EndRead, Release, Goto, At, MayRun, data
  <2>6. CASE NpuKept(t)
    BY <2>6 DEF NpuKept, Goto, At, MayRun, part, data
  <2>7. CASE NpuFailed(t)
    BY <2>7 DEF NpuFailed, Release, Goto, At, MayRun, data
  <2>8. CASE \E u \in Units : VerifyCopy(t, u)
    BY <2>8 DEF VerifyCopy, Bus, Goto, At, MayRun, part
  <2>9. CASE VerifySum(t)
    BY <2>9 DEF VerifySum, Goto, At, MayRun, part, data
  <2>10. CASE StartWrite(t)
    BY <2>10 DEF StartWrite, Foreground, Goto, At, MayRun, part, data
  <2>11. CASE StartNorWrite(t)
    BY <2>11 DEF StartNorWrite, Foreground, Goto, At, MayRun, part
  <2>12. CASE HandBack(t)
    BY <2>12 DEF HandBack, Release, Goto, At, MayRun, data
  <2>13. CASE Reserve(t)
    BY <2>13 DEF Reserve, ReserveGoes, GiveUp, Goto, At, MayRun, data
  <2>14. CASE \E s \in Slots : Enter(t, s)
    BY <2>14 DEF Enter, Acquire, Granted, GiveUp, AcquireTakes, Goto, At, MayRun, data
  <2>15. CASE Fill(t)
    BY <2>15 DEF Fill, NoTxn, At, MayRun, part
  <2>16. CASE Unreserve(t)
    BY <2>16 DEF Unreserve, UnreserveDrops, AfterUnreserve, OwnerConsistent, GiveUp,
       NoTxn, Goto, At, MayRun, data
  <2>17. CASE Claim(t)
    BY <2>17 DEF Claim, ClaimGoes, ClaimRefusal, OwnerConsistent, Request, Goto, At,
       MayRun, data
  <2>18. CASE CheckErased(t)
    BY <2>18 DEF CheckErased, Span, Fresh, Swept, Bus, Goto, At, MayRun, part
  <2>19. CASE Drop(t)
    BY <2>19 DEF Drop, Latched, Goto, At, MayRun, data
  <2>20. CASE Canary(t)
    BY <2>20 DEF Canary, Goto, At, MayRun, part, data
  <2>21. CASE WriteUnit(t)
    <3>1. t = Fg
      BY <2>21 DEF WriteUnit, At
    <3>2. Fg \in Threads
      OBVIOUS
    <3>3. \A u \in Units : u \notin Done' => u \notin Done /\ flash'[u] = flash[u]
      <4>1. txn.lo \in Nat /\ txn.done \in Nat
        BY DEF Reports
      <4> QED BY <2>21, <4>1, WriteUnitDoes DEF SameRequest, Done
    <3> QED BY <2>21, <3>1, <3>3, WriteUnitDoes DEF SameRequest
  <2>22. CASE EraseTick(t)
    <3>1. t = Fg
      BY <2>22 DEF EraseTick, At
    <3>2. Fg \in Threads
      OBVIOUS
    <3>3. Done' = Done
      BY <2>22, EraseTickDoes DEF SameRequest, Done
    <3> QED BY <2>22, <3>1, <3>3, EraseTickDoes DEF SameRequest
  <2>23. CASE Restore(t)
    BY <2>23 DEF Restore, Latched, VerifyDue, Goto, At, MayRun, data
  <2>24. CASE Verify(t)
    BY <2>24 DEF Verify, Done, Fresh, Swept, Bus, Goto, At, MayRun, part
  <2>25. CASE Commit(t)
    BY <2>25 DEF Commit, Latched, CommitOk, AfterCommit, Goto, At, MayRun, data
  <2>26. CASE \E u \in Units : ReadPlain(t, u)
    BY <2>26 DEF ReadPlain, Cached, Bus, At, MayRun, part, threads
  <2>27. CASE \E u \in Units : ReadFresh(t, u)
    BY <2>27 DEF ReadFresh, Bus, At, MayRun, part, threads
  <2>28. CASE \E u \in Units : ReadReserved(t, u)
    BY <2>28 DEF ReadReserved, Bus, At, MayRun, part, threads
  <2> QED
    BY <1>n, <2>o, <2>1, <2>2, <2>3, <2>4, <2>5, <2>6, <2>7, <2>8, <2>9, <2>10, <2>11,
       <2>12, <2>13, <2>14, <2>15, <2>16, <2>17, <2>18, <2>19, <2>20, <2>21, <2>22,
       <2>23, <2>24, <2>25, <2>26, <2>27, <2>28 DEF Reader, Command, Transaction,
       NpuDown, CameraStart, CameraStop, part, data, threads
<1> QED BY <1>u, <1>n DEF Next

(* The report stays true of the array, step by step.                       *)
LEMMA TxnKept ==
  ASSUME Inv, [Next]_vars
  PROVE  TxnInv'
<1> USE ThreadsAssumption, PartAssumption DEF Inv, TypeOK, Reports, Statuses, Ops,
   JobsRead, OwnerInv, BringInv, LeaseInv, WindowInv, TxnInv, Writing, Waits, InTxn,
   Entering, Leased, Places, Threads, Units, PayloadInv, Values, Done, Span
<1>u. CASE UNCHANGED vars
  BY <1>u DEF vars, part, data, threads
<1>n. ASSUME NEW t \in Threads,
             Reader(t) \/ Command(t) \/ Transaction(t) \/ CameraStart(t) \/ CameraStop(t)
      PROVE  TxnInv'
  <2>o. CASE UNCHANGED <<flash, pc, txn>>
    BY <2>o DEF part, data, threads
  <2>1. CASE \E s \in Slots : StartRead(t, s)
    BY <2>1 DEF StartRead, Acquire, Granted, GiveUp, AcquireTakes, Goto, At, MayRun, data
  <2>2. CASE StartNpu(t)
    BY <2>2 DEF StartNpu, Acquire, Granted, GiveUp, AcquireTakes, Goto, At, MayRun, data
  <2>3. CASE BringUpOk(t)
    BY <2>3 DEF BringUpOk, Granted, Goto, At, MayRun, data
  <2>4. CASE BringUpFail(t)
    BY <2>4 DEF BringUpFail, GiveUp, Goto, At, MayRun, data
  <2>5. CASE EndRead(t)
    BY <2>5 DEF EndRead, Release, Goto, At, MayRun, data
  <2>6. CASE NpuKept(t)
    BY <2>6 DEF NpuKept, Goto, At, MayRun, part, data
  <2>7. CASE NpuFailed(t)
    BY <2>7 DEF NpuFailed, Release, Goto, At, MayRun, data
  <2>8. CASE \E u \in Units : VerifyCopy(t, u)
    BY <2>8 DEF VerifyCopy, Bus, Goto, At, MayRun, part
  <2>9. CASE VerifySum(t)
    BY <2>9 DEF VerifySum, Goto, At, MayRun, part, data
  <2>10. CASE StartWrite(t)
    BY <2>10 DEF StartWrite, Foreground, Goto, At, MayRun, part, data
  <2>11. CASE StartNorWrite(t)
    BY <2>11 DEF StartNorWrite, Foreground, Goto, At, MayRun, part
  <2>12. CASE HandBack(t)
    BY <2>12 DEF HandBack, Release, Goto, At, MayRun, data
  <2>13. CASE Reserve(t)
    BY <2>13 DEF Reserve, ReserveGoes, GiveUp, Goto, At, MayRun, data
  <2>14. CASE \E s \in Slots : Enter(t, s)
    BY <2>14 DEF Enter, Acquire, Granted, GiveUp, AcquireTakes, Goto, At, MayRun, data
  <2>15. CASE Fill(t)
    BY <2>15 DEF Fill, NoTxn, At, MayRun, part
  <2>16. CASE Unreserve(t)
    BY <2>16 DEF Unreserve, UnreserveDrops, AfterUnreserve, OwnerConsistent, GiveUp,
       NoTxn, Goto, At, MayRun, data
  <2>17. CASE Claim(t)
    BY <2>17 DEF Claim, ClaimGoes, ClaimRefusal, OwnerConsistent, Request, Goto, At,
       MayRun, data
  <2>18. CASE CheckErased(t)
    <3>1. t = Fg
      BY <2>18 DEF CheckErased, At
    <3> QED BY <2>18, <3>1, CheckErasedKeepsTxn
  <2>19. CASE Drop(t)
    <3>1. t = Fg
      BY <2>19 DEF Drop, At
    <3> QED BY <2>19, <3>1, DropKeepsTxn
  <2>20. CASE Canary(t)
    <3>1. t = Fg
      BY <2>20 DEF Canary, At
    <3> QED BY <2>20, <3>1, CanaryKeepsTxn
  <2>21. CASE WriteUnit(t)
    <3>1. t = Fg
      BY <2>21 DEF WriteUnit, At
    <3> QED BY <2>21, <3>1, WriteUnitKeepsTxn
  <2>22. CASE EraseTick(t)
    <3>1. t = Fg
      BY <2>22 DEF EraseTick, At
    <3> QED BY <2>22, <3>1, EraseTickKeepsTxn
  <2>23. CASE Restore(t)
    <3>1. t = Fg
      BY <2>23 DEF Restore, At
    <3> QED BY <2>23, <3>1, RestoreKeepsTxn
  <2>24. CASE Verify(t)
    BY <2>24 DEF Verify, Done, Fresh, Swept, Bus, Goto, At, MayRun, part
  <2>25. CASE Commit(t)
    BY <2>25 DEF Commit, Latched, CommitOk, AfterCommit, Goto, At, MayRun, data
  <2> QED
    BY <1>n, <2>o, <2>1, <2>2, <2>3, <2>4, <2>5, <2>6, <2>7, <2>8, <2>9, <2>10, <2>11,
       <2>12, <2>13, <2>14, <2>15, <2>16, <2>17, <2>18, <2>19, <2>20, <2>21, <2>22,
       <2>23, <2>24, <2>25 DEF Reader, Command, Transaction, NpuDown, ReadPlain,
       ReadFresh, ReadReserved, CameraStart, CameraStop, part, data, threads
<1> QED BY <1>u, <1>n DEF Next

(* What is programmed is what was asked: the staging buffer does not       *)
(* change between.                                                         *)
LEMMA PayloadKept ==
  ASSUME Inv, [Next]_vars
  PROVE  PayloadInv'
<1> USE ThreadsAssumption, PartAssumption DEF Inv, TypeOK, Reports, Statuses, Ops,
   JobsRead, OwnerInv, BringInv, LeaseInv, WindowInv, TxnInv, Writing, Waits, InTxn,
   Entering, Leased, Places, Threads, Units, PayloadInv, Values
<1>u. CASE UNCHANGED vars
  BY <1>u DEF vars, part, data, threads
<1>n. ASSUME NEW t \in Threads,
             Reader(t) \/ Command(t) \/ Transaction(t) \/ CameraStart(t) \/ CameraStop(t)
      PROVE  PayloadInv'
  <2>o. CASE UNCHANGED <<stage, asked, pc, txn>>
    BY <2>o DEF part, data, threads
  <2>1. CASE \E s \in Slots : StartRead(t, s)
    BY <2>1 DEF StartRead, Acquire, Granted, GiveUp, AcquireTakes, Goto, At, MayRun, data
  <2>2. CASE StartNpu(t)
    BY <2>2 DEF StartNpu, Acquire, Granted, GiveUp, AcquireTakes, Goto, At, MayRun, data
  <2>3. CASE BringUpOk(t)
    BY <2>3 DEF BringUpOk, Granted, Goto, At, MayRun, data
  <2>4. CASE BringUpFail(t)
    BY <2>4 DEF BringUpFail, GiveUp, Goto, At, MayRun, data
  <2>5. CASE EndRead(t)
    BY <2>5 DEF EndRead, Release, Goto, At, MayRun, data
  <2>6. CASE NpuKept(t)
    BY <2>6 DEF NpuKept, Goto, At, MayRun, part, data
  <2>7. CASE NpuFailed(t)
    BY <2>7 DEF NpuFailed, Release, Goto, At, MayRun, data
  <2>8. CASE \E u \in Units : VerifyCopy(t, u)
    BY <2>8 DEF VerifyCopy, Bus, Goto, At, MayRun, part
  <2>9. CASE VerifySum(t)
    BY <2>9 DEF VerifySum, Goto, At, MayRun, part, data
  <2>10. CASE StartWrite(t)
    BY <2>10 DEF StartWrite, Foreground, Goto, At, MayRun, part, data
  <2>11. CASE StartNorWrite(t)
    BY <2>11 DEF StartNorWrite, Foreground, Goto, At, MayRun, part
  <2>12. CASE HandBack(t)
    BY <2>12 DEF HandBack, Release, Goto, At, MayRun, data
  <2>13. CASE Reserve(t)
    BY <2>13 DEF Reserve, ReserveGoes, GiveUp, Goto, At, MayRun, data
  <2>14. CASE \E s \in Slots : Enter(t, s)
    BY <2>14 DEF Enter, Acquire, Granted, GiveUp, AcquireTakes, Goto, At, MayRun, data
  <2>15. CASE Fill(t)
    BY <2>15 DEF Fill, NoTxn, At, MayRun, part
  <2>16. CASE Unreserve(t)
    BY <2>16 DEF Unreserve, UnreserveDrops, AfterUnreserve, OwnerConsistent, GiveUp,
       NoTxn, Goto, At, MayRun, data
  <2>17. CASE Claim(t)
    BY <2>17 DEF Claim, ClaimGoes, ClaimRefusal, OwnerConsistent, Request, Goto, At,
       MayRun, data
  <2>18. CASE CheckErased(t)
    BY <2>18 DEF CheckErased, Span, Fresh, Swept, Bus, Goto, At, MayRun, part
  <2>19. CASE Drop(t)
    BY <2>19 DEF Drop, Latched, Goto, At, MayRun, data
  <2>20. CASE Canary(t)
    BY <2>20 DEF Canary, Goto, At, MayRun, part, data
  <2>21. CASE WriteUnit(t)
    BY <2>21 DEF WriteUnit, OnTheWire, Taken, Goto, At, MayRun, part
  <2>22. CASE EraseTick(t)
    BY <2>22 DEF EraseTick, Goto, At, MayRun, part, data
  <2>23. CASE Restore(t)
    BY <2>23 DEF Restore, Latched, VerifyDue, Goto, At, MayRun, data
  <2>24. CASE Verify(t)
    BY <2>24 DEF Verify, Done, Fresh, Swept, Bus, Goto, At, MayRun, part
  <2>25. CASE Commit(t)
    BY <2>25 DEF Commit, Latched, CommitOk, AfterCommit, Goto, At, MayRun, data
  <2> QED
    BY <1>n, <2>o, <2>1, <2>2, <2>3, <2>4, <2>5, <2>6, <2>7, <2>8, <2>9, <2>10, <2>11,
       <2>12, <2>13, <2>14, <2>15, <2>16, <2>17, <2>18, <2>19, <2>20, <2>21, <2>22,
       <2>23, <2>24, <2>25 DEF Reader, Command, Transaction, NpuDown, ReadPlain,
       ReadFresh, ReadReserved, CameraStart, CameraStop, part, data, threads
<1> QED BY <1>u, <1>n DEF Next

(* A transaction that ends OK has done its whole span.                     *)
LEMMA OkIsWhole ==
  ASSUME txn \in Reports, TxnInv, pc[Fg] = "commit", txn.st = "OK"
  PROVE  Done = Span
<1>1. txn.lo + txn.done = txn.hi + 1
  BY DEF TxnInv, InTxn
<1>2. txn.lo \in Nat /\ txn.done \in Nat /\ txn.hi \in Nat
  BY PartAssumption DEF Reports, Units
<1> QED BY <1>1, <1>2 DEF Done, Span

(* What the report says is still true when the command reads it.           *)
LEMMA AnswersKept ==
  ASSUME Inv, [Next]_vars
  PROVE  AnswerTrue'
<1> USE ThreadsAssumption, PartAssumption DEF Inv, TypeOK, Reports, Statuses, Ops,
   JobsRead, OwnerInv, BringInv, LeaseInv, WindowInv, TxnInv, Writing, Waits, InTxn,
   Entering, Leased, Places, Threads, Units, AnswerTrue, Done, Span
<1>u. CASE UNCHANGED vars
  BY <1>u DEF vars, part, data, threads
<1>n. ASSUME NEW t \in Threads,
             Reader(t) \/ Command(t) \/ Transaction(t) \/ CameraStart(t) \/ CameraStop(t)
      PROVE  AnswerTrue'
  <2>o. CASE UNCHANGED <<flash, pc, txn>>
    BY <2>o DEF part, data, threads
  <2>1. CASE \E s \in Slots : StartRead(t, s)
    BY <2>1 DEF StartRead, Acquire, Granted, GiveUp, AcquireTakes, Goto, At, MayRun, data
  <2>2. CASE StartNpu(t)
    BY <2>2 DEF StartNpu, Acquire, Granted, GiveUp, AcquireTakes, Goto, At, MayRun, data
  <2>3. CASE BringUpOk(t)
    BY <2>3 DEF BringUpOk, Granted, Goto, At, MayRun, data
  <2>4. CASE BringUpFail(t)
    BY <2>4 DEF BringUpFail, GiveUp, Goto, At, MayRun, data
  <2>5. CASE EndRead(t)
    BY <2>5 DEF EndRead, Release, Goto, At, MayRun, data
  <2>6. CASE NpuKept(t)
    BY <2>6 DEF NpuKept, Goto, At, MayRun, part, data
  <2>7. CASE NpuFailed(t)
    BY <2>7 DEF NpuFailed, Release, Goto, At, MayRun, data
  <2>8. CASE \E u \in Units : VerifyCopy(t, u)
    BY <2>8 DEF VerifyCopy, Bus, Goto, At, MayRun, part
  <2>9. CASE VerifySum(t)
    BY <2>9 DEF VerifySum, Goto, At, MayRun, part, data
  <2>10. CASE StartWrite(t)
    BY <2>10 DEF StartWrite, Foreground, Goto, At, MayRun, part, data
  <2>11. CASE StartNorWrite(t)
    BY <2>11 DEF StartNorWrite, Foreground, Goto, At, MayRun, part
  <2>12. CASE HandBack(t)
    BY <2>12 DEF HandBack, Release, Goto, At, MayRun, data
  <2>13. CASE Reserve(t)
    BY <2>13 DEF Reserve, ReserveGoes, GiveUp, Goto, At, MayRun, data
  <2>14. CASE \E s \in Slots : Enter(t, s)
    BY <2>14 DEF Enter, Acquire, Granted, GiveUp, AcquireTakes, Goto, At, MayRun, data
  <2>15. CASE Fill(t)
    BY <2>15 DEF Fill, NoTxn, At, MayRun, part
  <2>16. CASE Unreserve(t)
    BY <2>16 DEF Unreserve, UnreserveDrops, AfterUnreserve, OwnerConsistent, GiveUp,
       NoTxn, Goto, At, MayRun, data
  <2>17. CASE Claim(t)
    BY <2>17 DEF Claim, ClaimGoes, ClaimRefusal, OwnerConsistent, Request, Goto, At,
       MayRun, data
  <2>18. CASE CheckErased(t)
    BY <2>18 DEF CheckErased, Span, Fresh, Swept, Bus, Goto, At, MayRun, part
  <2>19. CASE Drop(t)
    BY <2>19 DEF Drop, Latched, Goto, At, MayRun, data
  <2>20. CASE Canary(t)
    BY <2>20 DEF Canary, Goto, At, MayRun, part, data
  <2>21. CASE WriteUnit(t)
    BY <2>21 DEF WriteUnit, OnTheWire, Taken, Goto, At, MayRun, part
  <2>22. CASE EraseTick(t)
    BY <2>22 DEF EraseTick, Goto, At, MayRun, part, data
  <2>23. CASE Restore(t)
    BY <2>23 DEF Restore, Latched, VerifyDue, Goto, At, MayRun, data
  <2>24. CASE Verify(t)
    BY <2>24 DEF Verify, Done, Fresh, Swept, Bus, Goto, At, MayRun, part
  <2>25. CASE Commit(t)
    <3>1. t = Fg /\ pc[t] = "commit" /\ txn' = txn /\ flash' = flash
      BY <2>25 DEF Commit, At, data
    <3>2. txn.st \in {"OK", "INCOMPLETE"} =>
            \A u \in Units : flash[u] = IF u \in Done THEN txn.want ELSE txn.was[u]
      BY <3>1 DEF TxnInv
    <3>3. txn.st = "OK" => Done = Span
      BY <3>1, OkIsWhole
    <3>4. txn.st \in {"NO_TRANSPORT", "REFUSED"} => flash = txn.was
      <4>1. HAVE txn.st \in {"NO_TRANSPORT", "REFUSED"}
      <4>2. txn.done = 0 /\ txn.lo \in Nat
        BY <4>1, <3>1
      <4>3. Done = {}
        BY <4>2 DEF Done
      <4>4. \A u \in Units : flash[u] = txn.was[u]
        BY <4>3, <3>1
      <4> QED BY <4>4, <3>1
    <3>5. txn.st \notin {"CAMERA", "BUSY"}
      BY <3>1
    <3>6. \A r \in Threads : pc'[r] = "held" => r = Fg
      BY <2>25 DEF Commit, Goto, At
    <3>7. Done' = Done /\ Span' = Span
      BY <3>1 DEF Done, Span
    <3> QED BY <3>1, <3>2, <3>3, <3>4, <3>5, <3>6, <3>7 DEF AnswerTrue
  <2> QED
    BY <1>n, <2>o, <2>1, <2>2, <2>3, <2>4, <2>5, <2>6, <2>7, <2>8, <2>9, <2>10, <2>11,
       <2>12, <2>13, <2>14, <2>15, <2>16, <2>17, <2>18, <2>19, <2>20, <2>21, <2>22,
       <2>23, <2>24, <2>25 DEF Reader, Command, Transaction, NpuDown, ReadPlain,
       ReadFresh, ReadReserved, CameraStart, CameraStop, part, data, threads
<1> QED BY <1>u, <1>n DEF Next

(* Nobody starts the camera between a program's claim and its commit.      *)
LEMMA DarkKept ==
  ASSUME Inv, [Next]_vars
  PROVE  ProgramsInTheDark'
<1> USE ThreadsAssumption, PartAssumption DEF Inv, TypeOK, Reports, Statuses, Ops,
   JobsRead, OwnerInv, BringInv, LeaseInv, WindowInv, TxnInv, Writing, Waits, InTxn,
   Entering, Leased, Places, Threads, Units, ProgramsInTheDark
<1>u. CASE UNCHANGED vars
  BY <1>u DEF vars, part, data, threads
<1>n. ASSUME NEW t \in Threads,
             Reader(t) \/ Command(t) \/ Transaction(t) \/ CameraStart(t) \/ CameraStop(t)
      PROVE  ProgramsInTheDark'
  <2>o. CASE UNCHANGED <<cam, pc, txn>>
    BY <2>o DEF part, data, threads
  <2>1. CASE \E s \in Slots : StartRead(t, s)
    BY <2>1 DEF StartRead, Acquire, Granted, GiveUp, AcquireTakes, Goto, At, MayRun, data
  <2>2. CASE StartNpu(t)
    BY <2>2 DEF StartNpu, Acquire, Granted, GiveUp, AcquireTakes, Goto, At, MayRun, data
  <2>3. CASE BringUpOk(t)
    BY <2>3 DEF BringUpOk, Granted, Goto, At, MayRun, data
  <2>4. CASE BringUpFail(t)
    BY <2>4 DEF BringUpFail, GiveUp, Goto, At, MayRun, data
  <2>5. CASE EndRead(t)
    BY <2>5 DEF EndRead, Release, Goto, At, MayRun, data
  <2>6. CASE NpuKept(t)
    BY <2>6 DEF NpuKept, Goto, At, MayRun, part, data
  <2>7. CASE NpuFailed(t)
    BY <2>7 DEF NpuFailed, Release, Goto, At, MayRun, data
  <2>8. CASE \E u \in Units : VerifyCopy(t, u)
    BY <2>8 DEF VerifyCopy, Bus, Goto, At, MayRun, part
  <2>9. CASE VerifySum(t)
    BY <2>9 DEF VerifySum, Goto, At, MayRun, part, data
  <2>10. CASE StartWrite(t)
    BY <2>10 DEF StartWrite, Foreground, Goto, At, MayRun, part, data
  <2>11. CASE StartNorWrite(t)
    BY <2>11 DEF StartNorWrite, Foreground, Goto, At, MayRun, part
  <2>12. CASE HandBack(t)
    BY <2>12 DEF HandBack, Release, Goto, At, MayRun, data
  <2>13. CASE Reserve(t)
    BY <2>13 DEF Reserve, ReserveGoes, GiveUp, Goto, At, MayRun, data
  <2>14. CASE \E s \in Slots : Enter(t, s)
    BY <2>14 DEF Enter, Acquire, Granted, GiveUp, AcquireTakes, Goto, At, MayRun, data
  <2>15. CASE Fill(t)
    BY <2>15 DEF Fill, NoTxn, At, MayRun, part
  <2>16. CASE Unreserve(t)
    BY <2>16 DEF Unreserve, UnreserveDrops, AfterUnreserve, OwnerConsistent, GiveUp,
       NoTxn, Goto, At, MayRun, data
  <2>17. CASE Claim(t)
    BY <2>17 DEF Claim, ClaimGoes, ClaimRefusal, OwnerConsistent, Request, Goto, At,
       MayRun, data
  <2>18. CASE CheckErased(t)
    BY <2>18 DEF CheckErased, Span, Fresh, Swept, Bus, Goto, At, MayRun, part
  <2>19. CASE Drop(t)
    BY <2>19 DEF Drop, Latched, Goto, At, MayRun, data
  <2>20. CASE Canary(t)
    BY <2>20 DEF Canary, Goto, At, MayRun, part, data
  <2>21. CASE WriteUnit(t)
    BY <2>21 DEF WriteUnit, OnTheWire, Taken, Goto, At, MayRun, part
  <2>22. CASE EraseTick(t)
    BY <2>22 DEF EraseTick, Goto, At, MayRun, part, data
  <2>23. CASE Restore(t)
    BY <2>23 DEF Restore, Latched, VerifyDue, Goto, At, MayRun, data
  <2>24. CASE Verify(t)
    BY <2>24 DEF Verify, Done, Fresh, Swept, Bus, Goto, At, MayRun, part
  <2>25. CASE Commit(t)
    BY <2>25 DEF Commit, Latched, CommitOk, AfterCommit, Goto, At, MayRun, data
  <2>26. CASE CameraStart(t)
    BY <2>26 DEF CameraStart, At, MayRun, part, data, threads
  <2>27. CASE CameraStop(t)
    BY <2>27 DEF CameraStop, At, MayRun, part, data, threads
  <2> QED
    BY <1>n, <2>o, <2>1, <2>2, <2>3, <2>4, <2>5, <2>6, <2>7, <2>8, <2>9, <2>10, <2>11,
       <2>12, <2>13, <2>14, <2>15, <2>16, <2>17, <2>18, <2>19, <2>20, <2>21, <2>22,
       <2>23, <2>24, <2>25, <2>26, <2>27 DEF Reader, Command, Transaction, NpuDown,
       ReadPlain, ReadFresh, ReadReserved, part, data, threads
<1> QED BY <1>u, <1>n DEF Next

(* The initial states satisfy the invariant.                               *)
LEMMA InitInv == Init => Inv
<1> SUFFICES ASSUME Init PROVE Inv
  OBVIOUS
<1> USE ThreadsAssumption, PartAssumption
<1>1. TypeOK
  BY NoTxnReport DEF Init, TypeOK, Slots, Values, Places, Threads
<1>2. JobsRead
  BY DEF Init, JobsRead, Entering, InTxn
<1>3. OwnerInv /\ BringInv /\ LeaseInv /\ WindowInv
  BY DEF Init, OwnerInv, BringInv, LeaseInv, WindowInv, Writing, InTxn, Leased, NoTxn,
     Threads
<1>4. CacheInv /\ TxnInv /\ PayloadInv /\ AnswerTrue /\ ProgramsInTheDark
  BY DEF Init, CacheInv, TxnInv, PayloadInv, AnswerTrue, ProgramsInTheDark, InTxn, Threads
<1> QED BY <1>1, <1>2, <1>3, <1>4 DEF Inv

(* Every step of the program keeps it.                                     *)
LEMMA InvKept ==
  ASSUME Inv, [Next]_vars
  PROVE  Inv'
<1>1. TypeOK'
  BY PartTypesKept, DataTypesKept, ThreadTypesKept, TxnTypesKept
     DEF TypeOK, PartTypes, DataTypes, ThreadTypes
<1> QED BY <1>1, JobsReadKept, OwnerKept, BringKept, LeasesKept, WindowKept, CacheKept,
           TxnKept, PayloadKept, AnswersKept, DarkKept DEF Inv

(* The invariant holds in every reachable state.                           *)
LEMMA Invariant == Spec => []Inv
<1>1. Inv /\ [Next]_vars => Inv'
  BY InvKept
<1> QED BY InitInv, <1>1, PTL DEF Spec

(* Every variable of nor_flash.c, nor_write.c and their callers stays in   *)
(* its range.                                                              *)
THEOREM TypesCorrect == Spec => []TypeOK
<1>1. Inv => TypeOK
  BY DEF Inv
<1> QED BY Invariant, <1>1, PTL

(* nor_acquire() and nor_release(): the lease mask is exactly the leases,  *)
(* one holder each, and every holder has the window up and no writer in.   *)
THEOREM ReadersAreCovered == Spec => []ReadersCovered
<1>1. Inv => ReadersCovered
  BY DEF Inv, ReadersCovered, LeaseInv, WindowInv, Leased
<1> QED BY Invariant, <1>1, PTL

(* nor_reserve() to nor_unreserve(): the published token is that of the    *)
(* thread that holds the part, in every state and across every fault.      *)
THEOREM OwnerIsExact == Spec => []OwnerExact
<1>1. Inv => OwnerExact
  <2> SUFFICES ASSUME Inv PROVE OwnerExact
    OBVIOUS
  <2> USE ThreadsAssumption DEF Inv, OwnerInv, JobsRead, Writing, InTxn, Threads
  <2>1. OwnerConsistent
    BY DEF OwnerConsistent, TypeOK
  <2>2. \A t \in Threads : owner = t <=> pc[t] \in InTxn \cup {"held"}
    OBVIOUS
  <2>3. \A t \in Threads : pc[t] = "held" => txn.st # "BUSY" /\ state \in {"RESERVED", "FAULTED"}
    OBVIOUS
  <2> QED BY <2>1, <2>2, <2>3 DEF OwnerExact
<1> QED BY Invariant, <1>1, PTL

(* invalidate_alias() and the read-back of nor_write.c: a reader that does *)
(* not invalidate sees what the last transaction left.                     *)
THEOREM CacheIsCoherent == Spec => []CacheCoherent
<1>1. Inv => CacheCoherent
  BY DEF Inv, CacheInv, CacheCoherent
<1> QED BY Invariant, <1>1, PTL

(* run() of nor_write.c: what a write command is told is true of the array.*)
THEOREM AnswersAreTrue == Spec => []AnswerTrue
<1>1. Inv => AnswerTrue
  BY DEF Inv
<1> QED BY Invariant, <1>1, PTL

(* nor_write_claim() asks about the camera once, and that is enough for a  *)
(* program and a cycle: nobody starts it while the writer runs.            *)
THEOREM DarkWhileProgramming == Spec => []ProgramsInTheDark
<1>1. Inv => ProgramsInTheDark
  BY DEF Inv
<1> QED BY Invariant, <1>1, PTL

(* No decision of nor_state.c leaves FAULTED.                              *)
THEOREM FaultIsForEver == Spec => FaultSticks
<1>1. Inv /\ [Next]_vars => [state = "FAULTED" => state' = "FAULTED"]_vars
  <2> SUFFICES ASSUME Inv, [Next]_vars, state = "FAULTED" PROVE state' = "FAULTED"
    OBVIOUS
  <2>1. CASE UNCHANGED vars
    BY <2>1 DEF vars, part
  <2>2. ASSUME NEW t \in Threads,
               Reader(t) \/ Command(t) \/ Transaction(t) \/ CameraStart(t) \/ CameraStop(t)
        PROVE  state' = "FAULTED"
    <3> USE ThreadsAssumption DEF Inv, OwnerInv, JobsRead, BringInv, Threads, Writing, InTxn
    <3>1. CASE Reader(t)
      BY <2>2, <3>1 DEF Reader, part, At, Acquire, AcquireTakes, StartRead, StartNpu,
         BringUpOk, BringUpFail, EndRead, NpuKept, NpuFailed, NpuDown, ReadPlain,
         ReadFresh, ReadReserved, VerifyCopy, VerifySum
    <3>2. CASE Command(t)
      BY <2>2, <3>2 DEF Command, StartWrite, StartNorWrite, HandBack, Reserve,
         ReserveGoes, Enter,
         Acquire, AcquireTakes, At, part
    <3>3. CASE Transaction(t)
      BY <2>2, <3>3 DEF Transaction, Fill, Unreserve, AfterUnreserve, Claim, ClaimGoes,
         CheckErased,
         Drop, Canary, WriteUnit, EraseTick, Restore, Verify, Commit, Latched, At, part
    <3>4. CASE CameraStart(t) \/ CameraStop(t)
      BY <3>4 DEF CameraStart, CameraStop, part
    <3> QED BY <2>2, <3>1, <3>2, <3>3, <3>4
  <2> QED BY <2>1, <2>2 DEF Next
<1> QED BY Invariant, <1>1, PTL DEF Spec, FaultSticks

=============================================================================
