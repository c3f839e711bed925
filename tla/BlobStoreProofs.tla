--------------------------- MODULE BlobStoreProofs ---------------------------
(***************************************************************************)
(* What holds of the asset store for any tasks, slots, names, files and    *)
(* sizes, through every failed flash operation and every loss of power: a  *)
(* slot that reads valid holds what its header says, no two carry one      *)
(* name, and a load reads the blob it looked up.                           *)
(***************************************************************************)
EXTENDS BlobStore, TLAPS, FiniteSetTheorems

(* Where a `blob write` has chosen its slot, and where its erase is done.  *)
Filling == {"claim", "offer", "receive", "body", "verify", "magic"}
Writing == {"erase"} \cup Filling
Sized   == {"receive", "body", "verify", "magic"}
Owning  == Writing \cup {"eraseHeader", "raw", "fetch"}

(* The busy flag is one command's, and that command's only.                *)
Holder ==
  /\ \A t \in Tasks : at[t] # "idle" => busy
  /\ \A t, u \in Tasks : at[t] # "idle" /\ at[u] # "idle" => t = u

(* What a command's locals are good for.                                   *)
JobOK(t) ==
  /\ at[t] \in {"choose"} \cup Writing => job[t].name \in Names /\ ~job[t].bg
  /\ at[t] = "find" => job[t].name \in Names
  /\ at[t] \in Owning => job[t].slot \in Slots
  /\ at[t] = "choose" \/ at[t] = "erase" => job[t].unit \in 0..LastUnit
  /\ at[t] \in {"choose", "erase", "claim", "offer"} => job[t].got = 0 /\ job[t].put = 0
  /\ at[t] = "choose" => job[t].unit = 0
  /\ at[t] \in Sized =>
       /\ job[t].file \in Files
       /\ job[t].put <= job[t].got /\ job[t].got <= Length[job[t].file]

(* The payload from a block on is erased; up to a block it is the file's.  *)
BlankFrom(s, n)   == \A i \in 1..Blocks : i >= n => data[s][i] = Erased
BlankUpTo(s, n)   == \A i \in 1..Blocks : i <= n => data[s][i] = Erased
HoldsUpTo(s, f, n) == \A i \in 1..Blocks : i <= n => data[s][i] = <<f, i>>

(* How far the erase of the slot a write has chosen has come ...           *)
ErasingOK(t) ==
  LET s == job[t].slot  u == job[t].unit IN
  at[t] = "erase" =>
    IF u = 0
      THEN Valid(s) => NameIn(s) = job[t].name
      ELSE /\ magic[s] = Erased /\ body[s] = Erased /\ ~torn[s]
           /\ BlankUpTo(s, HeadBlocks + u - 1)

(* ... and what is in the slot once it is done.                            *)
FillingOK(t) ==
  LET s == job[t].slot  f == job[t].file IN
  /\ at[t] \in Filling => magic[s] = Erased /\ ~torn[s]
  /\ at[t] \in {"claim", "offer", "receive", "body"} => body[s] = Erased
  /\ at[t] \in {"claim", "offer"} => BlankFrom(s, 1)
  /\ at[t] = "receive" =>
       /\ BlankFrom(s, job[t].put + 1)
       /\ ~bad => HoldsUpTo(s, f, job[t].put)
  /\ at[t] \in {"body", "verify"} /\ ~bad => Holds(s, f)
  /\ at[t] \in {"verify", "magic"} => body[s] \in {<<job[t].name, f>>, Garbage}
  /\ at[t] = "magic" => Holds(s, f)

(* No other slot has the name a write is for.                              *)
AloneOK(t) ==
  at[t] \in Writing =>
    \A s \in Slots : Valid(s) /\ NameIn(s) = job[t].name => s = job[t].slot

FetchOK(t) ==
  at[t] = "fetch" =>
    LET s == job[t].slot IN
    /\ Valid(s) /\ NameIn(s) = job[t].name /\ FileIn(s) = job[t].file
    /\ torn[s] \/ Holds(s, job[t].file)

Work(t) == JobOK(t) /\ ErasingOK(t) /\ FillingOK(t) /\ AloneOK(t) /\ FetchOK(t)

(* What the flash says by itself.                                          *)
Named ==
  \A r, s \in Slots : Valid(r) /\ Valid(s) /\ NameIn(r) = NameIn(s) => r = s

FlashOK == ValidMeansWhole /\ Named

(* A console's lock is held through the transfer and not beyond.           *)
ConsoleOK == \A t \in Tasks : console[t] = IF Claimed(t) THEN 1 ELSE 0

Inv ==
  /\ TypeOK /\ Holder /\ ConsoleOK /\ FlashOK
  /\ \A t \in Tasks : Work(t)

(* A step that is the last of nothing: the other slots stay as they are,   *)
(* and this one reads valid only if it did before and for the same file.   *)
Others(s) ==
  \A r \in Slots : r # s =>
    magic'[r] = magic[r] /\ body'[r] = body[r] /\ data'[r] = data[r] /\ torn'[r] = torn[r]

Fades(s) ==
  /\ Others(s)
  /\ Valid(s)' => /\ Valid(s) /\ body'[s] = body[s]
                  /\ torn'[s] \/ (torn'[s] = torn[s] /\ data'[s] = data[s])

FlashType ==
  /\ magic \in [Slots -> MagicPages]
  /\ body \in [Slots -> BodyPages]
  /\ data \in [Slots -> [1..Blocks -> DataPages]]
  /\ torn \in [Slots -> BOOLEAN]

TaskType ==
  /\ busy \in BOOLEAN /\ bad \in BOOLEAN
  /\ at \in [Tasks -> Places]
  /\ job \in [Tasks -> Jobs]
  /\ console \in [Tasks -> 0..1]

LEMMA TypesSplit == TypeOK <=> FlashType /\ TaskType
BY DEF TypeOK, FlashType, TaskType

(* Nothing new reads valid, so nothing that does says anything wrong.      *)
LEMMA FadingIsSafe ==
  ASSUME NEW s \in Slots, FlashOK, Fades(s)
  PROVE  FlashOK'
<1>1. \A r \in Slots : Valid(r)' => Valid(r) /\ body'[r] = body[r]
  BY DEF Fades, Others, Valid, Decodes
<1>2. Named'
  BY <1>1 DEF FlashOK, Named, NameIn
<1>3. ASSUME NEW r \in Slots, Valid(r)', ~torn'[r] PROVE Holds(r, FileIn(r))'
  <2>1. data'[r] = data[r] /\ torn'[r] = torn[r] /\ body'[r] = body[r] /\ Valid(r)
    BY <1>1, <1>3 DEF Fades, Others
  <2>2. Holds(r, FileIn(r))
    BY <1>3, <2>1 DEF FlashOK, ValidMeansWhole
  <2>. QED
    BY <2>1, <2>2 DEF Holds, FileIn
<1>4. ValidMeansWhole'
  BY <1>3 DEF ValidMeansWhole
<1>5. QED
  BY <1>2, <1>4 DEF FlashOK

(* What a page may be.                                                     *)
LEMMA Pages ==
  /\ Erased \in MagicPages /\ Garbage \in MagicPages /\ Magic \in MagicPages
  /\ Erased \in BodyPages /\ Garbage \in BodyPages
  /\ Erased \in DataPages /\ Garbage \in DataPages
  /\ \A n \in Names, f \in Files : <<n, f>> \in BodyPages /\ <<n, f>> \in Names \X Files
  /\ \A f \in Files, i \in 1..Blocks : <<f, i>> \in DataPages
  /\ Magic # Erased /\ Magic # Garbage /\ Erased # Garbage
  /\ Erased \notin Names \X Files /\ Garbage \notin Names \X Files
BY StoreAssumption DEF MagicPages, BodyPages, DataPages

(* A unit that was erased.                                                 *)
LEMMA ErasedUnitDoes ==
  ASSUME FlashType, NEW s \in Slots, NEW u \in 0..LastUnit, ErasedUnit(s, u),
         torn' = IF u = 0 THEN [torn EXCEPT ![s] = FALSE] ELSE torn
  PROVE  /\ FlashType' /\ Others(s)
         /\ u = 0 => magic'[s] = Erased /\ body'[s] = Erased /\ ~torn'[s]
         /\ u # 0 => magic'[s] = magic[s] /\ body'[s] = body[s] /\ torn'[s] = torn[s]
         /\ \A i \in 1..Blocks :
              data'[s][i] = IF i \in InUnit(u) THEN Erased ELSE data[s][i]
<1>1. magic' \in [Slots -> MagicPages] /\ body' \in [Slots -> BodyPages]
  BY Pages DEF ErasedUnit, FlashType
<1>2. [i \in 1..Blocks |-> IF i \in InUnit(u) THEN Erased ELSE data[s][i]]
        \in [1..Blocks -> DataPages]
  BY Pages DEF FlashType
<1>3. data' \in [Slots -> [1..Blocks -> DataPages]]
  BY <1>2 DEF ErasedUnit, FlashType
<1>4. torn' \in [Slots -> BOOLEAN]
  BY DEF FlashType
<1>5. Others(s)
  BY DEF ErasedUnit, FlashType, Others
<1>6. \A i \in 1..Blocks :
        data'[s][i] = IF i \in InUnit(u) THEN Erased ELSE data[s][i]
  BY DEF ErasedUnit, FlashType
<1>7. QED
  BY <1>1, <1>3, <1>4, <1>5, <1>6 DEF ErasedUnit, FlashType

(* A header page that was cut short is the old one or reads invalid.       *)
LEMMA CutHeaderDoes ==
  ASSUME FlashType, NEW s \in Slots, CutHeader(s)
  PROVE  /\ magic' \in [Slots -> MagicPages] /\ body' \in [Slots -> BodyPages]
         /\ \A r \in Slots : r # s => magic'[r] = magic[r] /\ body'[r] = body[r]
         /\ Valid(s)' => Valid(s) /\ body'[s] = body[s]
<1>1. magic' \in [Slots -> MagicPages]
  BY Pages DEF CutHeader, FlashType
<1>2. body' \in [Slots -> BodyPages]
  BY Pages DEF CutHeader, FlashType
<1>3. \A r \in Slots : r # s => magic'[r] = magic[r] /\ body'[r] = body[r]
  BY DEF CutHeader, FlashType
<1>4. magic'[s] \in {magic[s], Erased, Garbage} /\ body'[s] \in {body[s], Erased, Garbage}
  BY DEF CutHeader, FlashType
<1>5. Valid(s)' => Valid(s) /\ body'[s] = body[s]
  BY <1>4, Pages DEF Valid, Decodes
<1>6. QED
  BY <1>1, <1>2, <1>3, <1>5

(* A unit whose erase was cut short.                                       *)
LEMMA CutUnitDoes ==
  ASSUME FlashType, NEW s \in Slots, NEW u \in 0..LastUnit, CutUnit(s, u),
         torn' = [torn EXCEPT ![s] = TRUE]
  PROVE  FlashType' /\ Fades(s)
<1>1. /\ magic' \in [Slots -> MagicPages] /\ body' \in [Slots -> BodyPages]
      /\ \A r \in Slots : r # s => magic'[r] = magic[r] /\ body'[r] = body[r]
      /\ Valid(s)' => Valid(s) /\ body'[s] = body[s]
  <2>1. CASE u = 0
    BY <2>1, CutHeaderDoes DEF CutUnit
  <2>2. CASE u # 0
    BY <2>2 DEF CutUnit, FlashType, Valid, Decodes
  <2>. QED
    BY <2>1, <2>2
<1>2. PICK d \in [1..Blocks -> DataPages] : data' = [data EXCEPT ![s] = d]
  BY DEF CutUnit
<1>3. data' \in [Slots -> [1..Blocks -> DataPages]]
  BY <1>2 DEF FlashType
<1>4. torn' \in [Slots -> BOOLEAN] /\ torn'[s]
  BY DEF FlashType
<1>5. Others(s)
  BY <1>1, <1>2 DEF Others, FlashType
<1>6. QED
  BY <1>1, <1>3, <1>4, <1>5 DEF FlashType, Fades

(* A program writes what was meant where the flash was erased.             *)
LEMMA ProgrammedDoes ==
  ASSUME FlashType, NEW s \in Slots, NEW f \in Files, NEW a \in Nat, NEW b \in Nat,
         b <= Length[f],
         data' = [data EXCEPT ![s] = Programmed(s, f, a + 1, b)],
         UNCHANGED <<magic, body, torn>>, BlankFrom(s, a + 1)
  PROVE  /\ FlashType' /\ Others(s)
         /\ \A i \in 1..Blocks :
              data'[s][i] = IF a < i /\ i <= b THEN <<f, i>> ELSE data[s][i]
<1>1. \A i \in 1..Blocks : i \in a + 1 .. b <=> a < i /\ i <= b
  BY StoreAssumption
<1>2. \A i \in 1..Blocks : Onto(data[s][i], <<f, i>>) \in DataPages
  BY Pages DEF Onto
<1>3. Programmed(s, f, a + 1, b) \in [1..Blocks -> DataPages]
  BY <1>2 DEF Programmed, FlashType
<1>4. data' \in [Slots -> [1..Blocks -> DataPages]]
  BY <1>3 DEF FlashType
<1>5. Others(s)
  BY DEF Others, FlashType
<1>6. ASSUME NEW i \in 1..Blocks
      PROVE  data'[s][i] = IF a < i /\ i <= b THEN <<f, i>> ELSE data[s][i]
  <2>1. data'[s] = Programmed(s, f, a + 1, b)
    BY DEF FlashType
  <2>2. a < i => data[s][i] = Erased
    BY StoreAssumption DEF BlankFrom
  <2>. QED
    BY <1>1, <2>1, <2>2 DEF Programmed, Onto
<1>7. QED
  BY <1>4, <1>5, <1>6 DEF FlashType

(* One that was cut short, or lied, leaves the blocks outside it alone.    *)
LEMMA CutBlocksDoes ==
  ASSUME FlashType, NEW s \in Slots, NEW f \in Files, NEW a \in Nat, NEW b \in Nat,
         CutBlocks(s, f, a + 1, b), UNCHANGED <<magic, body, torn>>
  PROVE  /\ FlashType' /\ Others(s)
         /\ \A i \in 1..Blocks : i > b => data'[s][i] = data[s][i]
<1>1. PICK d \in [1..Blocks -> DataPages] :
        /\ \A i \in 1..Blocks : d[i] \in
             IF i \in a + 1 .. b THEN CutPage(data[s][i], <<f, i>>) ELSE {data[s][i]}
        /\ data' = [data EXCEPT ![s] = d]
  BY DEF CutBlocks
<1>2. data' \in [Slots -> [1..Blocks -> DataPages]] /\ data'[s] = d
  BY <1>1 DEF FlashType
<1>3. Others(s)
  BY <1>1 DEF Others, FlashType
<1>4. ASSUME NEW i \in 1..Blocks, i > b PROVE data'[s][i] = data[s][i]
  <2>1. i \notin a + 1 .. b
    BY <1>4
  <2>. QED
    BY <1>1, <1>2, <2>1
<1>5. QED
  BY <1>2, <1>3, <1>4 DEF FlashType

(* A raw erase or test pattern inside a slot.                              *)
LEMMA RawDoes ==
  ASSUME FlashType, NEW s \in Slots, RawEffect(s)
  PROVE  FlashType' /\ Fades(s)
<1>1. torn' \in [Slots -> BOOLEAN] /\ torn'[s] /\ \A r \in Slots : r # s => torn'[r] = torn[r]
  BY DEF RawEffect, FlashType
<1>2. CASE CutHeader(s) /\ UNCHANGED data
  BY <1>1, <1>2, CutHeaderDoes DEF FlashType, Fades, Others
<1>3. CASE /\ \E i \in 1..Blocks, p \in {Erased, Garbage} :
                data' = [data EXCEPT ![s] = [data[s] EXCEPT ![i] = p]]
           /\ UNCHANGED <<magic, body>>
  <2>1. PICK i \in 1..Blocks, p \in {Erased, Garbage} :
          data' = [data EXCEPT ![s] = [data[s] EXCEPT ![i] = p]]
    BY <1>3
  <2>2. [data[s] EXCEPT ![i] = p] \in [1..Blocks -> DataPages]
    BY Pages DEF FlashType
  <2>3. data' \in [Slots -> [1..Blocks -> DataPages]]
        /\ \A r \in Slots : r # s => data'[r] = data[r]
    BY <2>1, <2>2 DEF FlashType
  <2>. QED
    BY <1>1, <1>3, <2>3 DEF FlashType, Fades, Others, Valid, Decodes
<1>4. QED
  BY <1>2, <1>3 DEF RawEffect

----------------------------------------------------------------------------
(* An idle task claims nothing.                                            *)
LEMMA IdleWorks == ASSUME NEW t \in Tasks, at[t] = "idle" PROVE Work(t)
BY DEF Work, JobOK, ErasingOK, FillingOK, AloneOK, FetchOK, Writing, Filling, Sized, Owning

LEMMA NoJobIsOne == NoJob \in Jobs
BY StoreAssumption DEF NoJob, Jobs

(* The one exit: every task is idle after it.                              *)
LEMMA LeavingDoes ==
  ASSUME Inv, NEW t \in Tasks, at[t] # "idle", Leave(t)
  PROVE  TaskType' /\ Holder' /\ ConsoleOK' /\ \A u \in Tasks : Work(u)'
<1>1. at' = [at EXCEPT ![t] = "idle"] /\ job' = [job EXCEPT ![t] = NoJob]
  BY DEF Leave, Move
<1>2. \A u \in Tasks : at'[u] = "idle"
  BY <1>1 DEF Inv, Holder, TypesSplit, TypeOK
<1>3. console[t] = IF Claimed(t) THEN 1 ELSE 0
  BY DEF Inv, ConsoleOK
<1>4. console' = [console EXCEPT ![t] = 0]
  BY <1>3, TypesSplit DEF Leave, Inv, TaskType
<1>5. TaskType'
  <2>1. at' \in [Tasks -> Places] /\ job' \in [Tasks -> Jobs]
    BY <1>1, NoJobIsOne, TypesSplit DEF Inv, TaskType, Places
  <2>2. console' \in [Tasks -> 0..1]
    BY <1>4, TypesSplit DEF Inv, TaskType
  <2>3. busy' \in BOOLEAN /\ bad' \in BOOLEAN
    BY DEF Leave
  <2>. QED
    BY <2>1, <2>2, <2>3 DEF TaskType
<1>6. \A u \in Tasks : u # t => console[u] = 0
  BY DEF Inv, Holder, ConsoleOK, Claimed
<1>7. ConsoleOK'
  BY <1>2, <1>4, <1>6, TypesSplit DEF ConsoleOK, Claimed, Inv, TaskType
<1>8. Holder'
  BY <1>2 DEF Holder
<1>9. \A u \in Tasks : Work(u)'
  BY <1>2 DEF Work, JobOK, ErasingOK, FillingOK, AloneOK, FetchOK, Writing, Filling,
     Sized, Owning
<1>10. QED
  BY <1>5, <1>7, <1>8, <1>9

(* A step of the command that has the flag, or takes it: the others idle.  *)
LEMMA MovingDoes ==
  ASSUME Inv, NEW t \in Tasks, NEW place \in Reserved, NEW j \in Jobs, Move(t, place, j),
         (at[t] # "idle" /\ UNCHANGED busy) \/ Acquire
  PROVE  /\ at' \in [Tasks -> Places] /\ job' \in [Tasks -> Jobs] /\ busy' \in BOOLEAN
         /\ at'[t] = place /\ job'[t] = j
         /\ \A u \in Tasks : u # t => at[u] = "idle" /\ at'[u] = "idle" /\ Work(u)'
         /\ Holder'
<1>1. at' = [at EXCEPT ![t] = place] /\ job' = [job EXCEPT ![t] = j]
  BY DEF Move
<1>2. at' \in [Tasks -> Places] /\ job' \in [Tasks -> Jobs] /\ busy'
      /\ at'[t] = place /\ job'[t] = j
  BY <1>1, TypesSplit DEF Inv, TaskType, Reserved, Acquire, Holder
<1>3. \A u \in Tasks : u # t => at[u] = "idle" /\ at'[u] = "idle"
  BY <1>1, TypesSplit DEF Inv, TaskType, Holder, Acquire
<1>4. \A u \in Tasks : u # t => Work(u)'
  BY <1>3 DEF Work, JobOK, ErasingOK, FillingOK, AloneOK, FetchOK, Writing, Filling,
     Sized, Owning
<1>5. Holder'
  BY <1>2, <1>3 DEF Holder
<1>6. QED
  BY <1>2, <1>3, <1>4, <1>5 DEF Holder

(* The console's lock, when the step neither claims nor gives it back ...  *)
LEMMA ConsoleStaysRight ==
  ASSUME Inv, NEW t \in Tasks, UNCHANGED console, Claimed(t)' <=> Claimed(t),
         \A u \in Tasks : u # t => at[u] = "idle" /\ at'[u] = "idle"
  PROVE  ConsoleOK' /\ console' \in [Tasks -> 0..1]
BY TypesSplit DEF ConsoleOK, Claimed, Inv, TaskType

(* ... and when it does.                                                   *)
LEMMA ConsoleMovesRight ==
  ASSUME Inv, NEW t \in Tasks,
         console' = [console EXCEPT ![t] = IF Claimed(t)' THEN 1 ELSE 0],
         \A u \in Tasks : u # t => at[u] = "idle" /\ at'[u] = "idle"
  PROVE  ConsoleOK' /\ console' \in [Tasks -> 0..1]
<1>1. \A u \in Tasks : console'[u] = IF u = t THEN IF Claimed(t)' THEN 1 ELSE 0 ELSE console[u]
  BY TypesSplit DEF Inv, TaskType
<1>2. console' \in [Tasks -> 0..1]
  BY TypesSplit DEF Inv, TaskType
<1>3. QED
  BY <1>1, <1>2 DEF ConsoleOK, Claimed, Inv

(* Putting a step together.                                                *)
LEMMA Together ==
  ASSUME FlashType', TaskType', Holder', ConsoleOK', FlashOK', \A u \in Tasks : Work(u)'
  PROVE  Inv'
BY TypesSplit DEF Inv, TypeOK, FlashType, TaskType

(* A step that ends the command and at most fades its slot.                *)
LEMMA LeavingKeeps ==
  ASSUME Inv, NEW t \in Tasks, at[t] # "idle", Leave(t), FlashType', FlashOK'
  PROVE  Inv'
BY LeavingDoes, Together

(* One that ends it and touches nothing.                                   *)
LEMMA LeavingUntouched ==
  ASSUME Inv, NEW t \in Tasks, at[t] # "idle", Leave(t), UNCHANGED <<flash, torn>>
  PROVE  Inv'
<1>1. FlashType' /\ FlashOK'
  BY TypesSplit DEF Inv, flash, FlashType, FlashOK, ValidMeansWhole, Named, Valid, Decodes,
     NameIn, FileIn, Holds
<1>2. QED
  BY <1>1, LeavingKeeps
----------------------------------------------------------------------------
(* The commands, step by step.  First those that take the flag.            *)
LEMMA WriteKeeps ==
  ASSUME Inv, NEW t \in Tasks, NEW n \in Names, NEW want \in Slots \cup {Unnamed},
         NEW bg \in BOOLEAN, Write(t, n, want, bg)
  PROVE  Inv'
<1> DEFINE j == [NoJob EXCEPT !.name = n, !.want = want, !.bg = bg]
<1>1. j \in Jobs /\ j.name = n /\ j.bg = bg /\ j.got = 0 /\ j.put = 0 /\ j.unit = 0
  BY NoJobIsOne DEF NoJob, Jobs
<1>2. Move(t, "choose", j) /\ Acquire /\ UNCHANGED console
  BY DEF Write, Goto
<1>3. /\ at' \in [Tasks -> Places] /\ job' \in [Tasks -> Jobs] /\ busy' \in BOOLEAN
      /\ at'[t] = "choose" /\ job'[t] = j
      /\ \A u \in Tasks : u # t => at[u] = "idle" /\ at'[u] = "idle" /\ Work(u)'
      /\ Holder'
  <2>. HIDE DEF j
  <2>. QED
    BY <1>1, <1>2, MovingDoes DEF Reserved, Places
<1>4. FlashType' /\ FlashOK' /\ bad' = bad
  BY TypesSplit DEF Write, Inv, flash, FlashType, FlashOK, ValidMeansWhole, Named, Valid,
     Decodes, NameIn, FileIn, Holds
<1>5. ConsoleOK' /\ console' \in [Tasks -> 0..1]
  BY <1>2, <1>3, ConsoleStaysRight DEF Claimed, Write
<1>6. Work(t)'
  BY <1>1, <1>3, StoreAssumption DEF Write, ConsoleReady, Work, JobOK, ErasingOK, FillingOK,
     AloneOK, FetchOK, Writing, Filling, Sized, Owning, LastUnit
<1>7. QED
  BY <1>3, <1>4, <1>5, <1>6, Together, TypesSplit DEF TaskType, Inv

(* `blob erase`, the raw command and the load start with nothing done yet. *)
LEMMA StartKeeps ==
  ASSUME Inv, NEW t \in Tasks, Start(t)
  PROVE  Inv'
<1>1. CASE \E n \in Names, want \in Slots \cup {Unnamed}, bg \in BOOLEAN : Write(t, n, want, bg)
  BY <1>1, WriteKeeps
<1>2. ASSUME NEW place \in {"eraseHeader", "raw", "find"}, NEW j \in Jobs,
             Goto(t, place, j), at[t] = "idle", Acquire,
             UNCHANGED <<flash, torn, bad>>,
             place \in {"eraseHeader", "raw"} => j.slot \in Slots,
             place = "find" => j.name \in Names
      PROVE  Inv'
  <2>1. /\ at' \in [Tasks -> Places] /\ job' \in [Tasks -> Jobs] /\ busy' \in BOOLEAN
        /\ at'[t] = place /\ job'[t] = j
        /\ \A u \in Tasks : u # t => at[u] = "idle" /\ at'[u] = "idle" /\ Work(u)'
        /\ Holder'
    BY <1>2, MovingDoes DEF Goto, Reserved, Places
  <2>2. FlashType' /\ FlashOK'
    BY <1>2, TypesSplit DEF Inv, flash, FlashType, FlashOK, ValidMeansWhole, Named, Valid,
       Decodes, NameIn, FileIn, Holds
  <2>3. ConsoleOK' /\ console' \in [Tasks -> 0..1]
    BY <1>2, <2>1, ConsoleStaysRight DEF Claimed, Goto
  <2>4. Work(t)'
    BY <1>2, <2>1 DEF Work, JobOK, ErasingOK, FillingOK, AloneOK, FetchOK, Writing,
       Filling, Sized, Owning
  <2>. QED
    BY <1>2, <2>1, <2>2, <2>3, <2>4, Together, TypesSplit DEF TaskType, Inv
<1>3. ASSUME NEW s \in Slots, BlobErase(t, s) \/ Raw(t, s) PROVE Inv'
  <2>1. [NoJob EXCEPT !.slot = s] \in Jobs /\ [NoJob EXCEPT !.slot = s].slot = s
    BY NoJobIsOne DEF NoJob, Jobs
  <2>2. CASE BlobErase(t, s)
    BY <1>2, <2>1, <2>2 DEF BlobErase
  <2>3. CASE Raw(t, s)
    BY <1>2, <2>1, <2>3 DEF Raw
  <2>. QED
    BY <1>3, <2>2, <2>3
<1>4. ASSUME NEW n \in Names, Prepare(t, n) PROVE Inv'
  <2>1. [NoJob EXCEPT !.name = n] \in Jobs /\ [NoJob EXCEPT !.name = n].name = n
    BY NoJobIsOne DEF NoJob, Jobs
  <2>. QED
    BY <1>2, <1>4, <2>1 DEF Prepare
<1>5. QED
  BY <1>1, <1>3, <1>4 DEF Start

(* The slot a write may take is the only one of its name.                  *)
LEMMA TargetsAre ==
  ASSUME NEW n \in Names, NEW want, NEW s \in Targets(n, want), FlashType
  PROVE  /\ s \in Slots
         /\ Valid(s) => NameIn(s) = n
         /\ \A r \in Slots : Valid(r) /\ NameIn(r) = n => r = s
<1>1. s \in Slots /\ (Matches(n) = {s} \/ (Matches(n) = {} /\ (Empty(s) \/ Incomplete(s))))
  BY DEF Targets
<1>2. Empty(s) \/ Incomplete(s) => ~Valid(s)
  BY Pages DEF Empty, Incomplete, Valid
<1>3. \A r \in Slots : Valid(r) /\ NameIn(r) = n <=> r \in Matches(n)
  BY DEF Matches
<1>4. QED
  BY <1>1, <1>2, <1>3

LEMMA ChooseKeeps ==
  ASSUME Inv, NEW t \in Tasks, Choose(t)
  PROVE  Inv'
<1>1. CASE Leave(t) /\ UNCHANGED <<flash, torn>>
  BY <1>1, LeavingUntouched DEF Choose
<1>2. ASSUME NEW s \in Targets(job[t].name, job[t].want),
             Goto(t, "erase", [job[t] EXCEPT !.slot = s, !.want = Unnamed]),
             UNCHANGED <<flash, busy, torn, bad>>
      PROVE  Inv'
  <2> DEFINE j == [job[t] EXCEPT !.slot = s, !.want = Unnamed]
  <2>1. /\ job[t] \in Jobs /\ at[t] = "choose" /\ FlashType
        /\ job[t].name \in Names /\ ~job[t].bg /\ job[t].got = 0 /\ job[t].put = 0
        /\ job[t].unit = 0
    BY TypesSplit DEF Choose, Inv, TaskType, Work, JobOK
  <2>2. /\ s \in Slots
        /\ Valid(s) => NameIn(s) = job[t].name
        /\ \A r \in Slots : Valid(r) /\ NameIn(r) = job[t].name => r = s
    BY <2>1, TargetsAre
  <2>3. /\ j \in Jobs /\ j.slot = s /\ j.name = job[t].name /\ j.bg = job[t].bg
        /\ j.got = 0 /\ j.put = 0 /\ j.unit = 0
    BY <2>1, <2>2 DEF Jobs
  <2>4. /\ at' \in [Tasks -> Places] /\ job' \in [Tasks -> Jobs] /\ busy' \in BOOLEAN
        /\ at'[t] = "erase" /\ job'[t] = j
        /\ \A u \in Tasks : u # t => at[u] = "idle" /\ at'[u] = "idle" /\ Work(u)'
        /\ Holder'
    <3>. HIDE DEF j
    <3>. QED
      BY <1>2, <2>1, <2>3, MovingDoes DEF Goto, Reserved, Places, j
  <2>5. FlashType' /\ FlashOK' /\ \A r \in Slots : NameIn(r)' = NameIn(r) /\ Valid(r)' = Valid(r)
    BY <1>2, TypesSplit DEF Inv, flash, FlashType, FlashOK, ValidMeansWhole, Named, Valid,
       Decodes, NameIn, FileIn, Holds
  <2>6. ConsoleOK' /\ console' \in [Tasks -> 0..1]
    BY <1>2, <2>1, <2>4, ConsoleStaysRight DEF Claimed, Goto
  <2>7. Work(t)'
    <3>. HIDE DEF j
    <3>1. JobOK(t)'
      BY <2>1, <2>2, <2>3, <2>4, StoreAssumption DEF JobOK, Writing, Filling, Sized, Owning,
         LastUnit
    <3>2. ErasingOK(t)' /\ AloneOK(t)'
      BY <2>2, <2>3, <2>4, <2>5 DEF ErasingOK, AloneOK, Writing, Filling
    <3>. QED
      BY <2>4, <3>1, <3>2 DEF Work, FillingOK, FetchOK, Filling
  <2>. QED
    BY <1>2, <2>4, <2>5, <2>6, <2>7, Together, TypesSplit DEF TaskType, Inv
<1>3. QED
  BY <1>1, <1>2 DEF Choose

(* A step that goes on: what is left to show of it.                        *)
LEMMA GoingOn ==
  ASSUME Inv, NEW t \in Tasks, NEW place \in Reserved, NEW j \in Jobs, Move(t, place, j),
         at[t] # "idle", UNCHANGED busy
  PROVE  /\ at'[t] = place /\ job'[t] = j
         /\ \A u \in Tasks : u # t => at[u] = "idle" /\ at'[u] = "idle"
         /\ /\ FlashType' /\ FlashOK' /\ Work(t)' /\ bad' \in BOOLEAN
            /\ \/ UNCHANGED console /\ (Claimed(t)' <=> Claimed(t))
               \/ console' = [console EXCEPT ![t] = IF Claimed(t)' THEN 1 ELSE 0]
            => Inv'
<1>1. /\ at' \in [Tasks -> Places] /\ job' \in [Tasks -> Jobs] /\ busy' \in BOOLEAN
      /\ at'[t] = place /\ job'[t] = j
      /\ \A u \in Tasks : u # t => at[u] = "idle" /\ at'[u] = "idle" /\ Work(u)'
      /\ Holder'
  BY MovingDoes
<1>2. ASSUME FlashType', FlashOK', Work(t)', bad' \in BOOLEAN,
             \/ UNCHANGED console /\ (Claimed(t)' <=> Claimed(t))
             \/ console' = [console EXCEPT ![t] = IF Claimed(t)' THEN 1 ELSE 0]
      PROVE  Inv'
  <2>1. ConsoleOK' /\ console' \in [Tasks -> 0..1]
    BY <1>1, <1>2, ConsoleStaysRight, ConsoleMovesRight
  <2>. QED
    BY <1>1, <1>2, <2>1, Together DEF TaskType
<1>3. QED
  BY <1>1, <1>2

(* What is known of the command that has the flag.                         *)
LEMMA AtWork ==
  ASSUME Inv, NEW t \in Tasks
  PROVE  /\ FlashType /\ FlashOK /\ job[t] \in Jobs /\ at[t] \in Places /\ bad \in BOOLEAN
         /\ JobOK(t) /\ ErasingOK(t) /\ FillingOK(t) /\ AloneOK(t) /\ FetchOK(t)
         /\ console[t] = IF Claimed(t) THEN 1 ELSE 0
BY TypesSplit DEF Inv, TaskType, Work, ConsoleOK

LEMMA SameFlash ==
  ASSUME FlashType, FlashOK, UNCHANGED <<flash, torn>>
  PROVE  /\ FlashType' /\ FlashOK'
         /\ \A r \in Slots : /\ Valid(r)' <=> Valid(r)
                             /\ NameIn(r)' = NameIn(r) /\ FileIn(r)' = FileIn(r)
BY DEF flash, FlashType, FlashOK, ValidMeansWhole, Named, Valid, Decodes, NameIn, FileIn, Holds

(* The units of a slot.                                                    *)
LEMMA Units ==
  /\ LastUnit \in 0..Blocks /\ HeadBlocks + LastUnit = Blocks
  /\ \A i \in 1..Blocks, u \in 0..LastUnit :
       i <= HeadBlocks + u => i \in InUnit(u) \/ (u # 0 /\ i <= HeadBlocks + u - 1)
BY StoreAssumption DEF LastUnit, InUnit

(* The erase of one more unit; whatever cuts it short is in the records.   *)
LEMMA EraseUnitKeeps ==
  ASSUME Inv, NEW t \in Tasks, EraseUnit(t)
  PROVE  Inv'
<1>0. PICK s \in Slots, u \in 0..LastUnit : s = job[t].slot /\ u = job[t].unit
  BY AtWork DEF EraseUnit, JobOK, Owning, Writing
<1>1. /\ at[t] = "erase" /\ job[t] \in Jobs /\ FlashType /\ FlashOK
      /\ s = job[t].slot /\ u = job[t].unit
  BY <1>0, AtWork DEF EraseUnit
<1>2. CASE Leave(t) /\ UNCHANGED <<flash, torn>>
  BY <1>1, <1>2, LeavingUntouched
<1>3. CASE CutUnit(s, u) /\ torn' = [torn EXCEPT ![s] = TRUE] /\ Leave(t)
  BY <1>1, <1>3, CutUnitDoes, FadingIsSafe, LeavingKeeps
<1>4. ASSUME ErasedUnit(s, u), torn' = IF u = 0 THEN [torn EXCEPT ![s] = FALSE] ELSE torn,
             IF u = LastUnit
               THEN Goto(t, "claim", [job[t] EXCEPT !.unit = 0])
               ELSE Goto(t, "erase", [job[t] EXCEPT !.unit = u + 1]),
             UNCHANGED <<busy, bad>>
      PROVE  Inv'
  <2>1. /\ FlashType' /\ Others(s)
        /\ u = 0 => magic'[s] = Erased /\ body'[s] = Erased /\ ~torn'[s]
        /\ u # 0 => magic'[s] = magic[s] /\ body'[s] = body[s] /\ torn'[s] = torn[s]
        /\ \A i \in 1..Blocks : data'[s][i] = IF i \in InUnit(u) THEN Erased ELSE data[s][i]
    BY <1>1, <1>4, ErasedUnitDoes
  <2>2. u # 0 => /\ magic[s] = Erased /\ body[s] = Erased /\ ~torn[s]
                 /\ BlankUpTo(s, HeadBlocks + u - 1)
    BY <1>1, AtWork DEF ErasingOK
  <2>3. magic'[s] = Erased /\ body'[s] = Erased /\ ~torn'[s] /\ ~Valid(s)'
    BY <2>1, <2>2, Pages DEF Valid
  <2>4. \A i \in 1..Blocks : i <= HeadBlocks + u => data'[s][i] = Erased
    BY <1>1, <2>1, <2>2, Units DEF BlankUpTo
  <2>5. FlashOK'
    BY <1>1, <2>1, <2>3, FadingIsSafe DEF Fades
  <2>6. \A r \in Slots : Valid(r)' => Valid(r) /\ NameIn(r)' = NameIn(r)
    BY <2>1, <2>3 DEF Others, Valid, Decodes, NameIn
  <2>7. JobOK(t) /\ AloneOK(t) /\ bad \in BOOLEAN
    BY AtWork
  <2>8. CASE u = LastUnit
    <3> DEFINE j == [job[t] EXCEPT !.unit = 0]
    <3>1. j \in Jobs /\ j = [job[t] EXCEPT !.unit = 0] /\ "claim" \in Reserved
      BY <1>1, StoreAssumption DEF Jobs, Reserved, Places
    <3>2. /\ j.slot = s /\ j.name = job[t].name /\ j.bg = job[t].bg
          /\ j.got = job[t].got /\ j.put = job[t].put
      BY <1>1 DEF Jobs
    <3> HIDE DEF j
    <3>3. at'[t] = "claim" /\ job'[t] = j
      BY <1>1, <1>4, <2>8, <3>1, GoingOn DEF Goto
    <3>4. BlankFrom(s, 1)'
      BY <2>4, <2>8, Units, StoreAssumption DEF BlankFrom
    <3>5. JobOK(t)' /\ ErasingOK(t)' /\ FetchOK(t)'
      BY <1>1, <2>7, <3>2, <3>3 DEF JobOK, ErasingOK, FetchOK, Owning, Writing, Filling, Sized
    <3>6. FillingOK(t)'
      BY <2>3, <3>2, <3>3, <3>4 DEF FillingOK, Filling, BlankFrom
    <3>7. AloneOK(t)'
      BY <1>1, <2>6, <2>7, <3>2, <3>3 DEF AloneOK, Writing, Filling
    <3>. QED
      BY <1>1, <1>4, <2>1, <2>5, <2>7, <2>8, <3>1, <3>3, <3>5, <3>6, <3>7, GoingOn
         DEF Goto, Work, Claimed
  <2>9. CASE u # LastUnit
    <3> DEFINE j == [job[t] EXCEPT !.unit = u + 1]
    <3>1. u + 1 \in 0..LastUnit /\ u + 1 \in 0..Blocks
      BY <1>1, <2>9, Units, StoreAssumption
    <3>2. j \in Jobs /\ j = [job[t] EXCEPT !.unit = u + 1] /\ "erase" \in Reserved
      BY <1>1, <3>1 DEF Jobs, Reserved, Places
    <3>3. /\ j.slot = s /\ j.name = job[t].name /\ j.bg = job[t].bg /\ j.unit = u + 1
          /\ j.got = job[t].got /\ j.put = job[t].put
      BY <1>1 DEF Jobs
    <3> HIDE DEF j
    <3>4. at'[t] = "erase" /\ job'[t] = j
      BY <1>1, <1>4, <2>9, <3>2, GoingOn DEF Goto
    <3>5. JobOK(t)'
      BY <1>1, <2>7, <3>1, <3>3, <3>4 DEF JobOK, Owning, Writing, Filling, Sized
    <3>6. ErasingOK(t)'
      BY <1>1, <2>3, <2>4, <3>1, <3>3, <3>4, StoreAssumption DEF ErasingOK, BlankUpTo
    <3>7. AloneOK(t)'
      BY <1>1, <2>6, <2>7, <3>3, <3>4 DEF AloneOK, Writing, Filling
    <3>8. FillingOK(t)' /\ FetchOK(t)'
      BY <3>4 DEF FillingOK, FetchOK, Filling
    <3>. QED
      BY <1>1, <1>4, <2>1, <2>5, <2>7, <2>9, <3>2, <3>4, <3>5, <3>6, <3>7, <3>8, GoingOn
         DEF Goto, Work, Claimed
  <2>. QED
    BY <2>8, <2>9
<1>5. QED
  BY <1>0, <1>2, <1>3, <1>4 DEF EraseUnit

(* The claim of the console and the first of the stream change no flash.   *)
LEMMA ClaimKeeps ==
  ASSUME Inv, NEW t \in Tasks, ClaimConsole(t)
  PROVE  Inv'
<1>1. CASE Leave(t)
  BY <1>1, LeavingUntouched DEF ClaimConsole
<1>2. ASSUME console' = [console EXCEPT ![t] = @ + 1], Move(t, "offer", job[t]),
             UNCHANGED <<busy, bad>>
      PROVE  Inv'
  <2>1. at[t] = "claim" /\ UNCHANGED <<flash, torn>> /\ "offer" \in Reserved
    BY DEF ClaimConsole, Reserved, Places
  <2>2. /\ FlashType' /\ FlashOK'
        /\ \A r \in Slots : (Valid(r)' <=> Valid(r)) /\ NameIn(r)' = NameIn(r)
    BY <2>1, AtWork, SameFlash
  <2>3. at'[t] = "offer" /\ job'[t] = job[t]
    BY <1>2, <2>1, AtWork, GoingOn
  <2>4. Work(t)'
    BY <1>2, <2>1, <2>2, <2>3, AtWork DEF Work, JobOK, ErasingOK, FillingOK, AloneOK, FetchOK,
       Owning, Writing, Filling, Sized, flash, BlankFrom
  <2>5. console[t] = 0
    BY <2>1, AtWork DEF Claimed
  <2>6. console' = [console EXCEPT ![t] = IF Claimed(t)' THEN 1 ELSE 0]
    BY <1>2, <2>3, <2>5 DEF Claimed
  <2>. QED
    BY <1>2, <2>1, <2>2, <2>4, <2>6, AtWork, GoingOn
<1>3. QED
  BY <1>1, <1>2 DEF ClaimConsole

LEMMA OfferKeeps ==
  ASSUME Inv, NEW t \in Tasks, Offer(t)
  PROVE  Inv'
<1>1. CASE Leave(t)
  BY <1>1, LeavingUntouched DEF Offer
<1>2. ASSUME NEW f \in Files, Goto(t, "receive", [job[t] EXCEPT !.file = f]),
             UNCHANGED <<busy, bad>>
      PROVE  Inv'
  <2> DEFINE j == [job[t] EXCEPT !.file = f]
  <2>1. at[t] = "offer" /\ UNCHANGED <<flash, torn>> /\ job[t] \in Jobs
    BY AtWork DEF Offer
  <2>2. /\ j \in Jobs /\ j.slot = job[t].slot /\ j.name = job[t].name /\ j.bg = job[t].bg
        /\ j.got = job[t].got /\ j.put = job[t].put /\ j.file = f
    BY <2>1 DEF Jobs
  <2>3. j = [job[t] EXCEPT !.file = f] /\ "receive" \in Reserved
    BY DEF Reserved, Places
  <2> HIDE DEF j
  <2>4. /\ FlashType' /\ FlashOK'
        /\ \A r \in Slots : (Valid(r)' <=> Valid(r)) /\ NameIn(r)' = NameIn(r)
    BY <2>1, AtWork, SameFlash
  <2>5. at'[t] = "receive" /\ job'[t] = j
    BY <1>2, <2>1, <2>2, <2>3, GoingOn DEF Goto
  <2>6. JobOK(t)'
    BY <2>1, <2>2, <2>5, AtWork, StoreAssumption DEF JobOK, Owning, Writing, Filling, Sized
  <2>7. FillingOK(t)'
    BY <2>1, <2>2, <2>5, AtWork DEF JobOK, FillingOK, Writing, Filling, flash, BlankFrom,
       HoldsUpTo
  <2>8. AloneOK(t)' /\ ErasingOK(t)' /\ FetchOK(t)'
    BY <2>1, <2>2, <2>4, <2>5, AtWork DEF AloneOK, ErasingOK, FetchOK, Writing, Filling
  <2>. QED
    BY <1>2, <2>1, <2>2, <2>3, <2>4, <2>5, <2>6, <2>7, <2>8, AtWork, GoingOn
       DEF Goto, Work, Claimed
<1>3. QED
  BY <1>1, <1>2 DEF Offer

(* The staged blocks go down behind the ones that are there.               *)
LEMMA FlushKeeps ==
  ASSUME Inv, NEW t \in Tasks, at[t] = "receive", UNCHANGED <<magic, body, torn>>,
         NEW place \in {"receive", "body"}, NEW j \in Jobs,
         j.slot = job[t].slot, j.file = job[t].file, j.name = job[t].name,
         j.bg = job[t].bg, j.put = job[t].put,
         job[t].got <= j.got, j.got <= Length[j.file],
         place = "body" => j.got = Length[j.file],
         Flushed(t, place, j)
  PROVE  Inv'
<1>1. PICK s \in Slots, f \in Files, a \in Nat, b \in Nat :
        /\ s = j.slot /\ f = j.file /\ a = j.put /\ b = j.got
        /\ a <= b /\ b <= Length[f] /\ Length[f] \in 1..Blocks /\ b \in 0..Blocks
  BY AtWork, StoreAssumption DEF JobOK, Owning, Writing, Filling, Sized, Jobs
<1>2. /\ FlashType /\ FlashOK /\ magic[s] = Erased /\ body[s] = Erased /\ ~torn[s]
      /\ BlankFrom(s, a + 1)
      /\ ~bad => HoldsUpTo(s, f, a)
      /\ s = job[t].slot /\ f = job[t].file
  BY <1>1, AtWork DEF FillingOK, Filling
<1>3. ASSUME FlashType', Others(s) PROVE FlashOK'
  <2>1. magic'[s] = Erased
    BY <1>2
  <2>2. Fades(s)
    BY <1>3, <1>2, <2>1, Pages DEF Fades, Valid
  <2>. QED
    BY <1>2, <2>2, FadingIsSafe
<1>4. CASE CutBlocks(s, f, a + 1, b) /\ Leave(t)
  BY <1>1, <1>2, <1>3, <1>4, CutBlocksDoes, LeavingKeeps
<1>5. ASSUME Move(t, place, [j EXCEPT !.put = b]), UNCHANGED busy,
             console' = [console EXCEPT ![t] = IF place = "receive" THEN @ ELSE @ - 1],
             FlashType', Others(s), BlankFrom(s, b + 1)', ~bad' => HoldsUpTo(s, f, b)',
             bad' \in BOOLEAN
      PROVE  Inv'
  <2> DEFINE k == [j EXCEPT !.put = b]
  <2>1. k = [j EXCEPT !.put = b] /\ k \in Jobs /\ place \in Reserved
    BY <1>1 DEF Jobs, Reserved, Places
  <2>2. /\ k.slot = s /\ k.file = f /\ k.name = job[t].name /\ k.bg = job[t].bg
        /\ k.got = b /\ k.put = b
    BY <1>1 DEF Jobs
  <2> HIDE DEF k
  <2>3. at'[t] = place /\ job'[t] = k
    BY <1>5, <2>1, GoingOn
  <2>4. console[t] = 1 /\ console \in [Tasks -> 0..1]
    BY AtWork, TypesSplit DEF Claimed, Inv, TaskType
  <2>5. console' = [console EXCEPT ![t] = IF Claimed(t)' THEN 1 ELSE 0]
    <3>1. Claimed(t)' <=> place = "receive"
      BY <2>3 DEF Claimed
    <3>2. (IF place = "receive" THEN console[t] ELSE console[t] - 1)
            = (IF place = "receive" THEN 1 ELSE 0)
      BY <2>4
    <3>. QED
      BY <1>5, <3>1, <3>2
  <2>6. JobOK(t)'
    BY <1>1, <2>2, <2>3, AtWork, StoreAssumption DEF JobOK, Owning, Writing, Filling, Sized
  <2>7. magic'[s] = Erased /\ body'[s] = Erased /\ ~torn'[s]
    BY <1>2
  <2>8. place = "body" /\ ~bad' => Holds(s, f)'
    <3>1. \A i \in 1..Length[f] : i \in 1..Blocks /\ (place = "body" => i <= b)
      BY <1>1, StoreAssumption
    <3>. QED
      BY <1>5, <3>1 DEF Holds, HoldsUpTo
  <2>9. FillingOK(t)'
    BY <1>5, <2>2, <2>3, <2>7, <2>8 DEF FillingOK, Filling, BlankFrom, HoldsUpTo, Holds
  <2>10. AloneOK(t)'
    BY <1>2, <2>2, <2>3, AtWork DEF AloneOK, Writing, Filling, Valid, Decodes, NameIn
  <2>11. Work(t)'
    BY <2>3, <2>6, <2>9, <2>10 DEF Work, ErasingOK, FetchOK
  <2>. QED
    BY <1>3, <1>5, <2>1, <2>5, <2>11, GoingOn
<1>6. ASSUME data' = [data EXCEPT ![s] = Programmed(s, f, a + 1, b)], UNCHANGED bad
      PROVE  /\ FlashType' /\ Others(s) /\ BlankFrom(s, b + 1)'
             /\ ~bad' => HoldsUpTo(s, f, b)'
  <2>1. /\ FlashType' /\ Others(s)
        /\ \A i \in 1..Blocks : data'[s][i] = IF a < i /\ i <= b THEN <<f, i>> ELSE data[s][i]
    <3>1. /\ FlashType /\ s \in Slots /\ f \in Files /\ a \in Nat /\ b \in Nat
          /\ b <= Length[f] /\ BlankFrom(s, a + 1)
      BY <1>1, <1>2
    <3>2. /\ data' = [data EXCEPT ![s] = Programmed(s, f, a + 1, b)]
          /\ UNCHANGED <<magic, body, torn>>
      BY <1>6
    <3>. QED
      BY ONLY <3>1, <3>2, ProgrammedDoes
  <2>2. \A i \in 1..Blocks : /\ i >= b + 1 <=> ~(i <= b)
                             /\ i >= b + 1 => i >= a + 1
                             /\ i <= a <=> ~(a < i)
    BY <1>1, StoreAssumption
  <2>3. BlankFrom(s, b + 1)'
    BY <1>2, <2>1, <2>2 DEF BlankFrom
  <2>4. ~bad' => HoldsUpTo(s, f, b)'
    BY <1>2, <1>6, <2>1, <2>2 DEF HoldsUpTo
  <2>. QED
    BY <2>1, <2>3, <2>4
<1>7. ASSUME CutBlocks(s, f, a + 1, b)
      PROVE  FlashType' /\ Others(s) /\ BlankFrom(s, b + 1)'
  <2>1. FlashType' /\ Others(s) /\ \A i \in 1..Blocks : i > b => data'[s][i] = data[s][i]
    BY <1>1, <1>2, <1>7, CutBlocksDoes
  <2>2. BlankFrom(s, b + 1)'
    BY <1>1, <1>2, <2>1, StoreAssumption DEF BlankFrom
  <2>. QED
    BY <2>1, <2>2
<1>8. QED
  BY <1>1, <1>4, <1>5, <1>6, <1>7, AtWork DEF Flushed

(* One more block of the stream.                                           *)
LEMMA BlockKeeps ==
  ASSUME Inv, NEW t \in Tasks, Block(t)
  PROVE  Inv'
<1> DEFINE j == [job[t] EXCEPT !.got = job[t].got + 1]
<1>1. /\ at[t] = "receive" /\ job[t] \in Jobs /\ UNCHANGED <<magic, body, torn>>
      /\ job[t].slot \in Slots /\ job[t].file \in Files
      /\ job[t].put <= job[t].got /\ job[t].got < Length[job[t].file]
      /\ job[t].got + 1 \in 0..Blocks
  BY AtWork, StoreAssumption DEF Block, JobOK, Owning, Writing, Filling, Sized, Jobs
<1>2. /\ j \in Jobs /\ j.slot = job[t].slot /\ j.file = job[t].file
      /\ j.name = job[t].name /\ j.bg = job[t].bg /\ j.put = job[t].put
      /\ j.got = job[t].got + 1
  BY <1>1 DEF Jobs
<1>3. job[t].got \in 0..Blocks /\ Length[job[t].file] \in 1..Blocks
  BY <1>1, StoreAssumption DEF Jobs
<1>4. CASE Flushed(t, "receive", j)
  <2> HIDE DEF j
  <2>1. job[t].got <= j.got /\ j.got <= Length[j.file]
    BY <1>1, <1>2, <1>3
  <2>. QED
    BY <1>1, <1>2, <1>4, <2>1, FlushKeeps
<1>5. CASE Goto(t, "receive", j) /\ UNCHANGED <<data, busy, bad>>
  <2> HIDE DEF j
  <2>1. "receive" \in Reserved /\ UNCHANGED <<flash, torn>>
    BY <1>1, <1>5 DEF Reserved, Places, flash
  <2>2. /\ FlashType' /\ FlashOK'
        /\ \A r \in Slots : (Valid(r)' <=> Valid(r)) /\ NameIn(r)' = NameIn(r)
    BY <2>1, AtWork, SameFlash
  <2>3. at'[t] = "receive" /\ job'[t] = j
    BY <1>1, <1>2, <1>5, <2>1, GoingOn DEF Goto
  <2>4. JobOK(t)'
    <3>1. j.put <= j.got /\ j.got <= Length[j.file]
      BY <1>1, <1>2, <1>3 DEF Jobs
    <3>2. job[t].name \in Names /\ ~job[t].bg
      BY <1>1, AtWork DEF JobOK, Writing, Filling
    <3>. QED
      BY <1>1, <1>2, <2>3, <3>1, <3>2 DEF JobOK, Owning, Writing, Filling, Sized
  <2>5. FillingOK(t)'
    BY <1>1, <1>2, <1>5, <2>1, <2>3, AtWork DEF FillingOK, Filling, flash, BlankFrom,
       HoldsUpTo
  <2>6. AloneOK(t)'
    BY <1>1, <1>2, <2>2, <2>3, AtWork DEF AloneOK, Writing, Filling
  <2>. QED
    BY <1>1, <1>2, <1>5, <2>1, <2>2, <2>3, <2>4, <2>5, <2>6, AtWork, GoingOn
       DEF Goto, Work, Claimed, ErasingOK, FetchOK
<1>6. QED
  BY <1>4, <1>5 DEF Block

(* The stream ends well.                                                   *)
LEMMA EndKeeps ==
  ASSUME Inv, NEW t \in Tasks, TransferEnds(t)
  PROVE  Inv'
<1>1. /\ at[t] = "receive" /\ job[t] \in Jobs /\ UNCHANGED <<magic, body, torn>>
      /\ job[t].slot \in Slots /\ job[t].file \in Files
      /\ job[t].put <= job[t].got /\ job[t].got = Length[job[t].file]
      /\ job[t].got \in 0..Blocks /\ job[t].put \in 0..Blocks
  BY AtWork DEF TransferEnds, AllArrived, JobOK, Owning, Writing, Filling, Sized, Jobs
<1>2. CASE Flushed(t, "body", job[t])
  BY <1>1, <1>2, FlushKeeps
<1>3. CASE ~(job[t].put < job[t].got)
  <2>1. /\ console' = [console EXCEPT ![t] = @ - 1] /\ Move(t, "body", job[t])
        /\ UNCHANGED <<data, busy, bad>> /\ UNCHANGED <<flash, torn>>
        /\ "body" \in Reserved
    BY <1>1, <1>3 DEF TransferEnds, flash, Reserved, Places
  <2>2. /\ FlashType' /\ FlashOK'
        /\ \A r \in Slots : (Valid(r)' <=> Valid(r)) /\ NameIn(r)' = NameIn(r)
    BY <2>1, AtWork, SameFlash
  <2>3. at'[t] = "body" /\ job'[t] = job[t]
    BY <1>1, <2>1, GoingOn
  <2>4. console' = [console EXCEPT ![t] = IF Claimed(t)' THEN 1 ELSE 0]
    <3>1. console[t] = 1 /\ ~Claimed(t)'
      BY <1>1, <2>3, AtWork DEF Claimed
    <3>2. console[t] - 1 = 0
      BY <3>1
    <3>. QED
      BY <2>1, <3>1, <3>2
  <2>5. JobOK(t)' /\ AloneOK(t)'
    BY <1>1, <2>2, <2>3, AtWork DEF JobOK, AloneOK, Owning, Writing, Filling, Sized
  <2>6. ~bad => Holds(job[t].slot, job[t].file)
    <3>1. job[t].put = Length[job[t].file] /\ Length[job[t].file] \in 1..Blocks
      BY <1>1, <1>3, StoreAssumption
    <3>2. \A i \in 1..Length[job[t].file] : i \in 1..Blocks /\ i <= job[t].put
      BY <3>1, StoreAssumption
    <3>3. ~bad => HoldsUpTo(job[t].slot, job[t].file, job[t].put)
      BY <1>1, AtWork DEF FillingOK
    <3>. QED
      BY <3>2, <3>3 DEF Holds, HoldsUpTo
  <2>7. FillingOK(t)'
    BY <1>1, <2>1, <2>3, <2>6, AtWork DEF FillingOK, Filling, flash, Holds
  <2>. QED
    BY <1>1, <2>1, <2>2, <2>3, <2>4, <2>5, <2>7, AtWork, GoingOn DEF Work, ErasingOK, FetchOK
<1>4. QED
  BY <1>2, <1>3 DEF TransferEnds

(* The body page, over erased flash.                                       *)
LEMMA BodyKeeps ==
  ASSUME Inv, NEW t \in Tasks, WriteBody(t)
  PROVE  Inv'
<1>1. PICK s \in Slots, f \in Files, n \in Names :
        s = job[t].slot /\ f = job[t].file /\ n = job[t].name
  BY AtWork DEF WriteBody, JobOK, Owning, Writing, Filling, Sized
<1>2. /\ at[t] = "body" /\ job[t] \in Jobs /\ FlashType /\ FlashOK
      /\ s = job[t].slot /\ f = job[t].file /\ n = job[t].name
      /\ UNCHANGED <<magic, data, torn>>
      /\ magic[s] = Erased /\ body[s] = Erased /\ ~torn[s]
      /\ ~bad => Holds(s, f)
  BY <1>1, AtWork DEF WriteBody, FillingOK, Filling
<1>3. ASSUME NEW p \in {<<n, f>>, Erased, Garbage}, body' = [body EXCEPT ![s] = p]
      PROVE  FlashType' /\ FlashOK' /\ Others(s) /\ body'[s] = p
  <2>1. FlashType' /\ Others(s) /\ body'[s] = p
    BY <1>2, <1>3, Pages DEF FlashType, Others
  <2>2. magic'[s] = Erased
    BY <1>2
  <2>3. Fades(s)
    BY <2>1, <2>2, Pages DEF Fades, Valid
  <2>. QED
    BY <1>2, <2>1, <2>3, FadingIsSafe
<1>4. Onto(body[s], <<n, f>>) = <<n, f>>
  BY <1>2 DEF Onto
<1>5. CASE Leave(t) /\ \E p \in CutPage(body[s], <<n, f>>) : body' = [body EXCEPT ![s] = p]
  <2>1. PICK p \in {<<n, f>>, Erased, Garbage} : body' = [body EXCEPT ![s] = p]
    BY <1>2, <1>4, <1>5 DEF CutPage
  <2>. QED
    BY <1>2, <1>3, <1>5, <2>1, LeavingKeeps
<1>6. ASSUME NEW p \in {<<n, f>>, Garbage}, body' = [body EXCEPT ![s] = p],
             Goto(t, "verify", job[t]), UNCHANGED busy, bad' = bad \/ bad' = TRUE
      PROVE  Inv'
  <2>1. FlashType' /\ FlashOK' /\ Others(s) /\ body'[s] = p
    BY <1>3, <1>6
  <2>2. at'[t] = "verify" /\ job'[t] = job[t]
    BY <1>2, <1>6, GoingOn DEF Goto, Reserved, Places
  <2>3. JobOK(t)' /\ ErasingOK(t)' /\ FetchOK(t)'
    BY <1>2, <2>2, AtWork DEF JobOK, ErasingOK, FetchOK, Owning, Writing, Filling, Sized
  <2>4. ~bad' => Holds(s, f)'
    BY <1>2, <1>6 DEF Holds
  <2>5. FillingOK(t)'
    BY <1>2, <1>6, <2>1, <2>2, <2>4 DEF FillingOK, Filling, Holds
  <2>6. \A r \in Slots : Valid(r)' => Valid(r) /\ NameIn(r)' = NameIn(r)
    BY <1>2, <2>1, Pages DEF Others, Valid, Decodes, NameIn
  <2>7. AloneOK(t)'
    BY <1>2, <2>2, <2>6, AtWork DEF AloneOK, Writing, Filling
  <2>8. Work(t)' /\ bad' \in BOOLEAN
    BY <1>6, <2>3, <2>5, <2>7, AtWork DEF Work
  <2>. QED
    BY <1>2, <1>6, <2>1, <2>2, <2>8, GoingOn DEF Goto, Claimed, Reserved, Places
<1>7. QED
  BY <1>2, <1>4, <1>5, <1>6 DEF WriteBody

(* The read-back lets only the stream that was meant through.              *)
LEMMA VerifyKeeps ==
  ASSUME Inv, NEW t \in Tasks, Verify(t)
  PROVE  Inv'
<1>1. CASE Leave(t)
  BY <1>1, LeavingUntouched DEF Verify
<1>2. ASSUME ReadBackMatches(t), Goto(t, "magic", job[t]), UNCHANGED <<busy, bad>>
      PROVE  Inv'
  <2>1. at[t] = "verify" /\ UNCHANGED <<flash, torn>> /\ "magic" \in Reserved
    BY DEF Verify, Reserved, Places
  <2>2. /\ FlashType' /\ FlashOK'
        /\ \A r \in Slots : (Valid(r)' <=> Valid(r)) /\ NameIn(r)' = NameIn(r)
    BY <2>1, AtWork, SameFlash
  <2>3. at'[t] = "magic" /\ job'[t] = job[t]
    BY <1>2, <2>1, AtWork, GoingOn DEF Goto
  <2>4. Work(t)'
    BY <1>2, <2>1, <2>2, <2>3, AtWork DEF ReadBackMatches, Work, JobOK, ErasingOK, FillingOK,
       AloneOK, FetchOK, Owning, Writing, Filling, Sized, flash, Holds
  <2>. QED
    BY <1>2, <2>1, <2>2, <2>3, <2>4, AtWork, GoingOn DEF Goto, Claimed
<1>3. QED
  BY <1>1, <1>2 DEF Verify

(* The one page that makes a slot valid, and what stands behind it.        *)
LEMMA MagicPageIsSafe ==
  ASSUME Inv, NEW t \in Tasks, at[t] = "magic", UNCHANGED <<body, data, torn>>,
         NEW p \in CutPage(magic[job[t].slot], Magic),
         magic' = [magic EXCEPT ![job[t].slot] = p]
  PROVE  FlashType' /\ FlashOK'
<1>1. PICK s \in Slots, f \in Files, n \in Names :
        s = job[t].slot /\ f = job[t].file /\ n = job[t].name
  BY AtWork DEF JobOK, Owning, Writing, Filling, Sized
<1>2. /\ FlashType /\ FlashOK /\ magic[s] = Erased /\ Holds(s, f)
      /\ body[s] \in {<<n, f>>, Garbage}
      /\ \A r \in Slots : Valid(r) /\ NameIn(r) = n => r = s
  BY <1>1, AtWork DEF FillingOK, AloneOK, Filling, Writing
<1>3. p \in MagicPages /\ p \in {Erased, Garbage, Magic}
  BY <1>1, <1>2, Pages DEF CutPage, Onto
<1>4. FlashType'
  BY <1>1, <1>2, <1>3 DEF FlashType
<1>5. \A r \in Slots : r # s => (Valid(r)' <=> Valid(r))
  BY <1>1, <1>2 DEF FlashType, Valid, Decodes
<1>6. Valid(s)' => body[s] = <<n, f>>
  BY <1>2, Pages DEF Valid, Decodes
<1>7. \A r \in Slots : NameIn(r)' = NameIn(r) /\ FileIn(r)' = FileIn(r)
  BY DEF NameIn, FileIn
<1>8. Named'
  <2> SUFFICES ASSUME NEW r \in Slots, NEW q \in Slots, Valid(r)', Valid(q)',
                      NameIn(r) = NameIn(q)
               PROVE  r = q
    BY <1>7 DEF Named
  <2>1. CASE r # s /\ q # s
    BY <1>2, <1>5, <2>1 DEF FlashOK, Named
  <2>2. CASE r = s \/ q = s
    BY <1>2, <1>5, <1>6, <2>2 DEF NameIn
  <2>. QED
    BY <2>1, <2>2
<1>9. ValidMeansWhole'
  <2> SUFFICES ASSUME NEW r \in Slots, Valid(r)', ~torn[r] PROVE Holds(r, FileIn(r))
    BY <1>7 DEF ValidMeansWhole, Holds
  <2>1. CASE r # s
    BY <1>2, <1>5, <2>1 DEF FlashOK, ValidMeansWhole
  <2>2. CASE r = s
    BY <1>2, <1>6, <2>2 DEF FileIn
  <2>. QED
    BY <2>1, <2>2
<1>10. QED
  BY <1>4, <1>8, <1>9 DEF FlashOK

LEMMA MagicKeeps ==
  ASSUME Inv, NEW t \in Tasks, WriteMagic(t)
  PROVE  Inv'
<1>1. FlashType' /\ FlashOK'
  BY MagicPageIsSafe DEF WriteMagic
<1>2. QED
  BY <1>1, LeavingKeeps DEF WriteMagic

(* `blob erase` and the raw command, run.                                  *)
LEMMA HeaderErasedIsSafe ==
  ASSUME FlashType, FlashOK, NEW s \in Slots, CutHeader(s), UNCHANGED <<data, torn>>
  PROVE  FlashType' /\ FlashOK'
<1>1. FlashType' /\ Fades(s)
  BY CutHeaderDoes DEF FlashType, Fades, Others
<1>2. QED
  BY <1>1, FadingIsSafe

LEMMA EraseHeaderKeeps ==
  ASSUME Inv, NEW t \in Tasks, EraseHeader(t)
  PROVE  Inv'
<1>1. job[t].slot \in Slots /\ FlashType /\ FlashOK
  BY AtWork DEF EraseHeader, JobOK, Owning
<1>2. FlashType' /\ FlashOK'
  BY <1>1, HeaderErasedIsSafe DEF EraseHeader
<1>3. QED
  BY <1>2, LeavingKeeps DEF EraseHeader

LEMMA RawKeeps ==
  ASSUME Inv, NEW t \in Tasks, RawRun(t)
  PROVE  Inv'
<1>1. job[t].slot \in Slots /\ FlashType /\ FlashOK
  BY AtWork DEF RawRun, JobOK, Owning
<1>2. FlashType' /\ FlashOK'
  BY <1>1, RawDoes, FadingIsSafe DEF RawRun
<1>3. QED
  BY <1>2, LeavingKeeps DEF RawRun

(* A load goes on with the one slot that reads valid under its name.       *)
LEMMA FindKeeps ==
  ASSUME Inv, NEW t \in Tasks, Find(t)
  PROVE  Inv'
<1>1. CASE Leave(t)
  BY <1>1, LeavingUntouched DEF Find
<1>2. ASSUME NEW s \in Slots, Matches(job[t].name) = {s},
             Goto(t, "fetch", [job[t] EXCEPT !.slot = s, !.file = FileIn(s)]),
             UNCHANGED <<busy, bad>>
      PROVE  Inv'
  <2> DEFINE j == [job[t] EXCEPT !.slot = s, !.file = FileIn(s)]
  <2>1. /\ at[t] = "find" /\ UNCHANGED <<flash, torn>> /\ job[t] \in Jobs
        /\ job[t].name \in Names /\ "fetch" \in Reserved
    BY AtWork DEF Find, JobOK, Reserved, Places
  <2>2. Valid(s) /\ NameIn(s) = job[t].name
    BY <1>2 DEF Matches
  <2>3. FileIn(s) \in Files
    BY <2>2 DEF Valid, Decodes, FileIn
  <2>4. /\ j \in Jobs /\ j.slot = s /\ j.file = FileIn(s) /\ j.name = job[t].name
        /\ j = [job[t] EXCEPT !.slot = s, !.file = FileIn(s)]
    BY <2>1, <2>3 DEF Jobs
  <2> HIDE DEF j
  <2>5. /\ FlashType' /\ FlashOK'
        /\ \A r \in Slots : /\ Valid(r)' <=> Valid(r)
                            /\ NameIn(r)' = NameIn(r) /\ FileIn(r)' = FileIn(r)
    BY <2>1, AtWork, SameFlash
  <2>6. at'[t] = "fetch" /\ job'[t] = j
    BY <1>2, <2>1, <2>4, GoingOn DEF Goto
  <2>7. torn[s] \/ Holds(s, FileIn(s))
    BY <2>2, AtWork DEF FlashOK, ValidMeansWhole
  <2>8. FetchOK(t)'
    BY <2>1, <2>2, <2>4, <2>5, <2>6, <2>7 DEF FetchOK, flash, Holds
  <2>9. Work(t)'
    BY <2>4, <2>6, <2>8 DEF Work, JobOK, ErasingOK, FillingOK, AloneOK, Owning, Writing,
       Filling, Sized
  <2>. QED
    BY <1>2, <2>1, <2>4, <2>5, <2>6, <2>9, AtWork, GoingOn DEF Goto, Claimed
<1>3. QED
  BY <1>1, <1>2 DEF Find

LEMMA ProceedKeeps ==
  ASSUME Inv, NEW t \in Tasks, Proceed(t)
  PROVE  Inv'
<1>1. CASE TransferFails(t) \/ Fetch(t)
  BY <1>1, LeavingUntouched DEF TransferFails, Fetch
<1>2. QED
  BY <1>1, ChooseKeeps, EraseUnitKeeps, ClaimKeeps, OfferKeeps, BlockKeeps, EndKeeps,
     BodyKeeps, VerifyKeeps, MagicKeeps, EraseHeaderKeeps, RawKeeps, FindKeeps DEF Proceed

----------------------------------------------------------------------------
(* A power loss in the middle of whatever the command did to the flash.    *)
LEMMA CutShortIsSafe ==
  ASSUME Inv, NEW t \in Tasks, InFlight(t)
  PROVE  FlashType' /\ FlashOK'
<1>1. at[t] \in Owning => job[t].slot \in Slots
  BY AtWork DEF JobOK
<1>2. FlashType /\ FlashOK
  BY AtWork
<1>3. CASE at[t] = "erase" /\ CutUnit(job[t].slot, job[t].unit)
           /\ torn' = [torn EXCEPT ![job[t].slot] = TRUE]
  <2>1. job[t].slot \in Slots /\ job[t].unit \in 0..LastUnit
    BY <1>3, AtWork DEF JobOK, Owning, Writing
  <2>2. FlashType' /\ Fades(job[t].slot)
    BY <1>2, <1>3, <2>1, CutUnitDoes
  <2>. QED
    BY <1>2, <2>1, <2>2, FadingIsSafe
<1>4. ASSUME at[t] = "receive", NEW last \in job[t].got .. job[t].got + 1,
             CutBlocks(job[t].slot, job[t].file, job[t].put + 1, last),
             UNCHANGED <<magic, body, torn>>
      PROVE  FlashType' /\ FlashOK'
  <2>1. PICK s \in Slots, f \in Files, a \in Nat, b \in Nat :
          s = job[t].slot /\ f = job[t].file /\ a = job[t].put /\ b = last
    BY <1>4, AtWork DEF JobOK, Owning, Writing, Filling, Sized, Jobs
  <2>2. FlashType' /\ Others(s)
    BY <1>2, <1>4, <2>1, CutBlocksDoes
  <2>3. magic[s] = Erased /\ magic'[s] = Erased
    BY <1>4, <2>1, AtWork DEF FillingOK, Filling
  <2>4. Fades(s)
    BY <2>2, <2>3, Pages DEF Fades, Valid
  <2>. QED
    BY <1>2, <2>2, <2>4, FadingIsSafe
<1>5. CASE /\ at[t] = "body"
           /\ \E p \in CutPage(body[job[t].slot], <<job[t].name, job[t].file>>) :
                body' = [body EXCEPT ![job[t].slot] = p]
           /\ UNCHANGED <<magic, data, torn>>
  <2>1. PICK s \in Slots, f \in Files, n \in Names :
          s = job[t].slot /\ f = job[t].file /\ n = job[t].name
    BY <1>5, AtWork DEF JobOK, Owning, Writing, Filling, Sized
  <2>2. magic[s] = Erased /\ body[s] = Erased
    BY <1>5, <2>1, AtWork DEF FillingOK, Filling
  <2>3. PICK p \in {<<n, f>>, Erased, Garbage} : body' = [body EXCEPT ![s] = p]
    BY <1>5, <2>1, <2>2 DEF CutPage, Onto
  <2>4. FlashType' /\ Others(s) /\ magic'[s] = Erased
    <3>1. UNCHANGED <<magic, data, torn>>
      BY <1>5
    <3>2. p \in BodyPages
      BY Pages
    <3>3. FlashType'
      BY <1>2, <2>3, <3>1, <3>2 DEF FlashType
    <3>. QED
      BY <1>2, <2>2, <2>3, <3>1, <3>3 DEF FlashType, Others
  <2>5. Fades(s)
    BY <2>4, Pages DEF Fades, Valid
  <2>. QED
    BY <1>2, <2>4, <2>5, FadingIsSafe
<1>6. CASE /\ at[t] = "magic"
           /\ \E p \in CutPage(magic[job[t].slot], Magic) :
                magic' = [magic EXCEPT ![job[t].slot] = p]
           /\ UNCHANGED <<body, data, torn>>
  BY <1>6, MagicPageIsSafe
<1>7. CASE at[t] = "eraseHeader" /\ CutHeader(job[t].slot) /\ UNCHANGED <<data, torn>>
  BY <1>1, <1>2, <1>7, HeaderErasedIsSafe DEF Owning
<1>8. CASE at[t] = "raw" /\ RawEffect(job[t].slot)
  BY <1>1, <1>2, <1>8, RawDoes, FadingIsSafe DEF Owning
<1>9. QED
  BY <1>3, <1>4, <1>5, <1>6, <1>7, <1>8 DEF InFlight

LEMMA PowerLossKeeps == ASSUME Inv, PowerLoss PROVE Inv'
<1>1. FlashType' /\ FlashOK'
  BY CutShortIsSafe, SameFlash, TypesSplit DEF PowerLoss, Inv
<1>2. \A u \in Tasks : at'[u] = "idle"
  BY DEF PowerLoss
<1>3. \A u \in Tasks : Work(u)'
  BY <1>2 DEF Work, JobOK, ErasingOK, FillingOK, AloneOK, FetchOK, Writing, Filling,
     Sized, Owning
<1>4. Holder' /\ ConsoleOK'
  BY <1>2 DEF PowerLoss, Holder, ConsoleOK, Claimed
<1>5. TaskType'
  <2>1. at' \in [Tasks -> Places] /\ job' \in [Tasks -> Jobs] /\ console' \in [Tasks -> 0..1]
    BY NoJobIsOne DEF PowerLoss, Places
  <2>2. busy' \in BOOLEAN /\ bad' \in BOOLEAN
    BY DEF PowerLoss
  <2>. QED
    BY <2>1, <2>2 DEF TaskType
<1>6. QED
  BY <1>1, <1>3, <1>4, <1>5, Together

(* A part that has never held a blob reads nothing valid.                  *)
LEMMA InvAtInit == Init => Inv
<1> SUFFICES ASSUME Init PROVE Inv
  OBVIOUS
<1>1. FlashType
  <2>1. magic \in [Slots -> MagicPages] /\ body \in [Slots -> BodyPages]
    BY Pages DEF Init
  <2>2. data \in [Slots -> [1..Blocks -> DataPages]]
    BY Pages DEF Init
  <2>. QED
    BY <2>1, <2>2 DEF Init, FlashType
<1>2. \A s \in Slots : ~Valid(s)
  BY Pages DEF Init, Valid
<1>3. FlashOK
  BY <1>2 DEF FlashOK, ValidMeansWhole, Named
<1>4. TaskType
  <2>1. at \in [Tasks -> Places] /\ job \in [Tasks -> Jobs] /\ console \in [Tasks -> 0..1]
    BY NoJobIsOne DEF Init, Places
  <2>2. busy \in BOOLEAN /\ bad \in BOOLEAN
    BY DEF Init
  <2>. QED
    BY <2>1, <2>2 DEF TaskType
<1>5. Holder /\ ConsoleOK /\ \A t \in Tasks : Work(t)
  BY IdleWorks DEF Init, Holder, ConsoleOK, Claimed
<1>6. QED
  BY <1>1, <1>3, <1>4, <1>5, TypesSplit DEF Inv

(* One holder of the flag, what each step of its command relies on, and    *)
(* what the flash says, whatever fails and whenever the power goes.        *)
THEOREM Invariant == Spec => []Inv
<1>1. Inv /\ [Next]_vars => Inv'
  <2>1. ASSUME Inv, UNCHANGED vars PROVE Inv'
    <3>1. FlashType' /\ FlashOK'
      BY <2>1, SameFlash, TypesSplit DEF Inv, vars
    <3>2. TaskType' /\ Holder' /\ ConsoleOK'
      BY <2>1, TypesSplit DEF Inv, vars, TaskType, Holder, ConsoleOK, Claimed
    <3>3. \A t \in Tasks : Work(t)'
      BY <2>1 DEF Inv, vars, flash, Work, JobOK, ErasingOK, FillingOK, AloneOK, FetchOK,
         Valid, Decodes, NameIn, FileIn, Holds, BlankFrom, BlankUpTo, HoldsUpTo
    <3>. QED
      BY <3>1, <3>2, <3>3, Together
  <2>2. ASSUME Inv, NEW t \in Tasks, Start(t) \/ Proceed(t) PROVE Inv'
    BY <2>2, StartKeeps, ProceedKeeps
  <2>. QED
    BY <2>1, <2>2, PowerLossKeeps DEF Next
<1>2. QED
  BY <1>1, InvAtInit, PTL DEF Spec

(* The variables keep their shape, and no console's lock is held twice.    *)
THEOREM TypeCorrect == Spec => []TypeOK
<1>1. Inv => TypeOK
  BY DEF Inv
<1>2. QED
  BY <1>1, Invariant, PTL

(* blob_write.c's read-back disagrees only when the flash failed or lied.  *)
THEOREM ReadBackAgrees == Spec => []ReadsBack
<1>1. Inv => ReadsBack
  BY AtWork DEF ReadsBack, FillingOK
<1>2. QED
  BY <1>1, Invariant, PTL

(* A slot that reads valid holds the file its header describes, through    *)
(* every failure, lie and power loss (magic last, and over erased flash).  *)
THEOREM ValidIsWhole == Spec => []ValidMeansWhole
<1>1. Inv => ValidMeansWhole
  BY DEF Inv, FlashOK
<1>2. QED
  BY <1>1, Invariant, PTL

(* blob_choose_target(): no two slots ever read valid under one name.      *)
THEOREM NamesAreUnique == Spec => []UniqueNames
<1>1. Inv => UniqueNames
  <2> SUFFICES ASSUME Inv, NEW n \in Names PROVE Cardinality(Matches(n)) <= 1
    BY DEF UniqueNames
  <2>1. \A r, s \in Matches(n) : r = s
    BY DEF Inv, FlashOK, Named, Matches
  <2>2. CASE Matches(n) = {}
    BY <2>2, FS_EmptySet
  <2>3. ASSUME NEW s \in Matches(n) PROVE Cardinality(Matches(n)) <= 1
    <3>1. Matches(n) = {s}
      BY <2>1
    <3>. QED
      BY <3>1, FS_Singleton
  <2>. QED
    BY <2>2, <2>3
<1>2. QED
  BY <1>1, Invariant, PTL

(* `nn model load` reads the generation of the blob whose header it found. *)
THEOREM LoadReadsWhatItFound == Spec => []FetchSeesItsBlob
<1>1. Inv => FetchSeesItsBlob
  BY AtWork DEF FetchSeesItsBlob, FetchOK
<1>2. QED
  BY <1>1, Invariant, PTL

(* `blob write` destroys no blob but the one stored under its own name.    *)
THEOREM WriteSparesTheOthers == Spec => OnlyItsOwn
<1>1. Inv => \A t \in Tasks, s \in Slots :
        at[t] = "erase" /\ job[t].slot = s /\ Valid(s) =>
          NameIn(s) = job[t].name /\ ~job[t].bg
  BY AtWork, Pages DEF ErasingOK, JobOK, Writing, Valid
<1>2. Inv => [\A t \in Tasks, s \in Slots :
                at[t] = "erase" /\ job[t].slot = s /\ Valid(s) /\ ~Valid(s)' =>
                  NameIn(s) = job[t].name /\ ~job[t].bg]_vars
  BY <1>1
<1>3. QED
  BY <1>2, Invariant, PTL DEF OnlyItsOwn

=============================================================================
