------------------------------ MODULE LogRing ------------------------------
(***************************************************************************)
(* The log ring of f746g-disco (svc/log.c): records of varying length in a  *)
(* circular memory that outlives a reset, written with interrupts masked.   *)
(*                                                                         *)
(* Masked, an append is interrupted by two things only: a reset, and a      *)
(* fault, whose handler appends its own lines on top of whatever it left    *)
(* and never comes back.  So an append is one store per step and everything  *)
(* else is one step.  Lengths and offsets are in words: the header of a     *)
(* record is its first word (length, level, magic) and its number; the text *)
(* follows.  Stores reach the memory in the order of the program.           *)
(***************************************************************************)
EXTENDS Integers, Sequences

CONSTANTS
  Size,         \* LOG_RING_DATA_SIZE
  RecMin,       \* LOG_REC_MIN
  RecMax,       \* LOG_REC_MAX
  Wrap,         \* offsets are counted modulo this: 2^32 bytes in the code
  Starts,       \* offsets the ring may have come to, full or just cleared
  FaultLines,   \* what the fault handler may append
  MaxAppends    \* bound: appends begun in a behaviour

ASSUME RingAssumption ==
  /\ {Size, RecMin, RecMax, Wrap, FaultLines, MaxAppends} \subseteq Nat
  /\ 3 <= RecMin /\ RecMin <= RecMax /\ 2 * RecMax <= Size /\ Size % RecMax = 0
  /\ Wrap % (2 * Size) = 0 /\ Wrap > 2 * Size
  /\ \A s \in Starts : s \in 0 .. Wrap - 1 /\ s % Size = 0

VARIABLES
  data, head, tail, seq,  \* g_log
  magic,                  \* its magic, version and size are right
  ctx,                    \* who runs: "off", "boot", "run" or "fault"
  lines,                  \* what the fault handler has appended
  pc,                     \* the next store of the append under way
  len, num, at,           \* its record's length and number, its words written
  it,                     \* a dmesg pass: its log_iter
  snap, seen,             \* history: the records at its start, those it gave
  appends                 \* history: appends begun

ring  == <<data, head, tail, seq, magic>>
app   == <<pc, len, num, at>>
pass  == <<it, snap, seen>>
vars  == <<ring, ctx, lines, app, pass, appends>>

Plus(a, n) == (a + n) % Wrap
Dist(a, b) == (a + Wrap - b) % Wrap         \* a - b, unsigned
Behind(a, b) == Dist(a, b) >= Wrap \div 2   \* (int32_t)(a - b) < 0
Cell(off) == off % Size

Rec(n)  == [kind |-> "rec",  n |-> n]       \* a record of n words starts here
Skip(n) == [kind |-> "skip", n |-> n]
Num(s)  == [kind |-> "num",  n |-> s]
Text(s) == [kind |-> "text", n |-> s]       \* a word of record s's text
Blank   == [kind |-> "text", n |-> -1]

(* A ring that was filled with records of RecMax words.                     *)
OldLap(s) ==
  [c \in 0 .. Size - 1 |->
    LET id == s \div RecMax - (Size - c + RecMax - 1) \div RecMax
    IN CASE s = 0              -> Blank
         [] c % RecMax = 0     -> Rec(RecMax)
         [] c % RecMax = 1     -> Num(id)
         [] OTHER              -> Text(id)]

Off == [on |-> FALSE, pos |-> 0, end |-> 0]

Init ==
  /\ \E s \in Starts : /\ data = OldLap(s)
                       /\ head = s /\ seq = s \div RecMax
                       /\ tail \in {s} \cup {t \in {s - Size} : t >= 0}
  /\ magic = TRUE /\ ctx = "off" /\ lines = 0
  /\ pc = "idle" /\ len = 0 /\ num = 0 /\ at = 0
  /\ it = Off /\ snap = <<>> /\ seen = <<>>
  /\ appends = 0

-----------------------------------------------------------------------------
(* What a word says of the record it starts: the check of the boot walk and *)
(* of the dmesg iterator.                                                   *)
WellFormed(off) ==
  LET w == data[Cell(off)]
  IN \/ w.kind = "skip" /\ Cell(off) + w.n = Size
     \/ /\ w.kind = "rec" /\ w.n \in RecMin .. RecMax
        /\ Cell(off) + w.n <= Size

(* How far from head the walk from `left` words before it stops.            *)
Unwalked[left \in 0 .. Size] ==
  LET off == Plus(head, Wrap - left)
      n   == data[Cell(off)].n
  IN CASE left = 0                         -> 0
       [] left > 0 /\ ~WellFormed(off)     -> left
       [] OTHER -> IF n > left THEN left - n ELSE Unwalked[left - n]

(* log_init: the ring is kept up to its first malformed record, or, if it   *)
(* is not a ring at all, made empty.                                        *)
Boot ==
  /\ ctx = "off"
  /\ ctx' = "boot"
  /\ IF magic /\ Dist(head, tail) <= Size
     THEN /\ head' = Plus(head, Wrap - Unwalked[Dist(head, tail)])
          /\ UNCHANGED <<data, tail, seq, magic>>
     ELSE /\ data' = OldLap(0)
          /\ head' = 0 /\ tail' = 0 /\ seq' = 0 /\ magic' = TRUE
  /\ UNCHANGED <<lines, app, pass, appends>>

(* log_append, from the section's start to its last store.                  *)
Fragment == IF Cell(head) + len > Size THEN Size - Cell(head) ELSE 0

Need == Fragment + len

Begin ==
  /\ ctx # "off" /\ pc = "idle"
  /\ ctx = "fault" => lines < FaultLines
  /\ appends < MaxAppends
  /\ pc' = "evict"
  /\ len' \in RecMin .. RecMax
  /\ num' = seq
  /\ at' = 0
  /\ appends' = appends + 1
  /\ UNCHANGED <<ring, ctx, lines, pass>>

Room == Size - Dist(head, tail)

Evict ==
  /\ pc = "evict"
  /\ \/ /\ Room < Need /\ tail # head
        /\ tail' = Plus(tail, data[Cell(tail)].n)
        /\ UNCHANGED pc
     \/ /\ Room >= Need \/ tail = head
        /\ pc' = IF Fragment > 0 THEN "skip" ELSE "body"
        /\ UNCHANGED tail
  /\ UNCHANGED <<data, head, seq, magic, ctx, lines, len, num, at, pass, appends>>

StoreSkip ==
  /\ pc = "skip"
  /\ data' = [data EXCEPT ![Cell(head)] = Skip(Fragment)]
  /\ pc' = "pastSkip"
  /\ UNCHANGED <<head, tail, seq, magic, ctx, lines, len, num, at, pass, appends>>

PastSkip ==
  /\ pc = "pastSkip"
  /\ head' = Plus(head, Fragment)
  /\ pc' = "body"
  /\ UNCHANGED <<data, tail, seq, magic, ctx, lines, len, num, at, pass, appends>>

Word(k) == CASE k = 0 -> Rec(len) [] k = 1 -> Num(num) [] OTHER -> Text(num)

StoreWord ==
  /\ pc = "body"
  /\ data' = [data EXCEPT ![Cell(Plus(head, at))] = Word(at)]
  /\ at' = at + 1
  /\ pc' = IF at + 1 = len THEN "seq" ELSE "body"
  /\ UNCHANGED <<head, tail, seq, magic, ctx, lines, len, num, pass, appends>>

Finish ==
  /\ pc' = "idle" /\ len' = 0 /\ num' = 0 /\ at' = 0
  /\ ctx' = IF ctx = "boot" THEN "run" ELSE ctx
  /\ lines' = IF ctx = "fault" THEN lines + 1 ELSE lines
  /\ UNCHANGED <<pass, appends>>

(* The number is used up before the record is visible.                      *)
HeadFirst ==
  \/ /\ pc = "seq"
     /\ head' = Plus(head, len)
     /\ pc' = "head"
     /\ UNCHANGED <<seq, ctx, lines, len, num, at, pass, appends>>
  \/ pc = "head" /\ seq' = num + 1 /\ UNCHANGED head /\ Finish

SeqFirst ==
  \/ /\ pc = "seq"
     /\ seq' = num + 1
     /\ pc' = "head"
     /\ UNCHANGED <<head, ctx, lines, len, num, at, pass, appends>>
  \/ pc = "head" /\ head' = Plus(head, len) /\ UNCHANGED seq /\ Finish

Commit == SeqFirst /\ UNCHANGED <<data, tail, magic>>

LogClear ==
  /\ ctx = "run" /\ pc = "idle"
  /\ tail' = head
  /\ UNCHANGED <<data, head, seq, magic, ctx, lines, app, pass, appends>>

(* A fault, at any instruction; the handler's own append starts afresh.      *)
Fault ==
  /\ ctx = "run"
  /\ ctx' = "fault" /\ lines' = 0
  /\ pc' = "idle" /\ len' = 0 /\ num' = 0 /\ at' = 0
  /\ it' = Off /\ snap' = <<>> /\ seen' = <<>>
  /\ UNCHANGED <<ring, appends>>

(* A reset, at any instruction, of the watchdog, the button or the handler. *)
Down ==
  /\ ctx # "off"
  /\ ctx' = "off" /\ lines' = 0
  /\ pc' = "idle" /\ len' = 0 /\ num' = 0 /\ at' = 0
  /\ it' = Off /\ snap' = <<>> /\ seen' = <<>>
  /\ UNCHANGED <<data, head, tail, seq, appends>>

Reset     == Down /\ UNCHANGED magic
PowerLoss == Down /\ magic' = FALSE

-----------------------------------------------------------------------------
(* What dmesg makes of the record at off: its number, or "torn" if not all  *)
(* of its words are the ones its append wrote.                              *)
Shown(off) ==
  LET n  == data[Cell(off)].n
      id == data[Cell(off + 1)]
  IN IF id.kind = "num" /\ \A k \in 2 .. n - 1 : data[Cell(off + k)] = Text(id.n)
     THEN id.n ELSE "torn"

(* The records from `left` words before the head on.                        *)
Records[left \in 0 .. Size] ==
  LET off == Plus(head, Wrap - left)
      w   == data[Cell(off)]
  IN CASE left = 0 -> <<>>
       [] left > 0 /\ (~WellFormed(off) \/ w.n > left) -> <<"malformed">>
       [] OTHER -> (IF w.kind = "rec" THEN <<Shown(off)>> ELSE <<>>)
                   \o Records[left - w.n]

Kept == Records[Dist(head, tail)]

IterStart ==
  /\ ctx = "run" /\ pc = "idle" /\ ~it.on
  /\ it' = [on |-> TRUE, pos |-> tail, end |-> head]
  /\ snap' = Kept /\ seen' = <<>>
  /\ UNCHANGED <<ring, ctx, lines, app, appends>>

(* log_iter_next: the position after eviction overtook it, then past SKIPs. *)
ResyncNever == it.pos
Resync == IF Behind(it.pos, tail) THEN tail ELSE it.pos

Ended(off) == ~Behind(off, it.end) \/ ~WellFormed(off)

NextRecord ==
  LET off == Resync
      w   == data[Cell(off)]
  IN IF ~Ended(off) /\ w.kind = "skip" THEN Plus(off, w.n) ELSE off

IterNext ==
  /\ ctx = "run" /\ pc = "idle" /\ it.on
  /\ LET off == NextRecord
     IN IF Ended(off)
        THEN it' = Off /\ seen' = <<>> /\ snap' = <<>>
        ELSE /\ it' = [it EXCEPT !.pos = Plus(off, data[Cell(off)].n)]
             /\ seen' = Append(seen, Shown(off))
             /\ UNCHANGED snap
  /\ UNCHANGED <<ring, ctx, lines, app, appends>>

-----------------------------------------------------------------------------
Next ==
  \/ Boot \/ Begin \/ Evict \/ StoreSkip \/ PastSkip \/ StoreWord \/ Commit
  \/ LogClear \/ Fault \/ Reset \/ PowerLoss \/ IterStart \/ IterNext

Spec == Init /\ [][Next]_vars

-----------------------------------------------------------------------------
(* Shape of the state, with the ring's own bounds: it never holds more than *)
(* its size, and a record never straddles its end.                          *)
TypeOK ==
  /\ DOMAIN data = 0 .. Size - 1
  /\ {head, tail, it.pos, it.end} \subseteq 0 .. Wrap - 1
  /\ Dist(head, tail) <= Size
  /\ seq \in Nat
  /\ magic \in BOOLEAN /\ it.on \in BOOLEAN
  /\ ctx \in {"off", "boot", "run", "fault"}
  /\ pc \in {"idle", "evict", "skip", "pastSkip", "body", "seq", "head"}
  /\ pc = "body" => Cell(head) + len <= Size

Promise == INSTANCE EventLog WITH
  up   <- ctx # "off",
  recs <- IF magic THEN Kept ELSE <<>>,
  next <- IF magic THEN seq ELSE 0

(* log.c:157-193, 262-304.  Whatever store a reset or a fault comes after,   *)
(* the ring then holds exactly the records whose head was stored and which  *)
(* were not evicted, whole, in order, and no number twice.                  *)
LogKept == Promise!Spec

(* log.c:412-468.  A pass gives the records that were there when it began   *)
(* and are there when it comes to them, each once and in order, though      *)
(* appends evict some and dmesg -c drops them all in between.               *)
Later(s) == {i \in DOMAIN s : seen = <<>> \/ s[i] > seen[Len(seen)]}
Due == {snap[i] : i \in Later(snap)} \cap {Kept[i] : i \in DOMAIN Kept}

PassFaithful ==
  [][(it.on /\ it # it' /\ ctx' = "run") =>
       IF it'.on THEN /\ Due # {}
                      /\ seen'[Len(seen')] \in Due
                      /\ \A s \in Due : seen'[Len(seen')] <= s
                 ELSE Due = {}]_vars
=============================================================================
