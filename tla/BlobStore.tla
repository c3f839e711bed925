----------------------------- MODULE BlobStore -----------------------------
(***************************************************************************)
(* The asset store of f746g-disco: the header format and slot rules         *)
(* (svc/blob/blob_state.c), the `blob write` coordinator (blob_write.c),    *)
(* `blob erase`, the raw `qspi erase` / `qspi test`, and the part of        *)
(* `nn model load` that reads a slot -- every operation that takes the      *)
(* store's busy flag -- over a flash that can fail and lose power.          *)
(*                                                                         *)
(* A write is a sequence of calls with other threads in between: reserve,   *)
(* choose the slot, erase it unit by unit, claim the console, receive and   *)
(* program block by block, release the console, body page, read-back, magic *)
(* page, and one exit.                                                      *)
(*                                                                         *)
(* Abstractions.  A page is erased, garbage, or what was meant to be        *)
(* written.  A file stands for its length and its CRC-32, so the checksum   *)
(* distinguishes files; a block of it is <<file, index>>.  The public reads *)
(* (`blob list`, `blob verify`) change nothing and are left out.            *)
(*                                                                         *)
(* A definition marked "variant" is the same operator with a mistake the    *)
(* code could have made, and is used by nothing else: put in place of the   *)
(* one below it, it breaks a property.                                      *)
(***************************************************************************)
EXTENDS Integers, FiniteSets

CONSTANTS
  Tasks,          \* threads that run commands
  Slots, Names,
  Files,          \* the files a sender may offer
  Blocks,         \* payload blocks in a slot
  Length,         \* file -> its blocks
  HeadBlocks,     \* payload blocks in the header's erase unit
  StageBlocks,    \* blocks in the staging buffer
  Erased, Garbage, Magic,   \* page contents
  Unnamed,        \* no slot on the command line, or none chosen yet
  NoFile          \* nothing offered yet

ASSUME StoreAssumption ==
  /\ IsFiniteSet(Slots)
  /\ Blocks \in Nat \ {0} /\ StageBlocks \in Nat \ {0} /\ HeadBlocks \in 0..Blocks
  /\ Length \in [Files -> 1..Blocks]
  /\ Unnamed \notin Slots /\ NoFile \notin Files
  /\ Erased # Garbage /\ Magic \notin {Erased, Garbage}
  /\ {Erased, Garbage} \cap (Names \X Files) = {}
  /\ {Erased, Garbage} \cap (Files \X (1..Blocks)) = {}

VARIABLES
  magic,    \* slot -> its magic page
  body,     \* slot -> its body page: <<name, file>> when written
  data,     \* slot -> its payload blocks
  busy,     \* blob_busy
  at,       \* task -> where its command is
  job,      \* task -> its locals
  console,  \* task -> how often it holds its console's lock (cli_console_claim)
  torn,     \* history: slot -> its last erase was cut short, or a raw command hit it
  bad       \* history: this reservation saw the flash fail or lie

flash == <<magic, body, data>>
vars  == <<flash, busy, at, job, console, torn, bad>>

Places == {"idle", "choose", "erase", "claim", "offer", "receive", "body",
           "verify", "magic", "eraseHeader", "raw", "find", "fetch"}

(* From the reservation to the one exit.                                    *)
Reserved == Places \ {"idle"}

BodyPages  == {Erased, Garbage} \cup (Names \X Files)
DataPages  == {Erased, Garbage} \cup (Files \X (1..Blocks))
MagicPages == {Erased, Garbage, Magic}

Jobs == [name: Names \cup {Unnamed}, want: Slots \cup {Unnamed}, bg: BOOLEAN,
         slot: Slots \cup {Unnamed}, unit: 0..Blocks, file: Files \cup {NoFile},
         got: 0..Blocks, put: 0..Blocks]

NoJob == [name |-> Unnamed, want |-> Unnamed, bg |-> FALSE, slot |-> Unnamed,
          unit |-> 0, file |-> NoFile, got |-> 0, put |-> 0]
----------------------------------------------------------------------------
(* blob_hdr_decode(): a statement about the header alone.                   *)
Decodes(s) == body[s] \in Names \X Files
Valid(s)      == magic[s] = Magic /\ Decodes(s)
Incomplete(s) == magic[s] = Erased /\ Decodes(s)
Empty(s)      == magic[s] = Erased /\ body[s] = Erased

NameIn(s) == body[s][1]
FileIn(s) == body[s][2]

Matches(n) == {s \in Slots : Valid(s) /\ NameIn(s) = n}

TargetsAnyFree(n, want) ==      \* variant: the other slots' names not looked at
  {s \in Slots : \/ Matches(n) = {s} /\ want \in {Unnamed, s}
                 \/ want = s /\ (Empty(s) \/ Incomplete(s))}

(* blob_choose_target(): the slot of that name, or a named slot that may be *)
(* overwritten when no slot has the name.                                   *)
Targets(n, want) ==
  {s \in Slots : \/ Matches(n) = {s} /\ want \in {Unnamed, s}
                 \/ Matches(n) = {} /\ want = s /\ (Empty(s) \/ Incomplete(s))}

(* What reading back file f from slot s compares equal to.                  *)
Holds(s, f) == \A i \in 1..Length[f] : data[s][i] = <<f, i>>

(* The erase units of a slot: 0 is the header's, HeadBlocks blocks with it. *)
LastUnit == Blocks - HeadBlocks
InUnit(u) == IF u = 0 THEN 1..HeadBlocks ELSE {HeadBlocks + u}
----------------------------------------------------------------------------
(* What a flash operation can leave: done, or cut short with every page of  *)
(* its range as it was, erased (written) or garbage.                        *)
ErasedUnit(s, u) ==
  /\ magic' = IF u = 0 THEN [magic EXCEPT ![s] = Erased] ELSE magic
  /\ body'  = IF u = 0 THEN [body EXCEPT ![s] = Erased] ELSE body
  /\ data'  = [data EXCEPT ![s] =
                 [i \in 1..Blocks |-> IF i \in InUnit(u) THEN Erased ELSE data[s][i]]]

CutHeader(s) ==
  /\ \E p \in {magic[s], Erased, Garbage} : magic' = [magic EXCEPT ![s] = p]
  /\ \E p \in {body[s], Erased, Garbage} : body' = [body EXCEPT ![s] = p]

CutUnit(s, u) ==
  /\ IF u = 0 THEN CutHeader(s) ELSE UNCHANGED <<magic, body>>
  /\ \E d \in [1..Blocks -> DataPages] :
       /\ \A i \in 1..Blocks : d[i] \in
            IF i \in InUnit(u) THEN {data[s][i], Erased, Garbage} ELSE {data[s][i]}
       /\ data' = [data EXCEPT ![s] = d]

(* A program: bits only clear, so over a page that is not erased it leaves  *)
(* garbage (the AND of the two).                                            *)
Onto(page, new) == IF page = Erased THEN new ELSE Garbage
CutPage(page, new) == {page, Garbage, Onto(page, new)}

Programmed(s, f, from, to) ==
  [i \in 1..Blocks |-> IF i \in from..to THEN Onto(data[s][i], <<f, i>>) ELSE data[s][i]]

CutBlocks(s, f, from, to) ==
  \E d \in [1..Blocks -> DataPages] :
    /\ \A i \in 1..Blocks : d[i] \in
         IF i \in from..to THEN CutPage(data[s][i], <<f, i>>) ELSE {data[s][i]}
    /\ data' = [data EXCEPT ![s] = d]
----------------------------------------------------------------------------
Move(t, place, j) == at' = [at EXCEPT ![t] = place] /\ job' = [job EXCEPT ![t] = j]
Goto(t, place, j) == Move(t, place, j) /\ UNCHANGED console

(* blob_busy_acquire(): test and set with interrupts off.                   *)
Acquire == ~busy /\ busy' = TRUE

(* The one exit of blob_write_run(): the console if it was claimed, then    *)
(* the reservation.  Every other holder of the flag just gives it back.     *)
Claimed(t) == at[t] \in {"offer", "receive"}

Leave(t) ==
  /\ console' = [console EXCEPT ![t] = IF Claimed(t) THEN @ - 1 ELSE @]
  /\ busy' = FALSE
  /\ bad' = FALSE
  /\ Move(t, "idle", NoJob)

----------------------------------------------------------------------------
(* `blob write <name> [slot]`, in the background or not: console_ready(),   *)
(* then the reservation.  Refused, it has touched nothing.                  *)
ConsoleUnasked(bg) == TRUE              \* variant: asked only by the claim

ConsoleReady(bg) == ~bg

Write(t, n, want, bg) ==
  /\ at[t] = "idle"
  /\ ConsoleReady(bg)
  /\ Acquire
  /\ Goto(t, "choose", [NoJob EXCEPT !.name = n, !.want = want, !.bg = bg])
  /\ UNCHANGED <<flash, torn, bad>>

(* A header that cannot be read, and a choice that names no slot, refuse.   *)
Choose(t) ==
  /\ at[t] = "choose"
  /\ \/ /\ Leave(t)
        /\ UNCHANGED <<flash, torn>>
     \/ \E s \in Targets(job[t].name, job[t].want) :
          /\ Goto(t, "erase", [job[t] EXCEPT !.slot = s, !.want = Unnamed])
          /\ UNCHANGED <<flash, busy, torn, bad>>

(* blob_erase_span(): one unit per step, the cancel looked at before each.  *)
EraseUnit(t) ==
  LET s == job[t].slot  u == job[t].unit IN
  /\ at[t] = "erase"
  /\ \/ /\ Leave(t)                                   \* cancelled
        /\ UNCHANGED <<flash, torn>>
     \/ /\ ErasedUnit(s, u)
        /\ torn' = IF u = 0 THEN [torn EXCEPT ![s] = FALSE] ELSE torn
        /\ IF u = LastUnit
             THEN Goto(t, "claim", [job[t] EXCEPT !.unit = 0])
             ELSE Goto(t, "erase", [job[t] EXCEPT !.unit = u + 1])
        /\ UNCHANGED <<busy, bad>>
     \/ /\ CutUnit(s, u)                              \* the erase failed
        /\ torn' = [torn EXCEPT ![s] = TRUE]
        /\ Leave(t)

(* cli_console_claim(): it refuses a background job, and can fail.          *)
Foreground(t) == ~job[t].bg

ClaimConsole(t) ==
  /\ at[t] = "claim"
  /\ \/ Leave(t)
     \/ /\ Foreground(t)
        /\ console' = [console EXCEPT ![t] = @ + 1]
        /\ Move(t, "offer", job[t])
        /\ UNCHANGED <<busy, bad>>
  /\ UNCHANGED <<flash, torn>>

(* sink_begin(): an empty file or one larger than the slot is refused; so   *)
(* is a transfer that never starts.                                         *)
Offer(t) ==
  /\ at[t] = "offer"
  /\ \/ Leave(t)
     \/ \E f \in Files :
          /\ Goto(t, "receive", [job[t] EXCEPT !.file = f])
          /\ UNCHANGED <<busy, bad>>
  /\ UNCHANGED <<flash, torn>>

(* flush(): the staged blocks go down.  A program may report a failure, or  *)
(* report none and be wrong: this board does not read it back.              *)
Flushed(t, place, j) ==
  LET s == j.slot  f == j.file IN
  \/ /\ Move(t, place, [j EXCEPT !.put = j.got])
     /\ \/ /\ data' = [data EXCEPT ![s] = Programmed(s, f, j.put + 1, j.got)]
           /\ UNCHANGED bad
        \/ CutBlocks(s, f, j.put + 1, j.got) /\ bad' = TRUE
     /\ console' = [console EXCEPT ![t] = IF place = "receive" THEN @ ELSE @ - 1]
     /\ UNCHANGED busy
  \/ CutBlocks(s, f, j.put + 1, j.got) /\ Leave(t)

(* sink_write(): one more block staged, flushed when the buffer is full.    *)
Block(t) ==
  LET j == [job[t] EXCEPT !.got = job[t].got + 1] IN
  /\ at[t] = "receive" /\ job[t].got < Length[job[t].file]
  /\ IF j.got - j.put = StageBlocks
       THEN Flushed(t, "receive", j)
       ELSE Goto(t, "receive", j) /\ UNCHANGED <<data, busy, bad>>
  /\ UNCHANGED <<magic, body, torn>>

(* The transfer fails: time-out, cancel, kill, a bad sequence.              *)
TransferFails(t) ==
  /\ at[t] \in {"offer", "receive"}
  /\ Leave(t)
  /\ UNCHANGED <<flash, torn>>

(* The batch closed: blob_write_close(), the last flush, and the console    *)
(* goes back.                                                               *)
ArrivedAny(t) == TRUE                   \* variant: closed on a short file

AllArrived(t) == job[t].got = Length[job[t].file]

TransferEnds(t) ==
  /\ at[t] = "receive" /\ AllArrived(t)
  /\ IF job[t].put < job[t].got
       THEN Flushed(t, "body", job[t])
       ELSE /\ console' = [console EXCEPT ![t] = @ - 1]
            /\ Move(t, "body", job[t])
            /\ UNCHANGED <<data, busy, bad>>
  /\ UNCHANGED <<magic, body, torn>>

(* write_body(), its own page program.                                      *)
WriteBody(t) ==
  LET s == job[t].slot  new == <<job[t].name, job[t].file>> IN
  /\ at[t] = "body"
  /\ \/ /\ body' = [body EXCEPT ![s] = Onto(body[s], new)]
        /\ Goto(t, "verify", job[t])
        /\ UNCHANGED <<busy, bad>>
     \/ /\ body' = [body EXCEPT ![s] = Garbage]       \* reported well, is not
        /\ bad' = TRUE
        /\ Goto(t, "verify", job[t])
        /\ UNCHANGED busy
     \/ /\ \E p \in CutPage(body[s], new) : body' = [body EXCEPT ![s] = p]
        /\ Leave(t)
  /\ UNCHANGED <<magic, data, torn>>

ReadBackOwn(t) == TRUE                  \* variant: the flash compared with itself

(* verify_payload(): against the stream's CRC, not the flash's own.         *)
ReadBackMatches(t) == Holds(job[t].slot, job[t].file)

Verify(t) ==
  /\ at[t] = "verify"
  /\ \/ Leave(t)                                      \* mismatch, or unreadable
     \/ /\ ReadBackMatches(t)
        /\ Goto(t, "magic", job[t])
        /\ UNCHANGED <<busy, bad>>
  /\ UNCHANGED <<flash, torn>>

(* write_magic(), and the exit whatever it reports.                         *)
WriteMagic(t) ==
  LET s == job[t].slot IN
  /\ at[t] = "magic"
  /\ \E p \in CutPage(magic[s], Magic) : magic' = [magic EXCEPT ![s] = p]
  /\ Leave(t)
  /\ UNCHANGED <<body, data, torn>>
----------------------------------------------------------------------------
(* `blob erase <slot>`: the header subsector and nothing else.              *)
BlobErase(t, s) ==
  /\ at[t] = "idle" /\ Acquire
  /\ Goto(t, "eraseHeader", [NoJob EXCEPT !.slot = s])
  /\ UNCHANGED <<flash, torn, bad>>

EraseHeader(t) ==
  /\ at[t] = "eraseHeader"
  /\ CutHeader(job[t].slot)
  /\ Leave(t)
  /\ UNCHANGED <<data, torn>>

(* `qspi erase` / `qspi test` on a subsector of a slot: erased, or left     *)
(* with any part of the test pattern.                                       *)
Raw(t, s) ==
  /\ at[t] = "idle" /\ Acquire
  /\ Goto(t, "raw", [NoJob EXCEPT !.slot = s])
  /\ UNCHANGED <<flash, torn, bad>>

RawEffect(s) ==
  /\ \/ CutHeader(s) /\ UNCHANGED data
     \/ /\ \E i \in 1..Blocks, p \in {Erased, Garbage} :
             data' = [data EXCEPT ![s] = [data[s] EXCEPT ![i] = p]]
        /\ UNCHANGED <<magic, body>>
  /\ torn' = [torn EXCEPT ![s] = TRUE]

RawRun(t) == at[t] = "raw" /\ RawEffect(job[t].slot) /\ Leave(t)

(* `nn model load <name>`: prepare() takes the flag and finds the slot;     *)
(* the load may stop there; fetch() reads the payload, gives the flag back  *)
(* and compares the copy's CRC.                                             *)
Prepare(t, n) ==
  /\ at[t] = "idle" /\ Acquire
  /\ Goto(t, "find", [NoJob EXCEPT !.name = n])
  /\ UNCHANGED <<flash, torn, bad>>

FindUnheld(t) ==                        \* variant: the flag given back after the lookup
  /\ at[t] = "find"
  /\ busy' = FALSE
  /\ \/ Goto(t, "idle", NoJob)
     \/ \E s \in Slots :
          /\ Matches(job[t].name) = {s}
          /\ Goto(t, "fetch", [job[t] EXCEPT !.slot = s, !.file = FileIn(s)])
  /\ UNCHANGED <<flash, torn, bad>>

Find(t) ==
  /\ at[t] = "find"
  /\ \/ Leave(t)
     \/ \E s \in Slots :
          /\ Matches(job[t].name) = {s}
          /\ Goto(t, "fetch", [job[t] EXCEPT !.slot = s, !.file = FileIn(s)])
          /\ UNCHANGED <<busy, bad>>
  /\ UNCHANGED <<flash, torn>>

Fetch(t) ==
  /\ at[t] = "fetch"
  /\ Leave(t)
  /\ UNCHANGED <<flash, torn>>
----------------------------------------------------------------------------
(* Power is lost, in the middle of whatever the holder was doing to the     *)
(* flash; the flag and the commands are gone.                               *)
InFlight(t) ==
  LET s == job[t].slot  f == job[t].file IN
  \/ at[t] = "erase" /\ CutUnit(s, job[t].unit) /\ torn' = [torn EXCEPT ![s] = TRUE]
  \/ /\ at[t] = "receive"
     /\ \E last \in job[t].got .. job[t].got + 1 :
          last <= Length[f] /\ CutBlocks(s, f, job[t].put + 1, last)
     /\ UNCHANGED <<magic, body, torn>>
  \/ /\ at[t] = "body"
     /\ \E p \in CutPage(body[s], <<job[t].name, f>>) : body' = [body EXCEPT ![s] = p]
     /\ UNCHANGED <<magic, data, torn>>
  \/ /\ at[t] = "magic"
     /\ \E p \in CutPage(magic[s], Magic) : magic' = [magic EXCEPT ![s] = p]
     /\ UNCHANGED <<body, data, torn>>
  \/ at[t] = "eraseHeader" /\ CutHeader(s) /\ UNCHANGED <<data, torn>>
  \/ at[t] = "raw" /\ RawEffect(s)

PowerLoss ==
  /\ busy
  /\ (\E t \in Tasks : InFlight(t)) \/ UNCHANGED <<flash, torn>>
  /\ busy' = FALSE /\ bad' = FALSE
  /\ at' = [t \in Tasks |-> "idle"]
  /\ job' = [t \in Tasks |-> NoJob]
  /\ console' = [t \in Tasks |-> 0]
----------------------------------------------------------------------------
(* A part that has never held a blob: erased, or somebody else's data.      *)
Init ==
  /\ magic \in [Slots -> {Erased, Garbage}] /\ body = magic
  /\ data = [s \in Slots |-> [i \in 1..Blocks |-> magic[s]]]
  /\ busy = FALSE /\ bad = FALSE
  /\ at = [t \in Tasks |-> "idle"]
  /\ job = [t \in Tasks |-> NoJob]
  /\ console = [t \in Tasks |-> 0]
  /\ torn = [s \in Slots |-> FALSE]

Start(t) ==
  \/ \E n \in Names, want \in Slots \cup {Unnamed}, bg \in BOOLEAN : Write(t, n, want, bg)
  \/ \E s \in Slots : BlobErase(t, s) \/ Raw(t, s)
  \/ \E n \in Names : Prepare(t, n)

Proceed(t) ==
  \/ Choose(t) \/ EraseUnit(t) \/ ClaimConsole(t) \/ Offer(t) \/ Block(t)
  \/ TransferFails(t) \/ TransferEnds(t) \/ WriteBody(t) \/ Verify(t) \/ WriteMagic(t)
  \/ EraseHeader(t) \/ RawRun(t) \/ Find(t) \/ Fetch(t)

Next == (\E t \in Tasks : Start(t) \/ Proceed(t)) \/ PowerLoss

Spec == Init /\ [][Next]_vars

----------------------------------------------------------------------------
(* Shape of the state; a console's lock is held at most once.               *)
TypeOK ==
  /\ magic \in [Slots -> MagicPages]
  /\ body \in [Slots -> BodyPages]
  /\ data \in [Slots -> [1..Blocks -> DataPages]]
  /\ busy \in BOOLEAN /\ bad \in BOOLEAN
  /\ at \in [Tasks -> Places]
  /\ job \in [Tasks -> Jobs]
  /\ console \in [Tasks -> 0..1]
  /\ torn \in [Slots -> BOOLEAN]

(* A read-back disagrees only when the flash failed or lied: with every     *)
(* erase and program of the write as reported, the payload is the stream.   *)
ReadsBack ==
  \A t \in Tasks :
    at[t] \in {"body", "verify"} /\ ~bad => Holds(job[t].slot, job[t].file)

(* A slot that reads valid holds the file its header describes, after any   *)
(* failures and power losses -- unless an erase of it was cut short after   *)
(* its magic was written, or a raw `qspi` command was pointed into it.      *)
ValidMeansWhole == \A s \in Slots : Valid(s) /\ ~torn[s] => Holds(s, FileIn(s))

(* Two slots never read valid under one name.                               *)
UniqueNames == \A n \in Names : Cardinality(Matches(n)) <= 1

(* The header a load found and the bytes it reads belong to the same        *)
(* generation of the slot, so its CRC check refuses only what was damaged.  *)
FetchSeesItsBlob ==
  \A t \in Tasks : at[t] = "fetch" =>
    LET s == job[t].slot IN
    /\ Valid(s) /\ NameIn(s) = job[t].name /\ FileIn(s) = job[t].file
    /\ torn[s] \/ Holds(s, job[t].file)

(* `blob write` destroys no blob but the one stored under its own name, and *)
(* none at all from the background.                                         *)
OnlyItsOwn ==
  [][\A t \in Tasks, s \in Slots :
       at[t] = "erase" /\ job[t].slot = s /\ Valid(s) /\ ~Valid(s)' =>
         NameIn(s) = job[t].name /\ ~job[t].bg]_vars

============================================================================
