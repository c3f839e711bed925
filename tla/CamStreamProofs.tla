--------------------------- MODULE CamStreamProofs ---------------------------
(***************************************************************************)
(* What holds of the camera stream for any consoles, any number of holders *)
(* that join, and any size of the generations: a stream runs while it is   *)
(* held, a holder keeps its place, nn only ever joins a mode it can read,  *)
(* and `camera off` waits for the stream it stopped.                       *)
(***************************************************************************)
EXTENDS CamStream, TLAPS

(* `sdram test` has the memory to itself, and a stream that may come back  *)
(* has not used up its recoveries.                                         *)
Apart ==
  /\ scratch => ~active /\ ~recPending /\ holders = {}
  /\ active \/ recPending => rapid < GiveUp

Base == TypeOK /\ StreamIffHeld /\ Apart /\ JoinedModeReadable

(* The k-th generation after the first, over one wrap of the counter.      *)
GenAt(k) == IF FirstGen + k < GenSpace THEN FirstGen + k
                                       ELSE FirstGen + k - (GenSpace - 1)

(* A registration is told from every other by its generation, and a join's *)
(* ticket names none that the operator has made since.                     *)
TicketInv ==
  /\ tab.next = GenAt(regs)
  /\ \A h \in Joiners :
       \/ ticket[h].starter = NoGen
       \/ \E k \in 1..regs : ticket[h].starter = GenAt(k)
  /\ asked => \A h \in Joiners :
       ticket[h].starter # NoGen => ticket[h].starter # tab.gen[Manual]

PlaceInv == TicketInv /\ PlacesKept

(* The generations say which stream is meant.                              *)
StreamInv ==
  /\ streamGen = GenAt(streams) /\ doneGen = GenAt(ended)
  /\ active => streams >= 1
  /\ \A c \in Consoles :
       /\ off[c].at \in {"idle", "stop"} => off[c].nth = 0
       /\ off[c].at = "wait" =>
            \/ off[c].want = NoGen /\ off[c].nth = 0
            \/ off[c].want = GenAt(off[c].nth) /\ off[c].nth \in 1..streams
       /\ off[c].at = "power" => off[c].nth <= ended

-----------------------------------------------------------------------------
(* The holder table, operation by operation.                               *)

LEMMA GensAre ==
  /\ NoGen \in Gens /\ HalfSpace \in Nat /\ HalfSpace >= 2 /\ GenSpace = 2 * HalfSpace
  /\ \A g \in Gens : NextGen(g) \in Gens /\ NextGen(g) # NoGen
BY GenSpaceAssumption DEF Gens, GenSpace, NextGen, NoGen

LEMMA HoldersAre ==
  Manual \in Holders /\ Manual \notin Joiners /\ Joiners \subseteq Holders
  /\ Keepers = {Manual} /\ Holders \ Keepers = Joiners
BY HoldersAssumption DEF Holders, Keepers

(* A table whose entries only came and went.                               *)
LEMMA RegisterDoes ==
  ASSUME NEW t \in Tables, NEW h \in Holders
  PROVE  /\ Register(t, h) \in Tables
         /\ Register(t, h).gen = [t.gen EXCEPT ![h] = NextGen(t.next)]
         /\ Register(t, h).next = NextGen(t.next)
         /\ Register(t, h).claimed = t.claimed
         /\ Register(t, h).base = t.base
BY GensAre DEF Register, Tables

LEMMA ClaimDoes ==
  ASSUME NEW t \in Tables
  PROVE  LET a == StartClaim(t, {}) IN
         /\ a.t \in Tables /\ a.t.gen = t.gen /\ a.t.next = t.next
         /\ a.t.claimed /\ a.t.base = {} /\ a.rc = "start"
BY DEF StartClaim, Answer, Tables

(* cam_holders_add, where it is not refused.                               *)
LEMMA AddDoes ==
  ASSUME NEW t \in Tables, ~t.claimed, Add(t, Manual).rc \in {"start", "none"}
  PROVE  LET a == Add(t, Manual) IN
         /\ a.t \in Tables
         /\ a.t.gen = [t.gen EXCEPT ![Manual] = NextGen(t.next)]
         /\ a.t.next = NextGen(t.next)
         /\ a.rc = "start" <=> Who(t) = {}
         /\ a.rc = "start" => a.t.claimed /\ a.t.base = {}
         /\ a.rc = "none" => ~a.t.claimed
<1> DEFINE r == Register(t, Manual)
<1>1. /\ r \in Tables /\ r.gen = [t.gen EXCEPT ![Manual] = NextGen(t.next)]
      /\ r.next = NextGen(t.next) /\ ~r.claimed
  BY RegisterDoes, HoldersAre
<1>2. CASE In(t, Manual)
  <2>1. Add(t, Manual) = Answer(r, "none") /\ Who(t) # {}
    BY <1>2, HoldersAre DEF Add, Who
  <2>. QED
    BY <1>1, <2>1 DEF Answer
<1>3. CASE ~In(t, Manual) /\ Who(t) = {}
  <2>1. Add(t, Manual) = StartClaim(r, {})
    BY <1>3 DEF Add, Answer
  <2>. QED
    BY <1>1, <1>3, <2>1, ClaimDoes DEF Answer
<1>4. CASE ~In(t, Manual) /\ Who(t) # {}
  <2>1. Add(t, Manual) = Answer(r, "none")
    BY <1>4 DEF Add, Answer
  <2>. QED
    BY <1>1, <1>4, <2>1 DEF Answer
<1>5. QED
  BY <1>2, <1>3, <1>4

(* cam_holders_add_or_start, where it is not refused.                      *)
LEMMA AddOrStartDoes ==
  ASSUME NEW t \in Tables, ~t.claimed, NEW h \in Joiners,
         AddOrStart(t, h, Manual).rc \in {"start", "none"}
  PROVE  LET a == AddOrStart(t, h, Manual) IN
         /\ a.t \in Tables /\ a.tk \in Tickets
         /\ a.rc = "start" <=> Who(t) = {}
         /\ a.rc = "start" =>
              /\ a.t.claimed /\ a.t.base = {}
              /\ a.t.gen = [t.gen EXCEPT ![Manual] = NextGen(t.next),
                                         ![h] = NextGen(NextGen(t.next))]
              /\ a.t.next = NextGen(NextGen(t.next))
              /\ a.tk.starter = NextGen(t.next)
         /\ a.rc = "none" =>
              /\ ~a.t.claimed
              /\ a.t.gen = [t.gen EXCEPT ![h] = NextGen(t.next)]
              /\ a.t.next = NextGen(t.next)
              /\ a.tk.starter = NoGen
<1> DEFINE s == Register(t, Manual)
           b == Register(s, h)
           r == Register(t, h)
           a == AddOrStart(t, h, Manual)
<1>1. /\ r \in Tables /\ r.gen = [t.gen EXCEPT ![h] = NextGen(t.next)]
      /\ r.next = NextGen(t.next) /\ ~r.claimed
  BY RegisterDoes, HoldersAre
<1>2. /\ s \in Tables /\ s.gen = [t.gen EXCEPT ![Manual] = NextGen(t.next)]
      /\ s.next = NextGen(t.next) /\ ~s.claimed
  BY RegisterDoes, HoldersAre
<1>3. /\ b \in Tables /\ b.gen = [s.gen EXCEPT ![h] = NextGen(s.next)]
      /\ b.next = NextGen(s.next) /\ ~b.claimed
  BY <1>2, RegisterDoes, HoldersAre
<1>4. t.gen \in [Holders -> Gens] /\ t.next \in Gens /\ h \in Holders /\ h # Manual
  BY HoldersAre DEF Tables
<1>5. CASE Who(t) = {}
  <2> HIDE DEF s, b
  <2>1. /\ a.t = StartClaim(b, {}).t /\ a.rc = "start"
        /\ a.tk = [self |-> b.gen[h], starter |-> s.gen[Manual]]
    BY <1>5 DEF AddOrStart, StartClaim, Answer, s, b
  <2>2. s.gen[Manual] = NextGen(t.next) /\ b.gen[h] \in Gens
    <3>1. b.gen \in [Holders -> Gens]
      BY <1>3 DEF Tables
    <3>2. s.gen[Manual] = NextGen(t.next)
      BY <1>2, <1>4, HoldersAre
    <3>. QED
      BY <1>4, <3>1, <3>2
  <2>3. a.tk \in Tickets /\ a.tk.starter = NextGen(t.next)
    BY <1>2, <1>4, <2>1, <2>2, GensAre DEF Tickets
  <2>4. /\ a.t \in Tables /\ a.t.gen = b.gen /\ a.t.next = b.next
        /\ a.t.claimed /\ a.t.base = {}
    BY <1>3, <2>1, ClaimDoes
  <2>5. b.gen = [t.gen EXCEPT ![Manual] = NextGen(t.next),
                              ![h] = NextGen(NextGen(t.next))]
    BY <1>2, <1>3, <1>4
  <2>. QED
    BY <1>2, <1>3, <1>5, <2>1, <2>3, <2>4, <2>5
<1>6. CASE Who(t) # {}
  <2> HIDE DEF r
  <2>1. a.t = r /\ a.rc = "none"
    BY <1>6 DEF AddOrStart, Answer, r
  <2>2. a.tk = NoTicket \/ a.tk = [self |-> NextGen(t.next), starter |-> NoGen]
    BY <1>6 DEF AddOrStart, Answer
  <2>3. a.tk \in Tickets /\ a.tk.starter = NoGen
    BY <1>4, <2>2, GensAre DEF Tickets, NoTicket
  <2>. QED
    BY <1>1, <1>6, <2>1, <2>3
<1>7. QED
  BY <1>5, <1>6

LEMMA RemoveAtDoes ==
  ASSUME NEW t \in Tables, NEW h \in Holders
  PROVE  LET a == RemoveAt(t, h) IN
         /\ a.t \in Tables /\ a.t.gen = [t.gen EXCEPT ![h] = NoGen]
         /\ a.t.next = t.next /\ a.t.claimed = t.claimed
         /\ a.rc = IF Who(a.t) = {} THEN "stop" ELSE "none"
BY GensAre DEF RemoveAt, Answer, Tables

(* cam_holders_remove: gone or as it was, and "stop" for the last one.     *)
LEMMA RemoveDoes ==
  ASSUME NEW t \in Tables, ~t.claimed, NEW h \in Holders
  PROVE  LET a == Remove(t, h) IN
         /\ a.t \in Tables /\ a.t.next = t.next /\ ~a.t.claimed
         /\ \/ a.t = t /\ a.rc # "stop" /\ (a.rc = "in_use" <=> HeldBack(t, h) /\ In(t, h))
            \/ /\ a.t.gen = [t.gen EXCEPT ![h] = NoGen] /\ In(t, h) /\ ~HeldBack(t, h)
               /\ a.rc = IF Who(a.t) = {} THEN "stop" ELSE "none"
<1>1. CASE ~In(t, h) \/ HeldBack(t, h)
  BY <1>1 DEF Remove, Answer
<1>2. CASE In(t, h) /\ ~HeldBack(t, h)
  <2>1. PICK a : a = RemoveAt(t, h)
    OBVIOUS
  <2>2. Remove(t, h) = a
    BY <1>2, <2>1 DEF Remove
  <2>3. /\ a.t \in Tables /\ a.t.gen = [t.gen EXCEPT ![h] = NoGen]
        /\ a.t.next = t.next /\ a.t.claimed = t.claimed
        /\ a.rc = IF Who(a.t) = {} THEN "stop" ELSE "none"
    BY <2>1, RemoveAtDoes
  <2>. QED
    BY <1>2, <2>2, <2>3
<1>3. QED
  BY <1>1, <1>2

(* cam_holders_undo: the entries of the ticket, and "stop" for the last.   *)
LEMMA UndoDoes ==
  ASSUME NEW t \in Tables, ~t.claimed, NEW h \in Joiners, NEW tk \in Tickets
  PROVE  LET a == Undo(t, h, Manual, tk) IN
         /\ a.t \in Tables /\ a.t.next = t.next /\ ~a.t.claimed
         /\ \A x \in Holders : a.t.gen[x] # t.gen[x] =>
              /\ a.t.gen[x] = NoGen
              /\ x = h \/ (x = Manual /\ tk.starter # NoGen /\ t.gen[Manual] = tk.starter)
         /\ a.rc \in {"stop", "none"}
         /\ a.rc = "stop" => Who(a.t) = {}
         /\ a.rc = "none" => (Who(a.t) = {} <=> Who(t) = {})
<1> DEFINE z == Answer(t, "none")
           y == UndoOne(z, h, tk.self)
           a == UndoOne(y, Manual, tk.starter)
<1>1. h \in Holders /\ Manual \in Holders /\ h # Manual
  BY HoldersAre
<1>2. z.t = t /\ z.rc = "none"
  BY DEF Answer
<1>3. /\ y.t \in Tables /\ y.t.next = t.next /\ ~y.t.claimed
      /\ \/ y = z
         \/ y.t.gen = [t.gen EXCEPT ![h] = NoGen]
            /\ y.rc = IF Who(y.t) = {} THEN "stop" ELSE "none"
  <2>1. CASE y = z
    BY ONLY <1>2, <2>1, t \in Tables, ~t.claimed
  <2>2. CASE y = RemoveAt(t, h)
    <3>1. LET b == RemoveAt(t, h) IN
          /\ b.t \in Tables /\ b.t.gen = [t.gen EXCEPT ![h] = NoGen]
          /\ b.t.next = t.next /\ b.t.claimed = t.claimed
          /\ b.rc = IF Who(b.t) = {} THEN "stop" ELSE "none"
      BY ONLY <1>1, RemoveAtDoes, t \in Tables
    <3>. HIDE DEF y, z
    <3>. QED
      BY ONLY <2>2, <3>1, ~t.claimed
  <2>. QED
    BY <1>2, <2>1, <2>2 DEF UndoOne
<1>4. /\ y.rc \in {"stop", "none"}
      /\ y.rc = "stop" => Who(y.t) = {}
      /\ y.rc = "none" => (Who(y.t) = {} <=> Who(t) = {})
  <2>1. CASE y = z
    BY <1>2, <2>1
  <2>2. CASE y.t.gen = [t.gen EXCEPT ![h] = NoGen]
             /\ y.rc = IF Who(y.t) = {} THEN "stop" ELSE "none"
    BY <1>1, <2>2 DEF Who, In, Tables
  <2>. QED
    BY <1>3, <2>1, <2>2
<1>5. \A x \in Holders : y.t.gen[x] # t.gen[x] => y.t.gen[x] = NoGen /\ x = h
  BY <1>1, <1>2, <1>3 DEF Tables
<1>6. Undo(t, h, Manual, tk) = a
  BY DEF Undo
<1> HIDE DEF y
<1>7. CASE ~Undoable(y.t, Manual, tk.starter)
  BY <1>3, <1>4, <1>5, <1>6, <1>7 DEF UndoOne
<1>8. CASE Undoable(y.t, Manual, tk.starter)
  <2>1. /\ a.t \in Tables /\ a.t.gen = [y.t.gen EXCEPT ![Manual] = NoGen]
        /\ a.t.next = y.t.next /\ a.t.claimed = y.t.claimed
        /\ a.rc = IF Who(a.t) = {} THEN "stop" ELSE "none"
    BY <1>1, <1>3, <1>8, RemoveAtDoes DEF UndoOne
  <2>2. tk.starter # NoGen /\ y.t.gen[Manual] = tk.starter /\ y.t.gen[Manual] = t.gen[Manual]
    BY <1>1, <1>5, <1>8 DEF Undoable
  <2>3. Who(t) # {}
    BY <1>1, <2>2 DEF Who, In
  <2> HIDE DEF a
  <2>4. \A x \in Holders : a.t.gen[x] # t.gen[x] =>
          /\ a.t.gen[x] = NoGen
          /\ x = h \/ (x = Manual /\ tk.starter # NoGen /\ t.gen[Manual] = tk.starter)
    BY <1>1, <1>3, <1>5, <2>1, <2>2 DEF Tables
  <2>. QED
    BY <1>3, <1>6, <2>1, <2>3, <2>4
<1>9. QED
  BY <1>7, <1>8

LEMMA CommitDoes ==
  ASSUME NEW t \in Tables
  PROVE  /\ Commit(t) \in Tables /\ Commit(t).gen = t.gen /\ Commit(t).next = t.next
         /\ ~Commit(t).claimed
BY DEF Commit, Tables

LEMMA AbortDoes ==
  ASSUME NEW t \in Tables, t.base = {}
  PROVE  /\ Abort(t) \in Tables /\ Abort(t).next = t.next /\ ~Abort(t).claimed
         /\ Abort(t).gen = [h \in Holders |-> NoGen]
BY GensAre DEF Abort, Tables

LEMMA ClearDoes ==
  ASSUME NEW t \in Tables
  PROVE  /\ Clear(t) \in Tables /\ Clear(t).next = t.next /\ ~Clear(t).claimed
         /\ Clear(t).gen = [h \in Holders |-> NoGen]
BY GensAre DEF Clear, Tables

(* Whether anybody holds a table, and who.                                 *)
LEMMA HeldMeans ==
  ASSUME NEW t \in Tables
  PROVE  /\ Who(t) # {} <=> \E h \in Holders : t.gen[h] # NoGen
         /\ Who(t) \subseteq Holders
         /\ \A h \in Holders : h \in Who(t) <=> t.gen[h] # NoGen
BY DEF Who, In

LEMMA NobodyIn ==
  ASSUME NEW t \in Tables, t.gen = [h \in Holders |-> NoGen]
  PROVE  Who(t) = {}
BY DEF Who, In

LEMMA NeedersMean ==
  ASSUME NEW t \in Tables, NEW u \in Tables,
         \A h \in Joiners : t.gen[h] # NoGen <=> u.gen[h] # NoGen
  PROVE  Who(t) \ Keepers = Who(u) \ Keepers
<1>1. \A h : h \in Who(t) \ Keepers <=> h \in Who(u) \ Keepers
  BY HeldMeans, HoldersAre
<1>2. QED
  BY <1>1

-----------------------------------------------------------------------------
(* The types of what a start of the stream may change, and of the rest.    *)
StreamType ==
  /\ active \in BOOLEAN /\ stopReq \in BOOLEAN /\ err \in BOOLEAN
  /\ recPending \in BOOLEAN /\ rapid \in 0 .. GiveUp
  /\ streamGen \in Gens /\ doneGen \in Gens
  /\ colorbar \in BOOLEAN /\ mode \in Modes /\ powered \in BOOLEAN
  /\ scratch \in BOOLEAN /\ startSem \in Nat
  /\ streams \in 0 .. MaxStreams /\ ended \in 0 .. streams

RestType ==
  /\ lost \subseteq Holders /\ producer \in ProducerPlaces
  /\ off \in [Consoles -> [at : OffPlaces, want : Gens, nth : Nat]]
  /\ joiner \in [Joiners -> {"out", "joined", "running"}]
  /\ ticket \in [Joiners -> Tickets]
  /\ asked \in BOOLEAN /\ regs \in 0 .. MaxRegs

LEMMA TypesSplit == TypeOK <=> tab \in Tables /\ StreamType /\ RestType
BY DEF TypeOK, StreamType, RestType

(* What is left of the invariant when the table and the switches are known. *)
Switches ==
  /\ holders # {} <=> ((active /\ ~stopReq) \/ recPending)
  /\ active => ~recPending
  /\ Apart /\ JoinedModeReadable

LEMMA BaseIs ==
  Base <=> tab \in Tables /\ StreamType /\ RestType /\ Switches /\ ~tab.claimed
BY TypesSplit DEF Base, Switches, StreamIffHeld

(* A start that works leaves a running stream and nothing pending; one     *)
(* that does not leaves none, unless `sdram test` has the memory.          *)
LEMMA StreamStartDoes ==
  ASSUME StreamType, NEW cb \in BOOLEAN, NEW outcome \in Outcomes, StreamStart(cb, outcome),
         recPending' \in BOOLEAN, rapid' \in 0 .. GiveUp
  PROVE  /\ StreamType' /\ mode' = mode /\ scratch' = scratch
         /\ outcome = "ok" => active' /\ ~stopReq' /\ ~scratch
         /\ outcome # "ok" => active' = active
<1>1. streams \in 0 .. MaxStreams /\ ended \in 0 .. streams /\ MaxStreams \in Nat
      /\ streamGen \in Gens /\ startSem \in Nat
  BY StreamAssumption DEF StreamType
<1>2. /\ streams' \in 0 .. MaxStreams /\ ended' \in 0 .. streams'
      /\ streamGen' \in Gens /\ startSem' \in Nat
  <2>1. CASE outcome = "ok"
    BY <1>1, <2>1, GensAre DEF StreamStart
  <2>2. CASE outcome # "ok"
    BY <1>1, <2>2 DEF StreamStart
  <2>. QED
    BY <2>1, <2>2
<1>3. active' \in BOOLEAN /\ stopReq' \in BOOLEAN /\ err' \in BOOLEAN
  BY DEF StreamStart, StreamType
<1>4. colorbar' \in BOOLEAN /\ mode' = mode /\ scratch' = scratch /\ doneGen' = doneGen
  BY DEF StreamStart, StreamType
<1>5. powered' \in BOOLEAN
  BY DEF StreamStart, StreamType
<1>6. StreamType'
  BY <1>2, <1>3, <1>4, <1>5 DEF StreamType
<1>7. outcome = "ok" => active' /\ ~stopReq' /\ ~scratch
  BY DEF StreamStart
<1>8. outcome # "ok" => active' = active
  BY DEF StreamStart
<1>9. QED
  BY <1>4, <1>6, <1>7, <1>8

LEMMA HoldersStartDoes ==
  ASSUME Base, NEW cb \in BOOLEAN, NEW outcome \in Outcomes, HoldersStart(cb, outcome)
  PROVE  /\ StreamType' /\ mode' = mode /\ scratch' = scratch
         /\ outcome = "ok" => /\ active' /\ ~stopReq' /\ ~recPending' /\ ~scratch
                              /\ rapid' < GiveUp
         /\ outcome # "ok" => /\ ~active'
                              /\ scratch \/ ~recPending'
                              /\ recPending' => recPending /\ rapid' = rapid
<1>1. StreamType /\ Apart /\ (active => ~recPending)
  BY BaseIs DEF Switches
<1>2. CASE active /\ outcome = "ok" /\ stopReq' = FALSE
           /\ UNCHANGED <<active, err, recPending, rapid, streamGen, doneGen, colorbar,
                          mode, powered, scratch, startSem, streams, ended>>
  <2>1. StreamType'
    BY <1>1, <1>2 DEF StreamType
  <2>. QED
    BY <1>1, <1>2, <2>1 DEF Apart
<1>3. CASE ~active /\ scratch /\ outcome = "refused"
           /\ UNCHANGED <<active, stopReq, err, recPending, rapid, streamGen, doneGen,
                          colorbar, mode, powered, scratch, startSem, streams, ended>>
  <2>1. StreamType'
    BY <1>1, <1>3 DEF StreamType
  <2>. QED
    BY <1>3, <2>1
<1>4. CASE ~active /\ ~scratch /\ recPending' = FALSE /\ rapid' = 0 /\ StreamStart(cb, outcome)
  <2>1. rapid' \in 0 .. GiveUp /\ rapid' < GiveUp /\ recPending' \in BOOLEAN
    <3>1. rapid' \in 0 .. GiveUp /\ rapid' < GiveUp
      BY <1>4, StreamAssumption
    <3>2. recPending' \in BOOLEAN
      BY <1>4
    <3>. QED
      BY <3>1, <3>2
  <2>2. /\ StreamType' /\ mode' = mode /\ scratch' = scratch
        /\ outcome = "ok" => active' /\ ~stopReq' /\ ~scratch
        /\ outcome # "ok" => active' = active
    BY <1>1, <1>4, <2>1, StreamStartDoes
  <2>. QED
    BY <1>4, <2>1, <2>2
<1>5. QED
  BY <1>2, <1>3, <1>4 DEF HoldersStart

(* A step that leaves the stream as it is.                                 *)
LEMMA StreamKeptDoes ==
  ASSUME StreamType, StreamKept
  PROVE  StreamType'
BY DEF StreamKept, StreamType

(* A running stream that somebody now holds; and one that is down, unheld. *)
LEMMA HeldNow ==
  ASSUME tab' \in Tables, StreamType', RestType', ~tab'.claimed, holders' # {},
         active', ~stopReq', ~recPending', ~scratch', rapid' < GiveUp, mode' \in JoinModes \/ needers' = {}
  PROVE  Base'
BY BaseIs DEF Base, TypeOK, StreamType, RestType, StreamIffHeld, Apart, JoinedModeReadable

LEMMA UnheldNow ==
  ASSUME tab' \in Tables, StreamType', RestType', ~tab'.claimed, holders' = {},
         ~active' \/ stopReq', ~recPending', active' => rapid' < GiveUp /\ ~scratch'
  PROVE  Base'
<1>1. needers' = {}
  BY DEF needers
<1>2. QED
  BY <1>1 DEF Base, TypeOK, StreamType, RestType, StreamIffHeld, Apart, JoinedModeReadable

LEMMA LoseDoes ==
  ASSUME NEW t \in Tables, Lose(t), lost \subseteq Holders
  PROVE  tab' \in Tables /\ ~tab'.claimed /\ holders' = {} /\ lost' \subseteq Holders
         /\ asked' = FALSE /\ tab'.next = t.next
BY ClearDoes, NobodyIn, HeldMeans DEF Lose, holders

-----------------------------------------------------------------------------
(* The operator and the joiners.                                           *)

(* A registration is counted, and nothing else of the rest changes.        *)
LEMMA RestKept ==
  ASSUME RestType, lost' \subseteq Holders, regs' \in 0 .. MaxRegs, asked' \in BOOLEAN,
         UNCHANGED <<producer, off, joiner, ticket>>
  PROVE  RestType'
BY DEF RestType

LEMMA RegistersDoes ==
  ASSUME RestType, NEW n \in Nat, Registers(n)
  PROVE  regs' \in 0 .. MaxRegs /\ regs' = regs + n
BY StreamAssumption DEF RestType, Registers

LEMMA StartFreshKeeps ==
  ASSUME Base, NEW cb \in BOOLEAN, NEW outcome \in Outcomes, StartFresh(cb, outcome)
  PROVE  Base'
<1> DEFINE a == Add(tab, Manual)
<1>1. /\ tab \in Tables /\ ~tab.claimed /\ RestType /\ Switches
      /\ HoldersStart(cb, outcome) /\ a.rc = "start"
  BY BaseIs DEF StartFresh
<1>2. /\ a.t \in Tables /\ a.t.base = {}
      /\ a.t.gen = [tab.gen EXCEPT ![Manual] = NextGen(tab.next)]
      /\ holders = {}
  BY <1>1, AddDoes DEF holders
<1>3. /\ StreamType' /\ mode' = mode /\ scratch' = scratch
      /\ outcome = "ok" => /\ active' /\ ~stopReq' /\ ~recPending' /\ ~scratch
                           /\ rapid' < GiveUp
      /\ outcome # "ok" => /\ ~active'
                           /\ scratch \/ ~recPending'
                           /\ recPending' => recPending /\ rapid' = rapid
  BY <1>1, HoldersStartDoes
<1>4. ~recPending
  BY <1>1, <1>2 DEF Switches
<1>5. RestType'
  <2>1. lost' \subseteq Holders /\ asked' \in BOOLEAN
    BY <1>1 DEF StartFresh, Forget, RestType
  <2>2. regs' \in 0 .. MaxRegs
    BY <1>1, RegistersDoes DEF StartFresh
  <2>. QED
    BY <1>1, <2>1, <2>2, RestKept DEF StartFresh
<1>6. CASE outcome = "ok"
  <2>1. tab' = Commit(a.t)
    BY <1>6 DEF StartFresh
  <2>2. tab' \in Tables /\ ~tab'.claimed /\ tab'.gen = a.t.gen
    BY <1>2, <2>1, CommitDoes
  <2>3. tab'.gen[Manual] # NoGen
    BY <1>1, <1>2, <2>2, GensAre, HoldersAre DEF Tables
  <2>4. holders' # {} /\ needers' = {}
    <3>1. \A h \in Joiners : tab'.gen[h] = NoGen
      BY <1>1, <1>2, <2>2, HoldersAre, HeldMeans DEF Tables, holders
    <3>. QED
      BY <2>2, <2>3, <3>1, HeldMeans, HoldersAre DEF holders, needers
  <2>. QED
    BY <1>3, <1>5, <1>6, <2>2, <2>4, HeldNow
<1>7. CASE outcome # "ok"
  <2>1. tab' = Abort(a.t)
    BY <1>7 DEF StartFresh
  <2>2. tab' \in Tables /\ ~tab'.claimed /\ holders' = {}
    BY <1>2, <2>1, AbortDoes, NobodyIn DEF holders
  <2>. QED
    BY <1>3, <1>4, <1>5, <1>7, <2>2, UnheldNow
<1>8. QED
  BY <1>6, <1>7

LEMMA StartOtherTestKeeps ==
  ASSUME Base, NEW cb \in BOOLEAN, StartOtherTest(cb)
  PROVE  Base'
<1> DEFINE a == Add(tab, Manual)
<1>1. /\ tab \in Tables /\ ~tab.claimed /\ RestType /\ StreamType /\ Switches
      /\ a.rc = "start" /\ StreamKept /\ tab' = Abort(a.t) /\ active
  BY BaseIs DEF StartOtherTest
<1>2. a.t \in Tables /\ a.t.base = {} /\ holders = {}
  BY <1>1, AddDoes DEF holders
<1>3. tab' \in Tables /\ ~tab'.claimed /\ holders' = {}
  BY <1>1, <1>2, AbortDoes, NobodyIn DEF holders
<1>4. StreamType'
  BY <1>1, StreamKeptDoes
<1>5. RestType'
  <2>1. regs' \in 0 .. MaxRegs
    BY <1>1, RegistersDoes DEF StartOtherTest
  <2>. QED
    BY <1>1, <2>1, RestKept DEF StartOtherTest, RestType
<1>6. (~active' \/ stopReq') /\ ~recPending' /\ (active' => rapid' < GiveUp /\ ~scratch')
  BY <1>1, <1>2 DEF Switches, Apart, StreamKept
<1>7. QED
  BY <1>3, <1>4, <1>5, <1>6, UnheldNow

LEMMA StartHeldKeeps ==
  ASSUME Base, NEW cb \in BOOLEAN, StartHeld(cb)
  PROVE  Base'
<1> DEFINE a == Add(tab, Manual)
<1>1. /\ tab \in Tables /\ ~tab.claimed /\ RestType /\ StreamType /\ Switches
      /\ a.rc = "none" /\ StreamKept /\ active
  BY BaseIs DEF StartHeld
<1>2. /\ a.t \in Tables /\ ~a.t.claimed /\ holders # {}
      /\ a.t.gen = [tab.gen EXCEPT ![Manual] = NextGen(tab.next)]
  BY <1>1, AddDoes DEF holders
<1>3. a.t.gen[Manual] # NoGen /\ \A h \in Joiners : a.t.gen[h] = tab.gen[h]
  BY <1>1, <1>2, GensAre, HoldersAre DEF Tables
<1>4. /\ tab' \in Tables /\ ~tab'.claimed
      /\ \A h \in Joiners : tab'.gen[h] = tab.gen[h]
      /\ tab' = a.t \/ (tab'.gen[Manual] = NoGen /\ ~In(tab, Manual))
  <2>1. CASE tab' = a.t
    BY <1>2, <1>3, <2>1
  <2>2. CASE tab' = Remove(a.t, Manual).t /\ ~In(tab, Manual)
    <3>1. /\ tab' \in Tables /\ ~tab'.claimed
          /\ tab' = a.t \/ tab'.gen = [a.t.gen EXCEPT ![Manual] = NoGen]
      BY <1>2, <2>2, RemoveDoes, HoldersAre
    <3>. QED
      BY <1>2, <1>3, <2>2, <3>1, HoldersAre DEF Tables
  <2>. QED
    BY <2>1, <2>2 DEF StartHeld
<1>5. holders' # {} /\ needers' = needers
  <2>1. needers' = needers
    BY <1>1, <1>4, NeedersMean DEF needers, holders
  <2>2. CASE tab' = a.t
    BY <1>3, <1>4, <2>1, <2>2, HeldMeans, HoldersAre DEF holders
  <2>3. CASE tab'.gen[Manual] = NoGen /\ ~In(tab, Manual)
    <3>1. \E h \in Joiners : tab.gen[h] # NoGen
      BY <1>1, <1>2, <2>3, HeldMeans, HoldersAre DEF holders, In, Holders
    <3>. QED
      BY <1>4, <2>1, <3>1, HeldMeans, HoldersAre DEF holders
  <2>. QED
    BY <1>4, <2>1, <2>2, <2>3
<1>6. RestType'
  <2>1. regs' \in 0 .. MaxRegs
    BY <1>1, RegistersDoes DEF StartHeld
  <2>2. lost' \subseteq Holders /\ asked' \in BOOLEAN
    BY <1>1 DEF StartHeld, Forget, RestType
  <2>. QED
    BY <1>1, <2>1, <2>2, RestKept DEF StartHeld
<1>7. active' /\ ~stopReq' /\ ~recPending' /\ ~scratch' /\ rapid' < GiveUp
  BY <1>1, <1>2 DEF Switches, Apart, StreamKept
<1>8. mode' \in JoinModes \/ needers' = {}
  BY <1>1, <1>5 DEF Switches, JoinedModeReadable, StreamKept
<1>9. QED
  BY <1>1, <1>4, <1>5, <1>6, <1>7, <1>8, StreamKeptDoes, HeldNow

LEMMA StartDownKeeps ==
  ASSUME Base, NEW cb \in BOOLEAN, NEW outcome \in Outcomes, StartDown(cb, outcome)
  PROVE  Base'
<1> DEFINE a == Add(tab, Manual)
<1>1. /\ tab \in Tables /\ ~tab.claimed /\ RestType /\ Switches
      /\ HoldersStart(cb, outcome) /\ a.rc = "none"
  BY BaseIs DEF StartDown
<1>2. /\ a.t \in Tables /\ ~a.t.claimed /\ holders # {}
      /\ a.t.gen = [tab.gen EXCEPT ![Manual] = NextGen(tab.next)]
  BY <1>1, AddDoes DEF holders
<1>3. /\ StreamType' /\ mode' = mode /\ scratch' = scratch
      /\ outcome = "ok" => /\ active' /\ ~stopReq' /\ ~recPending' /\ ~scratch
                           /\ rapid' < GiveUp
      /\ outcome # "ok" => /\ ~active'
                           /\ scratch \/ ~recPending'
                           /\ recPending' => recPending /\ rapid' = rapid
  BY <1>1, HoldersStartDoes
<1>4. ~scratch
  BY <1>1, <1>2 DEF Switches, Apart
<1>5. regs' \in 0 .. MaxRegs
  BY <1>1, RegistersDoes DEF StartDown
<1>6. CASE outcome = "ok"
  <2>1. tab' = a.t /\ lost' \subseteq Holders /\ asked' \in BOOLEAN
    BY <1>1, <1>6 DEF StartDown, Forget, RestType
  <2>2. a.t.gen[Manual] # NoGen /\ \A h \in Joiners : a.t.gen[h] = tab.gen[h]
    BY <1>1, <1>2, GensAre, HoldersAre DEF Tables
  <2>3. holders' # {} /\ needers' = needers
    <3>1. holders' # {}
      BY <1>2, <2>1, <2>2, HeldMeans, HoldersAre DEF holders
    <3>2. needers' = needers
      BY <1>1, <1>2, <2>1, <2>2, NeedersMean DEF holders, needers
    <3>. QED
      BY <3>1, <3>2
  <2>4. mode' \in JoinModes \/ needers' = {}
    BY <1>1, <1>3, <2>3 DEF Switches, JoinedModeReadable
  <2>5. RestType'
    BY <1>1, <1>5, <2>1, RestKept DEF StartDown
  <2>. QED
    BY <1>2, <1>3, <1>4, <1>6, <2>1, <2>3, <2>4, <2>5, HeldNow
<1>7. CASE outcome # "ok"
  <2>1. Lose(a.t) /\ lost \subseteq Holders
    BY <1>1, <1>7 DEF StartDown, RestType
  <2>2. tab' \in Tables /\ ~tab'.claimed /\ holders' = {} /\ lost' \subseteq Holders
        /\ asked' = FALSE
    BY <1>2, <2>1, LoseDoes
  <2>3. RestType'
    BY <1>1, <1>5, <2>2, RestKept DEF StartDown
  <2>. QED
    BY <1>3, <1>4, <1>7, <2>2, <2>3, UnheldNow
<1>8. QED
  BY <1>6, <1>7


-----------------------------------------------------------------------------
(* Letting go.                                                             *)

(* A step after which the stream is as held as before.                     *)
LEMMA SwitchesKept ==
  ASSUME Base, tab' \in Tables, ~tab'.claimed, StreamType', RestType',
         holders' = {} <=> holders = {},
         UNCHANGED <<active, stopReq, recPending, scratch, rapid>>,
         mode' \in JoinModes \/ (mode' = mode /\ needers' \subseteq needers)
  PROVE  Base'
<1>1. JoinedModeReadable'
  BY DEF Base, JoinedModeReadable
<1>2. Apart' /\ StreamIffHeld'
  BY DEF Base, Apart, StreamIffHeld
<1>3. TypeOK'
  BY DEF TypeOK, StreamType, RestType
<1>4. QED
  BY <1>1, <1>2, <1>3 DEF Base

(* A step that touches neither the table nor the switches.                 *)
LEMMA TableKept ==
  ASSUME Base, StreamType', RestType',
         UNCHANGED <<tab, active, stopReq, recPending, scratch, rapid>>,
         mode' = mode \/ mode' \in JoinModes
  PROVE  Base'
<1>1. tab' \in Tables /\ ~tab'.claimed /\ holders' = holders /\ needers' = needers
  BY BaseIs DEF holders, needers
<1>2. QED
  BY <1>1, SwitchesKept

(* An accepted stop leaves nobody: whoever else held it would refuse it.   *)
LEMMA StopFrees ==
  ASSUME Base, StopAccepted
  PROVE  tab' \in Tables /\ ~tab'.claimed /\ tab'.next = tab.next /\ holders' = {}
<1> DEFINE a == Remove(tab, Manual)
<1>1. /\ tab \in Tables /\ ~tab.claimed /\ a.rc # "in_use" /\ tab' = a.t
      /\ In(tab, Manual) \/ holders = {}
  BY BaseIs DEF StopAccepted, StopRefused
<1>2. CASE ~In(tab, Manual)
  <2>1. a.t = tab /\ holders = {}
    BY <1>1, <1>2 DEF Remove, Answer
  <2>. QED
    BY <1>1, <2>1 DEF holders
<1>3. CASE In(tab, Manual)
  <2>1. ~HeldBack(tab, Manual)
    BY <1>1, <1>3 DEF Remove, Answer
  <2>2. /\ tab' \in Tables /\ ~tab'.claimed /\ tab'.next = tab.next
        /\ tab'.gen = [tab.gen EXCEPT ![Manual] = NoGen]
    BY <1>1, <1>3, <2>1, HoldersAre, RemoveAtDoes DEF Remove
  <2>3. \A h \in Joiners : tab.gen[h] = NoGen
    BY <1>1, <2>1, HoldersAre, HeldMeans DEF HeldBack
  <2>4. \A h \in Holders : tab'.gen[h] = NoGen
    BY <1>1, <2>2, <2>3, HoldersAre DEF Tables, Holders
  <2>. QED
    BY <2>2, <2>4, HeldMeans DEF holders
<1>4. QED
  BY <1>2, <1>3

LEMMA StopKeeps ==
  ASSUME Base, StopAccepted, RestType'
  PROVE  Base'
<1>1. tab' \in Tables /\ ~tab'.claimed /\ holders' = {}
  BY StopFrees
<1>2. StreamType'
  <2>1. stopReq' \in BOOLEAN /\ recPending' \in BOOLEAN
    BY BaseIs DEF StopAccepted, HoldersStop, StreamType
  <2>. QED
    BY <2>1, BaseIs DEF StopAccepted, StreamType
<1>3. (~active' \/ stopReq') /\ ~recPending' /\ (active' => rapid' < GiveUp /\ ~scratch')
  BY BaseIs DEF StopAccepted, HoldersStop, Switches, Apart
<1>4. QED
  BY <1>1, <1>2, <1>3, UnheldNow

(* camera_stream_leave() and the undo of a join: entries only go, and the  *)
(* last one out says so.                                                   *)
LEMMA LeavesKeeps ==
  ASSUME Base, NEW a, Leaves(a), RestType',
         a.t \in Tables, ~a.t.claimed,
         \A x \in Holders : a.t.gen[x] # tab.gen[x] => a.t.gen[x] = NoGen,
         a.rc = "stop" => Who(a.t) = {},
         a.rc # "stop" => (Who(a.t) = {} <=> Who(tab) = {})
  PROVE  Base'
<1>1. tab' = a.t /\ tab' \in Tables /\ ~tab'.claimed /\ tab \in Tables
  BY BaseIs DEF Leaves
<1>2. StreamType'
  <2>1. stopReq' \in BOOLEAN /\ recPending' \in BOOLEAN
    BY BaseIs DEF Leaves, HoldersStop, StreamType
  <2>. QED
    BY <2>1, BaseIs DEF Leaves, StreamType
<1>3. CASE a.rc = "stop"
  <2>1. (~active' \/ stopReq') /\ ~recPending' /\ (active' => rapid' < GiveUp /\ ~scratch')
    BY <1>3, BaseIs DEF Leaves, HoldersStop, Switches, Apart
  <2>2. holders' = {}
    BY <1>1, <1>3 DEF holders
  <2>. QED
    BY <1>1, <1>2, <2>1, <2>2, UnheldNow
<1>4. CASE a.rc # "stop"
  <2>1. UNCHANGED <<active, stopReq, recPending, scratch, rapid, mode>>
    BY <1>4 DEF Leaves
  <2>2. holders' = {} <=> holders = {}
    BY <1>1, <1>4 DEF holders
  <2>3. needers' \subseteq needers
    BY <1>1, HeldMeans DEF holders, needers
  <2>. QED
    BY <1>1, <1>2, <2>1, <2>2, <2>3, SwitchesKept
<1>5. QED
  BY <1>3, <1>4

(* What leaves the table when a joiner leaves.                             *)
LEMMA JoinerGoes ==
  ASSUME NEW t \in Tables, ~t.claimed, NEW h \in Joiners
  PROVE  LET a == Remove(t, h) IN
         /\ a.t \in Tables /\ a.t.next = t.next /\ ~a.t.claimed
         /\ \A x \in Holders : a.t.gen[x] # t.gen[x] => a.t.gen[x] = NoGen /\ x = h
         /\ a.rc = "stop" => Who(a.t) = {}
         /\ a.rc # "stop" => (Who(a.t) = {} <=> Who(t) = {})
<1>1. h \in Holders /\ ~HeldBack(t, h)
  BY HoldersAre DEF HeldBack
<1>2. CASE ~In(t, h)
  BY <1>2 DEF Remove, Answer
<1>3. CASE In(t, h)
  <2>1. Who(t) # {}
    BY <1>1, <1>3 DEF Who
  <2>2. Remove(t, h) = RemoveAt(t, h)
    BY <1>1, <1>3 DEF Remove
  <2> DEFINE a == RemoveAt(t, h)
  <2>3. /\ a.t \in Tables /\ a.t.gen = [t.gen EXCEPT ![h] = NoGen]
        /\ a.t.next = t.next /\ ~a.t.claimed
        /\ a.rc = IF Who(a.t) = {} THEN "stop" ELSE "none"
    BY <1>1, RemoveAtDoes
  <2> HIDE DEF a
  <2>4. \A x \in Holders : a.t.gen[x] # t.gen[x] => a.t.gen[x] = NoGen /\ x = h
    BY <1>1, <2>3 DEF Tables
  <2>. QED
    BY <2>1, <2>2, <2>3, <2>4 DEF a
<1>4. QED
  BY <1>2, <1>3

LEMMA LeaveKeeps ==
  ASSUME Base, NEW h \in Joiners, Leave(h)
  PROVE  Base'
<1> DEFINE a == Remove(tab, h)
<1>1. tab \in Tables /\ ~tab.claimed /\ RestType /\ Leaves(a)
  BY BaseIs DEF Leave
<1>2. RestType'
  <2>1. joiner' \in [Joiners -> {"out", "joined", "running"}]
    BY <1>1 DEF Leave, RestType
  <2>. QED
    BY <1>1, <2>1 DEF Leave, Leaves, RestType
<1> HIDE DEF a
<1>3. /\ a.t \in Tables /\ ~a.t.claimed
      /\ \A x \in Holders : a.t.gen[x] # tab.gen[x] => a.t.gen[x] = NoGen
      /\ a.rc = "stop" => Who(a.t) = {}
      /\ a.rc # "stop" => (Who(a.t) = {} <=> Who(tab) = {})
  BY <1>1, JoinerGoes DEF a
<1>4. QED
  BY <1>1, <1>2, <1>3, LeavesKeeps

LEMMA JoinUndoneKeeps ==
  ASSUME Base, NEW h \in Joiners, JoinUndone(h)
  PROVE  Base'
<1> DEFINE a == Undo(tab, h, Manual, ticket[h])
<1>1. tab \in Tables /\ ~tab.claimed /\ RestType /\ Leaves(a) /\ ticket[h] \in Tickets
  BY BaseIs DEF JoinUndone, RestType
<1>2. RestType'
  <2>1. joiner' \in [Joiners -> {"out", "joined", "running"}]
    BY <1>1 DEF JoinUndone, RestType
  <2>2. ticket' \in [Joiners -> Tickets]
    BY <1>1, GensAre DEF JoinUndone, RestType, Tickets, NoTicket
  <2>. QED
    BY <1>1, <2>1, <2>2 DEF JoinUndone, Leaves, RestType
<1> HIDE DEF a
<1>3. /\ a.t \in Tables /\ ~a.t.claimed
      /\ \A x \in Holders : a.t.gen[x] # tab.gen[x] => a.t.gen[x] = NoGen
      /\ a.rc = "stop" => Who(a.t) = {}
      /\ a.rc # "stop" => (Who(a.t) = {} <=> Who(tab) = {})
  <2>1. tab \in Tables /\ ~tab.claimed /\ ticket[h] \in Tickets
    BY <1>1
  <2>2. LET z == Undo(tab, h, Manual, ticket[h]) IN
        /\ z.t \in Tables /\ ~z.t.claimed
        /\ \A x \in Holders : z.t.gen[x] # tab.gen[x] => z.t.gen[x] = NoGen
        /\ z.rc \in {"stop", "none"} /\ (z.rc = "stop" => Who(z.t) = {})
        /\ z.rc = "none" => (Who(z.t) = {} <=> Who(tab) = {})
    BY ONLY <2>1, UndoDoes, h \in Joiners
  <2>. QED
    BY ONLY <2>2 DEF a
<1>4. QED
  BY <1>1, <1>2, <1>3, LeavesKeeps

LEMMA JoinKeptKeeps ==
  ASSUME Base, NEW h \in Joiners, JoinKept(h)
  PROVE  Base'
<1>1. RestType /\ StreamType
  BY BaseIs
<1>2. RestType'
  <2>1. joiner' \in [Joiners -> {"out", "joined", "running"}]
    BY <1>1 DEF JoinKept, RestType
  <2>2. ticket' \in [Joiners -> Tickets]
    BY <1>1, GensAre DEF JoinKept, RestType, Tickets, NoTicket
  <2>. QED
    BY <1>1, <2>1, <2>2 DEF JoinKept, RestType, boardVars, historyVars
<1>3. StreamType'
  BY <1>1 DEF JoinKept, StreamType, boardVars, historyVars
<1>4. QED
  BY <1>2, <1>3, TableKept DEF JoinKept, boardVars

-----------------------------------------------------------------------------
(* Joining.                                                                *)

LEMMA JoinTypes ==
  ASSUME Base, NEW h \in Joiners, NEW outcome \in Outcomes, Join(h, outcome),
         AddOrStart(tab, h, Manual).rc \in {"start", "none"}
  PROVE  RestType'
<1> DEFINE a == AddOrStart(tab, h, Manual)
<1>1. tab \in Tables /\ ~tab.claimed /\ RestType
  BY BaseIs
<1>2. a.tk \in Tickets /\ NoTicket \in Tickets
  BY <1>1, AddOrStartDoes, GensAre DEF Tickets, NoTicket
<1> HIDE DEF a
<1>3. joiner' \in [Joiners -> {"out", "joined", "running"}]
  BY <1>1 DEF Join, RestType
<1>4. ticket' \in [Joiners -> Tickets]
  BY <1>1, <1>2 DEF Join, RestType, a
<1>5. regs' \in 0 .. MaxRegs
  BY <1>1, RegistersDoes DEF Join
<1>6. lost' \subseteq Holders
  BY <1>1 DEF Join, Forget, RestType
<1>7. QED
  BY <1>1, <1>3, <1>4, <1>5, <1>6 DEF Join, RestType

LEMMA JoinKeeps ==
  ASSUME Base, NEW h \in Joiners, NEW outcome \in Outcomes, Join(h, outcome)
  PROVE  Base'
<1> DEFINE a == AddOrStart(tab, h, Manual)
<1>1. tab \in Tables /\ ~tab.claimed /\ StreamType /\ Switches /\ a.rc \in {"start", "none"}
      /\ mode \in JoinModes /\ h \in Holders /\ h # Manual
  BY BaseIs, HoldersAre DEF Join
<1>2. RestType'
  BY <1>1, JoinTypes
<1>3. CASE a.rc = "start"
  <2>1. /\ a.t \in Tables /\ a.t.base = {} /\ holders = {}
        /\ a.t.gen = [tab.gen EXCEPT ![Manual] = NextGen(tab.next),
                                     ![h] = NextGen(NextGen(tab.next))]
    BY <1>1, <1>3, AddOrStartDoes DEF holders
  <2>2. HoldersStart(FALSE, outcome)
    BY <1>3 DEF Join
  <2>3. /\ StreamType' /\ mode' = mode /\ scratch' = scratch
        /\ outcome = "ok" => /\ active' /\ ~stopReq' /\ ~recPending' /\ ~scratch
                             /\ rapid' < GiveUp
        /\ outcome # "ok" => /\ ~active'
                             /\ scratch \/ ~recPending'
                             /\ recPending' => recPending /\ rapid' = rapid
    BY <2>2, HoldersStartDoes
  <2>4. CASE outcome = "ok"
    <3>1. tab' = Commit(a.t)
      BY <1>3, <2>4 DEF Join
    <3>2. tab' \in Tables /\ ~tab'.claimed /\ tab'.gen = a.t.gen
      BY <2>1, <3>1, CommitDoes
    <3>3. tab'.gen[Manual] # NoGen
      BY <1>1, <2>1, <3>2, GensAre, HoldersAre DEF Tables
    <3>4. holders' # {}
      BY <3>2, <3>3, HeldMeans, HoldersAre DEF holders
    <3>. QED
      BY <1>1, <1>2, <2>3, <2>4, <3>2, <3>4, HeldNow
  <2>5. CASE outcome # "ok"
    <3>1. tab' = Abort(a.t)
      BY <1>3, <2>5 DEF Join
    <3>2. tab' \in Tables /\ ~tab'.claimed /\ holders' = {}
      BY <2>1, <3>1, AbortDoes, NobodyIn DEF holders
    <3>3. ~recPending
      BY <1>1, <2>1 DEF Switches
    <3>. QED
      BY <1>2, <2>3, <2>5, <3>2, <3>3, UnheldNow
  <2>. QED
    BY <2>4, <2>5
<1>4. CASE a.rc = "none"
  <2>1. /\ a.t \in Tables /\ ~a.t.claimed /\ holders # {}
        /\ a.t.gen = [tab.gen EXCEPT ![h] = NextGen(tab.next)]
    BY <1>1, <1>4, AddOrStartDoes DEF holders
  <2>2. tab' = a.t /\ StreamKept
    BY <1>4 DEF Join
  <2>3. tab'.gen[h] # NoGen
    BY <1>1, <2>1, <2>2, GensAre DEF Tables
  <2>4. holders' # {}
    BY <1>1, <2>1, <2>2, <2>3, HeldMeans DEF holders
  <2>5. StreamType'
    BY <1>1, <2>2, StreamKeptDoes
  <2>. QED
    BY <1>1, <1>2, <2>1, <2>2, <2>4, <2>5, SwitchesKept DEF StreamKept
<1>5. QED
  BY <1>1, <1>3, <1>4

-----------------------------------------------------------------------------
(* `camera off`, the mode, the probe and `sdram test`.                     *)

LEMMA OffNextKeeps ==
  ASSUME Base, NEW c \in Consoles, OffNext(c)
  PROVE  Base'
<1>1. tab \in Tables /\ ~tab.claimed /\ StreamType /\ RestType /\ Switches
      /\ streams \in Nat /\ streamGen \in Gens /\ NoGen \in Gens
  BY BaseIs, StreamAssumption, GensAre DEF StreamType
<1>2. off \in [Consoles -> [at : OffPlaces, want : Gens, nth : Nat]]
  BY <1>1 DEF RestType
<1>3. NoOff \in [at : OffPlaces, want : Gens, nth : Nat]
  BY GensAre DEF NoOff, OffPlaces
<1>4. off' \in [Consoles -> [at : OffPlaces, want : Gens, nth : Nat]]
  <2>1. CASE OffSample(c)
    BY <1>2, <2>1 DEF OffSample, OffPlaces
  <2>2. CASE OffStop(c)
    <3>1. [at |-> "wait", want |-> streamGen, nth |-> streams]
             \in [at : OffPlaces, want : Gens, nth : Nat]
      BY <1>1 DEF OffPlaces
    <3>2. [at |-> "wait", want |-> NoGen, nth |-> 0] \in [at : OffPlaces, want : Gens, nth : Nat]
      BY <1>1 DEF OffPlaces
    <3>. QED
      BY <1>2, <1>3, <2>2, <3>1, <3>2 DEF OffStop
  <2>3. CASE OffEnded(c)
    BY <1>2, <2>3 DEF OffEnded, OffPlaces
  <2>4. CASE OffGivesUp(c)
    BY <1>2, <1>3, <2>4 DEF OffGivesUp
  <2>5. CASE PowerOff(c)
    BY <1>2, <1>3, <2>5 DEF PowerOff
  <2>. QED
    BY <2>1, <2>2, <2>3, <2>4, <2>5 DEF OffNext
<1>5. ASSUME UNCHANGED <<boardVars, historyVars, producer, joiner, ticket>>
      PROVE  Base'
  <2>1. RestType' /\ StreamType'
    BY <1>1, <1>4, <1>5 DEF RestType, StreamType, boardVars, historyVars
  <2>. QED
    BY <1>5, <2>1, TableKept DEF boardVars
<1>6. CASE OffStop(c)
  <2>1. CASE UNCHANGED <<boardVars, historyVars>>
    BY <1>5, <1>6, <2>1 DEF OffStop
  <2>2. CASE StopAccepted
    <3>1. RestType'
      <4>1. asked' \in BOOLEAN
        BY <2>2 DEF StopAccepted
      <4>. QED
        BY <1>1, <1>4, <1>6, <2>2, <4>1 DEF OffStop, StopAccepted, RestType
    <3>. QED
      BY <2>2, <3>1, StopKeeps
  <2>. QED
    BY <1>6, <2>1, <2>2 DEF OffStop
<1>7. CASE PowerOff(c)
  <2>1. CASE active \/ needers # {}
    BY <1>5, <1>7, <2>1 DEF PowerOff
  <2>2. CASE ~(active \/ needers # {})
    <3>1. /\ Lose(tab) /\ lost \subseteq Holders /\ ~recPending' /\ ~active'
          /\ recPending' = FALSE /\ powered' = FALSE /\ mode' = "default"
          /\ UNCHANGED <<active, stopReq, err, rapid, streamGen, doneGen,
                         colorbar, scratch, startSem, streams, ended, regs>>
      BY <1>1, <1>7, <2>2 DEF PowerOff, RestType
    <3>2. tab' \in Tables /\ ~tab'.claimed /\ holders' = {} /\ lost' \subseteq Holders
          /\ asked' = FALSE
      BY <1>1, <3>1, LoseDoes
    <3>3. RestType'
      BY <1>1, <1>4, <1>7, <3>1, <3>2 DEF PowerOff, RestType
    <3>4. StreamType'
      BY <1>1, <3>1 DEF StreamType, Modes
    <3>. QED
      BY <3>1, <3>2, <3>3, <3>4, UnheldNow
  <2>. QED
    BY <2>1, <2>2
<1>8. QED
  BY <1>5, <1>6, <1>7 DEF OffNext, OffSample, OffEnded, OffGivesUp

LEMMA UnheldKeeps ==
  ASSUME Base, holders = {}, ~active,
         UNCHANGED <<tab, active, recPending>>, StreamType', RestType'
  PROVE  Base'
<1>1. tab' \in Tables /\ ~tab'.claimed /\ holders' = {} /\ ~recPending' /\ ~active'
  BY BaseIs DEF Switches, holders
<1>2. QED
  BY <1>1, UnheldNow

LEMMA SettingsKeep ==
  ASSUME Base,
         \/ \E m \in Modes : SetFormat(m)
         \/ \E found \in BOOLEAN : Probe(found)
         \/ ScratchClaim
         \/ ScratchRelease
  PROVE  Base'
<1>1. StreamType /\ RestType /\ Switches
  BY BaseIs
<1>2. ASSUME NEW m \in Modes, SetFormat(m) PROVE Base'
  <2>1. StreamType' /\ RestType'
    <3>1. powered' \in BOOLEAN /\ mode' \in Modes
      BY <1>1, <1>2 DEF SetFormat, StreamType, Modes
    <3>. QED
      BY <1>1, <1>2, <3>1 DEF SetFormat, StreamType, RestType, historyVars
  <2>. QED
    BY <1>2, <2>1, UnheldKeeps DEF SetFormat, ModeFree
<1>3. ASSUME NEW found \in BOOLEAN, Probe(found) PROVE Base'
  <2>1. StreamType' /\ RestType'
    BY <1>1, <1>3 DEF Probe, StreamType, RestType, historyVars, Modes
  <2>2. mode' \in JoinModes
    BY <1>3 DEF Probe, JoinModes
  <2>. QED
    BY <1>3, <2>1, <2>2, TableKept DEF Probe
<1>4. CASE ScratchClaim
  <2>1. StreamType' /\ RestType'
    BY <1>1, <1>4 DEF ScratchClaim, StreamType, RestType, historyVars
  <2>. QED
    BY <1>4, <2>1, UnheldKeeps DEF ScratchClaim, ScratchFree
<1>5. CASE ScratchRelease
  <2>1. StreamType' /\ RestType'
    BY <1>1, <1>5 DEF ScratchRelease, StreamType, RestType, historyVars
  <2>2. holders = {} /\ ~active
    BY <1>1, <1>5 DEF ScratchRelease, Switches, Apart
  <2>. QED
    BY <1>5, <2>1, <2>2, UnheldKeeps DEF ScratchRelease
<1>6. QED
  BY <1>2, <1>3, <1>4, <1>5

-----------------------------------------------------------------------------
(* The producer.                                                           *)

LEMMA TeardownKeeps ==
  ASSUME Base, Teardown
  PROVE  Base'
<1>1. tab \in Tables /\ ~tab.claimed /\ StreamType /\ RestType /\ Switches
  BY BaseIs
<1>2. RestType'
  <2>1. producer' \in ProducerPlaces
    BY DEF Teardown, ProducerPlaces
  <2>. QED
    BY <1>1, <2>1 DEF Teardown, RestType
<1>3. StreamType'
  <2>1. stopReq' \in BOOLEAN /\ active' \in BOOLEAN
    BY <1>1 DEF Teardown, StreamType
  <2>2. recPending' \in BOOLEAN
    BY <1>1 DEF Teardown, StreamType
  <2>3. doneGen' \in Gens /\ ended' \in 0 .. streams'
    BY <1>1, StreamAssumption DEF Teardown, StreamType
  <2>. QED
    BY <1>1, <2>1, <2>2, <2>3 DEF Teardown, StreamType
<1>4. tab' = tab /\ holders' = holders /\ needers' = needers
      /\ UNCHANGED <<mode, rapid, scratch>>
  BY DEF Teardown, holders, needers
<1>5. CASE active /\ ~TeardownProceeds
  <2>1. ~stopReq' /\ UNCHANGED <<active, recPending>>
    BY <1>5 DEF Teardown
  <2>2. holders # {}
    BY <1>1, <1>5 DEF Switches, TeardownProceeds
  <2>3. active' /\ ~recPending' /\ ~scratch' /\ rapid' < GiveUp
    BY <1>1, <1>4, <1>5, <2>1 DEF Switches, Apart
  <2>4. mode' \in JoinModes \/ needers' = {}
    BY <1>1, <1>4 DEF Switches, JoinedModeReadable
  <2>. QED
    BY <1>1, <1>2, <1>3, <1>4, <2>1, <2>2, <2>3, <2>4, HeldNow
<1>6. CASE active /\ TeardownProceeds
  <2>1. ~active' /\ stopReq' = stopReq /\ recPending' = (err /\ ~stopReq)
    BY <1>6 DEF Teardown
  <2>2. holders' # {} <=> ((active' /\ ~stopReq') \/ recPending')
    BY <1>1, <1>4, <1>6, <2>1 DEF Switches, TeardownProceeds
  <2>3. Apart'
    BY <1>1, <1>4, <1>6, <2>1 DEF Switches, Apart
  <2>4. JoinedModeReadable'
    BY <1>1, <1>4 DEF Switches, JoinedModeReadable
  <2>5. StreamIffHeld'
    BY <1>1, <1>4, <2>1, <2>2 DEF StreamIffHeld
  <2>6. TypeOK'
    BY <1>1, <1>2, <1>3, <1>4 DEF TypeOK, StreamType, RestType
  <2>. QED
    BY <2>3, <2>4, <2>5, <2>6 DEF Base
<1>7. CASE ~active
  BY <1>2, <1>3, <1>4, <1>7, TableKept DEF Teardown
<1>8. QED
  BY <1>5, <1>6, <1>7

LEMMA RecoverKeeps ==
  ASSUME Base, NEW outcome \in Outcomes, Recover(outcome)
  PROVE  Base'
<1>1. tab \in Tables /\ ~tab.claimed /\ StreamType /\ RestType /\ Switches
      /\ lost \subseteq Holders /\ GiveUp \in Nat /\ GiveUp > 0
  BY BaseIs, StreamAssumption DEF RestType
<1>2. recPending' = FALSE /\ UNCHANGED <<off, joiner, ticket, regs>>
      /\ producer' \in ProducerPlaces
  BY DEF Recover, ProducerPlaces
<1>3. CASE RecoveryCancelled
  <2>1. UNCHANGED <<tab, lost, active, stopReq, err, rapid, streamGen,
                    doneGen, colorbar, mode, powered, scratch, startSem,
                    streams, ended, asked>>
    BY <1>3 DEF Recover
  <2>2. recPending' = recPending
    BY <1>1, <1>2, <1>3 DEF RecoveryCancelled, Switches, StreamType
  <2>3. StreamType' /\ RestType'
    BY <1>1, <1>2, <2>1, <2>2 DEF StreamType, RestType
  <2>. QED
    BY <2>1, <2>2, <2>3, TableKept
<1>4. CASE ~RecoveryCancelled
  <2>1. /\ recPending /\ ~active /\ holders # {} /\ ~scratch
        /\ rapid \in Nat /\ rapid < GiveUp
    BY <1>1, <1>4 DEF RecoveryCancelled, Switches, Apart, StreamType
  <2>2. PICK n \in {0, RapidAgain} :
          /\ rapid' = n
          /\ IF RecoveryGivesUp(n)
               THEN /\ outcome = "refused"
                    /\ Lose(tab)
                    /\ UNCHANGED <<active, stopReq, err, streamGen, doneGen,
                                   colorbar, mode, powered, scratch,
                                   startSem, streams, ended>>
               ELSE /\ StreamStart(colorbar, outcome)
                    /\ IF outcome = "ok" THEN UNCHANGED <<tab, lost, asked>>
                                         ELSE Lose(tab)
    BY <1>4 DEF Recover
  <2>3. rapid' \in 0 .. GiveUp
    BY <1>1, <2>1, <2>2 DEF RapidAgain
  <2>4. recPending' \in BOOLEAN
    BY <1>2
  <2>5. ASSUME Lose(tab), ~active', StreamType' PROVE Base'
    <3>1. tab' \in Tables /\ ~tab'.claimed /\ holders' = {} /\ lost' \subseteq Holders
          /\ asked' = FALSE
      BY <1>1, <2>5, LoseDoes
    <3>2. RestType'
      BY <1>1, <1>2, <3>1 DEF RestType
    <3>. QED
      BY <1>2, <2>5, <3>1, <3>2, UnheldNow
  <2>6. CASE RecoveryGivesUp(n)
    <3>1. Lose(tab) /\ ~active'
      BY <2>1, <2>2, <2>6
    <3>2. StreamType'
      BY <1>1, <2>2, <2>3, <2>4, <2>6 DEF StreamType
    <3>. QED
      BY <2>5, <3>1, <3>2
  <2>7. CASE ~RecoveryGivesUp(n)
    <3>1. colorbar \in BOOLEAN /\ StreamStart(colorbar, outcome)
      BY <1>1, <2>2, <2>7 DEF StreamType
    <3>2. /\ StreamType' /\ mode' = mode /\ scratch' = scratch
          /\ outcome = "ok" => active' /\ ~stopReq' /\ ~scratch
          /\ outcome # "ok" => active' = active
      BY <1>1, <2>3, <2>4, <3>1, StreamStartDoes
    <3>3. CASE outcome = "ok"
      <4>1. UNCHANGED <<tab, lost, asked>> /\ rapid' < GiveUp
        BY <1>1, <2>1, <2>2, <2>7, <3>3 DEF RecoveryGivesUp, RapidAgain
      <4>2. holders' = holders /\ needers' = needers
        BY <4>1 DEF holders, needers
      <4>3. RestType'
        BY <1>1, <1>2, <4>1 DEF RestType
      <4>4. mode' \in JoinModes \/ needers' = {}
        BY <1>1, <3>2, <4>2 DEF Switches, JoinedModeReadable
      <4>. QED
        BY <1>1, <1>2, <2>1, <3>2, <3>3, <4>1, <4>2, <4>3, <4>4, HeldNow
    <3>4. CASE outcome # "ok"
      BY <2>1, <2>2, <2>5, <2>7, <3>2, <3>4
    <3>. QED
      BY <3>3, <3>4
  <2>. QED
    BY <2>6, <2>7
<1>5. QED
  BY <1>3, <1>4

LEMMA ProducerKeeps ==
  ASSUME Base, ProducerNext
  PROVE  Base'
<1>1. StreamType /\ RestType
  BY BaseIs
<1>2. CASE ProducerWakes
  <2>1. startSem' \in Nat
    BY <1>1, <1>2 DEF ProducerWakes, StreamType
  <2>2. StreamType' /\ RestType'
    BY <1>1, <1>2, <2>1 DEF ProducerWakes, StreamType, RestType, historyVars, ProducerPlaces
  <2>. QED
    BY <1>2, <2>2, TableKept DEF ProducerWakes
<1>3. CASE ProducerSleeps \/ ProducerSeesStop \/ ProducerSeesRecovery
  <2>1. producer' \in ProducerPlaces /\ UNCHANGED <<boardVars, historyVars, off, joiner, ticket>>
    BY <1>3 DEF ProducerSleeps, ProducerSeesStop, ProducerSeesRecovery, ProducerPlaces
  <2>2. StreamType' /\ RestType'
    BY <1>1, <2>1 DEF StreamType, RestType, boardVars, historyVars
  <2>. QED
    BY <2>1, <2>2, TableKept DEF boardVars
<1>4. QED
  BY <1>2, <1>3, TeardownKeeps, RecoverKeeps DEF ProducerNext

LEMMA OperatorKeeps ==
  ASSUME Base, OperatorNext
  PROVE  Base'
<1>1. CASE Stop
  <2>1. RestType'
    <3>1. asked' \in BOOLEAN
      BY <1>1 DEF Stop, StopAccepted
    <3>. QED
      BY <1>1, <3>1, BaseIs DEF Stop, StopAccepted, RestType
  <2>. QED
    BY <1>1, <2>1, StopKeeps DEF Stop
<1>2. QED
  BY <1>1, StartFreshKeeps, StartOtherTestKeeps, StartHeldKeeps, StartDownKeeps,
     SettingsKeep DEF OperatorNext

LEMMA InitBase == Init => Base
<1> SUFFICES ASSUME Init PROVE Base
  OBVIOUS
<1>1. NoGen \in Gens /\ FirstGen \in Gens /\ GiveUp \in Nat /\ GiveUp > 0
      /\ MaxStreams \in Nat /\ MaxRegs \in Nat
  BY GensAre, StreamAssumption
<1>2. tab \in Tables /\ ~tab.claimed /\ tab.gen = [h \in Holders |-> NoGen]
  BY <1>1 DEF Init, Tables
<1>3. holders = {}
  BY <1>2, NobodyIn DEF holders
<1>4. StreamType
  <2>1. /\ active \in BOOLEAN /\ stopReq \in BOOLEAN /\ err \in BOOLEAN
        /\ recPending \in BOOLEAN /\ colorbar \in BOOLEAN /\ powered \in BOOLEAN
        /\ scratch \in BOOLEAN /\ mode \in Modes
    BY DEF Init, Modes
  <2>2. /\ rapid \in 0 .. GiveUp /\ streams \in 0 .. MaxStreams /\ ended \in 0 .. streams
        /\ streamGen \in Gens /\ doneGen \in Gens /\ startSem \in Nat
    BY <1>1 DEF Init
  <2>. QED
    BY <2>1, <2>2 DEF StreamType
<1>5. RestType
  <2>1. off \in [Consoles -> [at : OffPlaces, want : Gens, nth : Nat]]
    BY <1>1 DEF Init, NoOff, OffPlaces
  <2>2. ticket \in [Joiners -> Tickets]
    BY <1>1 DEF Init, Tickets, NoTicket
  <2>3. joiner \in [Joiners -> {"out", "joined", "running"}]
    BY DEF Init
  <2>4. lost \subseteq Holders /\ producer \in ProducerPlaces /\ regs \in 0 .. MaxRegs
    BY <1>1 DEF Init, ProducerPlaces
  <2>5. asked \in BOOLEAN
    BY DEF Init
  <2>. QED
    BY <2>1, <2>2, <2>3, <2>4, <2>5 DEF RestType
<1>6. Switches
  <2>1. needers = {}
    BY <1>3 DEF needers
  <2>. QED
    BY <1>1, <1>3, <2>1 DEF Init, Switches, Apart, JoinedModeReadable
<1>7. QED
  BY <1>2, <1>4, <1>5, <1>6, BaseIs

LEMMA NextBase == Base /\ [Next]_vars => Base'
<1> SUFFICES ASSUME Base, [Next]_vars PROVE Base'
  OBVIOUS
<1>1. StreamType /\ RestType
  BY BaseIs
<1>2. CASE StreamError
  <2>1. StreamType' /\ RestType'
    BY <1>1, <1>2 DEF StreamError, StreamType, RestType, historyVars
  <2>. QED
    BY <1>2, <2>1, TableKept DEF StreamError
<1>3. CASE UNCHANGED vars
  <2>1. StreamType' /\ RestType'
    BY <1>1, <1>3 DEF vars, boardVars, historyVars, StreamType, RestType
  <2>. QED
    BY <1>3, <2>1, TableKept DEF vars, boardVars
<1>4. ASSUME NEW h \in Joiners, JoinerNext(h) PROVE Base'
  BY <1>4, JoinKeeps, JoinUndoneKeeps, JoinKeptKeeps, LeaveKeeps DEF JoinerNext
<1>5. QED
  BY <1>2, <1>3, <1>4, ProducerKeeps, OperatorKeeps, OffNextKeeps DEF Next

(* The inductive invariant of the stream and its holder table.             *)
THEOREM BaseInvariant == Spec => []Base
BY InitBase, NextBase, PTL DEF Spec

(* The types of the camera's state.                                        *)
THEOREM TypeCorrect == Spec => []TypeOK
<1>1. Base => TypeOK
  BY DEF Base
<1>2. QED
  BY <1>1, BaseInvariant, PTL

(* The base streams while, and only while, somebody holds it.              *)
THEOREM StreamsWhileHeld == Spec => []StreamIffHeld
<1>1. Base => StreamIffHeld
  BY DEF Base
<1>2. QED
  BY <1>1, BaseInvariant, PTL

(* nn never holds the camera in a mode it cannot read.                     *)
THEOREM JoinersCanRead == Spec => []JoinedModeReadable
<1>1. Base => JoinedModeReadable
  BY DEF Base
<1>2. QED
  BY <1>1, BaseInvariant, PTL

-----------------------------------------------------------------------------
(* The generations of one wrap of the counter.                             *)

LEMMA GenAtNext ==
  ASSUME NEW n \in Nat, n < GenSpace - 1, NEW k \in 0 .. n - 1
  PROVE  NextGen(GenAt(k)) = GenAt(k + 1)
BY GensAre, StreamAssumption DEF GenAt, NextGen, Gens

LEMMA GenAtDiffers ==
  ASSUME NEW n \in Nat, n < GenSpace - 1, NEW j \in 0 .. n, NEW k \in 0 .. n, j # k
  PROVE  GenAt(j) # GenAt(k)
BY GensAre, StreamAssumption DEF GenAt, Gens

LEMMA GenAtIsGen ==
  ASSUME NEW n \in Nat, n < GenSpace - 1, NEW k \in 0 .. n
  PROVE  GenAt(k) \in Gens /\ (k >= 1 => GenAt(k) # NoGen)
BY GensAre, StreamAssumption DEF GenAt, Gens, NoGen

-----------------------------------------------------------------------------
(* Places: registrations and tickets.                                      *)

(* The next registration is in nobody's ticket.                            *)
LEMMA FreshRegistration ==
  ASSUME MaxRegs < GenSpace - 1, Base, TicketInv, NEW n \in Nat \ {0}, Registers(n)
  PROVE  /\ NextGen(tab.next) = GenAt(regs + 1) /\ NextGen(tab.next) # NoGen
         /\ \A h \in Joiners : ticket[h].starter # NextGen(tab.next)
<1>1. regs \in 0 .. MaxRegs - 1 /\ MaxRegs \in Nat /\ tab.next = GenAt(regs)
  BY BaseIs, StreamAssumption DEF RestType, Registers, TicketInv
<1>2. NextGen(tab.next) = GenAt(regs + 1)
  BY <1>1, GenAtNext
<1>3. NextGen(tab.next) # NoGen
  BY <1>1, <1>2, GenAtIsGen
<1>4. ASSUME NEW h \in Joiners PROVE ticket[h].starter # NextGen(tab.next)
  <2>1. CASE ticket[h].starter = NoGen
    BY <1>3, <2>1
  <2>2. ASSUME NEW k \in 1 .. regs, ticket[h].starter = GenAt(k)
        PROVE  ticket[h].starter # NextGen(tab.next)
    <3>1. k \in 0 .. MaxRegs /\ regs + 1 \in 0 .. MaxRegs /\ k # regs + 1
      BY <1>1
    <3>. QED
      BY <1>1, <1>2, <2>2, <3>1, GenAtDiffers
  <2>. QED
    BY <2>1, <2>2 DEF TicketInv
<1>5. QED
  BY <1>2, <1>3, <1>4

(* The operator registers: whoever had a place keeps it.                   *)
LEMMA PlacesRegister ==
  ASSUME MaxRegs < GenSpace - 1, Base, PlaceInv, Registers(1),
         tab'.next = NextGen(tab.next), UNCHANGED <<joiner, ticket>>,
         asked' => tab'.gen[Manual] = NextGen(tab.next),
         \A h \in Joiners : h \in holders \cup lost => h \in holders' \cup lost'
  PROVE  PlaceInv'
<1>1. /\ NextGen(tab.next) = GenAt(regs + 1) /\ NextGen(tab.next) # NoGen
      /\ \A h \in Joiners : ticket[h].starter # NextGen(tab.next)
  BY FreshRegistration DEF PlaceInv
<1>2. regs \in Nat /\ regs' = regs + 1
  BY BaseIs, StreamAssumption DEF RestType, Registers
<1>3. \A h \in Joiners : ticket[h].starter = NoGen
                            \/ \E k \in 1 .. regs + 1 : ticket[h].starter = GenAt(k)
  BY <1>2 DEF PlaceInv, TicketInv
<1>4. TicketInv'
  <2>1. tab'.next = GenAt(regs')
    BY <1>1, <1>2
  <2>2. \A h \in Joiners : ticket'[h].starter = NoGen
                              \/ \E k \in 1 .. regs' : ticket'[h].starter = GenAt(k)
    BY <1>2, <1>3
  <2>3. asked' => \A h \in Joiners :
          ticket'[h].starter # NoGen => ticket'[h].starter # tab'.gen[Manual]
    BY <1>1
  <2>. QED
    BY <2>1, <2>2, <2>3 DEF TicketInv, GenAt
<1>5. PlacesKept'
  BY <1>1 DEF PlaceInv, PlacesKept, In
<1>6. QED
  BY <1>4, <1>5 DEF PlaceInv

(* Nobody registers, and the operator has let go or lost the stream.       *)
LEMMA PlacesLetGo ==
  ASSUME PlaceInv, tab'.next = tab.next, UNCHANGED <<joiner, ticket, regs>>, ~asked',
         \A h \in Joiners : h \in holders \cup lost => h \in holders' \cup lost'
  PROVE  PlaceInv'
<1>1. TicketInv'
  BY DEF PlaceInv, TicketInv, GenAt
<1>2. PlacesKept'
  BY DEF PlaceInv, PlacesKept
<1>3. QED
  BY <1>1, <1>2 DEF PlaceInv

LEMMA PlacesStay ==
  ASSUME PlaceInv, UNCHANGED <<tab, lost, asked, regs, joiner, ticket>>
  PROVE  PlaceInv'
BY DEF PlaceInv, TicketInv, PlacesKept, GenAt, In, holders, Who

LEMMA PlacesLost ==
  ASSUME PlaceInv, tab \in Tables, Lose(tab), UNCHANGED <<joiner, ticket, regs>>
  PROVE  PlaceInv'
<1>1. tab'.next = tab.next /\ ~asked' /\ holders \cup lost \subseteq lost'
  BY ClearDoes DEF Lose, holders
<1>2. QED
  BY <1>1, PlacesLetGo

LEMMA OperatorPlaces ==
  ASSUME MaxRegs < GenSpace - 1, Base, PlaceInv,
         \/ \E cb \in BOOLEAN, outcome \in Outcomes : StartFresh(cb, outcome)
         \/ \E cb \in BOOLEAN : StartOtherTest(cb)
         \/ \E cb \in BOOLEAN : StartHeld(cb)
         \/ \E cb \in BOOLEAN, outcome \in Outcomes : StartDown(cb, outcome)
  PROVE  PlaceInv'
<1> DEFINE a == Add(tab, Manual)
<1>1. tab \in Tables /\ ~tab.claimed /\ tab.gen \in [Holders -> Gens] /\ Manual \in Holders
  BY BaseIs, HoldersAre DEF Tables
<1>2. /\ a.rc \in {"start", "none"} /\ Registers(1) /\ UNCHANGED <<joiner, ticket>>
  BY DEF StartFresh, StartOtherTest, StartHeld, StartDown
<1>3. /\ a.t \in Tables /\ a.t.next = NextGen(tab.next)
      /\ a.t.gen = [tab.gen EXCEPT ![Manual] = NextGen(tab.next)]
      /\ a.rc = "start" <=> holders = {}
      /\ a.rc = "start" => a.t.base = {}
      /\ a.rc = "none" => ~a.t.claimed
  BY <1>1, <1>2, AddDoes DEF holders
<1>4. asked => holders # {}
  BY <1>1 DEF PlaceInv, PlacesKept, holders, Who
<1> HIDE DEF a
<1>5. /\ a.t.gen[Manual] = NextGen(tab.next)
      /\ \A h \in Joiners : a.t.gen[h] = tab.gen[h]
  BY <1>1, <1>3, HoldersAre
<1>6. ASSUME tab' = a.t \/ tab' = Commit(a.t), lost' = lost \ {Manual} \/ lost' = lost
      PROVE  PlaceInv'
  <2>1. tab' \in Tables /\ tab'.gen = a.t.gen /\ tab'.next = NextGen(tab.next)
    BY <1>3, <1>6, CommitDoes
  <2>2. \A h \in Joiners : h \in holders \cup lost => h \in holders' \cup lost'
    BY <1>1, <1>5, <1>6, <2>1, HeldMeans, HoldersAre DEF holders
  <2>. QED
    BY <1>2, <1>5, <2>1, <2>2, PlacesRegister
<1>7. ASSUME holders = {}, a.rc = "start", tab' = Abort(a.t), UNCHANGED <<lost, asked>>
      PROVE  PlaceInv'
  <2>1. tab'.next = NextGen(tab.next) /\ ~asked'
    BY <1>3, <1>4, <1>7, AbortDoes
  <2>. QED
    BY <1>2, <1>7, <2>1, PlacesRegister
<1>8. ASSUME ~In(tab, Manual), ~a.t.claimed, tab' = Remove(a.t, Manual).t, UNCHANGED <<lost, asked>>
      PROVE  PlaceInv'
  <2>1. /\ tab' \in Tables /\ tab'.next = NextGen(tab.next)
        /\ tab' = a.t \/ tab'.gen = [a.t.gen EXCEPT ![Manual] = NoGen]
    BY <1>1, <1>3, <1>8, RemoveDoes
  <2>2. \A h \in Joiners : tab'.gen[h] = tab.gen[h]
    BY <1>1, <1>3, <1>5, <2>1, HoldersAre DEF Tables
  <2>3. \A h \in Joiners : h \in holders \cup lost => h \in holders' \cup lost'
    BY <1>1, <1>8, <2>1, <2>2, HeldMeans, HoldersAre DEF holders
  <2>4. ~asked'
    BY <1>8 DEF PlaceInv, PlacesKept
  <2>. QED
    BY <1>2, <2>1, <2>3, <2>4, PlacesRegister
<1>9. ASSUME Lose(a.t)
      PROVE  PlaceInv'
  <2>1. tab'.next = NextGen(tab.next) /\ ~asked' /\ lost' = lost \cup Who(a.t)
    BY <1>3, <1>9, ClearDoes DEF Lose
  <2>2. \A h \in Joiners : h \in holders \cup lost => h \in holders' \cup lost'
    BY <1>1, <1>3, <1>5, <2>1, HeldMeans, HoldersAre DEF holders
  <2>. QED
    BY <1>2, <2>1, <2>2, PlacesRegister
<1>10. ASSUME NEW cb \in BOOLEAN, NEW outcome \in Outcomes, StartFresh(cb, outcome)
       PROVE  PlaceInv'
  BY <1>3, <1>6, <1>7, <1>10 DEF StartFresh, Forget, a
<1>11. ASSUME NEW cb \in BOOLEAN, StartOtherTest(cb) PROVE PlaceInv'
  BY <1>3, <1>7, <1>11 DEF StartOtherTest, a
<1>12. ASSUME NEW cb \in BOOLEAN, StartHeld(cb) PROVE PlaceInv'
  BY <1>3, <1>6, <1>8, <1>12 DEF StartHeld, Forget, a
<1>13. ASSUME NEW cb \in BOOLEAN, NEW outcome \in Outcomes, StartDown(cb, outcome)
       PROVE  PlaceInv'
  BY <1>6, <1>9, <1>13 DEF StartDown, Forget, a
<1>14. QED
  BY <1>10, <1>11, <1>12, <1>13

LEMMA StopPlaces ==
  ASSUME Base, PlaceInv, StopAccepted, UNCHANGED <<joiner, ticket>>
  PROVE  PlaceInv'
<1>1. tab \in Tables /\ ~tab.claimed
  BY BaseIs
<1>2. \A h \in Joiners : h \notin holders
  <2>1. CASE holders = {}
    BY <2>1
  <2>2. CASE In(tab, Manual)
    BY <1>1, <2>2, HoldersAre
       DEF StopAccepted, StopRefused, Remove, HeldBack, Answer, holders
  <2>. QED
    BY <2>1, <2>2 DEF StopAccepted, StopRefused
<1>3. tab'.next = tab.next /\ ~asked' /\ regs' = regs /\ lost' = lost
  BY StopFrees DEF StopAccepted
<1>4. QED
  BY <1>2, <1>3, PlacesLetGo

LEMMA JoinPlaces ==
  ASSUME MaxRegs < GenSpace - 1, Base, PlaceInv,
         NEW h \in Joiners, NEW outcome \in Outcomes, Join(h, outcome)
  PROVE  PlaceInv'
<1> DEFINE a == AddOrStart(tab, h, Manual)
<1>1. /\ tab \in Tables /\ ~tab.claimed /\ tab.gen \in [Holders -> Gens]
      /\ Manual \in Holders /\ h \in Holders /\ h # Manual
      /\ joiner \in [Joiners -> {"out", "joined", "running"}]
      /\ ticket \in [Joiners -> Tickets] /\ regs \in Nat
  BY BaseIs, HoldersAre, StreamAssumption DEF Tables, RestType
<1>2. a.rc \in {"start", "none"} /\ asked' = asked
      /\ joiner' = [joiner EXCEPT ![h] = IF outcome = "ok" THEN "joined" ELSE "out"]
      /\ ticket' = [ticket EXCEPT ![h] = IF outcome = "ok" THEN a.tk ELSE NoTicket]
  BY DEF Join
<1>3. /\ a.t \in Tables /\ a.tk \in Tickets
      /\ a.rc = "start" <=> holders = {}
      /\ a.rc = "start" =>
           /\ a.t.base = {}
           /\ a.t.gen = [tab.gen EXCEPT ![Manual] = NextGen(tab.next),
                                        ![h] = NextGen(NextGen(tab.next))]
           /\ a.t.next = NextGen(NextGen(tab.next))
           /\ a.tk.starter = NextGen(tab.next)
      /\ a.rc = "none" =>
           /\ a.t.gen = [tab.gen EXCEPT ![h] = NextGen(tab.next)]
           /\ a.t.next = NextGen(tab.next)
           /\ a.tk.starter = NoGen
  BY <1>1, <1>2, AddOrStartDoes DEF holders
<1>4. asked => holders # {}
  BY <1>1 DEF PlaceInv, PlacesKept, holders, Who
<1>5. /\ tab.next = GenAt(regs)
      /\ \A x \in Joiners : \/ ticket[x].starter = NoGen
                            \/ \E k \in 1 .. regs : ticket[x].starter = GenAt(k)
      /\ asked => \A x \in Joiners :
           ticket[x].starter # NoGen => ticket[x].starter # tab.gen[Manual]
  BY DEF PlaceInv, TicketInv
<1>6. NoTicket.starter = NoGen
  BY DEF NoTicket
<1> HIDE DEF a
<1>7. CASE a.rc = "start"
  <2>1. Registers(2) /\ ~asked' /\ holders = {} /\ regs' = regs + 2 /\ regs + 2 <= MaxRegs
    BY <1>2, <1>3, <1>4, <1>7 DEF Join, Registers, a
  <2>2. NextGen(tab.next) = GenAt(regs + 1)
    BY <2>1, FreshRegistration DEF PlaceInv
  <2>3. NextGen(NextGen(tab.next)) = GenAt(regs + 2)
    <3>1. regs + 1 \in 0 .. MaxRegs - 1 /\ MaxRegs \in Nat
      BY <1>1, <2>1, StreamAssumption
    <3>2. NextGen(GenAt(regs + 1)) = GenAt((regs + 1) + 1)
      BY <3>1, GenAtNext
    <3>3. (regs + 1) + 1 = regs + 2
      BY <1>1
    <3>. QED
      BY <2>2, <3>2, <3>3
  <2>4. tab'.next = GenAt(regs')
    <3>1. tab' = Commit(a.t) \/ tab' = Abort(a.t)
      BY <1>7 DEF Join, a
    <3>. QED
      BY <1>3, <1>7, <2>1, <2>3, <3>1, CommitDoes, AbortDoes
  <2>5. \A x \in Joiners : \/ ticket'[x].starter = NoGen
                           \/ \E k \in 1 .. regs' : ticket'[x].starter = GenAt(k)
    <3>1. ASSUME NEW x \in Joiners, x # h
          PROVE  \/ ticket'[x].starter = NoGen
                 \/ \E k \in 1 .. regs' : ticket'[x].starter = GenAt(k)
      BY <1>1, <1>2, <1>5, <2>1, <3>1
    <3>2. \/ ticket'[h].starter = NoGen
          \/ \E k \in 1 .. regs' : ticket'[h].starter = GenAt(k)
      <4>1. ticket'[h].starter = NoGen \/ ticket'[h].starter = GenAt(regs + 1)
        BY <1>1, <1>2, <1>3, <1>6, <1>7, <2>2
      <4>2. regs + 1 \in 1 .. regs'
        BY <1>1, <2>1
      <4>. QED
        BY <4>1, <4>2
    <3>. QED
      BY <3>1, <3>2
  <2>6. TicketInv'
    BY <2>1, <2>4, <2>5 DEF TicketInv, GenAt
  <2>7. PlacesKept'
    <3>1. CASE outcome = "ok"
      <4>1. tab' = Commit(a.t) /\ lost' = lost \ {Manual, h}
        BY <1>7, <3>1 DEF Join, Forget, a
      <4>2. tab' \in Tables /\ tab'.gen[h] # NoGen
        BY <1>1, <1>3, <1>7, <4>1, CommitDoes, GensAre DEF Tables
      <4>3. h \in holders'
        BY <1>1, <4>2, HeldMeans DEF holders
      <4>4. \A x \in Joiners : x # h /\ joiner'[x] # "out" => x \in lost'
        BY <1>1, <1>2, <2>1, <4>1, HoldersAre DEF PlaceInv, PlacesKept
      <4>. QED
        BY <2>1, <4>3, <4>4 DEF PlacesKept
    <3>2. CASE outcome # "ok"
      <4>1. lost' = lost /\ joiner'[h] = "out"
        BY <1>1, <1>2, <1>7, <3>2 DEF Join, a
      <4>2. \A x \in Joiners : joiner'[x] # "out" => x \in lost'
        BY <1>1, <1>2, <2>1, <4>1 DEF PlaceInv, PlacesKept
      <4>. QED
        BY <2>1, <4>2 DEF PlacesKept
    <3>. QED
      BY <3>1, <3>2
  <2>. QED
    BY <2>6, <2>7 DEF PlaceInv
<1>8. CASE a.rc = "none"
  <2>1. /\ Registers(1) /\ outcome = "ok" /\ tab' = a.t /\ lost' = lost \ {h}
        /\ regs' = regs + 1
    BY <1>8 DEF Join, Forget, Registers, a
  <2>2. tab'.next = GenAt(regs')
    <3>1. 1 \in Nat \ {0}
      OBVIOUS
    <3>. QED
      BY <1>3, <1>8, <2>1, <3>1, FreshRegistration DEF PlaceInv
  <2>3. ticket'[h].starter = NoGen /\ \A x \in Joiners : x # h => ticket'[x] = ticket[x]
    BY <1>1, <1>2, <1>3, <1>8, <2>1
  <2>4. \A x \in Joiners : \/ ticket'[x].starter = NoGen
                           \/ \E k \in 1 .. regs' : ticket'[x].starter = GenAt(k)
    BY <1>1, <1>5, <2>1, <2>3
  <2>5. /\ tab' \in Tables /\ tab'.gen[Manual] = tab.gen[Manual] /\ tab'.gen[h] # NoGen
        /\ \A x \in Joiners : x # h => tab'.gen[x] = tab.gen[x]
    BY <1>1, <1>3, <1>8, <2>1, GensAre, HoldersAre DEF Tables
  <2>6. asked' => \A x \in Joiners :
          ticket'[x].starter # NoGen => ticket'[x].starter # tab'.gen[Manual]
    BY <1>2, <1>5, <2>3, <2>5
  <2>7. TicketInv'
    BY <2>2, <2>4, <2>6 DEF TicketInv, GenAt
  <2>8. asked' => In(tab', Manual)
    BY <1>2, <2>5 DEF PlaceInv, PlacesKept, In
  <2>9. \A x \in Joiners : joiner'[x] # "out" => x \in holders' \cup lost'
    <3>1. h \in holders'
      BY <1>1, <2>5, HeldMeans DEF holders
    <3>2. ASSUME NEW x \in Joiners, x # h, joiner'[x] # "out" PROVE x \in holders' \cup lost'
      <4>1. x \in holders \cup lost /\ x \in Holders
        BY <1>1, <1>2, <3>2, HoldersAre DEF PlaceInv, PlacesKept
      <4>. QED
        BY <1>1, <2>1, <2>5, <3>2, <4>1, HeldMeans DEF holders
    <3>. QED
      BY <3>1, <3>2
  <2>10. PlacesKept'
    BY <2>8, <2>9 DEF PlacesKept, In
  <2>. QED
    BY <2>7, <2>10 DEF PlaceInv
<1>9. QED
  BY <1>2, <1>7, <1>8

(* A session lets go of what its ticket names, and of nothing else: the    *)
(* operator's place is another registration's, once the operator asked.    *)
LEMMA LeavesPlaces ==
  ASSUME Base, PlaceInv, NEW h \in Joiners, NEW a, Leaves(a),
         a.t \in Tables, a.t.next = tab.next,
         \A x \in Holders : a.t.gen[x] # tab.gen[x] =>
            \/ x = h
            \/ x = Manual /\ ticket[h].starter # NoGen /\ tab.gen[Manual] = ticket[h].starter,
         joiner' = [joiner EXCEPT ![h] = "out"],
         ticket' = ticket \/ ticket' = [ticket EXCEPT ![h] = NoTicket]
  PROVE  PlaceInv'
<1>1. /\ tab \in Tables /\ tab' \in Tables /\ tab' = a.t /\ UNCHANGED <<lost, asked, regs>>
      /\ joiner \in [Joiners -> {"out", "joined", "running"}]
      /\ ticket \in [Joiners -> Tickets]
      /\ NoTicket.starter = NoGen
  BY BaseIs DEF Leaves, RestType, NoTicket
<1>2. \A x \in Joiners : ticket'[x].starter \in {ticket[x].starter, NoGen}
  BY <1>1
<1>3. asked => tab'.gen[Manual] = tab.gen[Manual]
  BY <1>1, HoldersAre DEF PlaceInv, TicketInv
<1>4. TicketInv'
  <2>1. tab'.next = GenAt(regs')
    BY <1>1 DEF PlaceInv, TicketInv
  <2>2. \A x \in Joiners : \/ ticket'[x].starter = NoGen
                           \/ \E k \in 1 .. regs' : ticket'[x].starter = GenAt(k)
    BY <1>1, <1>2 DEF PlaceInv, TicketInv
  <2>3. asked' => \A x \in Joiners :
          ticket'[x].starter # NoGen => ticket'[x].starter # tab'.gen[Manual]
    BY <1>1, <1>2, <1>3 DEF PlaceInv, TicketInv
  <2>. QED
    BY <2>1, <2>2, <2>3 DEF TicketInv, GenAt
<1>5. \A x \in Joiners : x # h /\ joiner'[x] # "out" => x \in holders' \cup lost'
  <2>1. \A x \in Joiners : x # h => tab'.gen[x] = tab.gen[x]
    BY <1>1, HoldersAre
  <2>2. \A x \in Joiners : x # h /\ x \in holders => x \in holders'
    BY <1>1, <2>1, HeldMeans, HoldersAre DEF holders
  <2>. QED
    BY <1>1, <2>2 DEF PlaceInv, PlacesKept
<1>6. joiner'[h] = "out"
  BY <1>1
<1>7. asked' => In(tab', Manual)
  BY <1>1, <1>3 DEF PlaceInv, PlacesKept, In
<1>8. PlacesKept'
  BY <1>5, <1>6, <1>7 DEF PlacesKept, In
<1>9. QED
  BY <1>4, <1>8 DEF PlaceInv

LEMMA JoinerPlaces ==
  ASSUME MaxRegs < GenSpace - 1, Base, PlaceInv, NEW h \in Joiners, JoinerNext(h)
  PROVE  PlaceInv'
<1>1. tab \in Tables /\ ~tab.claimed /\ ticket[h] \in Tickets
      /\ joiner \in [Joiners -> {"out", "joined", "running"}]
      /\ ticket \in [Joiners -> Tickets]
  BY BaseIs DEF RestType
<1>2. CASE JoinUndone(h)
  <2> DEFINE a == Undo(tab, h, Manual, ticket[h])
  <2>1. Leaves(a) /\ joiner' = [joiner EXCEPT ![h] = "out"]
        /\ ticket' = [ticket EXCEPT ![h] = NoTicket]
    BY <1>2 DEF JoinUndone
  <2> HIDE DEF a
  <2>2. /\ a.t \in Tables /\ a.t.next = tab.next
        /\ \A x \in Holders : a.t.gen[x] # tab.gen[x] =>
             \/ x = h
             \/ x = Manual /\ ticket[h].starter # NoGen /\ tab.gen[Manual] = ticket[h].starter
    BY <1>1, UndoDoes DEF a
  <2>. QED
    BY <2>1, <2>2, LeavesPlaces
<1>3. CASE Leave(h)
  <2> DEFINE a == Remove(tab, h)
  <2>1. Leaves(a) /\ joiner' = [joiner EXCEPT ![h] = "out"] /\ ticket' = ticket
    BY <1>3 DEF Leave
  <2> HIDE DEF a
  <2>2. /\ a.t \in Tables /\ a.t.next = tab.next
        /\ \A x \in Holders : a.t.gen[x] # tab.gen[x] => x = h
    BY <1>1, JoinerGoes DEF a
  <2>. QED
    BY <2>1, <2>2, LeavesPlaces
<1>4. CASE JoinKept(h)
  <2>1. UNCHANGED <<tab, lost, asked, regs>> /\ NoTicket.starter = NoGen
        /\ joiner' = [joiner EXCEPT ![h] = "running"]
        /\ ticket' = [ticket EXCEPT ![h] = NoTicket] /\ joiner[h] = "joined"
    BY <1>4 DEF JoinKept, boardVars, historyVars, NoTicket
  <2>2. \A x \in Joiners : ticket'[x].starter \in {ticket[x].starter, NoGen}
    BY <1>1, <2>1
  <2>3. TicketInv'
    <3>1. tab'.next = GenAt(regs')
      BY <2>1 DEF PlaceInv, TicketInv
    <3>2. \A x \in Joiners : \/ ticket'[x].starter = NoGen
                             \/ \E k \in 1 .. regs' : ticket'[x].starter = GenAt(k)
      BY <2>1, <2>2 DEF PlaceInv, TicketInv
    <3>3. asked' => \A x \in Joiners :
            ticket'[x].starter # NoGen => ticket'[x].starter # tab'.gen[Manual]
      BY <2>1, <2>2 DEF PlaceInv, TicketInv
    <3>. QED
      BY <3>1, <3>2, <3>3 DEF TicketInv, GenAt
  <2>4. PlacesKept'
    <3>1. \A x \in Joiners : joiner'[x] # "out" => joiner[x] # "out"
      BY <1>1, <2>1
    <3>. QED
      BY <2>1, <3>1 DEF PlaceInv, PlacesKept, In, holders, Who
  <2>. QED
    BY <2>3, <2>4 DEF PlaceInv
<1>5. QED
  BY <1>2, <1>3, <1>4, JoinPlaces DEF JoinerNext

LEMMA NextPlaces == 
  ASSUME MaxRegs < GenSpace - 1
  PROVE  Base /\ PlaceInv /\ [Next]_vars => PlaceInv'
<1> SUFFICES ASSUME Base, PlaceInv, [Next]_vars PROVE PlaceInv'
  OBVIOUS
<1>1. tab \in Tables
  BY BaseIs
<1>2. CASE ProducerNext
  <2>1. ASSUME NEW outcome \in Outcomes, Recover(outcome) PROVE PlaceInv'
    <3>1. UNCHANGED <<tab, lost, asked>> \/ Lose(tab)
      BY <2>1 DEF Recover
    <3>2. UNCHANGED <<regs, joiner, ticket>>
      BY <2>1 DEF Recover
    <3>. QED
      BY <1>1, <3>1, <3>2, PlacesStay, PlacesLost
  <2>2. CASE ProducerSleeps \/ ProducerWakes \/ ProducerSeesStop \/ ProducerSeesRecovery
             \/ Teardown
    BY <2>2, PlacesStay DEF ProducerSleeps, ProducerWakes, ProducerSeesStop,
       ProducerSeesRecovery, Teardown, boardVars, historyVars
  <2>. QED
    BY <1>2, <2>1, <2>2 DEF ProducerNext
<1>3. CASE OperatorNext
  <2>1. ASSUME NEW m \in Modes, SetFormat(m) PROVE PlaceInv'
    BY <2>1, PlacesStay DEF SetFormat, historyVars
  <2>2. ASSUME NEW found \in BOOLEAN, Probe(found) PROVE PlaceInv'
    BY <2>2, PlacesStay DEF Probe, historyVars
  <2>3. CASE ScratchClaim \/ ScratchRelease
    BY <2>3, PlacesStay DEF ScratchClaim, ScratchRelease, historyVars
  <2>4. CASE Stop
    BY <2>4, StopPlaces DEF Stop
  <2>. QED
    BY <1>3, <2>1, <2>2, <2>3, <2>4, OperatorPlaces DEF OperatorNext
<1>4. CASE StreamError
  BY <1>4, PlacesStay DEF StreamError, historyVars
<1>5. ASSUME NEW c \in Consoles, OffNext(c) PROVE PlaceInv'
  <2>1. CASE OffSample(c) \/ OffEnded(c) \/ OffGivesUp(c)
    BY <2>1, PlacesStay DEF OffSample, OffEnded, OffGivesUp, boardVars, historyVars
  <2>2. CASE OffStop(c)
    BY <2>2, PlacesStay, StopPlaces DEF OffStop, boardVars, historyVars
  <2>3. CASE PowerOff(c)
    <3>1. CASE active \/ needers # {}
      BY <2>3, <3>1, PlacesStay DEF PowerOff, boardVars, historyVars
    <3>2. CASE ~(active \/ needers # {})
      BY <1>1, <2>3, <3>2, PlacesLost DEF PowerOff
    <3>. QED
      BY <3>1, <3>2
  <2>. QED
    BY <1>5, <2>1, <2>2, <2>3 DEF OffNext
<1>6. ASSUME NEW h \in Joiners, JoinerNext(h) PROVE PlaceInv'
  BY <1>6, JoinerPlaces
<1>7. CASE UNCHANGED vars
  BY <1>7, PlacesStay DEF vars, boardVars, historyVars
<1>8. QED
  BY <1>2, <1>3, <1>4, <1>5, <1>6, <1>7 DEF Next

LEMMA InitPlaces == Init => PlaceInv
<1> SUFFICES ASSUME Init PROVE PlaceInv
  OBVIOUS
<1>1. FirstGen \in Gens /\ GenAt(0) = FirstGen
  BY StreamAssumption, GensAre DEF GenAt, Gens
<1>2. \A h \in Joiners : ticket[h].starter = NoGen /\ joiner[h] = "out"
  BY DEF Init, NoTicket
<1>3. ~asked /\ regs = 0 /\ tab.next = FirstGen
  BY DEF Init
<1>4. QED
  BY <1>1, <1>2, <1>3 DEF PlaceInv, TicketInv, PlacesKept

(* Whoever has a place keeps it until it lets go or is told: for as long   *)
(* as the registrations since boot have not gone once round the counter,   *)
(* which in the code is 2^32 - 2 of them.                                  *)
THEOREM PlacesAreKept ==
  ASSUME MaxRegs < GenSpace - 1
  PROVE  Spec => []PlacesKept
<1>1. Init => Base /\ PlaceInv
  BY InitBase, InitPlaces
<1>2. Base /\ PlaceInv /\ [Next]_vars => (Base /\ PlaceInv)'
  BY NextBase, NextPlaces
<1>3. PlaceInv => PlacesKept
  BY DEF PlaceInv
<1>4. QED
  BY <1>1, <1>2, <1>3, PTL DEF Spec

-----------------------------------------------------------------------------
(* Which stream a wait is for.                                             *)

(* Fewer than half the generations apart, the comparison across the wrap   *)
(* orders two streams as they were started.                                *)
LEMMA EndedMeans ==
  ASSUME MaxStreams < HalfSpace - 1, NEW e \in 0 .. MaxStreams, NEW w \in 1 .. MaxStreams
  PROVE  Ended(GenAt(e), GenAt(w)) <=> w <= e
<1>1. /\ FirstGen \in Nat /\ FirstGen <= GenSpace - 1 /\ GenSpace = 2 * HalfSpace
      /\ HalfSpace \in Nat /\ HalfSpace >= 2 /\ MaxStreams \in Nat
  BY GensAre, StreamAssumption DEF Gens
<1>2. GenAt(w) # NoGen
  BY <1>1 DEF GenAt, NoGen
<1>3. CASE FirstGen + e < GenSpace /\ FirstGen + w < GenSpace
  BY <1>1, <1>2, <1>3 DEF Ended, NotBefore, GenAt
<1>4. CASE FirstGen + e >= GenSpace /\ FirstGen + w < GenSpace
  BY <1>1, <1>2, <1>4 DEF Ended, NotBefore, GenAt
<1>5. CASE FirstGen + e < GenSpace /\ FirstGen + w >= GenSpace
  BY <1>1, <1>2, <1>5 DEF Ended, NotBefore, GenAt
<1>6. CASE FirstGen + e >= GenSpace /\ FirstGen + w >= GenSpace
  BY <1>1, <1>2, <1>6 DEF Ended, NotBefore, GenAt
<1>7. QED
  BY <1>1, <1>3, <1>4, <1>5, <1>6

(* What a step may do to the streams: start the next, or end the last.     *)
Starts ==
  \/ UNCHANGED <<streams, streamGen>> /\ (active' => active)
  \/ streams' = streams + 1 /\ streams < MaxStreams /\ streamGen' = NextGen(streamGen)
Ends ==
  \/ UNCHANGED <<doneGen, ended>>
  \/ doneGen' = streamGen /\ ended' = streams /\ UNCHANGED <<streams, streamGen>>

LEMMA HoldersStartMoves ==
  ASSUME NEW cb \in BOOLEAN, NEW outcome \in Outcomes,
         HoldersStart(cb, outcome) \/ StreamStart(cb, outcome)
  PROVE  Starts /\ Ends
BY DEF HoldersStart, StreamStart, Starts, Ends

LEMMA StreamsMove ==
  ASSUME Base, [Next]_vars
  PROVE  Starts /\ Ends
<1> USE DEF Starts, Ends
<1>1. CASE ProducerNext
  <2>1. ASSUME NEW outcome \in Outcomes, Recover(outcome) PROVE Starts /\ Ends
    <3>1. colorbar \in BOOLEAN
      BY BaseIs DEF StreamType
    <3>2. CASE StreamStart(colorbar, outcome)
      BY <3>1, <3>2, HoldersStartMoves
    <3>3. CASE UNCHANGED <<active, streams, streamGen, doneGen, ended>>
      BY <3>3
    <3>. QED
      BY <2>1, <3>2, <3>3 DEF Recover
  <2>2. CASE Teardown
    BY <2>2 DEF Teardown
  <2>3. CASE ProducerSleeps \/ ProducerWakes \/ ProducerSeesStop \/ ProducerSeesRecovery
    BY <2>3 DEF ProducerSleeps, ProducerWakes, ProducerSeesStop, ProducerSeesRecovery,
       boardVars, historyVars
  <2>. QED
    BY <1>1, <2>1, <2>2, <2>3 DEF ProducerNext
<1>2. CASE OperatorNext
  <2>1. ASSUME NEW cb \in BOOLEAN, NEW outcome \in Outcomes,
               StartFresh(cb, outcome) \/ StartDown(cb, outcome)
        PROVE  Starts /\ Ends
    BY <2>1, HoldersStartMoves DEF StartFresh, StartDown
  <2>2. ASSUME NEW cb \in BOOLEAN, StartOtherTest(cb) \/ StartHeld(cb)
        PROVE  Starts /\ Ends
    BY <2>2 DEF StartOtherTest, StartHeld, StreamKept
  <2>3. ASSUME NEW m \in Modes, SetFormat(m) PROVE Starts /\ Ends
    BY <2>3 DEF SetFormat, historyVars
  <2>4. ASSUME NEW found \in BOOLEAN, Probe(found) PROVE Starts /\ Ends
    BY <2>4 DEF Probe, historyVars
  <2>5. CASE Stop \/ ScratchClaim \/ ScratchRelease
    BY <2>5 DEF Stop, StopAccepted, ScratchClaim, ScratchRelease, historyVars
  <2>. QED
    BY <1>2, <2>1, <2>2, <2>3, <2>4, <2>5 DEF OperatorNext
<1>3. CASE StreamError
  BY <1>3 DEF StreamError, historyVars
<1>4. ASSUME NEW c \in Consoles, OffNext(c) PROVE Starts /\ Ends
  <2>1. CASE OffSample(c) \/ OffEnded(c) \/ OffGivesUp(c)
    BY <2>1 DEF OffSample, OffEnded, OffGivesUp, boardVars, historyVars
  <2>2. CASE OffStop(c)
    BY <2>2 DEF OffStop, StopAccepted, boardVars, historyVars
  <2>3. CASE PowerOff(c)
    BY <2>3 DEF PowerOff, boardVars, historyVars
  <2>. QED
    BY <1>4, <2>1, <2>2, <2>3 DEF OffNext
<1>5. ASSUME NEW h \in Joiners, JoinerNext(h) PROVE Starts /\ Ends
  <2>1. ASSUME NEW outcome \in Outcomes, Join(h, outcome) PROVE Starts /\ Ends
    <3>1. CASE StreamKept
      BY <3>1 DEF StreamKept
    <3>2. CASE HoldersStart(FALSE, outcome)
      BY <3>2, HoldersStartMoves
    <3>. QED
      BY <2>1, <3>1, <3>2 DEF Join
  <2>2. CASE JoinUndone(h) \/ JoinKept(h) \/ Leave(h)
    BY <2>2 DEF JoinUndone, JoinKept, Leave, Leaves, boardVars, historyVars
  <2>. QED
    BY <1>5, <2>1, <2>2 DEF JoinerNext
<1>6. CASE UNCHANGED vars
  BY <1>6 DEF vars, boardVars, historyVars
<1>7. QED
  BY <1>1, <1>2, <1>3, <1>4, <1>5, <1>6 DEF Next

(* What a wait of `camera off` is for.                                     *)
WaitOK(o) ==
  /\ o.at \in {"idle", "stop"} => o.nth = 0
  /\ o.at = "wait" => \/ o.want = NoGen /\ o.nth = 0
                      \/ o.want = GenAt(o.nth) /\ o.nth \in 1 .. streams
  /\ o.at = "power" => o.nth <= ended

LEMMA StreamInvIs ==
  StreamInv <=> /\ streamGen = GenAt(streams) /\ doneGen = GenAt(ended)
                /\ active => streams >= 1
                /\ \A c \in Consoles : WaitOK(off[c])
BY DEF StreamInv, WaitOK

LEMMA WaitEndsRight ==
  ASSUME MaxStreams < HalfSpace - 1, Base, StreamInv, NEW c \in Consoles, off[c].at = "wait"
  PROVE  Ended(doneGen, off[c].want) <=> off[c].nth <= ended
<1>1. streams \in 0 .. MaxStreams /\ ended \in 0 .. streams /\ MaxStreams \in Nat
      /\ doneGen = GenAt(ended)
  BY BaseIs, StreamAssumption, StreamInvIs DEF StreamType
<1>2. CASE off[c].want = NoGen /\ off[c].nth = 0
  BY <1>1, <1>2 DEF Ended
<1>3. CASE off[c].want = GenAt(off[c].nth) /\ off[c].nth \in 1 .. streams
  <2>1. ended \in 0 .. MaxStreams /\ off[c].nth \in 1 .. MaxStreams
    BY <1>1, <1>3
  <2>. QED
    BY <1>1, <1>3, <2>1, EndedMeans
<1>4. QED
  BY <1>2, <1>3 DEF StreamInv

LEMMA NextStreams ==
  ASSUME MaxStreams < HalfSpace - 1
  PROVE  Base /\ StreamInv /\ [Next]_vars => StreamInv'
<1> SUFFICES ASSUME Base, StreamInv, [Next]_vars PROVE StreamInv'
  OBVIOUS
<1>1. /\ streams \in 0 .. MaxStreams /\ ended \in 0 .. streams /\ MaxStreams \in Nat
      /\ MaxStreams < GenSpace - 1
      /\ streamGen = GenAt(streams) /\ doneGen = GenAt(ended)
      /\ active => streams >= 1
      /\ \A c \in Consoles : WaitOK(off[c])
      /\ off \in [Consoles -> [at : OffPlaces, want : Gens, nth : Nat]]
  BY BaseIs, StreamAssumption, StreamInvIs, GensAre DEF StreamType, RestType
<1>2. Starts /\ Ends
  BY StreamsMove
<1>3. /\ streamGen' = GenAt(streams') /\ (active' => streams' >= 1)
      /\ streams' >= streams /\ streams' \in Nat
  <2>1. CASE UNCHANGED <<streams, streamGen>> /\ (active' => active)
    BY <1>1, <2>1
  <2>2. CASE streams' = streams + 1 /\ streams < MaxStreams /\ streamGen' = NextGen(streamGen)
    <3>1. NextGen(GenAt(streams)) = GenAt(streams + 1)
      BY <1>1, <2>2, GenAtNext
    <3>. QED
      BY <1>1, <2>2, <3>1
  <2>. QED
    BY <1>2, <2>1, <2>2 DEF Starts
<1>4. doneGen' = GenAt(ended') /\ ended' >= ended /\ ended' \in Nat
  BY <1>1, <1>2 DEF Ends
<1>5. \A c \in Consoles : WaitOK(off[c])'
  <2>1. ASSUME NEW c \in Consoles, off'[c] = off[c]
        PROVE  WaitOK(off[c])'
    <3>1. off[c].nth \in Nat
      BY <1>1
    <3>. QED
      BY <1>1, <1>3, <1>4, <2>1, <3>1 DEF WaitOK, GenAt
  <2>2. ASSUME NEW c \in Consoles, OffNext(c)
        PROVE  WaitOK(off[c])' /\ \A d \in Consoles : d # c => off'[d] = off[d]
    <3>1. off[c].nth \in Nat /\ off[c].at \in OffPlaces /\ WaitOK(off[c])
      BY <1>1
    <3>2. CASE OffSample(c)
      <4>1. /\ off'[c].at \in {"stop", "power"} /\ off'[c].nth = 0 /\ ended' = ended
        BY <1>1, <3>1, <3>2 DEF OffSample, WaitOK, historyVars
      <4>. QED
        BY <1>1, <3>2, <4>1 DEF OffSample, WaitOK
    <3>3. CASE OffStop(c)
      <4>1. \/ off'[c] = NoOff
            \/ /\ UNCHANGED <<active, streams, streamGen>>
               /\ off'[c] = IF active THEN [at |-> "wait", want |-> streamGen, nth |-> streams]
                                      ELSE [at |-> "wait", want |-> NoGen, nth |-> 0]
        BY <1>1, <3>3 DEF OffStop, StopAccepted
      <4>2. ASSUME off'[c] = NoOff PROVE WaitOK(off[c])'
        <5>1. off'[c].at = "idle" /\ off'[c].nth = 0
          BY <4>2 DEF NoOff
        <5>. QED
          BY <5>1 DEF WaitOK
      <4>3. ASSUME active, UNCHANGED <<streams, streamGen>>,
                   off'[c] = [at |-> "wait", want |-> streamGen, nth |-> streams]
            PROVE  WaitOK(off[c])'
        <5>1. off'[c].at = "wait" /\ off'[c].want = streamGen /\ off'[c].nth = streams
          BY <4>3
        <5>2. streams' \in Nat /\ streams >= 1 /\ streams' = streams
          BY <1>1, <4>3
        <5>3. off'[c].want = GenAt(off'[c].nth) /\ off'[c].nth \in 1 .. streams'
          BY <1>1, <5>1, <5>2
        <5>. QED
          BY <5>1, <5>3 DEF WaitOK, GenAt
      <4>4. ASSUME off'[c] = [at |-> "wait", want |-> NoGen, nth |-> 0]
            PROVE  WaitOK(off[c])'
        <5>1. off'[c].at = "wait" /\ off'[c].want = NoGen /\ off'[c].nth = 0
          BY <4>4
        <5>. QED
          BY <5>1 DEF WaitOK
      <4>5. WaitOK(off[c])'
        BY <4>1, <4>2, <4>3, <4>4
      <4>. QED
        BY <1>1, <3>3, <4>5 DEF OffStop
    <3>4. CASE OffEnded(c)
      <4>1. off[c].at = "wait" /\ Ended(doneGen, off[c].want) /\ ended' = ended
        BY <3>4 DEF OffEnded, historyVars
      <4>2. off[c].nth <= ended
        BY <4>1, WaitEndsRight
      <4>3. off'[c].at = "power" /\ off'[c].nth = off[c].nth
        BY <1>1, <3>4 DEF OffEnded
      <4>. QED
        BY <1>1, <3>4, <4>1, <4>2, <4>3 DEF OffEnded, WaitOK
    <3>5. CASE OffGivesUp(c) \/ PowerOff(c)
      <4>1. off'[c] = NoOff
        BY <1>1, <3>5 DEF OffGivesUp, PowerOff
      <4>. QED
        BY <1>1, <3>5, <4>1 DEF OffGivesUp, PowerOff, WaitOK, NoOff
    <3>. QED
      BY <2>2, <3>2, <3>3, <3>4, <3>5 DEF OffNext
  <2>3. off' = off \/ \E c \in Consoles : OffNext(c)
    BY DEF Next, vars, ProducerNext, OperatorNext, JoinerNext, StreamError,
       ProducerSleeps, ProducerWakes, ProducerSeesStop, ProducerSeesRecovery, Teardown,
       Recover, StartFresh, StartOtherTest, StartHeld, StartDown, Stop, SetFormat, Probe,
       ScratchClaim, ScratchRelease, Join, JoinUndone, JoinKept, Leave, Leaves
  <2>. QED
    BY <2>1, <2>2, <2>3
<1>6. QED
  <2>1. \A c \in Consoles : WaitOK(off[c])'
    BY <1>5
  <2>. QED
    BY <1>3, <1>4, <2>1 DEF StreamInv, WaitOK, GenAt

LEMMA InitStreams == Init => StreamInv
<1> SUFFICES ASSUME Init PROVE StreamInv
  OBVIOUS
<1>1. FirstGen \in Gens /\ GenAt(0) = FirstGen
  BY StreamAssumption, GensAre DEF GenAt, Gens
<1>2. \A c \in Consoles : off[c] = NoOff
  BY DEF Init
<1>3. ~active /\ streams = 0 /\ ended = 0 /\ streamGen = FirstGen /\ doneGen = FirstGen
  BY DEF Init
<1>4. QED
  BY <1>1, <1>2, <1>3 DEF StreamInv, NoOff

(* `camera off` is told "ended" exactly when the stream its stop named is  *)
(* over: for as long as the streams since boot span less than half the     *)
(* counter, which in the code is 2^31 - 2 of them.                         *)
THEOREM OffWaitsForItsStream ==
  ASSUME MaxStreams < HalfSpace - 1
  PROVE  Spec => []WaitsForItsStream
<1>1. Init => Base /\ StreamInv
  BY InitBase, InitStreams
<1>2. Base /\ StreamInv /\ [Next]_vars => (Base /\ StreamInv)'
  BY NextBase, NextStreams
<1>3. Base /\ StreamInv => WaitsForItsStream
  BY WaitEndsRight DEF WaitsForItsStream, StreamInv
<1>4. QED
  BY <1>1, <1>2, <1>3, PTL DEF Spec

=============================================================================
