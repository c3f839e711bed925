----------------------------- MODULE CamHolders -----------------------------
(***************************************************************************)
(* Who holds the camera stream open: svc/camera/cam_holders.c, a table of   *)
(* pure functions that each board moves under its camera lock.              *)
(*                                                                         *)
(* A table is a record: gen[h] is the generation of h's entry and NoGen     *)
(* while h is absent (the code keeps entries in registration order, which   *)
(* only its printed list shows); claimed and base are the claim of a start  *)
(* in flight, base being the holders registered before the registration     *)
(* that claimed (claim_base counts them); next is next_gen, which only      *)
(* cam_holders_init() resets.  The KEEPS_STREAM attribute is a set of       *)
(* holders: every caller registers a holder with one attribute only.        *)
(*                                                                         *)
(* Every operation returns [t, rc]: the table after it, and its answer.     *)
(***************************************************************************)
EXTENDS CamGen, FiniteSets

CONSTANTS
  Manual,      \* the operator's holder, the one that keeps the stream
  Joiners,     \* the holders that join through camera_stream_join(): nn
  MaxHolders   \* CAM_HOLDERS_MAX

ASSUME HoldersAssumption ==
  /\ IsFiniteSet(Joiners)
  /\ Manual \notin Joiners
  /\ MaxHolders \in Nat /\ MaxHolders >= 2

Holders == Joiners \cup {Manual}
Keepers == {Manual}              \* registered with CAM_HOLDER_KEEPS_STREAM

Tables == [gen : [Holders -> Gens], claimed : BOOLEAN,
           base : SUBSET Holders, next : Gens]

(* cam_holders_add_or_start()'s ticket: the generations it registered.      *)
Tickets  == [self : Gens, starter : Gens]
NoTicket == [self |-> NoGen, starter |-> NoGen]

In(t, h)  == t.gen[h] # NoGen
Who(t)    == {h \in Holders : In(t, h)}
Full(t)   == Cardinality(Who(t)) >= MaxHolders

Answer(t, rc) == [t |-> t, rc |-> rc]

(* append() and the re-registration of a present holder: a fresh generation *)
Register(t, h) == [t EXCEPT !.gen[h] = NextGen(t.next),
                            !.next = NextGen(t.next)]

(* A keeps-stream holder does not leave while one without is present.       *)
HeldBack(t, h) == h \in Keepers /\ Who(t) \ Keepers # {}

RemoveAt(t, h) ==
  LET u == [t EXCEPT !.gen[h] = NoGen]
  IN  Answer(u, IF Who(u) = {} THEN "stop" ELSE "none")

StartClaim(t, base) == Answer([t EXCEPT !.claimed = TRUE, !.base = base], "start")

Clear(t) == [t EXCEPT !.gen = [h \in Holders |-> NoGen],
                      !.claimed = FALSE, !.base = {}]

Add(t, h) ==
  IF t.claimed THEN Answer(t, "claimed")
  ELSE IF In(t, h) THEN Answer(Register(t, h), "none")
  ELSE IF Full(t) THEN Answer(t, "full")
  ELSE IF Who(t) = {} THEN StartClaim(Register(t, h), {})
  ELSE Answer(Register(t, h), "none")

(* The answer carries the ticket: what this call registered, if anything.   *)
AddOrStart(t, h, starter) ==
  LET Ticketed(a, tk) == [t |-> a.t, rc |-> a.rc, tk |-> tk]
      s == Register(t, starter)
      b == Register(s, h)
  IN  IF t.claimed THEN Ticketed(Answer(t, "claimed"), NoTicket)
      ELSE IF Who(t) = {}
        THEN Ticketed(StartClaim(b, {}),
                      [self |-> b.gen[h], starter |-> s.gen[starter]])
      ELSE IF In(t, h) THEN Ticketed(Answer(Register(t, h), "none"), NoTicket)
      ELSE IF Full(t) THEN Ticketed(Answer(t, "full"), NoTicket)
      ELSE Ticketed(Answer(Register(t, h), "none"),
                    [self |-> NextGen(t.next), starter |-> NoGen])

Remove(t, h) ==
  IF t.claimed THEN Answer(t, "claimed")
  ELSE IF ~In(t, h) THEN Answer(t, "none")
  ELSE IF HeldBack(t, h) THEN Answer(t, "in_use")
  ELSE RemoveAt(t, h)

(* Only the very registration the ticket names, and never one that is still *)
(* needed.                                                                  *)
UndoableByName(t, h, g) == g # NoGen /\ In(t, h) /\ ~HeldBack(t, h)
Undoable(t, h, g) == g # NoGen /\ t.gen[h] = g /\ ~HeldBack(t, h)

UndoOne(a, h, g) ==
  IF Undoable(a.t, h, g) THEN RemoveAt(a.t, h) ELSE a

Undo(t, h, starter, tk) ==
  IF t.claimed THEN Answer(t, "claimed")
  ELSE UndoOne(UndoOne(Answer(t, "none"), h, tk.self), starter, tk.starter)

Commit(t) == [t EXCEPT !.claimed = FALSE, !.base = {}]

Abort(t) ==
  [t EXCEPT !.gen = [h \in Holders |-> IF h \in t.base THEN t.gen[h] ELSE NoGen],
            !.claimed = FALSE, !.base = {}]
=============================================================================
