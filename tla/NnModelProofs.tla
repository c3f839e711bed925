--------------------------- MODULE NnModelProofs ---------------------------
(***************************************************************************)
(* What holds of the model's replacement for any consoles and any models:  *)
(* what is read, executed or drawn is whole, a report is of one model, and *)
(* a load or an unload has left what it answers.                           *)
(***************************************************************************)
EXTENDS NnModel, SequenceTheorems, TLAPS

(* A script as the set of the calls it still makes, and the order in which *)
(* they come: the counter first turns odd, the plugin goes before the      *)
(* model and the lease, the record before the lease, and once the counter  *)
(* is even only the lease is left.                                         *)
Names == {"odd", "plugin_unload", "invalidate", "release", "forget", "commit",
          "even", "lease_give"}
Calls(s) == {s[i] : i \in 1 .. Len(s)}
Before(x, y) ==
  /\ y # "odd"
  /\ y = "plugin_unload" => x = "odd"
  /\ x = "even" => y = "lease_give"
  /\ x = "lease_give" => y \notin {"invalidate", "lease_give"}
Sound(s) == \A i \in 1 .. Len(s), j \in 1 .. Len(s) : i < j => Before(s[i], s[j])

WorkPlaces == {"prepare", "ready", "fetched", "fetch", "swap", "name", "plugin",
               "entry", "unlease", "answer"}
FluxPlaces == {"fetch", "swap", "name", "plugin", "entry"}
InfoPlaces == {"session", "tens", "named", "stands", "line", "check", "extra", "told"}
Places     == {"out", "load", "unload", "thresh", "test"} \cup WorkPlaces \cup InfoPlaces
MaybeModel == Models \cup {None}
States     == {None, "PREVIOUS", "NEW", "EMPTY"}

Answers    == {a \in [state : States, ok : BOOLEAN, busy : BOOLEAN] :
                 a.busy => a.state = None}
Copies     == [tens : MaybeModel, name : MaybeModel, held : BOOLEAN, stands : BOOLEAN,
               line : MaybeModel \cup {Busy}, from : MaybeModel \cup {Busy},
               runs : MaybeModel]

Sorts ==
  /\ tflm \in BOOLEAN /\ odd \in BOOLEAN /\ started \in BOOLEAN /\ recCur \in BOOLEAN
  /\ model \in MaybeModel /\ name \in MaybeModel /\ claims \in MaybeModel
  /\ plug \in MaybeModel /\ rec \in MaybeModel /\ inside \in MaybeModel
  /\ buf \in MaybeModel \cup {Junk}
  /\ sess \in Consoles \cup {None, "stream"} /\ scratch \in Consoles \cup {None}
  /\ blob \in Consoles \cup {None, "writer"}
  /\ lease \in Consoles \cup {None, "worker", "panel"}
  /\ fresh \in [Consoles -> BOOLEAN]
LocalSorts ==
  /\ pc \in [Consoles -> Places] /\ todo \in [Consoles -> Seq(Names)]
  /\ ask \in [Consoles -> MaybeModel] /\ had \in [Consoles -> BOOLEAN]
  /\ old = [c \in Consoles |-> old[c]]
  /\ ans \in [Consoles -> Answers] /\ copy \in [Consoles -> Copies]

Tasks(c) == Calls(todo[c])

(* Who has what.                                                           *)
OwnerInv ==
  /\ lease = "worker" => Streaming
  /\ ~tflm => lease = None
  /\ scratch # None => sess = None /\ model = None
Owns(c) ==
  /\ pc[c] \in WorkPlaces => sess = c
  /\ pc[c] \in {"tens", "named", "stands"} /\ copy[c].held => sess = c
  /\ pc[c] = "thresh" => lease = c
  /\ lease = c => pc[c] \in {"thresh", "answer"} \cup FluxPlaces
  /\ pc[c] = "test" => scratch = c
  /\ Tasks(c) # {} => pc[c] \in {"fetch", "answer"}

(* The plugin, the panel's record and the model's bytes.                   *)
WorldInv ==
  /\ plug # None => tflm /\ model = plug /\ plug \in Plugged
  /\ started => plug # None
  /\ inside # None =>
       /\ plug = inside /\ started /\ lease # None
       /\ lease \in Consoles => pc[lease] = "thresh"
       /\ lease = "panel" => rec = inside
  /\ model # None => buf = model

(* Whatever reads the world while the counter is even finds it at rest.    *)
Rest ==
  /\ name = model /\ claims = Held(model)
  /\ started <=> plug # None
  /\ rec \in {None, plug}
Flux(c) == \/ pc[c] \in FluxPlaces
           \/ pc[c] = "answer" /\ "even" \in Tasks(c) /\ "odd" \notin Tasks(c)
OddInv == /\ odd <=> \E c \in Consoles : Flux(c)
          /\ ~odd => Rest
          /\ \A c \in Consoles : fresh[c] => ~odd

Empty == /\ model = None /\ name = None /\ claims = None /\ plug = None
         /\ ~started /\ rec = None

(* What a load or an unload finds before it changes anything, ...          *)
Undone(c) ==
  /\ pc[c] \in {"prepare", "ready", "fetched", "unlease"} =>
       What = old[c] /\ (had[c] <=> model # None)
  /\ pc[c] \in {"load", "prepare", "ready", "fetched"} => ask[c] \in Models
  /\ pc[c] = "fetched" => ~tflm

(* ... on its way, ...                                                     *)
Changing(c) ==
  /\ pc[c] \in FluxPlaces => ask[c] \in Models /\ (tflm => lease = c)
  /\ pc[c] = "fetch" =>
       /\ tflm /\ ~had[c]
       /\ Tasks(c) \subseteq {"plugin_unload", "invalidate", "release", "forget"}
       /\ (model = None /\ name = None) \/ "release" \in Tasks(c)
       /\ rec = None \/ "invalidate" \in Tasks(c)
       /\ claims = None \/ "forget" \in Tasks(c)
       /\ plug = None \/ "plugin_unload" \in Tasks(c)
  /\ pc[c] = "swap" /\ tflm => Empty /\ buf = ask[c] /\ ~had[c]
  /\ pc[c] = "swap" /\ ~tflm => What = old[c] /\ Rest /\ (had[c] <=> model # None)
  /\ pc[c] = "name" => model = ask[c] /\ plug = None /\ ~started
  /\ pc[c] = "plugin" => /\ tflm /\ model = ask[c] /\ name = ask[c] /\ plug = None
                         /\ Container(ask[c])
  /\ pc[c] = "entry" => /\ tflm /\ model = ask[c] /\ name = ask[c] /\ plug = ask[c]
                        /\ ask[c] \in Plugged /\ ~started

(* ... and once its answer is known, by what that says.                    *)
Unmoved(c) ==
  /\ What = old[c]
  /\ \/ Tasks(c) \subseteq {"even", "lease_give"} /\ Rest
     \/ Tasks(c) \subseteq {"release", "invalidate", "forget"} /\ Empty
Renewed(c) ==
  /\ Tasks(c) \subseteq {"plugin_unload", "invalidate", "commit", "even", "lease_give"}
  /\ ask[c] \in Models /\ model = ask[c] /\ name = ask[c]
  /\ claims = Held(ask[c]) \/ "commit" \in Tasks(c)
  /\ rec = None \/ "invalidate" \in Tasks(c)
  /\ \/ "plugin_unload" \in Tasks(c)
     \/ plug = IF ans[c].ok /\ tflm /\ ask[c] \in Plugged THEN ask[c] ELSE None
  /\ "plugin_unload" \in Tasks(c) => ~(ans[c].ok /\ tflm /\ ask[c] \in Plugged)
  /\ started <=> plug # None
  /\ {"commit", "invalidate", "plugin_unload"} \cap Tasks(c) # {} => "even" \in Tasks(c)
Emptied(c) ==
  /\ "commit" \notin Tasks(c)
  /\ (model = None /\ name = None) \/ "release" \in Tasks(c)
  /\ rec = None \/ "invalidate" \in Tasks(c)
  /\ claims = None \/ "forget" \in Tasks(c)
  /\ plug = None \/ "plugin_unload" \in Tasks(c)
  /\ odd \/ "odd" \in Tasks(c) \/ Empty
  /\ "odd" \in Tasks(c) => "even" \in Tasks(c)
AnswerInv(c) ==
  pc[c] = "answer" =>
    /\ lease = c <=> "lease_give" \in Tasks(c)
    /\ "odd" \in Tasks(c) => Rest
    /\ "invalidate" \in Tasks(c) => plug = None \/ lease = c
    /\ ans[c].busy \/ ans[c].state = "PREVIOUS" => Unmoved(c)
    /\ ~ans[c].busy /\ ans[c].state = "NEW" => Renewed(c)
    /\ ~ans[c].busy /\ ans[c].state \notin {"PREVIOUS", "NEW"} => Emptied(c)
    /\ "plugin_unload" \in Tasks(c) => lease = c
    /\ "release" \in Tasks(c) => plug = None \/ "plugin_unload" \in Tasks(c)

(* What a report holds so far, of the model its counter was read of.       *)
InfoInv(c) ==
  /\ pc[c] \in {"named", "stands"} /\ (copy[c].held \/ fresh[c]) => copy[c].tens = model
  /\ pc[c] = "stands" /\ (copy[c].held \/ fresh[c]) => copy[c].name = model
  /\ pc[c] \in {"line", "check", "extra", "told"} /\ copy[c].stands =>
       copy[c].name = copy[c].tens
  /\ pc[c] \in {"line", "check", "extra"} =>
       copy[c].stands /\ (fresh[c] => copy[c].tens = model)
  /\ pc[c] = "check" /\ fresh[c] => copy[c].line = copy[c].tens
  /\ pc[c] \in {"extra", "told"} /\ copy[c].stands => copy[c].line \in {copy[c].tens, Busy}
  /\ pc[c] = "told" /\ copy[c].stands =>
       /\ copy[c].from \in {Held(copy[c].tens), Busy}
       /\ copy[c].runs \in {copy[c].tens, None}

Here(c) == /\ Sound(todo[c]) /\ Owns(c) /\ Undone(c) /\ Changing(c)
           /\ AnswerInv(c) /\ InfoInv(c)

Inv == /\ Sorts /\ LocalSorts /\ OwnerInv /\ WorldInv /\ OddInv
       /\ \A c \in Consoles : Here(c)

-----------------------------------------------------------------------------
(* Scripts.                                                                *)

LEMMA NamesDiffer ==
  /\ \A c \in Consoles : c # None /\ c # "stream" /\ c # "writer" /\ c # "worker" /\ c # "panel"
  /\ \A m \in Models : m # None /\ m # Junk /\ m # Busy
  /\ Plugged \subseteq Models \ Bare
  /\ None # Busy /\ None # Junk
BY NamesAssumption, ModelsAssumption DEF None, Junk, Busy

LEMMA HeldIs ==
  /\ Held(None) = None
  /\ \A m \in Models : Held(m) \in MaybeModel
  /\ \A m \in Plugged : tflm => Container(m)
  /\ \A m : Container(m) => tflm /\ m \in Models
BY NamesDiffer DEF Held, Container, MaybeModel

LEMMA ScriptStep ==
  ASSUME NEW s \in Seq(Names), s # <<>>
  PROVE  /\ Tail(s) \in Seq(Names) /\ Head(s) \in Names
         /\ Calls(s) = {Head(s)} \cup Calls(Tail(s)) /\ Head(s) \in Calls(s)
BY DEF Calls

LEMMA ScriptOrder ==
  ASSUME NEW s \in Seq(Names), s # <<>>, Sound(s)
  PROVE  Sound(Tail(s)) /\ \A x \in Calls(Tail(s)) : Before(Head(s), x)
BY DEF Calls, Sound

LEMMA ScriptEmpty ==
  /\ Calls(<<>>) = {} /\ Sound(<<>>) /\ <<>> \in Seq(Names)
  /\ \A s \in Seq(Names) : Calls(s) = {} => s = <<>>
<1>1. Calls(<<>>) = {} /\ Sound(<<>>) /\ <<>> \in Seq(Names)
  BY DEF Calls, Sound
<1>2. \A s \in Seq(Names) : s # <<>> => Calls(s) # {}
  BY ScriptStep
<1>3. QED
  BY <1>1, <1>2

LEMMA ScriptOne ==
  ASSUME NEW b \in BOOLEAN, NEW x \in Names
  PROVE  /\ If(b, <<x>>) \in Seq(Names) /\ Sound(If(b, <<x>>))
         /\ \A y : y \in Calls(If(b, <<x>>)) <=> b /\ y = x
<1>1. CASE b
  <2>1. <<x>> \in Seq(Names) /\ Sound(<<x>>) /\ Calls(<<x>>) = {x}
    BY DEF Sound, Calls
  <2>. QED
    BY <1>1, <2>1 DEF If
<1>2. CASE ~b
  BY <1>2, ScriptEmpty DEF If
<1>3. QED
  BY <1>1, <1>2

LEMMA ScriptJoin ==
  ASSUME NEW s \in Seq(Names), NEW t \in Seq(Names), Sound(s), Sound(t),
         \A x \in Calls(s), y \in Calls(t) : Before(x, y)
  PROVE  s \o t \in Seq(Names) /\ Sound(s \o t) /\ Calls(s \o t) = Calls(s) \cup Calls(t)
<1> DEFINE u == s \o t
<1>1. /\ u \in Seq(Names) /\ Len(u) = Len(s) + Len(t) /\ Len(s) \in Nat /\ Len(t) \in Nat
      /\ \A i \in 1 .. Len(u) : u[i] = IF i <= Len(s) THEN s[i] ELSE t[i - Len(s)]
  OBVIOUS
<1> HIDE DEF u
<1>2. Sound(u)
  <2> SUFFICES ASSUME NEW i \in 1 .. Len(u), NEW j \in 1 .. Len(u), i < j
               PROVE  Before(u[i], u[j])
    BY DEF Sound
  <2>1. CASE j <= Len(s)
    <3>1. i \in 1 .. Len(s) /\ j \in 1 .. Len(s) /\ u[i] = s[i] /\ u[j] = s[j]
      BY <1>1, <2>1
    <3>. QED
      BY <3>1 DEF Sound
  <2>2. CASE i <= Len(s) /\ ~(j <= Len(s))
    <3>1. i \in 1 .. Len(s) /\ j - Len(s) \in 1 .. Len(t)
          /\ u[i] = s[i] /\ u[j] = t[j - Len(s)]
      BY <1>1, <2>2
    <3>2. s[i] \in Calls(s) /\ t[j - Len(s)] \in Calls(t)
      BY <3>1 DEF Calls
    <3>. QED
      BY <3>1, <3>2
  <2>3. CASE ~(i <= Len(s))
    <3>1. /\ i - Len(s) \in 1 .. Len(t) /\ j - Len(s) \in 1 .. Len(t)
          /\ i - Len(s) < j - Len(s)
          /\ u[i] = t[i - Len(s)] /\ u[j] = t[j - Len(s)]
      BY <1>1, <2>3
    <3>. QED
      BY <3>1 DEF Sound
  <2>. QED
    BY <1>1, <2>1, <2>2, <2>3
<1>3. Calls(u) \subseteq Calls(s) \cup Calls(t)
  <2> SUFFICES ASSUME NEW i \in 1 .. Len(u) PROVE u[i] \in Calls(s) \cup Calls(t)
    BY DEF Calls
  <2>1. CASE i <= Len(s)
    BY <1>1, <2>1 DEF Calls
  <2>2. CASE ~(i <= Len(s))
    <3>1. i - Len(s) \in 1 .. Len(t) /\ u[i] = t[i - Len(s)]
      BY <1>1, <2>2
    <3>. QED
      BY <3>1 DEF Calls
  <2>. QED
    BY <2>1, <2>2
<1>4. Calls(s) \subseteq Calls(u)
  BY <1>1 DEF Calls
<1>5. Calls(t) \subseteq Calls(u)
  <2> SUFFICES ASSUME NEW i \in 1 .. Len(t) PROVE t[i] \in Calls(u)
    BY DEF Calls
  <2>1. /\ i + Len(s) \in 1 .. Len(u) /\ ~(i + Len(s) <= Len(s))
        /\ (i + Len(s)) - Len(s) = i
    BY <1>1
  <2>2. u[i + Len(s)] = t[i]
    BY <1>1, <2>1
  <2>. QED
    BY <2>1, <2>2 DEF Calls
<1>6. QED
  BY <1>1, <1>2, <1>3, <1>4, <1>5 DEF u

LEMMA UnloadScripts ==
  /\ UnloadScript \in Seq(Names) /\ Sound(UnloadScript)
  /\ Calls(UnloadScript) =
       {"odd", "plugin_unload", "invalidate", "lease_give", "release", "forget", "even"}
  /\ TakeDown \in Seq(Names) /\ Sound(TakeDown)
  /\ Calls(TakeDown) = {"plugin_unload", "invalidate", "release", "forget"}
<1>1. UnloadScript \in Seq(Names) /\ TakeDown \in Seq(Names)
  BY DEF UnloadScript, TakeDown, Names
<1>2. Sound(UnloadScript)
  BY DEF UnloadScript, Sound, Before
<1>3. Sound(TakeDown)
  BY DEF TakeDown, Sound, Before
<1>4. Calls(UnloadScript) =
        {"odd", "plugin_unload", "invalidate", "lease_give", "release", "forget", "even"}
  BY DEF UnloadScript, Calls
<1>5. Calls(TakeDown) = {"plugin_unload", "invalidate", "release", "forget"}
  BY DEF TakeDown, Calls
<1>6. QED
  BY <1>1, <1>2, <1>3, <1>4, <1>5

BareUnload == <<"odd", "invalidate", "release", "forget", "even">>

LEMMA BareUnloadIs ==
  /\ BareUnload \in Seq(Names) /\ Sound(BareUnload)
  /\ Calls(BareUnload) = {"odd", "invalidate", "release", "forget", "even"}
<1>1. BareUnload \in Seq(Names)
  BY DEF BareUnload, Names
<1>2. Sound(BareUnload)
  BY DEF BareUnload, Sound, Before
<1>3. Calls(BareUnload) = {"odd", "invalidate", "release", "forget", "even"}
  BY DEF BareUnload, Calls
<1>4. QED
  BY <1>1, <1>2, <1>3

(* If(~tflm, bare) \o If(tflm, full).                                      *)
LEMMA UnloadEither ==
  ASSUME tflm \in BOOLEAN
  PROVE  LET s == If(~tflm, BareUnload) \o If(tflm, UnloadScript) IN
         /\ s \in Seq(Names) /\ Sound(s)
         /\ Calls(s) = IF tflm THEN Calls(UnloadScript) ELSE Calls(BareUnload)
<1> DEFINE a == If(~tflm, BareUnload)
           b == If(tflm, UnloadScript)
<1>1. /\ a \in Seq(Names) /\ b \in Seq(Names) /\ Sound(a) /\ Sound(b)
      /\ tflm => Calls(a) = {} /\ Calls(b) = Calls(UnloadScript)
      /\ ~tflm => Calls(b) = {} /\ Calls(a) = Calls(BareUnload)
  BY UnloadScripts, BareUnloadIs, ScriptEmpty DEF If
<1> HIDE DEF a, b
<1>2. \A x \in Calls(a), y \in Calls(b) : Before(x, y)
  BY <1>1
<1>3. a \o b \in Seq(Names) /\ Sound(a \o b) /\ Calls(a \o b) = Calls(a) \cup Calls(b)
  BY <1>1, <1>2, ScriptJoin
<1>4. QED
  BY <1>1, <1>3 DEF a, b

(* What is left after a verdict.                                           *)
Verdicts == [state : States, ok : BOOLEAN, down : BOOLEAN, unload : BOOLEAN]

InSettle(v, leased, x) ==
  \/ x = "plugin_unload" /\ v.unload /\ leased /\ tflm
  \/ x = "release" /\ v.down
  \/ x = "invalidate" /\ v.state # "PREVIOUS"
  \/ x = "forget" /\ v.down
  \/ x = "commit" /\ v.state = "NEW"
  \/ x = "even" /\ leased
  \/ x = "lease_give" /\ leased /\ tflm

LEMMA SettleScriptIs ==
  ASSUME NEW v \in Verdicts, NEW leased \in BOOLEAN, tflm \in BOOLEAN
  PROVE  /\ SettleScript(v, leased) \in Seq(Names) /\ Sound(SettleScript(v, leased))
         /\ \A x : x \in Calls(SettleScript(v, leased)) <=> InSettle(v, leased, x)
<1> DEFINE a1 == If(v.unload /\ leased /\ tflm, <<"plugin_unload">>)
           a2 == If(v.down, <<"release">>)
           a3 == If(v.state # "PREVIOUS", <<"invalidate">>)
           a4 == If(v.down, <<"forget">>)
           a5 == If(v.state = "NEW", <<"commit">>)
           a6 == If(leased, <<"even">>)
           a7 == If(leased /\ tflm, <<"lease_give">>)
           b2 == a1 \o a2
           b3 == b2 \o a3
           b4 == b3 \o a4
           b5 == b4 \o a5
           b6 == b5 \o a6
           b7 == b6 \o a7
<1>0. /\ v.unload \in BOOLEAN /\ v.down \in BOOLEAN
      /\ \A n \in {"plugin_unload", "release", "invalidate", "forget", "commit", "even",
                   "lease_give"} : n \in Names
  BY DEF Verdicts, Names
<1>1. /\ a1 \in Seq(Names) /\ Sound(a1)
      /\ \A x : x \in Calls(a1) <=> (v.unload /\ leased /\ tflm) /\ x = "plugin_unload"
  BY <1>0, ScriptOne
<1>2. /\ a2 \in Seq(Names) /\ Sound(a2)
      /\ \A x : x \in Calls(a2) <=> v.down /\ x = "release"
  BY <1>0, ScriptOne
<1>3. /\ a3 \in Seq(Names) /\ Sound(a3)
      /\ \A x : x \in Calls(a3) <=> v.state # "PREVIOUS" /\ x = "invalidate"
  BY <1>0, ScriptOne
<1>4. /\ a4 \in Seq(Names) /\ Sound(a4)
      /\ \A x : x \in Calls(a4) <=> v.down /\ x = "forget"
  BY <1>0, ScriptOne
<1>5. /\ a5 \in Seq(Names) /\ Sound(a5)
      /\ \A x : x \in Calls(a5) <=> v.state = "NEW" /\ x = "commit"
  BY <1>0, ScriptOne
<1>6. /\ a6 \in Seq(Names) /\ Sound(a6)
      /\ \A x : x \in Calls(a6) <=> leased /\ x = "even"
  BY <1>0, ScriptOne
<1>7. /\ a7 \in Seq(Names) /\ Sound(a7)
      /\ \A x : x \in Calls(a7) <=> (leased /\ tflm) /\ x = "lease_give"
  BY <1>0, ScriptOne
<1>8. SettleScript(v, leased) = b7
  BY DEF SettleScript
<1> HIDE DEF a1, a2, a3, a4, a5, a6, a7
<1>9. b2 \in Seq(Names) /\ Sound(b2) /\ Calls(b2) = Calls(a1) \cup Calls(a2)
  <2>1. \A x \in Calls(a1), y \in Calls(a2) : Before(x, y)
    BY <1>1, <1>2 DEF Before
  <2>. QED
    BY <1>1, <1>2, <2>1, ScriptJoin
<1> HIDE DEF b2
<1>10. b3 \in Seq(Names) /\ Sound(b3) /\ Calls(b3) = Calls(b2) \cup Calls(a3)
  <2>1. \A x \in Calls(b2), y \in Calls(a3) : Before(x, y)
    BY <1>1, <1>2, <1>3, <1>9 DEF Before
  <2>. QED
    BY <1>9, <1>3, <2>1, ScriptJoin
<1> HIDE DEF b3
<1>11. b4 \in Seq(Names) /\ Sound(b4) /\ Calls(b4) = Calls(b3) \cup Calls(a4)
  <2>1. \A x \in Calls(b3), y \in Calls(a4) : Before(x, y)
    BY <1>1, <1>2, <1>3, <1>4, <1>9, <1>10 DEF Before
  <2>. QED
    BY <1>10, <1>4, <2>1, ScriptJoin
<1> HIDE DEF b4
<1>12. b5 \in Seq(Names) /\ Sound(b5) /\ Calls(b5) = Calls(b4) \cup Calls(a5)
  <2>1. \A x \in Calls(b4), y \in Calls(a5) : Before(x, y)
    BY <1>1, <1>2, <1>3, <1>4, <1>5, <1>9, <1>10, <1>11 DEF Before
  <2>. QED
    BY <1>11, <1>5, <2>1, ScriptJoin
<1> HIDE DEF b5
<1>13. b6 \in Seq(Names) /\ Sound(b6) /\ Calls(b6) = Calls(b5) \cup Calls(a6)
  <2>1. \A x \in Calls(b5), y \in Calls(a6) : Before(x, y)
    BY <1>1, <1>2, <1>3, <1>4, <1>5, <1>6, <1>9, <1>10, <1>11, <1>12 DEF Before
  <2>. QED
    BY <1>12, <1>6, <2>1, ScriptJoin
<1> HIDE DEF b6
<1>14. b7 \in Seq(Names) /\ Sound(b7) /\ Calls(b7) = Calls(b6) \cup Calls(a7)
  <2>1. \A x \in Calls(b6), y \in Calls(a7) : Before(x, y)
    BY <1>1, <1>2, <1>3, <1>4, <1>5, <1>6, <1>7, <1>9, <1>10, <1>11, <1>12, <1>13 DEF Before
  <2>. QED
    BY <1>13, <1>7, <2>1, ScriptJoin
<1> HIDE DEF b7
<1>15. QED
  BY <1>1, <1>2, <1>3, <1>4, <1>5, <1>6, <1>7, <1>8, <1>9, <1>10, <1>11, <1>12, <1>13, <1>14
     DEF InSettle

LEMMA VerdictIs ==
  ASSUME NEW h \in BOOLEAN, NEW end \in {"REFUSED", "RESTORED", "UNDECODED", "OPENED", "LOST"}
  PROVE  LET v == Verdict(h, end) IN
         /\ v \in Verdicts
         /\ end \in {"REFUSED", "RESTORED"} /\ h =>
              v.state = "PREVIOUS" /\ ~v.ok /\ ~v.down /\ ~v.unload
         /\ end = "LOST" \/ (end \in {"REFUSED", "RESTORED"} /\ ~h) =>
              v.state = "EMPTY" /\ ~v.ok /\ v.down /\ v.unload
         /\ end = "UNDECODED" => v.state = "NEW" /\ ~v.ok /\ ~v.down /\ v.unload
         /\ end = "OPENED" => v.state = "NEW" /\ v.ok /\ ~v.down /\ ~v.unload
<1> DEFINE v == Verdict(h, end)
<1>1. CASE end \in {"REFUSED", "RESTORED"} /\ h
  <2>1. v = [state |-> "PREVIOUS", ok |-> FALSE, down |-> FALSE, unload |-> FALSE]
    BY <1>1 DEF Verdict
  <2>2. v \in Verdicts
    BY <2>1 DEF Verdicts, States
  <2>3. v.state = "PREVIOUS" /\ ~v.ok /\ ~v.down /\ ~v.unload
    BY <2>1
  <2>. QED
    BY <1>1, <2>2, <2>3
<1>2. CASE end = "UNDECODED"
  <2>1. v = [state |-> "NEW", ok |-> FALSE, down |-> FALSE, unload |-> TRUE]
    BY <1>2 DEF Verdict
  <2>2. v \in Verdicts
    BY <2>1 DEF Verdicts, States
  <2>3. v.state = "NEW" /\ ~v.ok /\ ~v.down /\ v.unload
    BY <2>1
  <2>. QED
    BY <1>2, <2>2, <2>3
<1>3. CASE end = "OPENED"
  <2>1. v = [state |-> "NEW", ok |-> TRUE, down |-> FALSE, unload |-> FALSE]
    BY <1>3 DEF Verdict
  <2>2. v \in Verdicts
    BY <2>1 DEF Verdicts, States
  <2>3. v.state = "NEW" /\ v.ok /\ ~v.down /\ ~v.unload
    BY <2>1
  <2>. QED
    BY <1>3, <2>2, <2>3
<1>4. CASE end = "LOST" \/ (end \in {"REFUSED", "RESTORED"} /\ ~h)
  <2>1. v = [state |-> "EMPTY", ok |-> FALSE, down |-> TRUE, unload |-> TRUE]
    BY <1>4 DEF Verdict
  <2>2. v \in Verdicts
    BY <2>1 DEF Verdicts, States
  <2>3. v.state = "EMPTY" /\ ~v.ok /\ v.down /\ v.unload
    BY <2>1
  <2>. QED
    BY <1>4, <2>2, <2>3
<1>5. QED
  BY <1>1, <1>2, <1>3, <1>4

-----------------------------------------------------------------------------
(* Frames.                                                                 *)

(* The step is console c's.                                                *)
Elsewise(c) ==
  \A d \in Consoles : d # c =>
    /\ pc'[d] = pc[d] /\ todo'[d] = todo[d] /\ ask'[d] = ask[d] /\ had'[d] = had[d]
    /\ old'[d] = old[d] /\ ans'[d] = ans[d] /\ copy'[d] = copy[d]

LEMMA Elsewhere ==
  ASSUME Inv, NEW d \in Consoles, tflm' = tflm,
         pc'[d] = pc[d], todo'[d] = todo[d], ask'[d] = ask[d], had'[d] = had[d],
         old'[d] = old[d], ans'[d] = ans[d], copy'[d] = copy[d],
         sess = d => sess' = d, scratch = d => scratch' = d, lease' = d <=> lease = d,
         fresh'[d] => fresh[d] /\ model' = model,
         sess # d \/ UNCHANGED <<model, name, claims, plug, started, rec, buf, odd>>
  PROVE  Here(d)'
<1>1. Here(d)
  BY DEF Inv
<1>2. Sound(todo[d])' /\ Tasks(d)' = Tasks(d)
  BY <1>1 DEF Here, Tasks, Calls, Sound
<1>3. Owns(d)'
  BY <1>1, <1>2 DEF Here, Owns
<1>4. CASE sess # d
  <2>1. pc[d] \notin WorkPlaces /\ ~(pc[d] \in {"tens", "named", "stands"} /\ copy[d].held)
    BY <1>1, <1>4 DEF Here, Owns
  <2>2. Undone(d)'
    BY <1>1, <2>1 DEF Here, Undone, WorkPlaces
  <2>3. Changing(d)' /\ AnswerInv(d)'
    BY <2>1 DEF Changing, AnswerInv, WorkPlaces, FluxPlaces
  <2>4. InfoInv(d)'
    BY <1>1, <2>1 DEF Here, InfoInv, Held, Container
  <2>. QED
    BY <1>2, <1>3, <2>2, <2>3, <2>4 DEF Here
<1>5. CASE UNCHANGED <<model, name, claims, plug, started, rec, buf, odd>>
  <2>1. What' = What /\ (Rest' <=> Rest) /\ (Empty' <=> Empty)
    BY <1>5 DEF What, Rest, Empty, Held, Container
  <2>2. Undone(d)'
    BY <1>1, <1>5, <2>1 DEF Here, Undone
  <2>3. Changing(d)'
    BY <1>1, <1>2, <1>5, <2>1 DEF Here, Changing, Container
  <2>4. AnswerInv(d)'
    <3>1. (Unmoved(d)' <=> Unmoved(d))
      BY <1>2, <2>1 DEF Unmoved
    <3>2. (Renewed(d)' <=> Renewed(d))
      BY <1>2, <1>5 DEF Renewed, Held, Container
    <3>3. (Emptied(d)' <=> Emptied(d))
      BY <1>2, <1>5, <2>1 DEF Emptied
    <3>. QED
      BY <1>1, <1>2, <1>5, <2>1, <3>1, <3>2, <3>3 DEF Here, AnswerInv
  <2>5. InfoInv(d)'
    BY <1>1, <1>5 DEF Here, InfoInv, Held, Container
  <2>. QED
    BY <1>2, <1>3, <2>2, <2>3, <2>4, <2>5 DEF Here
<1>6. QED
  BY <1>4, <1>5

LEMMA OthersHere ==
  ASSUME Inv, NEW c \in Consoles, Elsewise(c), tflm' = tflm, scratch' = scratch,
         sess \in {c, None}, sess' \in {c, None},
         \A d \in Consoles : d # c => (lease' = d <=> lease = d),
         \A d \in Consoles : fresh'[d] => fresh[d] /\ model' = model
  PROVE  \A d \in Consoles : d # c => Here(d)'
BY Elsewhere, NamesDiffer DEF Elsewise

LEMMA FluxElse ==
  ASSUME NEW c \in Consoles, Elsewise(c)
  PROVE  \A d \in Consoles : d # c => (Flux(d)' <=> Flux(d))
BY DEF Elsewise, Flux, Tasks, Calls

(* The counter is even unless somebody is at work on the model.            *)
LEMMA EvenUnless ==
  ASSUME Inv, NEW c, sess = c \/ sess \notin Consoles, c \in Consoles => ~Flux(c)
  PROVE  ~odd /\ Rest
<1>1. ASSUME NEW d \in Consoles, Flux(d) PROVE FALSE
  <2>1. pc[d] \in WorkPlaces
    BY <1>1 DEF Flux, FluxPlaces, WorkPlaces
  <2>2. sess = d
    BY <2>1 DEF Inv, Here, Owns
  <2>. QED
    BY <1>1, <2>2
<1>2. QED
  BY <1>1 DEF Inv, OddInv

LEMMA EmptyAtRest ==
  ASSUME Inv, Rest, model = None
  PROVE  Empty
<1>1. plug = None /\ claims = Held(None)
  BY NamesDiffer DEF Inv, WorldInv, Rest
<1>2. QED
  BY <1>1, HeldIs DEF Rest, Empty

LEMMA RestIfEmpty == Empty => Rest
BY HeldIs DEF Empty, Rest

LEMMA OddKept ==
  ASSUME Inv, UNCHANGED <<tflm, model, name, claims, plug, started, odd>>,
         rec' = rec \/ rec' \in {None, plug},
         \A d \in Consoles : Flux(d)' <=> Flux(d),
         \A d \in Consoles : fresh'[d] => fresh[d] \/ ~odd
  PROVE  OddInv'
<1>1. odd' <=> \E d \in Consoles : Flux(d)'
  BY DEF Inv, OddInv
<1>2. ~odd' => Rest'
  BY DEF Inv, OddInv, Rest, Held, Container
<1>3. \A d \in Consoles : fresh'[d] => ~odd'
  BY DEF Inv, OddInv
<1>4. QED
  <2>1. (\E d \in Consoles : Flux(d))' <=> \E d \in Consoles : Flux(d)'
    OBVIOUS
  <2>. QED
    BY <1>1, <1>2, <1>3, <2>1 DEF OddInv

LEMMA OddOn ==
  ASSUME Inv, NEW c \in Consoles, Flux(c), Flux(c)', UNCHANGED <<odd, fresh>>
  PROVE  OddInv' /\ \A d \in Consoles : ~fresh[d]
<1>1. odd /\ \A d \in Consoles : ~fresh[d]
  BY DEF Inv, OddInv
<1>2. odd' /\ \A d \in Consoles : ~fresh'[d]
  BY <1>1
<1>3. QED
  <2>1. (\E d \in Consoles : Flux(d))'
    OBVIOUS
  <2>. QED
    BY <1>1, <1>2, <2>1 DEF OddInv

LEMMA WorldKept ==
  ASSUME Inv, NEW c \in Consoles, Elsewise(c), pc[c] # "thresh",
         UNCHANGED <<tflm, model, plug, started, inside, buf>>,
         inside # None => lease' = lease /\ rec' = rec
  PROVE  WorldInv'
<1>1. CASE inside = None
  BY <1>1 DEF Inv, WorldInv
<1>2. CASE inside # None
  <2>1. lease' = lease /\ rec' = rec
        /\ (lease \in Consoles => pc[lease] = "thresh" /\ pc'[lease] = pc[lease])
    BY <1>2 DEF Inv, WorldInv, Elsewise
  <2>. QED
    BY <2>1 DEF Inv, WorldInv
<1>3. QED
  BY <1>1, <1>2

(* Whoever works on the model under the lease has the plugin to itself.    *)
LEMMA NobodyInside ==
  ASSUME Inv, NEW c \in Consoles, pc[c] # "thresh", lease = c \/ ~tflm \/ plug = None
  PROVE  inside = None
<1>1. CASE lease = c
  BY <1>1 DEF Inv, WorldInv
<1>2. CASE ~tflm \/ plug = None
  BY <1>2 DEF Inv, WorldInv
<1>3. QED
  BY <1>1, <1>2

-----------------------------------------------------------------------------
(* Verdicts.                                                               *)

LEMMA SettlesDoes ==
  ASSUME Inv, NEW c \in Consoles, NEW busy \in BOOLEAN, NEW leased \in BOOLEAN,
         NEW end \in {"REFUSED", "RESTORED", "UNDECODED", "OPENED", "LOST"},
         had' \in [Consoles -> BOOLEAN], Settles(c, end, leased, busy)
  PROVE  /\ pc' = [pc EXCEPT ![c] = "answer"]
         /\ pc' \in [Consoles -> Places] /\ todo' \in [Consoles -> Seq(Names)]
         /\ ans' \in [Consoles -> Answers]
         /\ pc'[c] = "answer" /\ Sound(todo'[c])
         /\ \A d \in Consoles : d # c =>
              pc'[d] = pc[d] /\ todo'[d] = todo[d] /\ ans'[d] = ans[d]
         /\ ans'[c].busy = busy
         /\ LET v == Verdict(had'[c], end) IN
            /\ \A x : x \in Tasks(c)' <=> InSettle(v, leased, x)
            /\ ~busy => ans'[c].state = v.state /\ ans'[c].ok = v.ok
<1> DEFINE v == Verdict(had'[c], end)
           w == [state |-> IF busy THEN None ELSE v.state, ok |-> v.ok, busy |-> busy]
<1>1. v \in Verdicts
  BY VerdictIs
<1>2. /\ tflm \in BOOLEAN /\ pc \in [Consoles -> Places]
      /\ todo \in [Consoles -> Seq(Names)] /\ ans \in [Consoles -> Answers]
  BY DEF Inv, Sorts, LocalSorts
<1> HIDE DEF v
<1>3. /\ pc' = [pc EXCEPT ![c] = "answer"]
      /\ todo' = [todo EXCEPT ![c] = SettleScript(v, leased)]
      /\ ans' = [ans EXCEPT ![c] = w]
  BY DEF Settles, Goes, Does, Told, v
<1>4. w \in Answers /\ w.busy = busy /\ (~busy => w.state = v.state /\ w.ok = v.ok)
  BY <1>1 DEF Verdicts, Answers, States
<1> HIDE DEF w
<1>5. /\ SettleScript(v, leased) \in Seq(Names) /\ Sound(SettleScript(v, leased))
      /\ \A x : x \in Calls(SettleScript(v, leased)) <=> InSettle(v, leased, x)
  BY <1>1, <1>2, SettleScriptIs
<1>6. todo'[c] = SettleScript(v, leased) /\ ans'[c] = w /\ pc'[c] = "answer"
  BY <1>2, <1>3
<1>7. \A x : x \in Tasks(c)' <=> InSettle(v, leased, x)
  BY <1>5, <1>6 DEF Tasks
<1>8. /\ pc' \in [Consoles -> Places] /\ todo' \in [Consoles -> Seq(Names)]
      /\ ans' \in [Consoles -> Answers]
      /\ \A d \in Consoles : d # c =>
           pc'[d] = pc[d] /\ todo'[d] = todo[d] /\ ans'[d] = ans[d]
  BY <1>2, <1>3, <1>4, <1>5 DEF Places, WorkPlaces
<1>9. QED
  BY <1>3, <1>4, <1>5, <1>6, <1>7, <1>8 DEF v

(* The previous model stands: nothing but the counter and the lease left.  *)
LEMMA SettlesPrevious ==
  ASSUME Inv, NEW c \in Consoles, NEW busy \in BOOLEAN, NEW leased \in BOOLEAN,
         NEW end \in {"REFUSED", "RESTORED"},
         had' \in [Consoles -> BOOLEAN], Settles(c, end, leased, busy)
  PROVE  had'[c] =>
         /\ \A x : x \in Tasks(c)' <=> (x = "even" /\ leased)
                                       \/ (x = "lease_give" /\ leased /\ tflm)
         /\ ans'[c].busy = busy /\ (~busy => ans'[c].state = "PREVIOUS")
<1> DEFINE v == Verdict(had'[c], end)
<1>1. had'[c] => v.state = "PREVIOUS" /\ ~v.ok /\ ~v.down /\ ~v.unload
  BY VerdictIs
<1>2. \A x : x \in Tasks(c)' <=> InSettle(v, leased, x)
  BY SettlesDoes
<1>3. ans'[c].busy = busy /\ (~busy => ans'[c].state = v.state)
  BY SettlesDoes
<1> HIDE DEF v
<1>4. QED
  BY <1>1, <1>2, <1>3 DEF InSettle

(* Nothing is left: the descriptors, the record and the claims go.         *)
LEMMA SettlesEmpty ==
  ASSUME Inv, NEW c \in Consoles, NEW busy \in BOOLEAN, NEW leased \in BOOLEAN,
         NEW end \in {"REFUSED", "RESTORED", "LOST"},
         had' \in [Consoles -> BOOLEAN], Settles(c, end, leased, busy),
         end = "LOST" \/ ~had'[c]
  PROVE  /\ \A x : x \in Tasks(c)' <=>
              \/ x \in {"release", "invalidate", "forget"}
              \/ x = "even" /\ leased
              \/ x \in {"plugin_unload", "lease_give"} /\ leased /\ tflm
         /\ ans'[c].busy = busy /\ (~busy => ans'[c].state = "EMPTY")
<1>1. LET v == Verdict(had'[c], end) IN
        /\ v.state = "EMPTY" /\ ~v.ok /\ v.down /\ v.unload
  BY VerdictIs
<1>2. QED
  BY <1>1, SettlesDoes DEF InSettle

(* The new model stands, decoded or not.                                   *)
LEMMA SettlesNew ==
  ASSUME Inv, NEW c \in Consoles, NEW end \in {"OPENED", "UNDECODED"},
         had' \in [Consoles -> BOOLEAN], Settles(c, end, TRUE, FALSE)
  PROVE  /\ \A x : x \in Tasks(c)' <=>
              \/ x \in {"invalidate", "commit", "even"}
              \/ x = "plugin_unload" /\ end = "UNDECODED" /\ tflm
              \/ x = "lease_give" /\ tflm
         /\ ~ans'[c].busy /\ ans'[c].state = "NEW" /\ (ans'[c].ok <=> end = "OPENED")
<1> DEFINE v == Verdict(had'[c], end)
<1>1. /\ v.state = "NEW" /\ ~v.down /\ (v.ok <=> end = "OPENED")
      /\ (v.unload <=> end = "UNDECODED")
  BY VerdictIs
<1>2. ASSUME NEW busy \in BOOLEAN, NEW leased \in BOOLEAN, Settles(c, end, leased, busy)
      PROVE  /\ ans'[c].busy = busy
             /\ \A x : x \in Tasks(c)' <=> InSettle(v, leased, x)
             /\ ~busy => ans'[c].state = v.state /\ ans'[c].ok = v.ok
  BY <1>2, SettlesDoes
<1> HIDE DEF v
<1>3. \A x : InSettle(v, TRUE, x) <=>
          \/ x \in {"invalidate", "commit", "even"}
          \/ x = "plugin_unload" /\ end = "UNDECODED" /\ tflm
          \/ x = "lease_give" /\ tflm
  BY ONLY <1>1 DEF InSettle
<1>4. QED
  BY <1>1, <1>2, <1>3

-----------------------------------------------------------------------------
(* Steps that move nothing of the model.                                   *)

LEMMA Quiet ==
  ASSUME Inv, NEW c \in Consoles, Elsewise(c),
         UNCHANGED <<tflm, model, name, claims, plug, started, rec, odd>>,
         buf' = buf \/ sess = None,
         Sorts', LocalSorts', OwnerInv', WorldInv', Here(c)', Flux(c)' <=> Flux(c),
         \A d \in Consoles : fresh'[d] => fresh[d] \/ (d = c /\ ~odd),
         \A d \in Consoles : d # c =>
           /\ sess = d => sess' = d
           /\ scratch = d => scratch' = d
           /\ lease' = d <=> lease = d
  PROVE  Inv'
<1>1. \A d \in Consoles : Flux(d)' <=> Flux(d)
  BY FluxElse
<1>2. OddInv'
  BY <1>1, OddKept
<1>3. ASSUME NEW d \in Consoles, d # c PROVE Here(d)'
  BY <1>3, Elsewhere, NamesDiffer DEF Elsewise
<1>4. QED
  BY <1>2, <1>3 DEF Inv

(* The stream's thread, the panel's and the other users of the store.      *)
LEMMA Aside ==
  ASSUME Inv, UNCHANGED <<local, tflm, model, name, buf, claims, plug, started>>,
         UNCHANGED <<odd, fresh, scratch>>,
         rec' = rec \/ (sess \notin Consoles /\ rec' \in {None, plug}),
         sess \in Consoles => sess' = sess,
         \A d \in Consoles : lease' = d <=> lease = d,
         Sorts', OwnerInv', WorldInv'
  PROVE  Inv'
<1>1. LocalSorts' /\ \A d \in Consoles : Flux(d)' <=> Flux(d)
  BY DEF Inv, LocalSorts, local, Flux, Tasks
<1>2. OddInv'
  BY <1>1, OddKept
<1>3. ASSUME NEW d \in Consoles PROVE Here(d)'
  <2>1. /\ pc'[d] = pc[d] /\ todo'[d] = todo[d] /\ ask'[d] = ask[d] /\ had'[d] = had[d]
        /\ old'[d] = old[d] /\ ans'[d] = ans[d] /\ copy'[d] = copy[d]
    BY DEF local
  <2>2. sess # d \/ UNCHANGED <<model, name, claims, plug, started, rec, buf, odd>>
    OBVIOUS
  <2>3. (sess = d => sess' = d) /\ (scratch = d => scratch' = d)
        /\ (lease' = d <=> lease = d) /\ (fresh'[d] => fresh[d] /\ model' = model)
    OBVIOUS
  <2>. QED
    BY <2>1, <2>2, <2>3, Elsewhere
<1>4. QED
  BY <1>1, <1>2, <1>3 DEF Inv

LEMMA StreamStartKeeps == Inv /\ StreamStart => Inv'
<1> SUFFICES ASSUME Inv, StreamStart PROVE Inv'
  OBVIOUS
<1>1. Sorts' /\ OwnerInv'
  <2>1. Sorts'
    BY DEF Inv, Sorts, OwnerInv, StreamStart, SessionFree, Streaming, seqVars
  <2>2. OwnerInv'
    BY DEF Inv, Sorts, OwnerInv, StreamStart, SessionFree, Streaming
  <2>. QED
    BY <2>1, <2>2
<1>2. WorldInv'
  BY DEF Inv, WorldInv, StreamStart, local
<1>3. sess \notin Consoles
  BY NamesDiffer DEF StreamStart, SessionFree
<1>4. QED
  BY <1>1, <1>2, <1>3, Aside DEF StreamStart, seqVars

LEMMA StreamStopKeeps == Inv /\ StreamStop => Inv'
<1> SUFFICES ASSUME Inv, StreamStop PROVE Inv'
  OBVIOUS
<1>1. Sorts' /\ OwnerInv'
  <2>1. Sorts'
    BY DEF Inv, Sorts, OwnerInv, StreamStop, Streaming, seqVars
  <2>2. OwnerInv'
    BY DEF Inv, Sorts, OwnerInv, StreamStop, Streaming
  <2>. QED
    BY <2>1, <2>2
<1>2. WorldInv'
  BY DEF Inv, WorldInv, StreamStop, local
<1>3. sess \notin Consoles
  BY NamesDiffer DEF StreamStop, Streaming
<1>4. QED
  BY <1>1, <1>2, <1>3, Aside DEF StreamStop, seqVars

LEMMA EntersWhat ==
  ASSUME Inv, Enters
  PROVE  inside' \in MaybeModel /\ (inside' # None => plug = inside' /\ started)
BY DEF Enters, Inv, Sorts, WorldInv, MaybeModel

LEMMA WorkerEnterKeeps == Inv /\ WorkerEnter => Inv'
<1> SUFFICES ASSUME Inv, WorkerEnter PROVE Inv'
  OBVIOUS
<1>1. Sorts' /\ OwnerInv'
  BY EntersWhat DEF Inv, Sorts, OwnerInv, WorkerEnter, Streaming, world, seqVars
<1>2. WorldInv'
  <2>1. /\ plug' = plug /\ started' = started /\ model' = model /\ buf' = buf /\ tflm' = tflm
        /\ lease' = "worker" /\ lease' \notin Consoles
    BY NamesDiffer DEF WorkerEnter, world
  <2>2. inside' # None => plug = inside' /\ started
    BY EntersWhat DEF WorkerEnter
  <2>. QED
    BY <2>1, <2>2 DEF Inv, WorldInv, None
<1>3. sess \notin Consoles /\ \A d \in Consoles : lease' = d <=> lease = d
  BY NamesDiffer DEF WorkerEnter, Streaming
<1>4. QED
  BY <1>1, <1>2, <1>3, Aside DEF WorkerEnter, seqVars, world

LEMMA WorkerLeaveKeeps == Inv /\ WorkerLeave => Inv'
<1> SUFFICES ASSUME Inv, WorkerLeave PROVE Inv'
  OBVIOUS
<1>1. Sorts' /\ OwnerInv'
  <2>1. Sorts'
    <3>1. inside \in MaybeModel /\ None \in MaybeModel
      BY DEF Inv, Sorts, MaybeModel
    <3>2. rec' = inside /\ recCur' = TRUE /\ lease' = None /\ inside' = None
      BY DEF WorkerLeave
    <3>. QED
      BY <3>1, <3>2 DEF Inv, Sorts, WorkerLeave, seqVars
  <2>2. OwnerInv'
    BY DEF Inv, Sorts, OwnerInv, WorkerLeave, Streaming, seqVars
  <2>. QED
    BY <2>1, <2>2
<1>2. WorldInv'
  BY DEF Inv, WorldInv, WorkerLeave
<1>3. /\ sess \notin Consoles /\ \A d \in Consoles : lease' = d <=> lease = d
      /\ rec' \in {None, plug}
  BY NamesDiffer DEF WorkerLeave, Streaming, Inv, OwnerInv, WorldInv
<1>4. QED
  BY <1>1, <1>2, <1>3, Aside DEF WorkerLeave, seqVars

LEMMA PanelTryKeeps == Inv /\ PanelTry => Inv'
<1> SUFFICES ASSUME Inv, PanelTry PROVE Inv'
  OBVIOUS
<1>1. Sorts' /\ OwnerInv'
  BY DEF Inv, Sorts, OwnerInv, PanelTry, world, seqVars
<1>2. WorldInv'
  BY DEF Inv, WorldInv, PanelTry, world
<1>3. \A d \in Consoles : lease' = d <=> lease = d
  BY NamesDiffer DEF PanelTry
<1>4. QED
  BY <1>1, <1>2, <1>3, Aside DEF PanelTry, seqVars, world

LEMMA PanelPaintsKeeps == Inv /\ PanelPaints => Inv'
<1> SUFFICES ASSUME Inv, PanelPaints PROVE Inv'
  OBVIOUS
<1>1. Sorts' /\ OwnerInv'
  BY EntersWhat DEF Inv, Sorts, OwnerInv, PanelPaints, Streaming, world, seqVars
<1>2. rec = plug
  <2>1. ~odd /\ Rest
    BY NamesDiffer, EvenUnless DEF PanelPaints, Streaming
  <2>. QED
    BY <2>1 DEF Rest, PanelPaints
<1>3. WorldInv'
  <2>1. /\ plug' = plug /\ started' = started /\ model' = model /\ buf' = buf /\ tflm' = tflm
        /\ rec' = rec /\ lease' = "panel" /\ lease' \notin Consoles
    BY NamesDiffer DEF PanelPaints, world
  <2>2. inside' # None => plug = inside' /\ started
    BY EntersWhat DEF PanelPaints
  <2>. QED
    BY <1>2, <2>1, <2>2 DEF Inv, WorldInv, None
<1>4. QED
  BY <1>1, <1>3, Aside DEF PanelPaints, seqVars, world

LEMMA PanelLeaveKeeps == Inv /\ PanelLeave => Inv'
<1> SUFFICES ASSUME Inv, PanelLeave PROVE Inv'
  OBVIOUS
<1>1. Sorts' /\ OwnerInv'
  <2>1. Sorts'
    BY DEF Inv, Sorts, OwnerInv, PanelLeave, world, seqVars, MaybeModel
  <2>2. OwnerInv'
    BY DEF Inv, OwnerInv, PanelLeave, world, Streaming, None
  <2>. QED
    BY <2>1, <2>2
<1>2. WorldInv'
  BY DEF Inv, WorldInv, PanelLeave, world
<1>3. \A d \in Consoles : lease' = d <=> lease = d
  BY NamesDiffer DEF PanelLeave
<1>4. QED
  BY <1>1, <1>2, <1>3, Aside DEF PanelLeave, seqVars, world

LEMMA WriterKeeps == Inv /\ Writer => Inv'
<1> SUFFICES ASSUME Inv, Writer PROVE Inv'
  OBVIOUS
<1>1. Sorts' /\ OwnerInv'
  BY DEF Inv, Sorts, OwnerInv, Writer, Streaming, world, seqVars
<1>2. WorldInv'
  BY DEF Inv, WorldInv, Writer, world, local
<1>3. QED
  BY <1>1, <1>2, Aside DEF Writer, seqVars, world

-----------------------------------------------------------------------------
(* `nn info`.                                                              *)

LEMMA InfoFrame ==
  ASSUME Inv, NEW c \in Consoles, NEW p \in InfoPlaces \cup {"out"}, At(c, pc[c]),
         pc[c] \in InfoPlaces \cup {"out"}, Goes(c, p),
         UNCHANGED <<tflm, world, odd, scratch, blob, lease, inside, todo, ask, had, old, ans>>,
         copy' \in [Consoles -> Copies], fresh' \in [Consoles -> BOOLEAN],
         \A d \in Consoles : d # c => copy'[d] = copy[d] /\ fresh'[d] = fresh[d],
         fresh'[c] => fresh[c] \/ ~odd,
         sess' = sess \/ (SessionFree /\ sess' = c) \/ (sess = c /\ sess' = None),
         p \in {"tens", "named", "stands"} /\ copy'[c].held => sess' = c,
         InfoInv(c)'
  PROVE  Inv'
<1>1. /\ pc' \in [Consoles -> Places] /\ pc'[c] = p /\ todo'[c] = <<>> /\ todo[c] = <<>>
      /\ Elsewise(c)
  BY DEF Inv, LocalSorts, Goes, At, Elsewise, Places
<1>2. Sorts'
  BY DEF Inv, Sorts, world
<1>3. LocalSorts'
  BY <1>1 DEF Inv, LocalSorts
<1>4. OwnerInv'
  BY NamesDiffer DEF Inv, OwnerInv, SessionFree, Streaming, world, None
<1>5. WorldInv'
  <2>1. pc[c] # "thresh"
    BY DEF InfoPlaces
  <2>. QED
    BY <1>1, <2>1, WorldKept DEF world
<1>6. Tasks(c)' = {} /\ Tasks(c) = {}
  BY <1>1, ScriptEmpty DEF Tasks
<1>7. Flux(c)' <=> Flux(c)
  BY <1>1, <1>6 DEF Flux, FluxPlaces, InfoPlaces
<1>8. Here(c)'
  <2>1. Sound(todo[c])'
    BY <1>1, ScriptEmpty
  <2>2. Owns(c)'
    <3>1. lease # c /\ p \notin WorkPlaces
      BY DEF Inv, Here, Owns, InfoPlaces, FluxPlaces, WorkPlaces
    <3>2. lease' # c /\ p \notin {"thresh", "test"}
      BY <3>1 DEF InfoPlaces
    <3>. QED
      BY <1>1, <1>6, <3>1, <3>2 DEF Owns
  <2>3. Undone(c)' /\ Changing(c)' /\ AnswerInv(c)'
    BY <1>1 DEF Undone, Changing, AnswerInv, InfoPlaces, FluxPlaces
  <2>. QED
    BY <2>1, <2>2, <2>3 DEF Here
<1>9. \A d \in Consoles : d # c => (sess = d => sess' = d)
  BY NamesDiffer DEF SessionFree
<1>10. QED
  BY <1>1, <1>2, <1>3, <1>4, <1>5, <1>7, <1>8, <1>9, Quiet DEF world

(* One field of the report, or two, written.                               *)
LEMMA CopyTyped ==
  ASSUME Inv, NEW c \in Consoles, NEW r \in Copies, copy' = [copy EXCEPT ![c] = r]
  PROVE  /\ copy' \in [Consoles -> Copies] /\ copy'[c] = r
         /\ \A d \in Consoles : d # c => copy'[d] = copy[d]
BY DEF Inv, LocalSorts

LEMMA CopyIs ==
  ASSUME Inv, NEW c \in Consoles
  PROVE  copy[c] \in Copies /\ copy \in [Consoles -> Copies]
BY DEF Inv, LocalSorts

(* A console reading for a report is out of the model's changes.           *)
LEMMA AtInfo ==
  ASSUME Inv, NEW c \in Consoles
  PROVE  InfoInv(c) /\ Owns(c)
BY DEF Inv, Here

(* Holding the session, or seen to be fresh, the model is at rest.         *)
LEMMA RestWhileRead ==
  ASSUME Inv, NEW c \in Consoles, pc[c] \notin FluxPlaces \cup {"answer"},
         sess = c \/ fresh[c]
  PROVE  Rest /\ ~odd
<1>1. CASE sess = c
  BY <1>1, EvenUnless DEF Flux
<1>2. CASE fresh[c]
  BY <1>2 DEF Inv, OddInv
<1>3. QED
  BY <1>1, <1>2

LEMMA InfoStartKeeps ==
  ASSUME Inv, NEW c \in Consoles, InfoStart(c)
  PROVE  Inv'
<1>1. /\ "session" \in InfoPlaces /\ At(c, pc[c]) /\ pc[c] = "out" /\ Goes(c, "session")
      /\ pc'[c] = "session"
  BY DEF InfoStart, At, InfoPlaces, Goes, Inv, LocalSorts
<1>2. /\ fresh' \in [Consoles -> BOOLEAN] /\ (fresh'[c] <=> ~odd)
      /\ \A d \in Consoles : d # c => fresh'[d] = fresh[d]
  BY DEF InfoStart, Inv, Sorts
<1>3. InfoInv(c)'
  BY <1>1 DEF InfoInv
<1>4. copy' = copy /\ copy \in [Consoles -> Copies]
  BY CopyIs DEF InfoStart
<1>5. QED
  BY <1>1, <1>2, <1>3, <1>4, InfoFrame DEF InfoStart, holds

LEMMA InfoSessionKeeps ==
  ASSUME Inv, NEW c \in Consoles, InfoSession(c)
  PROVE  Inv'
<1> DEFINE r == [copy[c] EXCEPT !.held = SessionFree]
<1>1. /\ "tens" \in InfoPlaces /\ pc[c] \in InfoPlaces /\ At(c, pc[c]) /\ Goes(c, "tens")
      /\ pc'[c] = "tens"
  BY DEF InfoSession, At, InfoPlaces, Goes, Inv, LocalSorts
<1>2. r \in Copies /\ (r.held <=> SessionFree)
  <2>1. SessionFree \in BOOLEAN
    BY DEF SessionFree
  <2>. HIDE DEF SessionFree
  <2>. QED
    BY <2>1, CopyIs DEF Copies
<1>3. copy' = [copy EXCEPT ![c] = r]
  BY DEF InfoSession
<1> HIDE DEF r
<1>4. /\ copy' \in [Consoles -> Copies] /\ copy'[c] = r
      /\ \A d \in Consoles : d # c => copy'[d] = copy[d]
  BY <1>2, <1>3, CopyTyped
<1>5. InfoInv(c)'
  BY <1>1 DEF InfoInv
<1>6. fresh' \in [Consoles -> BOOLEAN] /\ UNCHANGED <<odd, fresh>>
  BY DEF Inv, Sorts, InfoSession, seqVars
<1>7. /\ sess' = sess \/ (SessionFree /\ sess' = c)
      /\ copy'[c].held => sess' = c
  BY <1>2, <1>4 DEF InfoSession
<1>8. QED
  BY <1>1, <1>4, <1>5, <1>6, <1>7, InfoFrame DEF InfoSession

LEMMA InfoTensorsKeeps ==
  ASSUME Inv, NEW c \in Consoles, InfoTensors(c)
  PROVE  Inv'
<1> DEFINE r == [copy[c] EXCEPT !.tens = model]
<1>1. /\ "named" \in InfoPlaces /\ pc[c] = "tens" /\ At(c, pc[c]) /\ Goes(c, "named")
      /\ pc'[c] = "named" /\ "tens" \in InfoPlaces
  BY DEF InfoTensors, At, InfoPlaces, Goes, Inv, LocalSorts
<1>2. r \in Copies /\ r.tens = model /\ r.held = copy[c].held
  BY CopyIs DEF Copies, Inv, Sorts
<1>3. copy' = [copy EXCEPT ![c] = r]
  BY DEF InfoTensors
<1> HIDE DEF r
<1>4. /\ copy' \in [Consoles -> Copies] /\ copy'[c] = r
      /\ \A d \in Consoles : d # c => copy'[d] = copy[d]
  BY <1>2, <1>3, CopyTyped
<1>5. /\ UNCHANGED <<odd, fresh, model, sess>>
      /\ fresh \in [Consoles -> BOOLEAN]
  BY DEF Inv, Sorts, InfoTensors, seqVars, holds, world
<1>6. InfoInv(c)'
  BY <1>1, <1>2, <1>4, <1>5 DEF InfoInv
<1>7. copy'[c].held => sess' = c
  BY <1>1, <1>2, <1>4, <1>5, AtInfo DEF Owns
<1>8. QED
  BY <1>1, <1>4, <1>5, <1>6, <1>7, InfoFrame DEF InfoTensors, holds

LEMMA InfoNameKeeps ==
  ASSUME Inv, NEW c \in Consoles, InfoName(c)
  PROVE  Inv'
<1> DEFINE r == [copy[c] EXCEPT !.name = name]
<1>1. /\ "stands" \in InfoPlaces /\ pc[c] = "named" /\ At(c, pc[c]) /\ Goes(c, "stands")
      /\ pc'[c] = "stands" /\ "named" \in InfoPlaces
  BY DEF InfoName, At, InfoPlaces, Goes, Inv, LocalSorts
<1>2. r \in Copies /\ r.tens = copy[c].tens /\ r.name = name /\ r.held = copy[c].held
  BY CopyIs DEF Copies, Inv, Sorts
<1>3. copy' = [copy EXCEPT ![c] = r]
  BY DEF InfoName
<1> HIDE DEF r
<1>4. /\ copy' \in [Consoles -> Copies] /\ copy'[c] = r
      /\ \A d \in Consoles : d # c => copy'[d] = copy[d]
  BY <1>2, <1>3, CopyTyped
<1>5. /\ UNCHANGED <<odd, fresh, model, sess>>
      /\ fresh \in [Consoles -> BOOLEAN]
  BY DEF Inv, Sorts, InfoName, seqVars, holds, world
<1>6. copy[c].held => sess = c
  BY <1>1, AtInfo DEF Owns
<1>7. copy[c].held \/ fresh[c] => copy[c].tens = model /\ name = model
  BY <1>1, <1>6, AtInfo, RestWhileRead DEF InfoInv, Rest, FluxPlaces
<1>8. InfoInv(c)'
  BY <1>1, <1>2, <1>4, <1>5, <1>7 DEF InfoInv
<1>9. copy'[c].held => sess' = c
  BY <1>2, <1>4, <1>5, <1>6
<1>10. QED
  BY <1>1, <1>4, <1>5, <1>8, <1>9, InfoFrame DEF InfoName, holds

LEMMA InfoStandsKeeps ==
  ASSUME Inv, NEW c \in Consoles, InfoStands(c)
  PROVE  Inv'
<1> DEFINE r == [copy[c] EXCEPT !.stands = CopyStands(c)]
           p == IF CopyStands(c) THEN "line" ELSE "told"
<1>1. /\ p \in InfoPlaces /\ pc[c] = "stands" /\ At(c, pc[c]) /\ Goes(c, p)
      /\ pc'[c] = p /\ "stands" \in InfoPlaces
  BY DEF InfoStands, At, InfoPlaces, Goes, Inv, LocalSorts
<1>2. CopyStands(c) \in BOOLEAN
  BY CopyIs DEF CopyStands, Copies, Inv, Sorts
<1>3. r \in Copies /\ r.tens = copy[c].tens /\ r.name = copy[c].name
      /\ (r.stands <=> CopyStands(c))
  BY <1>2, CopyIs DEF Copies
<1>4. copy' = [copy EXCEPT ![c] = r]
  BY DEF InfoStands
<1> HIDE DEF r
<1>5. /\ copy' \in [Consoles -> Copies] /\ copy'[c] = r
      /\ \A d \in Consoles : d # c => copy'[d] = copy[d]
  BY <1>3, <1>4, CopyTyped
<1>6. /\ fresh' \in [Consoles -> BOOLEAN] /\ (fresh'[c] => CopyStands(c) /\ ~odd)
      /\ \A d \in Consoles : d # c => fresh'[d] = fresh[d]
  BY <1>2 DEF Inv, Sorts, InfoStands
<1>7. model' = model
  BY DEF InfoStands, world
<1>8. CopyStands(c) => copy[c].tens = model /\ copy[c].name = model
  BY <1>1, AtInfo DEF InfoInv, CopyStands
<1>9. InfoInv(c)'
  <2>1. CASE CopyStands(c)
    BY <1>1, <1>3, <1>5, <1>7, <1>8, <2>1 DEF InfoInv
  <2>2. CASE ~CopyStands(c)
    BY <1>1, <1>3, <1>5, <2>2 DEF InfoInv
  <2>. QED
    BY <2>1, <2>2
<1>10. sess' = sess \/ (sess = c /\ sess' = None)
  BY <1>1, AtInfo DEF Owns, InfoStands
<1>11. p \notin {"tens", "named", "stands"}
  OBVIOUS
<1> HIDE DEF p
<1>12. QED
  BY <1>1, <1>5, <1>6, <1>9, <1>10, <1>11, InfoFrame DEF InfoStands

LEMMA InfoLineKeeps ==
  ASSUME Inv, NEW c \in Consoles, InfoLine(c)
  PROVE  Inv'
<1> DEFINE r == [copy[c] EXCEPT !.line = model]
<1>1. /\ "check" \in InfoPlaces /\ pc[c] = "line" /\ At(c, pc[c]) /\ Goes(c, "check")
      /\ pc'[c] = "check" /\ "line" \in InfoPlaces
  BY DEF InfoLine, At, InfoPlaces, Goes, Inv, LocalSorts
<1>2. /\ r \in Copies /\ r.tens = copy[c].tens /\ r.name = copy[c].name
      /\ r.stands = copy[c].stands /\ r.line = model
  BY CopyIs DEF Copies, Inv, Sorts
<1>3. copy' = [copy EXCEPT ![c] = r]
  BY DEF InfoLine
<1> HIDE DEF r
<1>4. /\ copy' \in [Consoles -> Copies] /\ copy'[c] = r
      /\ \A d \in Consoles : d # c => copy'[d] = copy[d]
  BY <1>2, <1>3, CopyTyped
<1>5. /\ UNCHANGED <<odd, fresh, model, sess>>
      /\ fresh \in [Consoles -> BOOLEAN]
  BY DEF Inv, Sorts, InfoLine, seqVars, holds, world
<1>6. InfoInv(c)'
  BY <1>1, <1>2, <1>4, <1>5, AtInfo DEF InfoInv
<1>7. QED
  BY <1>1, <1>4, <1>5, <1>6, InfoFrame DEF InfoLine, holds

LEMMA InfoCheckKeeps ==
  ASSUME Inv, NEW c \in Consoles, InfoCheck(c)
  PROVE  Inv'
<1> DEFINE r == [copy[c] EXCEPT !.line = IF InfoStill(c) THEN copy[c].line ELSE Busy]
<1>1. /\ "extra" \in InfoPlaces /\ pc[c] = "check" /\ At(c, pc[c]) /\ Goes(c, "extra")
      /\ pc'[c] = "extra" /\ "check" \in InfoPlaces
  BY DEF InfoCheck, At, InfoPlaces, Goes, Inv, LocalSorts
<1>2. /\ r \in Copies /\ r.tens = copy[c].tens /\ r.name = copy[c].name
      /\ r.stands = copy[c].stands
      /\ r.line = IF fresh[c] THEN copy[c].line ELSE Busy
  BY CopyIs DEF Copies, InfoStill
<1>3. copy' = [copy EXCEPT ![c] = r]
  BY DEF InfoCheck
<1> HIDE DEF r
<1>4. /\ copy' \in [Consoles -> Copies] /\ copy'[c] = r
      /\ \A d \in Consoles : d # c => copy'[d] = copy[d]
  BY <1>2, <1>3, CopyTyped
<1>5. /\ UNCHANGED <<odd, fresh, model, sess>>
      /\ fresh \in [Consoles -> BOOLEAN]
  BY DEF Inv, Sorts, InfoCheck, seqVars, holds, world
<1>6. InfoInv(c)'
  BY <1>1, <1>2, <1>4, <1>5, AtInfo DEF InfoInv
<1>7. QED
  BY <1>1, <1>4, <1>5, <1>6, InfoFrame DEF InfoCheck, holds

LEMMA InfoExtraKeeps ==
  ASSUME Inv, NEW c \in Consoles, InfoExtra(c)
  PROVE  Inv'
<1> DEFINE f == IF fresh[c] THEN claims ELSE Busy
           n == IF fresh[c] /\ started THEN plug ELSE None
           r == [copy[c] EXCEPT !.from = f, !.runs = n]
<1>1. /\ "told" \in InfoPlaces /\ pc[c] = "extra" /\ At(c, pc[c]) /\ Goes(c, "told")
      /\ pc'[c] = "told" /\ "extra" \in InfoPlaces
  BY DEF InfoExtra, At, InfoPlaces, Goes, Inv, LocalSorts
<1>2. f \in MaybeModel \cup {Busy} /\ n \in MaybeModel
  BY DEF Inv, Sorts, MaybeModel
<1>3. copy' = [copy EXCEPT ![c] = r]
  BY DEF InfoExtra
<1>4. f \in {Held(copy[c].tens), Busy} /\ n \in {copy[c].tens, None}
  <2>1. fresh[c] => copy[c].tens = model /\ Rest
    BY <1>1, AtInfo, RestWhileRead DEF InfoInv, FluxPlaces
  <2>2. plug # None => model = plug
    BY DEF Inv, WorldInv
  <2>. QED
    BY <2>1, <2>2 DEF Rest
<1> HIDE DEF f, n
<1>5. /\ r \in Copies /\ r.tens = copy[c].tens /\ r.name = copy[c].name
      /\ r.stands = copy[c].stands /\ r.line = copy[c].line
      /\ r.from = f /\ r.runs = n
  BY <1>2, CopyIs DEF Copies
<1> HIDE DEF r
<1>6. /\ copy' \in [Consoles -> Copies] /\ copy'[c] = r
      /\ \A d \in Consoles : d # c => copy'[d] = copy[d]
  BY <1>3, <1>5, CopyTyped
<1>7. /\ UNCHANGED <<odd, fresh, model, sess, tflm>>
      /\ fresh \in [Consoles -> BOOLEAN]
  BY DEF Inv, Sorts, InfoExtra, seqVars, holds, world
<1>8. InfoInv(c)'
  BY <1>1, <1>4, <1>5, <1>6, <1>7, AtInfo DEF InfoInv, Held, Container
<1>9. QED
  BY <1>1, <1>6, <1>7, <1>8, InfoFrame DEF InfoExtra, holds

LEMMA InfoDoneKeeps ==
  ASSUME Inv, NEW c \in Consoles, InfoDone(c)
  PROVE  Inv'
<1>1. /\ "told" \in InfoPlaces /\ pc[c] = "told" /\ At(c, pc[c]) /\ Goes(c, "out")
      /\ pc'[c] = "out"
  BY DEF InfoDone, At, InfoPlaces, Goes, Inv, LocalSorts
<1>2. NoCopy \in Copies
  BY DEF NoCopy, Copies, MaybeModel
<1>3. /\ copy' \in [Consoles -> Copies]
      /\ \A d \in Consoles : d # c => copy'[d] = copy[d]
  BY <1>2, CopyTyped DEF InfoDone
<1>4. /\ fresh' \in [Consoles -> BOOLEAN] /\ ~fresh'[c]
      /\ \A d \in Consoles : d # c => fresh'[d] = fresh[d]
  BY DEF Inv, Sorts, InfoDone
<1>5. InfoInv(c)'
  BY <1>1 DEF InfoInv
<1>6. QED
  BY <1>1, <1>3, <1>4, <1>5, InfoFrame DEF InfoDone, holds

-----------------------------------------------------------------------------
(* A load or an unload before it changes anything, and once it is over.    *)

LEMMA BeginKeeps ==
  ASSUME Inv, NEW c \in Consoles, Begin(c)
  PROVE  Inv'
<1>1. PICK p \in {"load", "unload"} :
        /\ pc' = [pc EXCEPT ![c] = p] /\ pc[c] = "out" /\ todo[c] = <<>>
        /\ \E m \in MaybeModel : ask' = [ask EXCEPT ![c] = m] /\ (p = "load" => m \in Models)
  BY DEF Begin, Goes, At, MaybeModel
<1>2. LocalSorts' /\ Elsewise(c) /\ pc'[c] = p /\ ask'[c] \in MaybeModel
      /\ (p = "load" => ask'[c] \in Models)
  BY <1>1 DEF Begin, Inv, LocalSorts, Places, Elsewise
<1>3. Sorts' /\ OwnerInv'
  <2>1. Sorts'
    BY DEF Begin, Inv, Sorts, world, seqVars, holds
  <2>2. OwnerInv'
    BY DEF Begin, Inv, OwnerInv, world, holds, Streaming
  <2>. QED
    BY <2>1, <2>2
<1>4. WorldInv'
  BY <1>1, <1>2, WorldKept DEF Begin, world, holds
<1>5. todo' = todo /\ Tasks(c)' = {} /\ Tasks(c) = {} /\ Sound(todo[c])'
  BY <1>1, ScriptEmpty DEF Begin, Tasks
<1>6. Flux(c)' <=> Flux(c)
  BY <1>1, <1>2 DEF Flux, FluxPlaces
<1>7. Here(c)'
  <2>1. lease' # c
    BY <1>1 DEF Inv, Here, Owns, FluxPlaces, Begin, holds
  <2>2. Owns(c)'
    BY <1>2, <1>5, <2>1 DEF Owns, WorkPlaces
  <2>3. Undone(c)' /\ Changing(c)' /\ AnswerInv(c)' /\ InfoInv(c)'
    BY <1>2 DEF Undone, Changing, AnswerInv, InfoInv, FluxPlaces
  <2>. QED
    BY <1>5, <2>2, <2>3 DEF Here
<1>8. QED
  BY <1>2, <1>3, <1>4, <1>6, <1>7, Quiet DEF Begin, world, holds, seqVars

LEMMA ClaimKeeps ==
  ASSUME Inv, NEW c \in Consoles, Claim(c)
  PROVE  Inv'
<1>1. PICK p \in {"prepare", "unlease", "out"} :
        /\ pc' = [pc EXCEPT ![c] = p] /\ pc[c] \in {"load", "unload"} /\ todo[c] = <<>>
        /\ p = "prepare" => pc[c] = "load"
        /\ p # "out" => /\ SessionFree /\ sess' = c
                        /\ old' = [old EXCEPT ![c] = What]
                        /\ had' = [had EXCEPT ![c] = model # None]
        /\ p = "out" => UNCHANGED <<sess, old, had>>
  BY DEF Claim, Goes
<1>2. LocalSorts' /\ Elsewise(c) /\ pc'[c] = p
      /\ (p # "out" => old'[c] = What /\ (had'[c] <=> model # None))
  BY <1>1 DEF Claim, Inv, LocalSorts, Places, WorkPlaces, Elsewise
<1>3. Sorts'
  BY <1>1 DEF Claim, Inv, Sorts, world, seqVars
<1>4. OwnerInv'
  BY <1>1, NamesDiffer DEF Claim, Inv, OwnerInv, world, Streaming, SessionFree, None
<1>5. WorldInv'
  BY <1>1, <1>2, WorldKept DEF Claim, world
<1>6. todo' = todo /\ Tasks(c)' = {} /\ Tasks(c) = {} /\ Sound(todo[c])'
  BY <1>1, ScriptEmpty DEF Claim, Tasks
<1>7. Flux(c)' <=> Flux(c)
  BY <1>1, <1>2 DEF Flux, FluxPlaces
<1>8. Here(c)'
  <2>1. lease' # c
    BY <1>1 DEF Inv, Here, Owns, FluxPlaces, Claim
  <2>2. Owns(c)'
    BY <1>1, <1>2, <1>6, <2>1 DEF Owns, WorkPlaces
  <2>3. What' = What /\ model' = model /\ ask' = ask
    BY DEF Claim, What, world
  <2>4. Undone(c)'
    BY <1>1, <1>2, <2>3 DEF Undone, Inv, Here
  <2>5. Changing(c)' /\ AnswerInv(c)' /\ InfoInv(c)'
    BY <1>2 DEF Changing, AnswerInv, InfoInv, FluxPlaces
  <2>. QED
    BY <1>6, <2>2, <2>4, <2>5 DEF Here
<1>9. \A d \in Consoles : d # c => (sess = d => sess' = d)
  BY <1>1, NamesDiffer DEF SessionFree
<1>10. QED
  BY <1>2, <1>3, <1>4, <1>5, <1>7, <1>8, <1>9, Quiet DEF Claim, world, seqVars

(* Nothing is left to do: the answer of one that changed nothing.          *)
LEMMA AsItWasIs ==
  ASSUME Inv, NEW c \in Consoles, pc[c] \in {"prepare", "ready", "fetched", "unlease"}
  PROVE  /\ sess = c /\ lease # c /\ ~odd /\ Rest /\ What = old[c]
         /\ had[c] <=> model # None
         /\ ~had[c] => Empty
<1>1. sess = c /\ lease # c /\ What = old[c] /\ (had[c] <=> model # None)
  BY DEF Inv, Here, Owns, Undone, WorkPlaces, FluxPlaces
<1>2. ~odd /\ Rest
  BY <1>1, EvenUnless DEF Flux, FluxPlaces
<1>3. QED
  BY <1>1, <1>2, EmptyAtRest

LEMMA PrepareKeeps ==
  ASSUME Inv, NEW c \in Consoles, Prepare(c)
  PROVE  Inv'
<1>1. /\ pc[c] = "prepare" /\ todo[c] = <<>> /\ What = old[c]
      /\ sess = c /\ lease # c /\ ~odd /\ Rest /\ (~had[c] => Empty)
      /\ ask[c] \in Models
  BY AsItWasIs DEF Prepare, At, Inv, Here, Undone
<1>2. PICK p \in {"ready", "answer"} :
        /\ pc' = [pc EXCEPT ![c] = p]
        /\ p = "ready" => ans' = ans /\ blob' = c
        /\ p = "answer" => blob' = blob /\ \E b \in BOOLEAN, st \in States :
             /\ ans' = [ans EXCEPT ![c] = [state |-> st, ok |-> FALSE, busy |-> b]]
             /\ ~b => st = IF had[c] THEN "PREVIOUS" ELSE "EMPTY"
             /\ b => st = None
  BY DEF Prepare, Goes, Told, AsItWas, States
<1>3. LocalSorts' /\ Elsewise(c) /\ pc'[c] = p
  <2>1. ans' \in [Consoles -> Answers] /\ \A d \in Consoles : d # c => ans'[d] = ans[d]
    <3>1. CASE p = "answer"
      <4>1. PICK b \in BOOLEAN, st \in States :
              /\ ans' = [ans EXCEPT ![c] = [state |-> st, ok |-> FALSE, busy |-> b]]
              /\ b => st = None
        BY <1>2, <3>1
      <4>2. [state |-> st, ok |-> FALSE, busy |-> b] \in Answers
        BY <4>1 DEF Answers
      <4>. QED
        BY <4>1, <4>2 DEF Inv, LocalSorts
    <3>. QED
      BY <1>2, <3>1 DEF Inv, LocalSorts
  <2>. QED
    BY <1>2, <2>1 DEF Prepare, Inv, LocalSorts, Places, WorkPlaces, Elsewise
<1>4. p = "answer" => \/ ans'[c].busy
                      \/ ~ans'[c].busy /\ ans'[c].state = "PREVIOUS"
                      \/ ~ans'[c].busy /\ ans'[c].state = "EMPTY" /\ Empty
  BY <1>1, <1>2 DEF Inv, LocalSorts
<1>5. Sorts'
  BY <1>2 DEF Prepare, Inv, Sorts, world, seqVars
<1>6. OwnerInv'
  BY DEF Prepare, Inv, OwnerInv, world, Streaming
<1>7. WorldInv'
  BY <1>1, <1>3, WorldKept DEF Prepare, world
<1>8. todo' = todo /\ Tasks(c)' = {} /\ Tasks(c) = {} /\ Sound(todo[c])'
  BY <1>1, ScriptEmpty DEF Prepare, Tasks
<1>9. Flux(c)' <=> Flux(c)
  BY <1>1, <1>3, <1>8 DEF Flux, FluxPlaces
<1>10. /\ What' = What /\ model' = model /\ ask' = ask /\ tflm' = tflm /\ had' = had
       /\ old' = old /\ lease' = lease /\ sess' = sess /\ odd' = odd
       /\ (Rest' <=> Rest) /\ (Empty' <=> Empty)
  BY DEF Prepare, What, world, seqVars, Rest, Empty, Held, Container
<1>11. Here(c)'
  <2>1. Owns(c)'
    BY <1>1, <1>3, <1>8, <1>10 DEF Owns, FluxPlaces
  <2>2. Undone(c)'
    BY <1>1, <1>3, <1>10, AsItWasIs DEF Undone
  <2>3. AnswerInv(c)'
    BY <1>1, <1>3, <1>4, <1>8, <1>10 DEF AnswerInv, Unmoved, Emptied, Empty
  <2>4. Changing(c)' /\ InfoInv(c)'
    BY <1>3 DEF Changing, InfoInv, FluxPlaces
  <2>. QED
    BY <1>8, <2>1, <2>2, <2>3, <2>4 DEF Here
<1>12. QED
  BY <1>3, <1>5, <1>6, <1>7, <1>9, <1>11, Quiet DEF Prepare, world, seqVars

LEMMA UnloadLeaseKeeps ==
  ASSUME Inv, NEW c \in Consoles, UnloadLease(c)
  PROVE  Inv'
<1>1. /\ pc[c] = "unlease" /\ todo[c] = <<>> /\ What = old[c]
      /\ sess = c /\ lease # c /\ ~odd /\ Rest
  BY AsItWasIs DEF UnloadLease, At
<1> DEFINE s == todo'[c]
           b == ans'[c].busy
           full == If(~tflm, BareUnload) \o If(tflm, UnloadScript)
<1>2. /\ full \in Seq(Names) /\ Sound(full)
      /\ Calls(full) =
           IF tflm THEN {"odd", "plugin_unload", "invalidate", "lease_give", "release",
                         "forget", "even"}
           ELSE {"odd", "invalidate", "release", "forget", "even"}
  BY UnloadEither, UnloadScripts, BareUnloadIs DEF Inv, Sorts
<1>3. /\ pc' = [pc EXCEPT ![c] = "answer"]
      /\ \/ /\ todo' = [todo EXCEPT ![c] = full]
            /\ ans' = [ans EXCEPT ![c] = [state |-> "EMPTY", ok |-> TRUE, busy |-> FALSE]]
            /\ (tflm => lease = None /\ lease' = c) /\ (~tflm => lease' = lease)
         \/ /\ todo' = todo /\ lease' = lease
            /\ ans' = [ans EXCEPT ![c] = [state |-> None, ok |-> FALSE, busy |-> TRUE]]
  BY DEF UnloadLease, Goes, Does, Told, TakesLease, LeaseMissed, BareUnload
<1> HIDE DEF full
<1>4. /\ b \in BOOLEAN /\ s \in Seq(Names) /\ Sound(s)
      /\ b => Calls(s) = {} /\ lease' = lease
      /\ ~b => /\ Calls(s) = Calls(full) /\ ans'[c].state = "EMPTY"
               /\ (tflm => lease = None /\ lease' = c) /\ (~tflm => lease' = lease)
  <2>1. todo \in [Consoles -> Seq(Names)] /\ ans \in [Consoles -> Answers]
    BY DEF Inv, LocalSorts
  <2>2. CASE /\ todo' = [todo EXCEPT ![c] = full]
             /\ ans' = [ans EXCEPT ![c] = [state |-> "EMPTY", ok |-> TRUE, busy |-> FALSE]]
             /\ (tflm => lease = None /\ lease' = c) /\ (~tflm => lease' = lease)
    BY <1>2, <2>1, <2>2
  <2>3. CASE todo' = todo /\ lease' = lease
             /\ ans' = [ans EXCEPT ![c] = [state |-> None, ok |-> FALSE, busy |-> TRUE]]
    BY <1>1, <2>1, <2>3, ScriptEmpty
  <2>. QED
    BY <1>3, <2>2, <2>3
<1>5. LocalSorts' /\ Elsewise(c) /\ pc'[c] = "answer" /\ todo'[c] = s
  <2>1. /\ todo' \in [Consoles -> Seq(Names)]
        /\ \A d \in Consoles : d # c => todo'[d] = todo[d]
    BY <1>2, <1>3 DEF Inv, LocalSorts
  <2>2. /\ [state |-> "EMPTY", ok |-> TRUE, busy |-> FALSE] \in Answers
        /\ [state |-> None, ok |-> FALSE, busy |-> TRUE] \in Answers
    BY DEF Answers, States
  <2>3. /\ ans' \in [Consoles -> Answers]
        /\ \A d \in Consoles : d # c => ans'[d] = ans[d]
    BY <1>3, <2>2 DEF Inv, LocalSorts
  <2>. QED
    BY <1>3, <2>1, <2>3 DEF UnloadLease, Inv, LocalSorts, Places, WorkPlaces, Elsewise
<1>6. lease' = lease \/ (lease = None /\ lease' = c)
  BY <1>3 DEF Inv, Sorts
<1> HIDE DEF s, b
<1>7. Tasks(c)' = Calls(s) /\ Tasks(c) = {}
  BY <1>1, <1>5, ScriptEmpty DEF Tasks
<1>8. Sorts'
  BY <1>6 DEF UnloadLease, Inv, Sorts, world, seqVars
<1>9. OwnerInv'
  BY <1>1, <1>3, NamesDiffer DEF UnloadLease, Inv, OwnerInv, world, Streaming
<1>10. inside # None => lease' = lease
  BY <1>6 DEF Inv, WorldInv
<1>11. WorldInv'
  BY <1>1, <1>5, <1>10, WorldKept DEF UnloadLease, world
<1>12. Flux(c)' <=> Flux(c)
  BY <1>1, <1>2, <1>4, <1>5, <1>7 DEF Flux, FluxPlaces
<1>13. /\ What' = What /\ tflm' = tflm /\ old' = old /\ sess' = sess /\ odd' = odd
       /\ plug' = plug /\ model' = model /\ name' = name /\ rec' = rec /\ claims' = claims
       /\ (Rest' <=> Rest) /\ (Empty' <=> Empty)
  BY DEF UnloadLease, What, world, seqVars, Rest, Empty, Held, Container
<1>14. Here(c)'
  <2>1. Owns(c)'
    BY <1>1, <1>5, <1>13 DEF Owns
  <2>2. AnswerInv(c)'
    <3>1. ~tflm => plug = None
      BY DEF Inv, WorldInv
    <3>2. tflm \in BOOLEAN /\ None # "PREVIOUS" /\ None # "NEW"
      BY DEF Inv, Sorts, None
    <3>3. CASE b
      BY <1>1, <1>4, <1>7, <1>13, <3>3 DEF AnswerInv, Unmoved, b
    <3>4. CASE ~b
      <4>1. Emptied(c)'
        BY <1>2, <1>4, <1>7, <1>13, <3>1, <3>4 DEF Emptied
      <4>. QED
        BY <1>1, <1>2, <1>4, <1>7, <1>13, <3>1, <3>2, <3>4, <4>1 DEF AnswerInv, b
    <3>. QED
      BY <3>3, <3>4
  <2>3. Undone(c)' /\ Changing(c)' /\ InfoInv(c)'
    BY <1>5 DEF Undone, Changing, InfoInv, FluxPlaces
  <2>. QED
    BY <1>4, <1>5, <2>1, <2>2, <2>3 DEF Here
<1>15. \A d \in Consoles : d # c => (lease' = d <=> lease = d)
  BY <1>6, NamesDiffer
<1>16. QED
  BY <1>5, <1>8, <1>9, <1>11, <1>12, <1>14, <1>15, Quiet DEF UnloadLease, world, seqVars

LEMMA AnswerKeeps ==
  ASSUME Inv, NEW c \in Consoles, Answer(c)
  PROVE  Inv'
<1>1. pc[c] = "answer" /\ todo[c] = <<>> /\ pc' = [pc EXCEPT ![c] = "out"] /\ todo' = todo
  BY DEF Answer, At, Goes
<1>2. LocalSorts' /\ Elsewise(c) /\ pc'[c] = "out"
  <2>1. NoAnswer \in Answers /\ None \in MaybeModel
    BY DEF NoAnswer, Answers, States, MaybeModel
  <2>. QED
    BY <1>1, <2>1 DEF Answer, Inv, LocalSorts, Places, Elsewise
<1>3. Tasks(c)' = {} /\ Tasks(c) = {} /\ Sound(todo[c])'
  BY <1>1, ScriptEmpty DEF Tasks
<1>4. sess = c /\ lease # c
  BY <1>1, <1>3 DEF Inv, Here, Owns, AnswerInv, WorkPlaces
<1>5. Sorts'
  BY DEF Answer, Inv, Sorts, world, seqVars
<1>6. OwnerInv'
  BY <1>4, NamesDiffer DEF Answer, Inv, OwnerInv, world, Streaming
<1>7. WorldInv'
  BY <1>1, <1>2, WorldKept DEF Answer, world
<1>8. Flux(c)' <=> Flux(c)
  BY <1>1, <1>2, <1>3 DEF Flux, FluxPlaces
<1>9. Here(c)'
  <2>1. Owns(c)'
    BY <1>2, <1>3, <1>4 DEF Owns, Answer, WorkPlaces
  <2>2. Undone(c)' /\ Changing(c)' /\ AnswerInv(c)' /\ InfoInv(c)'
    BY <1>2 DEF Undone, Changing, AnswerInv, InfoInv, FluxPlaces
  <2>. QED
    BY <1>3, <2>1, <2>2 DEF Here
<1>10. QED
  BY <1>2, <1>4, <1>5, <1>6, <1>7, <1>8, <1>9, Quiet DEF Answer, world, seqVars

-----------------------------------------------------------------------------
(* `nn thresh` and `sdram test`.                                           *)

LEMMA ThreshEnterKeeps ==
  ASSUME Inv, NEW c \in Consoles, ThreshEnter(c)
  PROVE  Inv'
<1>1. pc[c] = "out" /\ todo[c] = <<>> /\ pc' = [pc EXCEPT ![c] = "thresh"] /\ todo' = todo
      /\ lease = None /\ lease' = c
  BY DEF ThreshEnter, At, Goes
<1>2. LocalSorts' /\ Elsewise(c) /\ pc'[c] = "thresh"
  BY <1>1 DEF ThreshEnter, Inv, LocalSorts, Places, Elsewise
<1>3. Tasks(c)' = {} /\ Tasks(c) = {} /\ Sound(todo[c])'
  BY <1>1, ScriptEmpty DEF Tasks
<1>4. inside' \in MaybeModel /\ (inside' # None => plug = inside' /\ started)
  BY EntersWhat DEF ThreshEnter
<1>5. Sorts'
  BY <1>4 DEF ThreshEnter, Inv, Sorts, world, seqVars
<1>6. OwnerInv'
  BY <1>1, NamesDiffer DEF ThreshEnter, Inv, OwnerInv, world, Streaming
<1>7. WorldInv'
  <2>1. /\ plug' = plug /\ started' = started /\ model' = model /\ buf' = buf /\ tflm' = tflm
        /\ lease' # "panel" /\ lease' # None
    BY <1>1, NamesDiffer DEF ThreshEnter, world
  <2>. QED
    BY <1>1, <1>2, <1>4, <2>1 DEF Inv, WorldInv
<1>8. Flux(c)' <=> Flux(c)
  BY <1>1, <1>2 DEF Flux, FluxPlaces
<1>9. Here(c)'
  <2>1. Owns(c)'
    BY <1>1, <1>2, <1>3 DEF Owns, WorkPlaces
  <2>2. Undone(c)' /\ Changing(c)' /\ AnswerInv(c)' /\ InfoInv(c)'
    BY <1>2 DEF Undone, Changing, AnswerInv, InfoInv, FluxPlaces
  <2>. QED
    BY <1>3, <2>1, <2>2 DEF Here
<1>10. \A d \in Consoles : d # c => (lease' = d <=> lease = d)
  BY <1>1, NamesDiffer
<1>11. QED
  BY <1>2, <1>5, <1>6, <1>7, <1>8, <1>9, <1>10, Quiet DEF ThreshEnter, world, seqVars

LEMMA ThreshLeaveKeeps ==
  ASSUME Inv, NEW c \in Consoles, ThreshLeave(c)
  PROVE  Inv'
<1>1. pc[c] = "thresh" /\ todo[c] = <<>> /\ pc' = [pc EXCEPT ![c] = "out"] /\ todo' = todo
      /\ lease = c /\ lease' = None /\ inside' = None
  BY DEF ThreshLeave, At, Goes, Inv, Here, Owns
<1>2. LocalSorts' /\ Elsewise(c) /\ pc'[c] = "out"
  BY <1>1 DEF ThreshLeave, Inv, LocalSorts, Places, Elsewise
<1>3. Tasks(c)' = {} /\ Tasks(c) = {} /\ Sound(todo[c])'
  BY <1>1, ScriptEmpty DEF Tasks
<1>4. Sorts'
  BY <1>1 DEF ThreshLeave, Inv, Sorts, world, seqVars, MaybeModel
<1>5. OwnerInv'
  BY <1>1 DEF ThreshLeave, Inv, OwnerInv, world, Streaming, None
<1>6. WorldInv'
  BY <1>1 DEF ThreshLeave, Inv, WorldInv, world
<1>7. Flux(c)' <=> Flux(c)
  BY <1>1, <1>2 DEF Flux, FluxPlaces
<1>8. Here(c)'
  <2>1. Owns(c)'
    BY <1>1, <1>2, <1>3, NamesDiffer DEF Owns, WorkPlaces
  <2>2. Undone(c)' /\ Changing(c)' /\ AnswerInv(c)' /\ InfoInv(c)'
    BY <1>2 DEF Undone, Changing, AnswerInv, InfoInv, FluxPlaces
  <2>. QED
    BY <1>3, <2>1, <2>2 DEF Here
<1>9. \A d \in Consoles : d # c => (lease' = d <=> lease = d)
  BY <1>1, NamesDiffer
<1>10. QED
  BY <1>2, <1>4, <1>5, <1>6, <1>7, <1>8, <1>9, Quiet DEF ThreshLeave, world, seqVars

LEMMA TestClaimKeeps ==
  ASSUME Inv, NEW c \in Consoles, TestClaim(c)
  PROVE  Inv'
<1>1. pc[c] = "out" /\ todo[c] = <<>> /\ pc' = [pc EXCEPT ![c] = "test"] /\ todo' = todo
      /\ sess = None /\ scratch = None /\ model = None /\ scratch' = c
  BY DEF TestClaim, At, Goes, MayClaim, SessionFree
<1>2. LocalSorts' /\ Elsewise(c) /\ pc'[c] = "test"
  BY <1>1 DEF TestClaim, Inv, LocalSorts, Places, Elsewise
<1>3. Tasks(c)' = {} /\ Tasks(c) = {} /\ Sound(todo[c])'
  BY <1>1, ScriptEmpty DEF Tasks
<1>4. Sorts'
  BY <1>1 DEF TestClaim, Inv, Sorts, world, seqVars
<1>5. OwnerInv'
  BY <1>1 DEF TestClaim, Inv, OwnerInv, world, Streaming
<1>6. WorldInv'
  BY <1>1, <1>2, WorldKept DEF TestClaim, world
<1>7. Flux(c)' <=> Flux(c)
  BY <1>1, <1>2 DEF Flux, FluxPlaces
<1>8. Here(c)'
  <2>1. lease' # c
    BY <1>1 DEF Inv, Here, Owns, FluxPlaces, TestClaim
  <2>2. Owns(c)'
    BY <1>1, <1>2, <1>3, <2>1 DEF Owns, WorkPlaces
  <2>3. Undone(c)' /\ Changing(c)' /\ AnswerInv(c)' /\ InfoInv(c)'
    BY <1>2 DEF Undone, Changing, AnswerInv, InfoInv, FluxPlaces
  <2>. QED
    BY <1>3, <2>2, <2>3 DEF Here
<1>9. \A d \in Consoles : d # c => (scratch = d => scratch' = d)
  BY <1>1, NamesDiffer
<1>10. QED
  BY <1>2, <1>4, <1>5, <1>6, <1>7, <1>8, <1>9, Quiet DEF TestClaim, world, seqVars

LEMMA TestEndsKeeps ==
  ASSUME Inv, NEW c \in Consoles, TestEnds(c)
  PROVE  Inv'
<1>1. /\ pc[c] = "test" /\ todo[c] = <<>> /\ pc' = [pc EXCEPT ![c] = "out"] /\ todo' = todo
      /\ scratch = c /\ scratch' = None /\ buf' = Junk
  BY DEF TestEnds, At, Goes, Inv, Here, Owns
<1>2. sess = None /\ model = None
  BY <1>1, NamesDiffer DEF Inv, OwnerInv
<1>3. LocalSorts' /\ Elsewise(c) /\ pc'[c] = "out"
  BY <1>1 DEF TestEnds, Inv, LocalSorts, Places, Elsewise
<1>4. Tasks(c)' = {} /\ Tasks(c) = {} /\ Sound(todo[c])'
  BY <1>1, ScriptEmpty DEF Tasks
<1>5. Sorts'
  BY <1>1 DEF TestEnds, Inv, Sorts, seqVars
<1>6. OwnerInv'
  BY <1>1 DEF TestEnds, Inv, OwnerInv, Streaming
<1>7. WorldInv'
  <2>1. plug = None /\ inside = None
    BY <1>2, NamesDiffer DEF Inv, WorldInv, Sorts, MaybeModel
  <2>. QED
    BY <1>2, <2>1 DEF TestEnds, Inv, WorldInv
<1>8. Flux(c)' <=> Flux(c)
  BY <1>1, <1>3 DEF Flux, FluxPlaces
<1>9. Here(c)'
  <2>1. lease' # c
    BY <1>1 DEF Inv, Here, Owns, FluxPlaces, TestEnds
  <2>2. Owns(c)'
    BY <1>3, <1>4, <2>1 DEF Owns, WorkPlaces
  <2>3. Undone(c)' /\ Changing(c)' /\ AnswerInv(c)' /\ InfoInv(c)'
    BY <1>3 DEF Undone, Changing, AnswerInv, InfoInv, FluxPlaces
  <2>. QED
    BY <1>4, <2>2, <2>3 DEF Here
<1>10. \A d \in Consoles : d # c => (scratch = d => scratch' = d)
  BY <1>1, NamesDiffer
<1>11. QED
  BY <1>2, <1>3, <1>5, <1>6, <1>7, <1>8, <1>9, <1>10, Quiet DEF TestEnds, seqVars

-----------------------------------------------------------------------------
(* A load that is changing the model.                                      *)

LEMMA AtFlux ==
  ASSUME Inv, NEW c \in Consoles, Flux(c)
  PROVE  /\ pc[c] \in WorkPlaces /\ sess = c /\ odd /\ scratch = None
         /\ \A d \in Consoles : ~fresh[d]
<1>1. pc[c] \in WorkPlaces
  BY DEF Flux, FluxPlaces, WorkPlaces
<1>2. sess = c
  BY <1>1 DEF Inv, Here, Owns
<1>3. scratch = None
  BY <1>2, NamesDiffer DEF Inv, OwnerInv
<1>4. QED
  BY <1>1, <1>2, <1>3 DEF Inv, OddInv

LEMMA AtFluxPlace ==
  ASSUME Inv, NEW c \in Consoles, pc[c] \in FluxPlaces
  PROVE  /\ Flux(c) /\ sess = c /\ odd /\ inside = None /\ ask[c] \in Models
         /\ tflm => lease = c
         /\ ~tflm => lease = None /\ plug = None /\ ~started
         /\ scratch = None /\ \A d \in Consoles : ~fresh[d]
<1>1. Flux(c)
  BY DEF Flux
<1>2. ask[c] \in Models /\ (tflm => lease = c)
  BY DEF Inv, Here, Changing
<1>3. ~tflm => lease = None /\ plug = None /\ ~started
  BY DEF Inv, OwnerInv, WorldInv
<1>4. inside = None
  <2>1. pc[c] # "thresh"
    BY DEF FluxPlaces
  <2>. QED
    BY <1>2, <2>1, NobodyInside DEF Inv, Sorts
<1>5. QED
  BY <1>1, <1>2, <1>3, <1>4, AtFlux

LEMMA InFlux ==
  ASSUME Inv, NEW c \in Consoles, Flux(c), Flux(c)', Elsewise(c),
         UNCHANGED <<tflm, odd, fresh, sess, scratch, lease>>,
         Sorts', LocalSorts', WorldInv', Here(c)'
  PROVE  Inv'
<1>1. sess = c /\ scratch = None /\ \A d \in Consoles : ~fresh[d]
  BY AtFlux
<1>2. OddInv'
  BY OddOn
<1>3. OwnerInv'
  BY <1>1, NamesDiffer DEF Inv, OwnerInv, Streaming
<1>4. \A d \in Consoles : d # c => Here(d)'
  BY <1>1, OthersHere
<1>5. QED
  BY <1>2, <1>3, <1>4 DEF Inv

(* The answer is known.                                                    *)
LEMMA SettledHere ==
  ASSUME NEW c \in Consoles, sess' = c, pc'[c] = "answer", Sound(todo'[c]), AnswerInv(c)'
  PROVE  Here(c)'
<1>1. Owns(c)'
  BY DEF Owns
<1>2. Undone(c)' /\ Changing(c)' /\ InfoInv(c)'
  BY DEF Undone, Changing, InfoInv, FluxPlaces
<1>3. QED
  BY <1>1, <1>2 DEF Here

(* The three outcomes, under the lease and the odd counter.                *)
LEMMA StillPrevious ==
  ASSUME NEW c \in Consoles, sess' = c, pc'[c] = "answer", Sound(todo'[c]),
         \A x : x \in Tasks(c)' => x \in {"even", "lease_give"},
         lease' = c <=> "lease_give" \in Tasks(c)',
         ans'[c].busy \/ ans'[c].state = "PREVIOUS", (What = old[c])', Rest'
  PROVE  Here(c)'
<1>1. Unmoved(c)'
  BY DEF Unmoved
<1>2. AnswerInv(c)'
  BY <1>1 DEF AnswerInv
<1>3. QED
  BY <1>2, SettledHere

LEMMA NowEmpty ==
  ASSUME NEW c \in Consoles, sess' = c, pc'[c] = "answer", Sound(todo'[c]),
         "release" \in Tasks(c)', "invalidate" \in Tasks(c)', "forget" \in Tasks(c)',
         "commit" \notin Tasks(c)', "odd" \notin Tasks(c)',
         "plugin_unload" \in Tasks(c)' => lease' = c,
         plug' = None \/ (lease' = c /\ "plugin_unload" \in Tasks(c)'),
         lease' = c <=> "lease_give" \in Tasks(c)',
         ~ans'[c].busy, ans'[c].state = "EMPTY", odd' \/ Empty'
  PROVE  Here(c)'
<1>1. Emptied(c)'
  BY DEF Emptied
<1>2. AnswerInv(c)'
  BY <1>1 DEF AnswerInv
<1>3. QED
  BY <1>2, SettledHere

LEMMA NowNew ==
  ASSUME NEW c \in Consoles, sess' = c, pc'[c] = "answer", Sound(todo'[c]),
         \A x : x \in Tasks(c)' =>
           x \in {"plugin_unload", "invalidate", "commit", "even", "lease_give"},
         "invalidate" \in Tasks(c)', "commit" \in Tasks(c)', "even" \in Tasks(c)',
         "plugin_unload" \in Tasks(c)' => lease' = c,
         plug' = None \/ lease' = c,
         lease' = c <=> "lease_give" \in Tasks(c)',
         ~ans'[c].busy, ans'[c].state = "NEW",
         (ask[c] \in Models /\ model = ask[c] /\ name = ask[c])',
         (started <=> plug # None)',
         "plugin_unload" \in Tasks(c)' => ~(ans[c].ok /\ tflm /\ ask[c] \in Plugged)',
         \/ "plugin_unload" \in Tasks(c)'
         \/ (plug = IF ans[c].ok /\ tflm /\ ask[c] \in Plugged THEN ask[c] ELSE None)'
  PROVE  Here(c)'
<1>1. Tasks(c)' \subseteq {"plugin_unload", "invalidate", "commit", "even", "lease_give"}
  OBVIOUS
<1>2. Renewed(c)'
  BY <1>1 DEF Renewed
<1>3. "odd" \notin Tasks(c)' /\ "release" \notin Tasks(c)'
  BY <1>1
<1>4. AnswerInv(c)'
  BY <1>2, <1>3 DEF AnswerInv
<1>5. QED
  BY <1>4, SettledHere

LEMMA LeaseMissedKeeps ==
  ASSUME Inv, NEW c \in Consoles, Lease(c), LeaseMissed, UNCHANGED <<seqVars, had>>,
         Settles(c, "REFUSED", FALSE, TRUE)
  PROVE  Inv'
<1>1. /\ pc[c] = "ready" /\ todo[c] = <<>> /\ What = old[c] /\ tflm
      /\ sess = c /\ lease # c /\ ~odd /\ Rest /\ (~had[c] => Empty)
  BY AsItWasIs DEF Lease, At, LeaseMissed
<1>2. had' \in [Consoles -> BOOLEAN] /\ had' = had /\ had'[c] \in BOOLEAN
  BY DEF Inv, LocalSorts
<1>3. /\ pc' \in [Consoles -> Places] /\ todo' \in [Consoles -> Seq(Names)]
      /\ ans' \in [Consoles -> Answers] /\ pc'[c] = "answer" /\ Sound(todo'[c])
      /\ \A d \in Consoles : d # c => pc'[d] = pc[d] /\ todo'[d] = todo[d] /\ ans'[d] = ans[d]
  BY <1>2, SettlesDoes
<1>4. /\ had'[c] => (\A x : x \notin Tasks(c)') /\ ans'[c].busy
      /\ ~had'[c] => (\A x : x \in Tasks(c)' <=> x \in {"release", "invalidate", "forget"})
                     /\ ans'[c].busy
  <2>1. had'[c] => (\A x : x \notin Tasks(c)') /\ ans'[c].busy
    BY <1>2, SettlesPrevious
  <2>2. ~had'[c] => (\A x : x \in Tasks(c)' <=> x \in {"release", "invalidate", "forget"})
                    /\ ans'[c].busy
    BY <1>2, SettlesEmpty
  <2>. QED
    BY <2>1, <2>2
<1>5. LocalSorts' /\ Elsewise(c)
  BY <1>2, <1>3 DEF Lease, Inv, LocalSorts, Elsewise
<1>6. Sorts'
  BY DEF Lease, LeaseMissed, Inv, Sorts, world, seqVars
<1>7. OwnerInv'
  BY DEF Lease, LeaseMissed, Inv, OwnerInv, world, Streaming
<1>8. WorldInv'
  BY <1>1, <1>5, WorldKept DEF Lease, LeaseMissed, world
<1>9. Flux(c)' <=> Flux(c)
  BY <1>1, <1>3, <1>4 DEF Flux, FluxPlaces
<1>10. /\ What' = What /\ old' = old /\ lease' = lease /\ sess' = sess
       /\ plug' = plug /\ (Rest' <=> Rest) /\ (Empty' <=> Empty)
  BY DEF Lease, LeaseMissed, What, world, Rest, Empty, Held, Container
<1>11. Here(c)'
  <2>1. Unmoved(c)'
    BY <1>1, <1>2, <1>4, <1>10 DEF Unmoved
  <2>2. AnswerInv(c)'
    BY <1>1, <1>2, <1>4, <1>10, <2>1 DEF AnswerInv, Empty
  <2>. QED
    BY <1>1, <1>3, <1>10, <2>2, SettledHere
<1>12. QED
  BY <1>1, <1>5, <1>6, <1>7, <1>8, <1>9, <1>11, Quiet
     DEF Lease, LeaseMissed, world, seqVars

LEMMA LeaseTakenKeeps ==
  ASSUME Inv, NEW c \in Consoles, Lease(c), TakesLease(c), Bump,
         had' = [had EXCEPT ![c] = had[c] /\ ~tflm],
         Does(c, If(tflm /\ had[c], TakeDown)),
         Goes(c, IF tflm THEN "fetch" ELSE "swap"), UNCHANGED ans
  PROVE  Inv'
<1>1. /\ pc[c] \in {"ready", "fetched"} /\ todo[c] = <<>> /\ What = old[c]
      /\ sess = c /\ lease # c /\ ~odd /\ Rest /\ (~had[c] => Empty)
      /\ had[c] <=> model # None
      /\ ask[c] \in Models
  BY AsItWasIs DEF Lease, At, Inv, Here, Undone
<1>2. /\ tflm \in BOOLEAN /\ pc'[c] = (IF tflm THEN "fetch" ELSE "swap")
      /\ odd' /\ \A d \in Consoles : ~fresh'[d]
  BY <1>1 DEF Goes, Bump, Inv, Sorts, LocalSorts
<1>3. /\ had'[c] <=> had[c] /\ ~tflm
      /\ had' \in [Consoles -> BOOLEAN] /\ \A d \in Consoles : d # c => had'[d] = had[d]
  BY DEF Inv, LocalSorts
<1>4. /\ todo' \in [Consoles -> Seq(Names)] /\ Sound(todo'[c])
      /\ \A d \in Consoles : d # c => todo'[d] = todo[d]
      /\ Tasks(c)' = IF tflm /\ had[c]
                     THEN {"plugin_unload", "invalidate", "release", "forget"} ELSE {}
  <2>1. If(tflm /\ had[c], TakeDown) = IF tflm /\ had[c] THEN TakeDown ELSE <<>>
    BY DEF If
  <2>. QED
    BY <2>1, UnloadScripts, ScriptEmpty DEF Does, Inv, LocalSorts, Tasks
<1>5. LocalSorts' /\ Elsewise(c)
  <2>1. pc' \in [Consoles -> Places] /\ \A d \in Consoles : d # c => pc'[d] = pc[d]
    BY DEF Inv, LocalSorts, Goes, Places, WorkPlaces
  <2>. QED
    BY <1>3, <1>4, <2>1 DEF Lease, Inv, LocalSorts, Elsewise
<1>6. /\ tflm => lease = None /\ lease' = c
      /\ ~tflm => lease = None /\ lease' = None
  BY DEF TakesLease, Inv, OwnerInv
<1>7. Sorts'
  <2>1. fresh' \in [Consoles -> BOOLEAN] /\ odd' \in BOOLEAN
    BY DEF Bump
  <2>2. lease' \in Consoles \cup {None, "worker", "panel"}
    BY <1>2, <1>6
  <2>. QED
    BY <2>1, <2>2 DEF Lease, Inv, Sorts, world
<1>8. OwnerInv'
  BY <1>1, <1>2, <1>6, NamesDiffer DEF Lease, Inv, OwnerInv, world, Streaming, None
<1>9. WorldInv'
  <2>1. inside = None
    BY <1>2, <1>6 DEF Inv, WorldInv
  <2>. QED
    BY <1>1, <1>5, <2>1, WorldKept DEF Lease, world
<1>10. OddInv'
  <2>1. Flux(c)'
    BY <1>2 DEF Flux, FluxPlaces
  <2>2. (\E d \in Consoles : Flux(d))'
    BY <2>1
  <2>. QED
    BY <1>2, <2>2 DEF OddInv
<1>11. /\ What' = What /\ old' = old /\ sess' = sess /\ ask' = ask /\ tflm' = tflm
       /\ model' = model /\ name' = name /\ rec' = rec /\ claims' = claims /\ plug' = plug
       /\ (Rest' <=> Rest)
  BY DEF Lease, What, world, Rest, Held, Container
<1>12. Here(c)'
  <2>1. Owns(c)'
    BY <1>1, <1>2, <1>4, <1>6, <1>11, NamesDiffer DEF Owns, FluxPlaces
  <2>2. Undone(c)' /\ AnswerInv(c)' /\ InfoInv(c)'
    BY <1>2 DEF Undone, AnswerInv, InfoInv
  <2>3. Changing(c)'
    <3>1. CASE tflm
      BY <1>1, <1>2, <1>3, <1>4, <1>6, <1>11, <3>1 DEF Changing, Empty
    <3>2. CASE ~tflm
      BY <1>1, <1>2, <1>3, <1>4, <1>6, <1>11, <3>2 DEF Changing
    <3>. QED
      BY <3>1, <3>2
  <2>. QED
    BY <1>4, <2>1, <2>2, <2>3 DEF Here
<1>13. \A d \in Consoles : d # c => (lease' = d <=> lease = d)
  BY <1>2, <1>6, NamesDiffer
<1>14. \A d \in Consoles : d # c => Here(d)'
  BY <1>1, <1>2, <1>5, <1>13, OthersHere DEF Lease
<1>15. QED
  BY <1>5, <1>7, <1>8, <1>9, <1>10, <1>12, <1>14 DEF Inv

LEMMA LeaseKeeps ==
  ASSUME Inv, NEW c \in Consoles, Lease(c)
  PROVE  Inv'
<1>1. CASE LeaseMissed /\ UNCHANGED <<seqVars, had>> /\ Settles(c, "REFUSED", FALSE, TRUE)
  BY <1>1, LeaseMissedKeeps
<1>2. CASE /\ TakesLease(c) /\ Bump
           /\ had' = [had EXCEPT ![c] = had[c] /\ ~tflm]
           /\ Does(c, If(tflm /\ had[c], TakeDown))
           /\ Goes(c, IF tflm THEN "fetch" ELSE "swap") /\ UNCHANGED ans
  BY <1>2, LeaseTakenKeeps
<1>3. QED
  BY <1>1, <1>2 DEF Lease

(* A step of a load that stays at work, or ends it with the counter odd.   *)
LEMMA MovesOn ==
  ASSUME Inv, NEW c \in Consoles, NEW p \in Places, Goes(c, p)
  PROVE  /\ pc' \in [Consoles -> Places] /\ pc'[c] = p
         /\ \A d \in Consoles : d # c => pc'[d] = pc[d]
BY DEF Inv, LocalSorts, Goes

LEMMA FetchApartKeeps ==
  ASSUME Inv, NEW c \in Consoles, Fetch(c), ~tflm
  PROVE  Inv'
<1>1. /\ pc[c] = "ready" /\ todo[c] = <<>> /\ What = old[c]
      /\ sess = c /\ lease # c /\ ~odd /\ Rest /\ (~had[c] => Empty)
      /\ had[c] <=> model # None
      /\ ask[c] \in Models /\ plug = None
  BY AsItWasIs DEF Fetch, At, Inv, Here, Undone, WorldInv
<1>2. had' \in [Consoles -> BOOLEAN] /\ had' = had /\ had'[c] \in BOOLEAN /\ tflm = FALSE
  BY DEF Inv, LocalSorts, Fetch, Sorts
<1>3. (Goes(c, "fetched") /\ UNCHANGED <<todo, ans>>) \/ Settles(c, "REFUSED", FALSE, FALSE)
  BY <1>2 DEF Fetch
<1>4. /\ What' = What /\ old' = old /\ lease' = lease /\ sess' = sess /\ ask' = ask
      /\ tflm' = tflm /\ model' = model /\ buf' = buf
      /\ plug' = plug /\ (Rest' <=> Rest) /\ (Empty' <=> Empty) /\ odd' = odd
  BY <1>2 DEF Fetch, What, seqVars, Rest, Empty, Held, Container
<1>5. /\ LocalSorts' /\ Elsewise(c) /\ Here(c)' /\ (Flux(c)' <=> Flux(c))
  <2>1. CASE Goes(c, "fetched") /\ UNCHANGED <<todo, ans>>
    <3>1. "fetched" \in Places
      BY DEF Places, WorkPlaces
    <3>2. /\ pc' \in [Consoles -> Places] /\ pc'[c] = "fetched"
          /\ \A d \in Consoles : d # c => pc'[d] = pc[d]
      BY <2>1, <3>1, MovesOn
    <3>3. LocalSorts' /\ Elsewise(c)
      BY <1>2, <2>1, <3>2 DEF Fetch, Inv, LocalSorts, Elsewise
    <3>4. Tasks(c)' = {} /\ Sound(todo'[c])
      BY <1>1, <2>1, ScriptEmpty DEF Tasks
    <3>5. Owns(c)'
      BY <1>1, <1>4, <3>2, <3>4 DEF Owns
    <3>6. Undone(c)'
      BY <1>1, <1>2, <1>4, <3>2 DEF Undone
    <3>7. Changing(c)' /\ AnswerInv(c)' /\ InfoInv(c)'
      BY <3>2 DEF Changing, AnswerInv, InfoInv, FluxPlaces
    <3>8. Flux(c)' <=> Flux(c)
      BY <1>1, <3>2 DEF Flux, FluxPlaces
    <3>. QED
      BY <3>3, <3>4, <3>5, <3>6, <3>7, <3>8 DEF Here
  <2>2. CASE Settles(c, "REFUSED", FALSE, FALSE)
    <3>1. /\ pc' \in [Consoles -> Places] /\ todo' \in [Consoles -> Seq(Names)]
          /\ ans' \in [Consoles -> Answers] /\ pc'[c] = "answer" /\ Sound(todo'[c])
          /\ \A d \in Consoles : d # c =>
               pc'[d] = pc[d] /\ todo'[d] = todo[d] /\ ans'[d] = ans[d]
      BY <1>2, <2>2, SettlesDoes
    <3>2. had'[c] => (\A x : x \notin Tasks(c)') /\ ~ans'[c].busy /\ ans'[c].state = "PREVIOUS"
      BY <1>2, <2>2, SettlesPrevious
    <3>3. ~had'[c] => /\ \A x : x \in Tasks(c)' <=> x \in {"release", "invalidate", "forget"}
                      /\ ~ans'[c].busy /\ ans'[c].state = "EMPTY"
      BY <1>2, <2>2, SettlesEmpty
    <3>4. LocalSorts' /\ Elsewise(c)
      BY <1>2, <3>1 DEF Fetch, Inv, LocalSorts, Elsewise
    <3>5. Flux(c)' <=> Flux(c)
      <4>1. "even" \notin Tasks(c)'
        BY <1>2, <3>2, <3>3
      <4>. QED
        BY <1>1, <3>1, <4>1 DEF Flux, FluxPlaces
    <3>6. Here(c)'
      <4>1. CASE had'[c]
        BY <1>1, <1>4, <3>1, <3>2, <4>1, StillPrevious
      <4>2. CASE ~had'[c]
        <5>1. Empty'
          BY <1>1, <1>2, <1>4, <4>2
        <5>2. /\ "release" \in Tasks(c)' /\ "invalidate" \in Tasks(c)'
              /\ "forget" \in Tasks(c)' /\ "commit" \notin Tasks(c)'
              /\ "odd" \notin Tasks(c)' /\ "plugin_unload" \notin Tasks(c)'
              /\ "lease_give" \notin Tasks(c)'
          BY <3>3, <4>2
        <5>3. sess' = c /\ lease' # c /\ plug' = None /\ ~ans'[c].busy /\ ans'[c].state = "EMPTY"
          BY <1>1, <1>4, <3>3, <4>2
        <5>. QED
          BY <3>1, <5>1, <5>2, <5>3, NowEmpty
      <4>. QED
        BY <4>1, <4>2
    <3>. QED
      BY <3>4, <3>5, <3>6
  <2>. QED
    BY <1>3, <2>1, <2>2
<1>6. Sorts'
  <2>1. blob' \in Consoles \cup {None, "writer"}
    BY DEF Fetch
  <2>. QED
    BY <1>4, <2>1 DEF Fetch, Inv, Sorts, seqVars
<1>7. OwnerInv'
  BY DEF Fetch, Inv, OwnerInv, Streaming
<1>8. WorldInv'
  BY <1>1, <1>4, <1>5, WorldKept DEF Fetch
<1>9. QED
  BY <1>4, <1>5, <1>6, <1>7, <1>8, Quiet DEF Fetch, seqVars

(* The refusal that leaves tflm with nothing, once its model is down.      *)
LEMMA DownHere ==
  ASSUME Inv, NEW c \in Consoles, Flux(c), NEW end \in {"REFUSED", "LOST"},
         had' \in [Consoles -> BOOLEAN], Settles(c, end, TRUE, FALSE),
         end = "LOST" \/ ~had'[c], sess' = c, odd' = odd, lease' = lease,
         tflm => lease = c, ~tflm => lease # c /\ plug' = None, tflm \in BOOLEAN
  PROVE  /\ pc' \in [Consoles -> Places] /\ todo' \in [Consoles -> Seq(Names)]
         /\ ans' \in [Consoles -> Answers]
         /\ \A d \in Consoles : d # c =>
              pc'[d] = pc[d] /\ todo'[d] = todo[d] /\ ans'[d] = ans[d]
         /\ Here(c)' /\ Flux(c)'
<1>1. /\ pc' \in [Consoles -> Places] /\ todo' \in [Consoles -> Seq(Names)]
      /\ ans' \in [Consoles -> Answers] /\ pc'[c] = "answer" /\ Sound(todo'[c])
      /\ \A d \in Consoles : d # c =>
           pc'[d] = pc[d] /\ todo'[d] = todo[d] /\ ans'[d] = ans[d]
  BY SettlesDoes
<1>2. /\ \A x : x \in Tasks(c)' <=>
           \/ x \in {"release", "invalidate", "forget"}
           \/ x = "even" /\ TRUE
           \/ x \in {"plugin_unload", "lease_give"} /\ TRUE /\ tflm
      /\ ans'[c].busy = FALSE /\ ans'[c].state = "EMPTY"
  BY SettlesEmpty
<1>3. odd'
  BY AtFlux
<1>4. Here(c)'
  <2>1. /\ "release" \in Tasks(c)' /\ "invalidate" \in Tasks(c)'
        /\ "forget" \in Tasks(c)' /\ "commit" \notin Tasks(c)'
        /\ "odd" \notin Tasks(c)'
        /\ "plugin_unload" \in Tasks(c)' <=> tflm
        /\ "lease_give" \in Tasks(c)' <=> tflm
    BY <1>2
  <2>2. /\ lease' = c <=> "lease_give" \in Tasks(c)'
        /\ "plugin_unload" \in Tasks(c)' => lease' = c
        /\ plug' = None \/ (lease' = c /\ "plugin_unload" \in Tasks(c)')
        /\ ~ans'[c].busy /\ ans'[c].state = "EMPTY"
    BY <1>2, <2>1
  <2>. QED
    BY <1>1, <1>3, <2>1, <2>2, NowEmpty
<1>5. Flux(c)'
  BY <1>1, <1>2 DEF Flux
<1>6. QED
  BY <1>1, <1>4, <1>5

LEMMA FetchOverKeeps ==
  ASSUME Inv, NEW c \in Consoles, Fetch(c), tflm
  PROVE  Inv'
<1>1. /\ pc[c] = "fetch" /\ todo[c] = <<>> /\ Tasks(c) = {}
  BY ScriptEmpty DEF Fetch, At, Tasks
<1>2. /\ Flux(c) /\ sess = c /\ odd /\ inside = None /\ ask[c] \in Models /\ lease = c
      /\ scratch = None /\ ~had[c] /\ Empty
  <2>1. pc[c] \in FluxPlaces
    BY <1>1 DEF FluxPlaces
  <2>2. ~had[c] /\ model = None /\ name = None /\ rec = None /\ claims = None /\ plug = None
    BY <1>1 DEF Inv, Here, Changing
  <2>3. ~started
    BY <2>2 DEF Inv, WorldInv
  <2>. QED
    BY <2>1, <2>2, <2>3, AtFluxPlace DEF Empty
<1>3. /\ had' \in [Consoles -> BOOLEAN] /\ had' = had /\ tflm = TRUE
      /\ UNCHANGED <<odd, fresh, sess, scratch, lease, inside, tflm, ask, old, copy>>
      /\ UNCHANGED <<model, name, claims, plug, started, rec, recCur>>
  BY DEF Inv, LocalSorts, Fetch, Sorts, seqVars
<1>4. Empty'
  BY <1>2, <1>3 DEF Empty
<1>5. /\ LocalSorts' /\ Elsewise(c) /\ Here(c)' /\ Flux(c)'
  <2>1. CASE buf' = ask[c] /\ Goes(c, "swap") /\ UNCHANGED <<todo, ans>>
    <3>1. "swap" \in Places
      BY DEF Places, WorkPlaces
    <3>2. /\ pc' \in [Consoles -> Places] /\ pc'[c] = "swap"
          /\ \A d \in Consoles : d # c => pc'[d] = pc[d]
      BY <2>1, <3>1, MovesOn
    <3>3. LocalSorts' /\ Elsewise(c)
      BY <1>3, <2>1, <3>2 DEF Inv, LocalSorts, Elsewise
    <3>4. Tasks(c)' = {} /\ Sound(todo'[c])
      BY <1>1, <2>1, ScriptEmpty DEF Tasks
    <3>5. Owns(c)'
      BY <1>2, <1>3, <3>2, <3>4 DEF Owns, FluxPlaces
    <3>6. Changing(c)'
      BY <1>2, <1>3, <1>4, <2>1, <3>2 DEF Changing
    <3>7. Undone(c)' /\ AnswerInv(c)' /\ InfoInv(c)'
      BY <3>2 DEF Undone, AnswerInv, InfoInv
    <3>8. Flux(c)'
      BY <3>2 DEF Flux, FluxPlaces
    <3>. QED
      BY <3>3, <3>4, <3>5, <3>6, <3>7, <3>8 DEF Here
  <2>2. CASE Settles(c, "REFUSED", TRUE, FALSE)
    <3>1. /\ pc' \in [Consoles -> Places] /\ todo' \in [Consoles -> Seq(Names)]
          /\ ans' \in [Consoles -> Answers]
          /\ \A d \in Consoles : d # c =>
               pc'[d] = pc[d] /\ todo'[d] = todo[d] /\ ans'[d] = ans[d]
          /\ Here(c)' /\ Flux(c)'
      BY <1>2, <1>3, <2>2, DownHere
    <3>2. LocalSorts' /\ Elsewise(c)
      BY <1>3, <3>1 DEF Inv, LocalSorts, Elsewise
    <3>. QED
      BY <3>1, <3>2
  <2>. QED
    BY <1>3, <2>1, <2>2 DEF Fetch
<1>6. Sorts'
  <2>1. blob' \in Consoles \cup {None, "writer"} /\ buf' \in MaybeModel \cup {Junk}
    BY <1>2, <1>3 DEF Fetch, MaybeModel
  <2>. QED
    BY <1>3, <2>1 DEF Inv, Sorts
<1>7. WorldInv'
  BY <1>2, <1>3 DEF WorldInv, Empty
<1>8. QED
  BY <1>2, <1>3, <1>5, <1>6, <1>7, InFlux

LEMMA SwapKeeps ==
  ASSUME Inv, NEW c \in Consoles, Swap(c)
  PROVE  Inv'
<1>1. pc[c] = "swap" /\ todo[c] = <<>> /\ tflm /\ Tasks(c) = {}
  BY ScriptEmpty DEF Swap, At, Tasks
<1>2. /\ Flux(c) /\ sess = c /\ odd /\ inside = None /\ ask[c] \in Models /\ lease = c
      /\ scratch = None /\ ~had[c] /\ Empty /\ buf = ask[c]
  <2>1. pc[c] \in FluxPlaces
    BY <1>1 DEF FluxPlaces
  <2>. QED
    BY <1>1, <2>1, AtFluxPlace DEF Inv, Here, Changing
<1>3. /\ had' \in [Consoles -> BOOLEAN] /\ had' = had /\ tflm = TRUE
      /\ UNCHANGED <<odd, fresh, sess, scratch, blob, lease, inside, tflm, ask, old, copy>>
      /\ UNCHANGED <<buf, claims, plug, started, rec, recCur>>
  BY DEF Inv, LocalSorts, Swap, Sorts, seqVars, holds
<1>4. /\ LocalSorts' /\ Elsewise(c) /\ Here(c)' /\ Flux(c)'
  <2>1. CASE model' = ask[c] /\ Goes(c, "name") /\ UNCHANGED <<name, had, todo, ans>>
    <3>1. "name" \in Places
      BY DEF Places, WorkPlaces
    <3>2. /\ pc' \in [Consoles -> Places] /\ pc'[c] = "name"
          /\ \A d \in Consoles : d # c => pc'[d] = pc[d]
      BY <2>1, <3>1, MovesOn
    <3>3. LocalSorts' /\ Elsewise(c)
      BY <1>3, <2>1, <3>2 DEF Inv, LocalSorts, Elsewise
    <3>4. Tasks(c)' = {} /\ Sound(todo'[c])
      BY <1>1, <2>1, ScriptEmpty DEF Tasks
    <3>5. Owns(c)'
      BY <1>2, <1>3, <3>2, <3>4 DEF Owns, FluxPlaces
    <3>6. Changing(c)'
      BY <1>2, <1>3, <2>1, <3>2 DEF Changing, Empty
    <3>7. Undone(c)' /\ AnswerInv(c)' /\ InfoInv(c)'
      BY <3>2 DEF Undone, AnswerInv, InfoInv
    <3>8. Flux(c)'
      BY <3>2 DEF Flux, FluxPlaces
    <3>. QED
      BY <3>3, <3>4, <3>5, <3>6, <3>7, <3>8 DEF Here
  <2>2. CASE Settles(c, "LOST", TRUE, FALSE)
    <3>1. /\ pc' \in [Consoles -> Places] /\ todo' \in [Consoles -> Seq(Names)]
          /\ ans' \in [Consoles -> Answers]
          /\ \A d \in Consoles : d # c =>
               pc'[d] = pc[d] /\ todo'[d] = todo[d] /\ ans'[d] = ans[d]
          /\ Here(c)' /\ Flux(c)'
      BY <1>2, <1>3, <2>2, DownHere
    <3>2. LocalSorts' /\ Elsewise(c)
      BY <1>3, <3>1 DEF Inv, LocalSorts, Elsewise
    <3>. QED
      BY <3>1, <3>2
  <2>. QED
    BY <2>1, <2>2 DEF Swap
<1>5. Sorts'
  <2>1. model' \in MaybeModel /\ name' \in MaybeModel
    BY <1>2 DEF Swap, MaybeModel, Inv, Sorts
  <2>. QED
    BY <1>3, <2>1 DEF Inv, Sorts
<1>6. WorldInv'
  <2>1. model' # None => model' = buf
    BY <1>2 DEF Swap
  <2>. QED
    BY <1>2, <1>3, <2>1 DEF WorldInv, Empty
<1>7. QED
  BY <1>2, <1>3, <1>4, <1>5, <1>6, InFlux

LEMMA SwapApartKeeps ==
  ASSUME Inv, NEW c \in Consoles, SwapApart(c)
  PROVE  Inv'
<1>1. pc[c] = "swap" /\ todo[c] = <<>> /\ ~tflm /\ Tasks(c) = {}
  BY ScriptEmpty DEF SwapApart, At, Tasks
<1>2. /\ Flux(c) /\ sess = c /\ odd /\ inside = None /\ ask[c] \in Models /\ lease = None
      /\ scratch = None /\ What = old[c] /\ Rest /\ (had[c] <=> model # None)
      /\ plug = None /\ ~started
  <2>1. pc[c] \in FluxPlaces
    BY <1>1 DEF FluxPlaces
  <2>. QED
    BY <1>1, <2>1, AtFluxPlace DEF Inv, Here, Changing
<1>3. /\ had' \in [Consoles -> BOOLEAN] /\ had' = had /\ tflm = FALSE
      /\ UNCHANGED <<odd, fresh, sess, scratch, blob, lease, inside, tflm, ask, old, copy>>
      /\ UNCHANGED <<name, claims, plug, started, rec, recCur>>
  BY DEF Inv, LocalSorts, SwapApart, Sorts, seqVars, holds
<1>4. /\ LocalSorts' /\ Elsewise(c) /\ Here(c)' /\ Flux(c)'
  <2>1. CASE model' = ask[c] /\ Goes(c, "name") /\ UNCHANGED <<had, todo, ans>>
    <3>1. "name" \in Places
      BY DEF Places, WorkPlaces
    <3>2. /\ pc' \in [Consoles -> Places] /\ pc'[c] = "name"
          /\ \A d \in Consoles : d # c => pc'[d] = pc[d]
      BY <2>1, <3>1, MovesOn
    <3>3. LocalSorts' /\ Elsewise(c)
      BY <1>3, <2>1, <3>2 DEF Inv, LocalSorts, Elsewise
    <3>4. Tasks(c)' = {} /\ Sound(todo'[c])
      BY <1>1, <2>1, ScriptEmpty DEF Tasks
    <3>5. Owns(c)'
      BY <1>2, <1>3, <3>2, <3>4 DEF Owns, FluxPlaces
    <3>6. Changing(c)'
      BY <1>1, <1>2, <1>3, <2>1, <3>2 DEF Changing
    <3>7. Undone(c)' /\ AnswerInv(c)' /\ InfoInv(c)'
      BY <3>2 DEF Undone, AnswerInv, InfoInv
    <3>8. Flux(c)'
      BY <3>2 DEF Flux, FluxPlaces
    <3>. QED
      BY <3>3, <3>4, <3>5, <3>6, <3>7, <3>8 DEF Here
  <2>2. CASE /\ UNCHANGED <<model, buf, had>>
             /\ Settles(c, IF model # None THEN "RESTORED" ELSE "LOST", TRUE, FALSE)
    <3>1. CASE model = None
      <4>1. /\ pc' \in [Consoles -> Places] /\ todo' \in [Consoles -> Seq(Names)]
            /\ ans' \in [Consoles -> Answers]
            /\ \A d \in Consoles : d # c =>
                 pc'[d] = pc[d] /\ todo'[d] = todo[d] /\ ans'[d] = ans[d]
            /\ Here(c)' /\ Flux(c)'
        <5>1. Settles(c, "LOST", TRUE, FALSE) /\ lease # c /\ plug' = None
          BY <1>2, <1>3, <2>2, <3>1, NamesDiffer
        <5>. QED
          BY <1>2, <1>3, <5>1, DownHere
      <4>2. LocalSorts' /\ Elsewise(c)
        BY <1>3, <4>1 DEF Inv, LocalSorts, Elsewise
      <4>. QED
        BY <4>1, <4>2
    <3>2. CASE model # None
      <4>1. Settles(c, "RESTORED", TRUE, FALSE) /\ had'[c]
        BY <1>2, <1>3, <2>2, <3>2
      <4>2. /\ pc' \in [Consoles -> Places] /\ todo' \in [Consoles -> Seq(Names)]
            /\ ans' \in [Consoles -> Answers] /\ pc'[c] = "answer" /\ Sound(todo'[c])
            /\ \A d \in Consoles : d # c =>
                 pc'[d] = pc[d] /\ todo'[d] = todo[d] /\ ans'[d] = ans[d]
        BY <1>3, <4>1, SettlesDoes
      <4>3. /\ \A x : x \in Tasks(c)' <=> (x = "even" /\ TRUE)
                                       \/ (x = "lease_give" /\ TRUE /\ tflm)
            /\ ans'[c].busy = FALSE /\ ans'[c].state = "PREVIOUS"
        BY <1>3, <4>1, SettlesPrevious
      <4>4. LocalSorts' /\ Elsewise(c)
        BY <1>3, <4>2 DEF Inv, LocalSorts, Elsewise
      <4>5. (What = old[c])' /\ Rest'
        BY <1>2, <1>3, <2>2 DEF What, Rest, Held, Container
      <4>6. Here(c)'
        BY <1>1, <1>2, <1>3, <4>2, <4>3, <4>5, NamesDiffer, StillPrevious
      <4>7. Flux(c)'
        BY <4>2, <4>3 DEF Flux
      <4>. QED
        BY <4>4, <4>6, <4>7
    <3>. QED
      BY <3>1, <3>2
  <2>. QED
    BY <2>1, <2>2 DEF SwapApart
<1>5. Sorts'
  <2>1. model' \in MaybeModel /\ buf' \in MaybeModel \cup {Junk}
    BY <1>2 DEF SwapApart, MaybeModel, Inv, Sorts
  <2>. QED
    BY <1>3, <2>1 DEF Inv, Sorts
<1>6. WorldInv'
  <2>1. model' # None => model' = buf'
    BY <1>2 DEF SwapApart, Inv, WorldInv
  <2>. QED
    BY <1>2, <1>3, <2>1 DEF WorldInv
<1>7. QED
  BY <1>2, <1>3, <1>4, <1>5, <1>6, InFlux

LEMMA NewHere ==
  ASSUME Inv, NEW c \in Consoles, Flux(c), NEW end \in {"OPENED", "UNDECODED"},
         had' \in [Consoles -> BOOLEAN], Settles(c, end, TRUE, FALSE),
         tflm, tflm' = tflm, lease = c, lease' = lease, sess' = c, ask' = ask,
         ask[c] \in Models, model' = ask[c], name' = ask[c], started' <=> plug' # None,
         plug' = IF end = "OPENED" /\ ask[c] \in Plugged THEN ask[c] ELSE None
  PROVE  /\ pc' \in [Consoles -> Places] /\ todo' \in [Consoles -> Seq(Names)]
         /\ ans' \in [Consoles -> Answers]
         /\ \A d \in Consoles : d # c =>
              pc'[d] = pc[d] /\ todo'[d] = todo[d] /\ ans'[d] = ans[d]
         /\ Here(c)' /\ Flux(c)'
<1>1. /\ pc' \in [Consoles -> Places] /\ todo' \in [Consoles -> Seq(Names)]
      /\ ans' \in [Consoles -> Answers] /\ pc'[c] = "answer" /\ Sound(todo'[c])
      /\ \A d \in Consoles : d # c =>
           pc'[d] = pc[d] /\ todo'[d] = todo[d] /\ ans'[d] = ans[d]
  BY SettlesDoes
<1>2. /\ \A x : x \in Tasks(c)' <=>
           \/ x \in {"invalidate", "commit", "even"}
           \/ x = "plugin_unload" /\ end = "UNDECODED" /\ tflm
           \/ x = "lease_give" /\ tflm
      /\ ~ans'[c].busy /\ ans'[c].state = "NEW" /\ (ans'[c].ok <=> end = "OPENED")
  BY SettlesNew
<1>3. /\ \A x : x \in Tasks(c)' =>
           x \in {"plugin_unload", "invalidate", "commit", "even", "lease_give"}
      /\ "invalidate" \in Tasks(c)' /\ "commit" \in Tasks(c)' /\ "even" \in Tasks(c)'
      /\ "odd" \notin Tasks(c)' /\ "lease_give" \in Tasks(c)'
      /\ "plugin_unload" \in Tasks(c)' => ~ans'[c].ok
  BY <1>2
<1>4. (plug = IF ans[c].ok /\ tflm /\ ask[c] \in Plugged THEN ask[c] ELSE None)'
  BY <1>2
<1>5. Here(c)'
  BY <1>1, <1>2, <1>3, <1>4, NowNew
<1>6. Flux(c)'
  BY <1>1, <1>3 DEF Flux
<1>7. QED
  BY <1>1, <1>5, <1>6

LEMMA NameScript ==
  ASSUME tflm \in BOOLEAN, NEW h \in BOOLEAN
  PROVE  LET s == If(tflm, <<"plugin_unload">>) \o SettleScript(Verdict(h, "OPENED"), TRUE) IN
         /\ s \in Seq(Names) /\ Sound(s)
         /\ \A x : x \in Calls(s) <=> \/ x \in {"invalidate", "commit", "even"}
                                      \/ x \in {"plugin_unload", "lease_give"} /\ tflm
<1> DEFINE v == Verdict(h, "OPENED")
           a == If(tflm, <<"plugin_unload">>)
           b == SettleScript(v, TRUE)
<1>1. v \in Verdicts /\ v.state = "NEW" /\ v.ok /\ ~v.down /\ ~v.unload
  BY VerdictIs
<1>2. /\ a \in Seq(Names) /\ Sound(a)
      /\ \A x : x \in Calls(a) <=> tflm /\ x = "plugin_unload"
  <2>1. "plugin_unload" \in Names
    BY DEF Names
  <2>. QED
    BY <2>1, ScriptOne
<1> HIDE DEF v
<1>3. /\ b \in Seq(Names) /\ Sound(b)
      /\ \A x : x \in Calls(b) <=> InSettle(v, TRUE, x)
  BY <1>1, SettleScriptIs
<1>4. \A x : x \in Calls(b) <=> \/ x \in {"invalidate", "commit", "even"}
                                \/ x = "lease_give" /\ tflm
  BY <1>1, <1>3 DEF InSettle
<1> HIDE DEF a, b
<1>5. \A x \in Calls(a), y \in Calls(b) : Before(x, y)
  BY <1>2, <1>4 DEF Before
<1>6. a \o b \in Seq(Names) /\ Sound(a \o b) /\ Calls(a \o b) = Calls(a) \cup Calls(b)
  BY <1>2, <1>3, <1>5, ScriptJoin
<1>7. /\ a \o b \in Seq(Names) /\ Sound(a \o b)
      /\ \A x : x \in Calls(a \o b) <=> \/ x \in {"invalidate", "commit", "even"}
                                        \/ x \in {"plugin_unload", "lease_give"} /\ tflm
  BY <1>2, <1>4, <1>6
<1>8. QED
  BY <1>7 DEF a, b, v

LEMMA NameKeeps ==
  ASSUME Inv, NEW c \in Consoles, Name(c)
  PROVE  Inv'
<1>1. pc[c] = "name" /\ todo[c] = <<>> /\ Tasks(c) = {} /\ tflm \in BOOLEAN
  BY ScriptEmpty DEF Name, At, Tasks, Inv, Sorts
<1>2. /\ Flux(c) /\ sess = c /\ odd /\ inside = None /\ ask[c] \in Models
      /\ (tflm => lease = c) /\ (~tflm => lease = None)
      /\ scratch = None /\ model = ask[c] /\ plug = None /\ ~started
  <2>1. pc[c] \in FluxPlaces
    BY <1>1 DEF FluxPlaces
  <2>. QED
    BY <1>1, <2>1, AtFluxPlace DEF Inv, Here, Changing
<1>3. /\ had' \in [Consoles -> BOOLEAN] /\ had' = had /\ name' = ask[c]
      /\ UNCHANGED <<odd, fresh, sess, scratch, blob, lease, inside, tflm, ask, old, copy>>
      /\ UNCHANGED <<model, buf, claims, plug, started, rec, recCur>>
  BY DEF Inv, LocalSorts, Name, seqVars, holds
<1>4. /\ LocalSorts' /\ Elsewise(c) /\ Here(c)' /\ Flux(c)'
  <2>1. CASE Container(ask[c])
    <3>1. "plugin" \in Places /\ Goes(c, "plugin") /\ UNCHANGED <<todo, ans>>
      BY <2>1 DEF Places, WorkPlaces, Name
    <3>2. /\ pc' \in [Consoles -> Places] /\ pc'[c] = "plugin"
          /\ \A d \in Consoles : d # c => pc'[d] = pc[d]
      BY <3>1, MovesOn
    <3>3. LocalSorts' /\ Elsewise(c)
      BY <1>3, <3>1, <3>2 DEF Inv, LocalSorts, Elsewise
    <3>4. Tasks(c)' = {} /\ Sound(todo'[c])
      BY <1>1, <3>1, ScriptEmpty DEF Tasks
    <3>5. Owns(c)'
      BY <1>2, <1>3, <3>2, <3>4 DEF Owns, FluxPlaces
    <3>6. tflm /\ Container(ask[c])'
      BY <1>3, <2>1 DEF Container
    <3>7. Changing(c)'
      BY <1>2, <1>3, <3>2, <3>6 DEF Changing
    <3>8. Undone(c)' /\ AnswerInv(c)' /\ InfoInv(c)'
      BY <3>2 DEF Undone, AnswerInv, InfoInv
    <3>9. Flux(c)'
      BY <3>2 DEF Flux, FluxPlaces
    <3>. QED
      BY <3>3, <3>4, <3>5, <3>7, <3>8, <3>9 DEF Here
  <2>2. CASE ~Container(ask[c])
    <3>1. /\ "answer" \in Places /\ Goes(c, "answer") /\ Told(c, "NEW", TRUE, FALSE)
          /\ Does(c, If(tflm, <<"plugin_unload">>)
                       \o SettleScript(Verdict(had[c], "OPENED"), TRUE))
      BY <2>2 DEF Places, WorkPlaces, Name
    <3>2. /\ pc' \in [Consoles -> Places] /\ pc'[c] = "answer"
          /\ \A d \in Consoles : d # c => pc'[d] = pc[d]
      BY <3>1, MovesOn
    <3>3. /\ todo' \in [Consoles -> Seq(Names)] /\ Sound(todo'[c])
          /\ \A d \in Consoles : d # c => todo'[d] = todo[d]
          /\ \A x : x \in Tasks(c)' <=> \/ x \in {"invalidate", "commit", "even"}
                                        \/ x \in {"plugin_unload", "lease_give"} /\ tflm
      <4> DEFINE s == If(tflm, <<"plugin_unload">>)
                        \o SettleScript(Verdict(had[c], "OPENED"), TRUE)
      <4>1. had[c] \in BOOLEAN /\ todo \in [Consoles -> Seq(Names)]
        BY DEF Inv, LocalSorts
      <4>2. /\ s \in Seq(Names) /\ Sound(s)
            /\ \A x : x \in Calls(s) <=> \/ x \in {"invalidate", "commit", "even"}
                                         \/ x \in {"plugin_unload", "lease_give"} /\ tflm
        BY <1>1, <4>1, NameScript
      <4>3. todo' = [todo EXCEPT ![c] = s]
        BY <3>1 DEF Does
      <4> HIDE DEF s
      <4>4. /\ todo' \in [Consoles -> Seq(Names)] /\ todo'[c] = s
            /\ \A d \in Consoles : d # c => todo'[d] = todo[d]
        BY <4>1, <4>2, <4>3
      <4>5. Tasks(c)' = Calls(s)
        BY <4>4 DEF Tasks
      <4>6. \A x : x \in Tasks(c)' <=> \/ x \in {"invalidate", "commit", "even"}
                                       \/ x \in {"plugin_unload", "lease_give"} /\ tflm
        BY <4>2, <4>5
      <4>. QED
        BY <4>2, <4>4, <4>6
    <3>4. /\ ans' \in [Consoles -> Answers]
          /\ ~ans'[c].busy /\ ans'[c].state = "NEW" /\ ans'[c].ok
          /\ \A d \in Consoles : d # c => ans'[d] = ans[d]
      <4>1. [state |-> "NEW", ok |-> TRUE, busy |-> FALSE] \in Answers
        BY DEF Answers, States
      <4>. QED
        BY <3>1, <4>1 DEF Told, Inv, LocalSorts
    <3>5. LocalSorts' /\ Elsewise(c)
      BY <1>3, <3>2, <3>3, <3>4 DEF Inv, LocalSorts, Elsewise
    <3>6. /\ \A x : x \in Tasks(c)' =>
               x \in {"plugin_unload", "invalidate", "commit", "even", "lease_give"}
          /\ "invalidate" \in Tasks(c)' /\ "commit" \in Tasks(c)' /\ "even" \in Tasks(c)'
          /\ "odd" \notin Tasks(c)'
          /\ "lease_give" \in Tasks(c)' <=> tflm
          /\ "plugin_unload" \in Tasks(c)' <=> tflm
      BY <1>1, <3>3
    <3>7. ~(tflm /\ ask[c] \in Plugged)
      BY <2>2, HeldIs
    <3>8. /\ lease' = c <=> "lease_give" \in Tasks(c)'
          /\ "plugin_unload" \in Tasks(c)' => lease' = c
          /\ plug' = None /\ (started' <=> plug' # None) /\ sess' = c
          /\ (ask[c] \in Models /\ model = ask[c] /\ name = ask[c])'
      BY <1>2, <1>3, <3>6, NamesDiffer
    <3>9. /\ ~(ans[c].ok /\ tflm /\ ask[c] \in Plugged)'
          /\ (plug = IF ans[c].ok /\ tflm /\ ask[c] \in Plugged THEN ask[c] ELSE None)'
      BY <1>3, <3>7, <3>8
    <3>10. Here(c)'
      BY <3>2, <3>3, <3>4, <3>6, <3>8, <3>9, NowNew
    <3>11. Flux(c)'
      BY <3>2, <3>6 DEF Flux
    <3>. QED
      BY <3>5, <3>10, <3>11
  <2>. QED
    BY <2>1, <2>2
<1>5. Sorts'
  <2>1. name' \in MaybeModel
    BY <1>2, <1>3 DEF MaybeModel
  <2>. QED
    BY <1>3, <2>1 DEF Inv, Sorts
<1>6. WorldInv'
  BY <1>2, <1>3 DEF Inv, WorldInv
<1>7. QED
  BY <1>2, <1>3, <1>4, <1>5, <1>6, InFlux

LEMMA PluginStartKeeps ==
  ASSUME Inv, NEW c \in Consoles, PluginStart(c)
  PROVE  Inv'
<1>1. pc[c] = "plugin" /\ todo[c] = <<>> /\ Tasks(c) = {}
  BY ScriptEmpty DEF PluginStart, At, Tasks
<1>2. /\ Flux(c) /\ sess = c /\ odd /\ inside = None /\ ask[c] \in Models
      /\ tflm /\ lease = c /\ scratch = None /\ model = ask[c] /\ name = ask[c] /\ plug = None
  <2>1. pc[c] \in FluxPlaces
    BY <1>1 DEF FluxPlaces
  <2>. QED
    BY <1>1, <2>1, AtFluxPlace DEF Inv, Here, Changing
<1>3. /\ had' \in [Consoles -> BOOLEAN] /\ had' = had /\ started' = FALSE
      /\ UNCHANGED <<odd, fresh, sess, scratch, blob, lease, inside, tflm, ask, old, copy>>
      /\ UNCHANGED <<model, name, buf, claims, rec, recCur>>
  BY DEF Inv, LocalSorts, PluginStart, seqVars, holds
<1>4. /\ LocalSorts' /\ Elsewise(c) /\ Here(c)' /\ Flux(c)'
  <2>1. CASE ask[c] \in Plugged /\ plug' = ask[c] /\ Goes(c, "entry") /\ UNCHANGED <<todo, ans>>
    <3>1. "entry" \in Places
      BY DEF Places, WorkPlaces
    <3>2. /\ pc' \in [Consoles -> Places] /\ pc'[c] = "entry"
          /\ \A d \in Consoles : d # c => pc'[d] = pc[d]
      BY <2>1, <3>1, MovesOn
    <3>3. LocalSorts' /\ Elsewise(c)
      BY <1>3, <2>1, <3>2 DEF Inv, LocalSorts, Elsewise
    <3>4. Tasks(c)' = {} /\ Sound(todo'[c])
      BY <1>1, <2>1, ScriptEmpty DEF Tasks
    <3>5. Owns(c)'
      BY <1>2, <1>3, <3>2, <3>4 DEF Owns, FluxPlaces
    <3>6. Changing(c)'
      BY <1>2, <1>3, <2>1, <3>2 DEF Changing
    <3>7. Undone(c)' /\ AnswerInv(c)' /\ InfoInv(c)'
      BY <3>2 DEF Undone, AnswerInv, InfoInv
    <3>8. Flux(c)'
      BY <3>2 DEF Flux, FluxPlaces
    <3>. QED
      BY <3>3, <3>4, <3>5, <3>6, <3>7, <3>8 DEF Here
  <2>2. ASSUME NEW end \in {"OPENED", "UNDECODED"}, Settles(c, end, TRUE, FALSE),
               plug' = None, end = "OPENED" => ask[c] \notin Plugged
        PROVE  LocalSorts' /\ Elsewise(c) /\ Here(c)' /\ Flux(c)'
    <3>1. started' <=> plug' # None
      BY <1>3, <2>2
    <3>2. plug' = IF end = "OPENED" /\ ask[c] \in Plugged THEN ask[c] ELSE None
      BY <2>2
    <3>3. /\ pc' \in [Consoles -> Places] /\ todo' \in [Consoles -> Seq(Names)]
          /\ ans' \in [Consoles -> Answers]
          /\ \A d \in Consoles : d # c =>
               pc'[d] = pc[d] /\ todo'[d] = todo[d] /\ ans'[d] = ans[d]
          /\ Here(c)' /\ Flux(c)'
      BY <1>2, <1>3, <2>2, <3>1, <3>2, NewHere
    <3>4. LocalSorts' /\ Elsewise(c)
      BY <1>3, <3>3 DEF Inv, LocalSorts, Elsewise
    <3>. QED
      BY <3>3, <3>4
  <2>. QED
    BY <2>1, <2>2 DEF PluginStart
<1>5. Sorts'
  <2>1. plug' \in MaybeModel
    BY <1>2 DEF PluginStart, MaybeModel
  <2>. QED
    BY <1>3, <2>1 DEF Inv, Sorts
<1>6. WorldInv'
  <2>1. plug' # None => plug' = model /\ plug' \in Plugged
    BY <1>2 DEF PluginStart
  <2>. QED
    BY <1>2, <1>3, <2>1 DEF Inv, WorldInv
<1>7. QED
  BY <1>2, <1>3, <1>4, <1>5, <1>6, InFlux

LEMMA PluginEntryKeeps ==
  ASSUME Inv, NEW c \in Consoles, PluginEntry(c)
  PROVE  Inv'
<1>1. pc[c] = "entry" /\ todo[c] = <<>> /\ Tasks(c) = {}
  BY ScriptEmpty DEF PluginEntry, At, Tasks
<1>2. /\ Flux(c) /\ sess = c /\ odd /\ inside = None /\ ask[c] \in Models
      /\ tflm /\ lease = c /\ scratch = None /\ model = ask[c] /\ name = ask[c]
      /\ plug = ask[c] /\ ask[c] \in Plugged /\ ~started
  <2>1. pc[c] \in FluxPlaces
    BY <1>1 DEF FluxPlaces
  <2>. QED
    BY <1>1, <2>1, AtFluxPlace DEF Inv, Here, Changing
<1>3. /\ had' \in [Consoles -> BOOLEAN] /\ had' = had
      /\ UNCHANGED <<odd, fresh, sess, scratch, blob, lease, inside, tflm, ask, old, copy>>
      /\ UNCHANGED <<model, name, buf, claims, rec, recCur>>
  BY DEF Inv, LocalSorts, PluginEntry, seqVars, holds
<1>4. PICK end \in {"OPENED", "UNDECODED"} :
        /\ Settles(c, end, TRUE, FALSE)
        /\ end = "OPENED" => started' = TRUE /\ plug' = plug
        /\ end = "UNDECODED" => plug' = None /\ started' = started
  BY DEF PluginEntry
<1>5. started' \in BOOLEAN /\ (started' <=> plug' # None)
  BY <1>2, <1>4, NamesDiffer DEF Inv, Sorts
<1>6. /\ pc' \in [Consoles -> Places] /\ todo' \in [Consoles -> Seq(Names)]
      /\ ans' \in [Consoles -> Answers]
      /\ \A d \in Consoles : d # c =>
           pc'[d] = pc[d] /\ todo'[d] = todo[d] /\ ans'[d] = ans[d]
      /\ Here(c)' /\ Flux(c)'
  <2>1. plug' = IF end = "OPENED" /\ ask[c] \in Plugged THEN ask[c] ELSE None
    BY <1>2, <1>4
  <2>. QED
    BY <1>2, <1>3, <1>4, <1>5, <2>1, NewHere
<1>7. LocalSorts' /\ Elsewise(c)
  BY <1>3, <1>6 DEF Inv, LocalSorts, Elsewise
<1>8. plug' \in {plug, None}
  BY <1>4
<1>9. Sorts'
  BY <1>3, <1>5, <1>8 DEF Inv, Sorts, MaybeModel
<1>10. WorldInv'
  BY <1>2, <1>3, <1>5, <1>8 DEF Inv, WorldInv
<1>11. QED
  BY <1>2, <1>3, <1>6, <1>7, <1>9, <1>10, InFlux

-----------------------------------------------------------------------------
(* The calls of a script.                                                  *)

LEMMA CallFacts ==
  ASSUME Inv, NEW c \in Consoles, Call(c)
  PROVE  /\ Head(todo[c]) \in Names /\ Tasks(c) = {Head(todo[c])} \cup Tasks(c)'
         /\ Sound(todo'[c]) /\ \A y \in Tasks(c)' : Before(Head(todo[c]), y)
         /\ LocalSorts' /\ Elsewise(c) /\ pc' = pc /\ ask' = ask /\ had' = had /\ old' = old
         /\ ans' = ans /\ copy' = copy /\ tflm' = tflm
         /\ pc[c] \in {"fetch", "answer"} /\ sess = c /\ Sound(todo[c])
<1>1. todo[c] \in Seq(Names) /\ todo[c] # <<>> /\ Sound(todo[c])
  BY DEF Inv, LocalSorts, Call, Here
<1>2. todo'[c] = Tail(todo[c]) /\ Tail(todo[c]) \in Seq(Names)
  BY <1>1, ScriptStep DEF Call, Does, Inv, LocalSorts
<1>3. Head(todo[c]) \in Names /\ Tasks(c) = {Head(todo[c])} \cup Tasks(c)'
  BY <1>1, <1>2, ScriptStep DEF Tasks
<1>4. Sound(todo'[c]) /\ \A y \in Tasks(c)' : Before(Head(todo[c]), y)
  BY <1>1, <1>2, ScriptOrder DEF Tasks
<1>5. LocalSorts' /\ Elsewise(c)
  BY <1>2 DEF Call, Does, Inv, LocalSorts, Elsewise
<1>6. pc[c] \in {"fetch", "answer"}
  BY <1>3 DEF Inv, Here, Owns
<1>7. sess = c
  BY <1>6 DEF Inv, Here, Owns, WorkPlaces
<1>8. QED
  BY <1>1, <1>3, <1>4, <1>5, <1>6, <1>7 DEF Call

(* Called in an answer or a fetch, by what it is.                          *)
LEMMA CallEffect ==
  ASSUME Inv, NEW c \in Consoles, Call(c), NEW x, x = Head(todo[c]),
         x \in {"plugin_unload", "invalidate", "release", "forget", "commit"},
         x = "plugin_unload" => lease = c
  PROVE  /\ plug' = IF x = "plugin_unload" THEN None ELSE plug
         /\ x = "plugin_unload" => started' = FALSE
         /\ x # "plugin_unload" => started' = started
         /\ rec' = IF x = "invalidate" THEN None ELSE rec
         /\ recCur' = FALSE \/ recCur' = recCur
         /\ model' = IF x = "release" THEN None ELSE model
         /\ name' = IF x = "release" THEN None ELSE name
         /\ claims' = CASE x = "forget" -> None [] x = "commit" -> Held(ask[c]) [] OTHER -> claims
         /\ UNCHANGED <<buf, odd, fresh, sess, scratch, blob, lease, inside>>
<1>1. CASE x = "plugin_unload"
  BY <1>1 DEF Call, PluginUnload, seqVars, holds
<1>2. CASE x = "invalidate"
  BY <1>2 DEF Call, Invalidate, seqVars, holds
<1>3. CASE x = "release"
  BY <1>3 DEF Call, Release, seqVars, holds
<1>4. CASE x = "forget"
  BY <1>4 DEF Call, ClaimsSet, seqVars, holds
<1>5. CASE x = "commit"
  BY <1>5 DEF Call, ClaimsSet, seqVars, holds
<1>6. QED
  BY <1>1, <1>2, <1>3, <1>4, <1>5

LEMMA CallSorts ==
  ASSUME Inv, NEW c \in Consoles, Call(c), NEW x, x = Head(todo[c]),
         x \in {"plugin_unload", "invalidate", "release", "forget", "commit"},
         x = "plugin_unload" => lease = c
  PROVE  Sorts'
<1>1. /\ plug' \in MaybeModel /\ rec' \in MaybeModel /\ model' \in MaybeModel
      /\ name' \in MaybeModel
  BY CallEffect DEF Inv, Sorts, MaybeModel
<1>2. claims' \in MaybeModel
  <2>1. Held(ask[c]) \in MaybeModel
    BY HeldIs DEF Inv, LocalSorts, MaybeModel
  <2>. QED
    BY <2>1, CallEffect DEF Inv, Sorts, MaybeModel
<1>3. started' \in BOOLEAN /\ recCur' \in BOOLEAN
  BY CallEffect DEF Inv, Sorts
<1>4. UNCHANGED <<tflm, buf, odd, fresh, sess, scratch, blob, lease, inside>>
  BY CallEffect, CallFacts
<1>5. QED
  BY <1>1, <1>2, <1>3, <1>4 DEF Inv, Sorts

(* The lease given back.                                                   *)
LEMMA CallLeaseKeeps ==
  ASSUME Inv, NEW c \in Consoles, Call(c), Head(todo[c]) = "lease_give"
  PROVE  Inv'
<1>1. /\ Tasks(c) = {"lease_give"} \cup Tasks(c)' /\ Sound(todo'[c])
      /\ \A y \in Tasks(c)' : Before("lease_give", y)
      /\ LocalSorts' /\ Elsewise(c) /\ pc' = pc /\ ask' = ask /\ old' = old
      /\ ans' = ans /\ tflm' = tflm /\ sess = c /\ pc[c] \in {"fetch", "answer"}
  BY CallFacts
<1>2. /\ lease' = None
      /\ UNCHANGED <<model, name, buf, claims, plug, started, rec, recCur, odd, fresh,
                     sess, scratch, blob, inside>>
  BY DEF Call, LeaseGive, world, seqVars
<1>3. pc[c] = "answer"
  BY <1>1 DEF Inv, Here, Changing
<1>4. AnswerInv(c)
  BY DEF Inv, Here
<1>5. lease = c
  BY <1>1, <1>3, <1>4 DEF AnswerInv
<1>6. inside = None
  BY <1>3, <1>5, NobodyInside
<1>7. /\ "lease_give" \notin Tasks(c)' /\ "invalidate" \notin Tasks(c)'
      /\ "plugin_unload" \notin Tasks(c)' /\ "odd" \notin Tasks(c)'
  BY <1>1 DEF Before
<1>8. Sorts' /\ OwnerInv'
  <2>1. Sorts'
    BY <1>1, <1>2 DEF Inv, Sorts
  <2>2. OwnerInv'
    BY <1>1, <1>2, NamesDiffer DEF Inv, OwnerInv, Streaming, None
  <2>. QED
    BY <2>1, <2>2
<1>9. WorldInv'
  BY <1>1, <1>2, <1>3, <1>6, WorldKept
<1>10. \A y : y # "lease_give" => (y \in Tasks(c)' <=> y \in Tasks(c))
  BY <1>1
<1>11. Flux(c)' <=> Flux(c)
  BY <1>1, <1>10 DEF Flux
<1>12. What' = What /\ (Rest' <=> Rest) /\ (Empty' <=> Empty)
  BY <1>1, <1>2 DEF What, Rest, Empty, Held, Container
<1>13. AnswerInv(c)'
  <2>1. Unmoved(c) => Unmoved(c)'
    BY <1>1, <1>10, <1>12 DEF Unmoved
  <2>2. Renewed(c) => Renewed(c)'
    BY <1>1, <1>2, <1>10 DEF Renewed, Held, Container
  <2>3. Emptied(c) => Emptied(c)'
    BY <1>1, <1>2, <1>10, <1>12 DEF Emptied
  <2>. QED
    BY <1>1, <1>2, <1>3, <1>4, <1>7, <1>10, <2>1, <2>2, <2>3, NamesDiffer DEF AnswerInv
<1>14. Here(c)'
  BY <1>1, <1>2, <1>3, <1>13, SettledHere
<1>15. \A d \in Consoles : d # c => (lease' = d <=> lease = d)
  BY <1>2, <1>5, NamesDiffer
<1>16. QED
  BY <1>1, <1>2, <1>8, <1>9, <1>11, <1>14, <1>15, Quiet

(* The counter, once odd and once even again.                              *)
LEMMA BumpedFrame ==
  ASSUME Inv, NEW c \in Consoles, Call(c), Bump, UNCHANGED <<world, holds>>
  PROVE  /\ Sorts' /\ OwnerInv' /\ WorldInv'
         /\ \A d \in Consoles : d # c => Here(d)'
         /\ What' = What /\ (Rest' <=> Rest) /\ (Empty' <=> Empty)
         /\ UNCHANGED <<model, name, claims, plug, started, rec, lease, sess>>
<1>1. /\ Elsewise(c) /\ tflm' = tflm /\ sess = c /\ pc' = pc /\ pc[c] \in {"fetch", "answer"}
  BY CallFacts
<1>2. Sorts'
  <2>1. odd' \in BOOLEAN /\ fresh' \in [Consoles -> BOOLEAN]
    BY DEF Bump
  <2>. QED
    BY <1>1, <2>1 DEF Inv, Sorts, world, holds
<1>3. OwnerInv'
  BY <1>1 DEF Inv, OwnerInv, world, holds, Streaming
<1>4. WorldInv'
  BY <1>1, WorldKept DEF world, holds
<1>5. \A d \in Consoles : ~fresh'[d]
  BY DEF Bump
<1>6. \A d \in Consoles : d # c => Here(d)'
  BY <1>1, <1>5, OthersHere DEF holds
<1>7. What' = What /\ (Rest' <=> Rest) /\ (Empty' <=> Empty)
  BY <1>1 DEF What, Rest, Empty, Held, Container, world
<1>8. QED
  BY <1>2, <1>3, <1>4, <1>6, <1>7 DEF world, holds

LEMMA CallOddKeeps ==
  ASSUME Inv, NEW c \in Consoles, Call(c), Head(todo[c]) = "odd"
  PROVE  Inv'
<1>1. /\ Tasks(c) = {"odd"} \cup Tasks(c)' /\ Sound(todo'[c])
      /\ \A y \in Tasks(c)' : Before("odd", y)
      /\ LocalSorts' /\ Elsewise(c) /\ pc' = pc /\ ask' = ask /\ old' = old
      /\ ans' = ans /\ tflm' = tflm /\ sess = c /\ pc[c] \in {"fetch", "answer"}
  BY CallFacts
<1>2. Bump /\ UNCHANGED <<world, holds>>
  BY DEF Call
<1>3. /\ Sorts' /\ OwnerInv' /\ WorldInv'
      /\ \A d \in Consoles : d # c => Here(d)'
      /\ What' = What /\ (Rest' <=> Rest) /\ (Empty' <=> Empty)
      /\ UNCHANGED <<model, name, claims, plug, started, rec, lease, sess>>
  BY <1>2, BumpedFrame
<1>4. pc[c] = "answer"
  BY <1>1 DEF Inv, Here, Changing
<1>5. AnswerInv(c)
  BY DEF Inv, Here
<1>6. ~odd
  <2>1. ~Flux(c)
    BY <1>1, <1>4 DEF Flux, FluxPlaces
  <2>. QED
    BY <1>1, <2>1, EvenUnless
<1>7. odd' /\ \A d \in Consoles : ~fresh'[d]
  BY <1>2, <1>6 DEF Bump
<1>8. "odd" \notin Tasks(c)' /\ \A y : y # "odd" => (y \in Tasks(c)' <=> y \in Tasks(c))
  BY <1>1 DEF Before
<1>9. ~(ans[c].busy \/ ans[c].state = "PREVIOUS") /\ ans[c].state # "NEW"
  BY <1>1, <1>4, <1>5 DEF AnswerInv, Unmoved, Renewed
<1>10. Emptied(c)
  BY <1>4, <1>5, <1>9 DEF AnswerInv
<1>11. Emptied(c)'
  BY <1>1, <1>3, <1>7, <1>8, <1>10 DEF Emptied
<1>12. AnswerInv(c)'
  BY <1>1, <1>3, <1>4, <1>5, <1>8, <1>9, <1>11 DEF AnswerInv
<1>13. Here(c)'
  BY <1>1, <1>3, <1>4, <1>12, SettledHere
<1>14. OddInv'
  <2>1. "even" \in Tasks(c)'
    BY <1>1, <1>8, <1>10 DEF Emptied
  <2>2. Flux(c)'
    BY <1>1, <1>4, <1>8, <2>1 DEF Flux
  <2>3. (\E d \in Consoles : Flux(d))'
    BY <2>2
  <2>. QED
    BY <1>7, <2>3 DEF OddInv
<1>15. QED
  BY <1>1, <1>3, <1>13, <1>14 DEF Inv

LEMMA CallEvenKeeps ==
  ASSUME Inv, NEW c \in Consoles, Call(c), Head(todo[c]) = "even"
  PROVE  Inv'
<1>1. /\ Tasks(c) = {"even"} \cup Tasks(c)' /\ Sound(todo'[c])
      /\ \A y \in Tasks(c)' : Before("even", y)
      /\ LocalSorts' /\ Elsewise(c) /\ pc' = pc /\ ask' = ask /\ old' = old
      /\ ans' = ans /\ tflm' = tflm /\ sess = c /\ pc[c] \in {"fetch", "answer"}
      /\ Sound(todo[c])
  BY CallFacts
<1>2. Bump /\ UNCHANGED <<world, holds>>
  BY DEF Call
<1>3. /\ Sorts' /\ OwnerInv' /\ WorldInv'
      /\ \A d \in Consoles : d # c => Here(d)'
      /\ What' = What /\ (Rest' <=> Rest) /\ (Empty' <=> Empty)
      /\ UNCHANGED <<model, name, claims, plug, started, rec, lease, sess>>
  BY <1>2, BumpedFrame
<1>4. pc[c] = "answer"
  BY <1>1 DEF Inv, Here, Changing
<1>5. AnswerInv(c)
  BY DEF Inv, Here
<1>6. /\ \A y \in Tasks(c)' : y = "lease_give"
      /\ \A y : y \in Tasks(c) => y \in {"even", "lease_give"}
      /\ "lease_give" \in Tasks(c)' <=> "lease_give" \in Tasks(c)
  BY <1>1 DEF Before
<1>7. Flux(c) /\ ~(Flux(c)')
  BY <1>1, <1>4, <1>6 DEF Flux, FluxPlaces
<1>8. odd /\ ~odd' /\ \A d \in Consoles : ~fresh'[d]
  BY <1>2, <1>7, AtFlux DEF Bump
<1>9. Rest
  <2>1. CASE ans[c].busy \/ ans[c].state = "PREVIOUS"
    BY <1>1, <1>4, <1>5, <2>1 DEF AnswerInv, Unmoved
  <2>2. CASE ~ans[c].busy /\ ans[c].state = "NEW"
    <3>1. Renewed(c)
      BY <1>4, <1>5, <2>2 DEF AnswerInv
    <3>2. /\ name = model /\ claims = Held(model) /\ rec = None
          /\ started <=> plug # None
      BY <1>6, <3>1 DEF Renewed
    <3>. QED
      BY <3>2 DEF Rest
  <2>3. CASE ~ans[c].busy /\ ans[c].state \notin {"PREVIOUS", "NEW"}
    <3>1. Emptied(c)
      BY <1>4, <1>5, <2>3 DEF AnswerInv
    <3>2. model = None /\ name = None /\ rec = None /\ claims = None /\ plug = None
      BY <1>6, <3>1 DEF Emptied
    <3>3. ~started
      BY <3>2 DEF Inv, WorldInv
    <3>. QED
      BY <3>2, <3>3, RestIfEmpty DEF Empty
  <2>. QED
    BY <2>1, <2>2, <2>3
<1>10. OddInv'
  <2>1. \A d \in Consoles : ~(Flux(d)')
    <3>1. ASSUME NEW d \in Consoles, d # c PROVE ~Flux(d)
      BY <1>1, <3>1, AtFlux
    <3>. QED
      BY <1>1, <1>7, <3>1, FluxElse
  <2>2. ~(\E d \in Consoles : Flux(d))'
    BY <2>1
  <2>. QED
    BY <1>3, <1>8, <1>9, <2>2 DEF OddInv
<1>11. AnswerInv(c)'
  <2>1. ans[c].busy \/ ans[c].state = "PREVIOUS" => Unmoved(c)'
    <3>1. Tasks(c)' \subseteq {"even", "lease_give"}
      BY <1>6
    <3>. QED
      BY <1>1, <1>3, <1>4, <1>5, <1>9, <3>1 DEF AnswerInv, Unmoved
  <2>2. ~ans[c].busy /\ ans[c].state = "NEW" => Renewed(c)'
    <3>1. Renewed(c) => Renewed(c)'
      BY <1>1, <1>3, <1>6 DEF Renewed, Held, Container
    <3>. QED
      BY <1>4, <1>5, <3>1 DEF AnswerInv
  <2>3. ~ans[c].busy /\ ans[c].state \notin {"PREVIOUS", "NEW"} => Emptied(c)'
    <3>1. Emptied(c) => /\ model = None /\ name = None /\ rec = None /\ claims = None
                        /\ plug = None
      BY <1>6 DEF Emptied
    <3>2. plug = None => ~started
      BY DEF Inv, WorldInv
    <3>3. Emptied(c) => Empty'
      BY <1>3, <3>1, <3>2 DEF Empty
    <3>4. Empty' => Emptied(c)'
      BY <1>6 DEF Emptied, Empty
    <3>. QED
      BY <1>4, <1>5, <3>3, <3>4 DEF AnswerInv
  <2>4. /\ "odd" \notin Tasks(c)' /\ "invalidate" \notin Tasks(c)'
        /\ "plugin_unload" \notin Tasks(c)' /\ "release" \notin Tasks(c)'
    BY <1>6
  <2>. QED
    BY <1>1, <1>3, <1>4, <1>5, <1>6, <2>1, <2>2, <2>3, <2>4 DEF AnswerInv
<1>12. Here(c)'
  BY <1>1, <1>3, <1>4, <1>11, SettledHere
<1>13. QED
  BY <1>1, <1>3, <1>10, <1>12 DEF Inv

WorldCalls == {"plugin_unload", "invalidate", "release", "forget", "commit"}

LEMMA CallPlace ==
  ASSUME Inv, NEW c \in Consoles, Call(c), Head(todo[c]) \in WorldCalls
  PROVE  /\ Head(todo[c]) = "plugin_unload" => lease = c
         /\ "odd" \notin Tasks(c) /\ Head(todo[c]) \in Tasks(c)
         /\ Head(todo[c]) # "even" /\ Head(todo[c]) # "lease_give"
<1> DEFINE x == Head(todo[c])
<1>1. /\ Tasks(c) = {x} \cup Tasks(c)' /\ \A y \in Tasks(c)' : Before(x, y)
      /\ pc[c] \in {"fetch", "answer"}
  BY CallFacts
<1>2. x \in {"plugin_unload", "invalidate", "release", "forget", "commit"}
  BY DEF WorldCalls
<1> HIDE DEF x
<1>3. "odd" \notin Tasks(c)
  BY <1>1, <1>2 DEF Before
<1>4. x = "plugin_unload" => lease = c
  <2>1. AnswerInv(c) /\ Changing(c)
    BY DEF Inv, Here
  <2>2. pc[c] = "fetch" => lease = c
    BY <2>1 DEF Changing, FluxPlaces
  <2>. QED
    BY <1>1, <2>1, <2>2 DEF AnswerInv
<1>5. x \in Tasks(c) /\ x # "even" /\ x # "lease_give"
  BY <1>1, <1>2
<1>6. QED
  BY <1>3, <1>4, <1>5 DEF x

(* With the counter even the calls find nothing to do.                     *)
LEMMA CallIdleKeeps ==
  ASSUME Inv, NEW c \in Consoles, Call(c), Head(todo[c]) \in WorldCalls, ~odd
  PROVE  Inv'
<1> DEFINE x == Head(todo[c])
<1>1. /\ Tasks(c) = {x} \cup Tasks(c)' /\ Sound(todo'[c])
      /\ \A y \in Tasks(c)' : Before(x, y)
      /\ LocalSorts' /\ Elsewise(c) /\ pc' = pc /\ ask' = ask /\ old' = old
      /\ ans' = ans /\ tflm' = tflm /\ sess = c /\ pc[c] \in {"fetch", "answer"}
  BY CallFacts
<1>2. /\ x = "plugin_unload" => lease = c
      /\ "odd" \notin Tasks(c) /\ x \in Tasks(c) /\ x # "even" /\ x # "lease_give"
  BY CallPlace
<1>3. x \in {"plugin_unload", "invalidate", "release", "forget", "commit"}
  BY DEF WorldCalls
<1>4. pc[c] = "answer" /\ "even" \notin Tasks(c) /\ AnswerInv(c)
  <2>1. ~Flux(c)
    BY AtFlux
  <2>. QED
    BY <1>1, <1>2, <2>1 DEF Flux, FluxPlaces, Inv, Here
<1>5. Empty /\ x # "commit" /\ ~(~ans[c].busy /\ ans[c].state = "NEW")
  <2>1. CASE ans[c].busy \/ ans[c].state = "PREVIOUS"
    <3>1. Unmoved(c)
      BY <1>4, <2>1 DEF AnswerInv
    <3>. QED
      BY <1>2, <1>3, <2>1, <3>1 DEF Unmoved
  <2>2. CASE ~ans[c].busy /\ ans[c].state = "NEW"
    <3>1. Renewed(c)
      BY <1>4, <2>2 DEF AnswerInv
    <3>2. x \in {"commit", "invalidate", "plugin_unload"}
      BY <1>2, <1>3, <3>1 DEF Renewed
    <3>. QED
      BY <1>2, <1>4, <3>1, <3>2 DEF Renewed
  <2>3. CASE ~ans[c].busy /\ ans[c].state \notin {"PREVIOUS", "NEW"}
    <3>1. Emptied(c)
      BY <1>4, <2>3 DEF AnswerInv
    <3>. QED
      BY <1>2, <2>3, <3>1 DEF Emptied
  <2>. QED
    BY <2>1, <2>2, <2>3
<1>6. /\ UNCHANGED <<model, name, claims, plug, rec, buf, odd, fresh>>
      /\ UNCHANGED <<sess, scratch, blob, lease, inside>>
      /\ ~started /\ ~started' /\ Empty'
  <2>1. /\ plug' = IF x = "plugin_unload" THEN None ELSE plug
        /\ x = "plugin_unload" => started' = FALSE
        /\ x # "plugin_unload" => started' = started
        /\ rec' = IF x = "invalidate" THEN None ELSE rec
        /\ model' = IF x = "release" THEN None ELSE model
        /\ name' = IF x = "release" THEN None ELSE name
        /\ claims' = CASE x = "forget" -> None [] x = "commit" -> Held(ask[c]) [] OTHER -> claims
        /\ UNCHANGED <<buf, odd, fresh, sess, scratch, blob, lease, inside>>
    BY <1>2, <1>3, CallEffect
  <2>. HIDE DEF x
  <2>2. claims' = claims
    BY <1>3, <1>5, <2>1 DEF Empty
  <2>. QED
    BY <1>5, <2>1, <2>2 DEF Empty
<1>7. Sorts'
  BY <1>2, <1>3, CallSorts
<1> HIDE DEF x
<1>8. started' = started
  BY <1>6, <1>7 DEF Sorts, Inv
<1>9. OwnerInv'
  BY <1>1, <1>6 DEF Inv, OwnerInv, Streaming
<1>10. WorldInv'
  <2>1. plug = None /\ inside = None /\ model = None
    BY <1>5 DEF Empty, Inv, WorldInv
  <2>. QED
    BY <1>6, <2>1 DEF WorldInv
<1>11. \A y : y # x => (y \in Tasks(c)' <=> y \in Tasks(c))
  BY <1>1
<1>12. Flux(c)' <=> Flux(c)
  BY <1>1, <1>4 DEF Flux
<1>13. /\ What' = What /\ "odd" \notin Tasks(c)' /\ "even" \notin Tasks(c)'
       /\ "commit" \notin Tasks(c)
  <2>1. "commit" \notin Tasks(c)
    <3>1. CASE ans[c].busy \/ ans[c].state = "PREVIOUS"
      BY <1>2, <1>3, <1>4, <3>1 DEF AnswerInv, Unmoved
    <3>2. CASE ~(ans[c].busy \/ ans[c].state = "PREVIOUS")
      BY <1>4, <1>5, <3>2 DEF AnswerInv, Emptied
    <3>. QED
      BY <3>1, <3>2
  <2>2. What' = What
    BY <1>6, <1>8 DEF What
  <2>. QED
    BY <1>1, <1>2, <1>4, <2>1, <2>2
<1>14. AnswerInv(c)'
  <2>1. Unmoved(c) => Unmoved(c)'
    BY <1>1, <1>2, <1>3, <1>6, <1>13 DEF Unmoved
  <2>2. Emptied(c)'
    BY <1>1, <1>6, <1>13 DEF Emptied, Empty
  <2>3. "lease_give" \in Tasks(c)' <=> lease' = c
    BY <1>2, <1>4, <1>6, <1>11 DEF AnswerInv
  <2>4. "plugin_unload" \in Tasks(c)' => lease' = c
    BY <1>1, <1>4, <1>6 DEF AnswerInv
  <2>5. plug' = None /\ "odd" \notin Tasks(c)'
    BY <1>6, <1>13 DEF Empty
  <2>. QED
    BY <1>1, <1>4, <1>5, <2>1, <2>2, <2>3, <2>4, <2>5 DEF AnswerInv
<1>15. Here(c)'
  BY <1>1, <1>4, <1>6, <1>14, SettledHere
<1>16. QED
  BY <1>1, <1>6, <1>7, <1>8, <1>9, <1>10, <1>12, <1>15, Quiet

(* With the counter odd they take the old model down or put the new in.    *)
LEMMA CallWorld ==
  ASSUME Inv, NEW c \in Consoles, Call(c), Head(todo[c]) \in WorldCalls, odd
  PROVE  WorldInv' /\ Flux(c)
<1> DEFINE x == Head(todo[c])
<1>1. /\ Tasks(c) = {x} \cup Tasks(c)' /\ \A y \in Tasks(c)' : Before(x, y)
      /\ tflm' = tflm /\ sess = c /\ pc[c] \in {"fetch", "answer"} /\ pc' = pc
  BY CallFacts
<1>2. /\ x = "plugin_unload" => lease = c
      /\ "odd" \notin Tasks(c) /\ x \in Tasks(c)
  BY CallPlace
<1>3. x \in {"plugin_unload", "invalidate", "release", "forget", "commit"}
  BY DEF WorldCalls
<1>4. Flux(c)
  <2>1. PICK d \in Consoles : Flux(d)
    BY DEF Inv, OddInv
  <2>2. d = c
    BY <1>1, <2>1, AtFlux
  <2>. QED
    BY <2>1, <2>2
<1>5. AnswerInv(c) /\ Changing(c)
  BY DEF Inv, Here
<1>6. /\ plug' = IF x = "plugin_unload" THEN None ELSE plug
      /\ x = "plugin_unload" => started' = FALSE
      /\ x # "plugin_unload" => started' = started
      /\ model' = IF x = "release" THEN None ELSE model
      /\ rec' = IF x = "invalidate" THEN None ELSE rec
      /\ UNCHANGED <<buf, inside, lease>>
  BY <1>2, <1>3, CallEffect
<1> HIDE DEF x
<1>7. x = "release" => plug = None
  <2>1. x = "release" => "plugin_unload" \notin Tasks(c)
    BY <1>1 DEF Before
  <2>. QED
    BY <1>1, <1>2, <1>5, <2>1 DEF AnswerInv, Changing
<1>8. x \in {"plugin_unload", "invalidate", "release"} => inside = None
  <2>1. x \in {"plugin_unload", "invalidate", "release"} => lease = c \/ plug = None
    BY <1>1, <1>2, <1>5, <1>7 DEF AnswerInv, Changing, FluxPlaces
  <2>2. pc[c] # "thresh"
    BY <1>1
  <2>. QED
    BY <2>1, <2>2, NobodyInside
<1>9. WorldInv'
  <2>1. inside' # None => /\ plug' = inside' /\ started' /\ lease' # None
                          /\ lease' \in Consoles => pc'[lease'] = "thresh"
                          /\ lease' = "panel" => rec' = inside'
    <3>1. inside # None => /\ plug' = plug /\ started' = started /\ rec' = rec
                           /\ lease' = lease /\ inside' = inside
      BY <1>3, <1>6, <1>8
    <3>2. inside' = inside
      BY <1>6
    <3>. QED
      BY <1>1, <3>1, <3>2 DEF Inv, WorldInv
  <2>2. plug' # None => tflm' /\ model' = plug' /\ plug' \in Plugged
    BY <1>1, <1>6, <1>7 DEF Inv, WorldInv
  <2>3. started' => plug' # None
    BY <1>6 DEF Inv, WorldInv
  <2>4. model' # None => buf' = model'
    BY <1>6 DEF Inv, WorldInv
  <2>. QED
    BY <2>1, <2>2, <2>3, <2>4 DEF WorldInv
<1>10. QED
  BY <1>4, <1>9

LEMMA CallWorkKeeps ==
  ASSUME Inv, NEW c \in Consoles, Call(c), Head(todo[c]) \in WorldCalls, odd
  PROVE  Inv'
<1> DEFINE x == Head(todo[c])
<1>1. /\ Tasks(c) = {x} \cup Tasks(c)' /\ Sound(todo'[c])
      /\ \A y \in Tasks(c)' : Before(x, y)
      /\ LocalSorts' /\ Elsewise(c) /\ pc' = pc /\ ask' = ask /\ had' = had /\ old' = old
      /\ ans' = ans /\ tflm' = tflm /\ sess = c /\ pc[c] \in {"fetch", "answer"}
  BY CallFacts
<1>2. /\ x = "plugin_unload" => lease = c
      /\ "odd" \notin Tasks(c) /\ x \in Tasks(c) /\ x # "even" /\ x # "lease_give"
  BY CallPlace
<1>3. x \in {"plugin_unload", "invalidate", "release", "forget", "commit"}
  BY DEF WorldCalls
<1>4. WorldInv' /\ Flux(c)
  BY CallWorld
<1>5. Sorts'
  BY <1>2, <1>3, CallSorts
<1>6. /\ plug' = IF x = "plugin_unload" THEN None ELSE plug
      /\ x = "plugin_unload" => started' = FALSE
      /\ x # "plugin_unload" => started' = started
      /\ rec' = IF x = "invalidate" THEN None ELSE rec
      /\ model' = IF x = "release" THEN None ELSE model
      /\ name' = IF x = "release" THEN None ELSE name
      /\ claims' = CASE x = "forget" -> None [] x = "commit" -> Held(ask[c]) [] OTHER -> claims
      /\ UNCHANGED <<buf, odd, fresh, sess, scratch, blob, lease, inside>>
  BY <1>2, <1>3, CallEffect
<1> HIDE DEF x
<1>7. /\ \A y : y # x => (y \in Tasks(c)' <=> y \in Tasks(c))
      /\ "even" \in Tasks(c)' <=> "even" \in Tasks(c)
      /\ "lease_give" \in Tasks(c)' <=> "lease_give" \in Tasks(c)
      /\ "odd" \notin Tasks(c)'
  BY <1>1, <1>2
<1>8. Flux(c)'
  BY <1>1, <1>4, <1>7 DEF Flux
<1>9. /\ (model = None /\ name = None) \/ "release" \in Tasks(c)
         => (model' = None /\ name' = None) \/ "release" \in Tasks(c)'
      /\ rec = None \/ "invalidate" \in Tasks(c)
         => rec' = None \/ "invalidate" \in Tasks(c)'
      /\ x # "commit" /\ (claims = None \/ "forget" \in Tasks(c))
         => claims' = None \/ "forget" \in Tasks(c)'
      /\ plug = None \/ "plugin_unload" \in Tasks(c)
         => plug' = None \/ "plugin_unload" \in Tasks(c)'
  BY <1>3, <1>6, <1>7
<1>10. Here(c)'
  <2>1. CASE pc[c] = "fetch"
    <3>1. Changing(c)
      BY DEF Inv, Here
    <3>2. x # "commit" /\ Tasks(c)' \subseteq {"plugin_unload", "invalidate", "release", "forget"}
      BY <1>1, <2>1, <3>1 DEF Changing
    <3>3. Changing(c)'
      BY <1>1, <1>6, <1>9, <2>1, <3>1, <3>2 DEF Changing, FluxPlaces
    <3>4. Owns(c)'
      BY <1>1, <1>6, <2>1 DEF Owns, FluxPlaces
    <3>5. Undone(c)' /\ AnswerInv(c)' /\ InfoInv(c)'
      BY <1>1, <2>1 DEF Undone, AnswerInv, InfoInv
    <3>. QED
      BY <1>1, <3>3, <3>4, <3>5 DEF Here
  <2>2. CASE pc[c] = "answer"
    <3>1. AnswerInv(c) /\ "even" \in Tasks(c)
      BY <1>4, <2>2 DEF Inv, Here, Flux, FluxPlaces
    <3>2. ~(ans[c].busy \/ ans[c].state = "PREVIOUS")
      BY <1>2, <1>3, <2>2, <3>1 DEF AnswerInv, Unmoved
    <3>3. ans[c].state = "NEW" => Renewed(c)'
      <4>1. SUFFICES ASSUME ans[c].state = "NEW" PROVE Renewed(c)'
        OBVIOUS
      <4>2. Renewed(c)
        BY <2>2, <3>1, <3>2, <4>1 DEF AnswerInv
      <4>3. x # "release" /\ x # "forget"
        BY <1>2, <4>2 DEF Renewed
      <4>4. claims' = Held(ask[c]) \/ "commit" \in Tasks(c)'
        <5>1. claims = Held(ask[c]) \/ "commit" \in Tasks(c)
          BY <4>2 DEF Renewed
        <5>2. x = "commit" => claims' = Held(ask[c])
          BY <1>6
        <5>3. x # "commit" => claims' = claims
          BY <1>6, <4>3
        <5>. QED
          BY <1>7, <5>1, <5>2, <5>3
      <4>5. (started <=> plug # None)'
        BY <1>3, <1>6, <4>2 DEF Renewed
      <4>6. \/ "plugin_unload" \in Tasks(c)'
            \/ plug' = IF ans[c].ok /\ tflm /\ ask[c] \in Plugged THEN ask[c] ELSE None
        <5>1. CASE x = "plugin_unload"
          <6>1. ~(ans[c].ok /\ tflm /\ ask[c] \in Plugged) /\ plug' = None
            BY <1>2, <1>6, <4>2, <5>1 DEF Renewed
          <6>. QED
            BY <6>1
        <5>2. CASE x # "plugin_unload"
          BY <1>6, <1>7, <4>2, <5>2 DEF Renewed
        <5>. QED
          BY <5>1, <5>2
      <4>7. /\ Tasks(c)' \subseteq {"plugin_unload", "invalidate", "commit", "even", "lease_give"}
            /\ ask[c] \in Models /\ model' = ask[c] /\ name' = ask[c]
            /\ rec' = None \/ "invalidate" \in Tasks(c)'
            /\ "plugin_unload" \in Tasks(c)' => ~(ans[c].ok /\ tflm /\ ask[c] \in Plugged)
        BY <1>1, <1>6, <1>9, <4>2, <4>3 DEF Renewed
      <4>8. Held(ask[c])' = Held(ask[c])
        BY <1>1 DEF Held, Container
      <4>. QED
        BY <1>1, <1>7, <3>1, <4>4, <4>5, <4>6, <4>7, <4>8 DEF Renewed
    <3>4. ans[c].state # "NEW" => Emptied(c)'
      <4>1. SUFFICES ASSUME ans[c].state # "NEW" PROVE Emptied(c)'
        OBVIOUS
      <4>2. Emptied(c)
        BY <2>2, <3>1, <3>2, <4>1 DEF AnswerInv
      <4>3. odd' /\ "commit" \notin Tasks(c)' /\ x # "commit"
        BY <1>1, <1>2, <1>6, <4>2 DEF Emptied
      <4>. QED
        BY <1>7, <1>9, <4>2, <4>3 DEF Emptied
    <3>5. "invalidate" \in Tasks(c)' => plug' = None \/ lease' = c
      BY <1>1, <1>6, <2>2, <3>1 DEF AnswerInv
    <3>6. "release" \in Tasks(c)' => plug' = None \/ "plugin_unload" \in Tasks(c)'
      BY <1>1, <1>9, <2>2, <3>1 DEF AnswerInv
    <3>7. "plugin_unload" \in Tasks(c)' => lease' = c
      BY <1>1, <1>6, <2>2, <3>1 DEF AnswerInv
    <3>8. lease' = c <=> "lease_give" \in Tasks(c)'
      BY <1>6, <1>7, <2>2, <3>1 DEF AnswerInv
    <3>9. AnswerInv(c)'
      BY <1>1, <1>7, <3>2, <3>3, <3>4, <3>5, <3>6, <3>7, <3>8 DEF AnswerInv
    <3>. QED
      BY <1>1, <1>6, <2>2, <3>9, SettledHere
  <2>. QED
    BY <1>1, <2>1, <2>2
<1>11. QED
  BY <1>1, <1>4, <1>5, <1>6, <1>8, <1>10, InFlux

LEMMA CallKeeps ==
  ASSUME Inv, NEW c \in Consoles, Call(c)
  PROVE  Inv'
<1>1. Head(todo[c]) \in Names
  BY CallFacts
<1>2. CASE Head(todo[c]) \in WorldCalls
  <2>1. odd \in BOOLEAN
    BY DEF Inv, Sorts
  <2>. QED
    BY <1>2, <2>1, CallIdleKeeps, CallWorkKeeps
<1>3. CASE Head(todo[c]) \notin WorldCalls
  BY <1>1, <1>3, CallLeaseKeeps, CallOddKeeps, CallEvenKeeps DEF Names, WorldCalls
<1>4. QED
  BY <1>2, <1>3

-----------------------------------------------------------------------------
(* The invariant.                                                          *)

LEMMA InitHas == Init => Inv
<1> SUFFICES ASSUME Init PROVE Inv
  OBVIOUS
<1>1. Sorts
  BY DEF Init, Sorts, MaybeModel
<1>2. LocalSorts
  <2>1. NoAnswer \in Answers /\ NoCopy \in Copies /\ None \in MaybeModel /\ "out" \in Places
    BY DEF NoAnswer, Answers, States, NoCopy, Copies, MaybeModel, Places
  <2>2. <<>> \in Seq(Names)
    BY ScriptEmpty
  <2>. QED
    BY <2>1, <2>2 DEF Init, LocalSorts
<1>3. OwnerInv /\ WorldInv
  BY DEF Init, OwnerInv, WorldInv, None
<1>4. \A c \in Consoles : pc[c] = "out" /\ todo[c] = <<>> /\ Tasks(c) = {}
  BY ScriptEmpty DEF Init, Tasks
<1>5. OddInv
  <2>1. ~odd /\ Rest /\ \A c \in Consoles : ~fresh[c]
    BY HeldIs DEF Init, Rest
  <2>2. \A c \in Consoles : ~Flux(c)
    BY <1>4 DEF Flux, FluxPlaces
  <2>. QED
    BY <2>1, <2>2 DEF OddInv
<1>6. \A c \in Consoles : Here(c)
  <2> SUFFICES ASSUME NEW c \in Consoles PROVE Here(c)
    OBVIOUS
  <2>1. Sound(todo[c])
    BY <1>4, ScriptEmpty
  <2>2. Owns(c)
    BY <1>4, NamesDiffer DEF Owns, WorkPlaces, Init
  <2>3. Undone(c) /\ Changing(c) /\ AnswerInv(c) /\ InfoInv(c)
    BY <1>4 DEF Undone, Changing, AnswerInv, InfoInv, FluxPlaces
  <2>. QED
    BY <2>1, <2>2, <2>3 DEF Here
<1>7. QED
  BY <1>1, <1>2, <1>3, <1>5, <1>6 DEF Inv

LEMMA Stutters ==
  ASSUME Inv, UNCHANGED vars
  PROVE  Inv'
<1>1. UNCHANGED local /\ UNCHANGED <<tflm, model, name, buf, claims, plug, started, rec, recCur>>
      /\ UNCHANGED <<odd, fresh, sess, scratch, blob, lease, inside>>
  BY DEF vars, world, holds, seqVars
<1>2. Sorts' /\ OwnerInv'
  <2>1. Sorts'
    BY <1>1 DEF Inv, Sorts
  <2>2. OwnerInv'
    BY <1>1 DEF Inv, OwnerInv, Streaming
  <2>. QED
    BY <2>1, <2>2
<1>3. WorldInv'
  BY <1>1 DEF Inv, WorldInv, local
<1>4. QED
  BY <1>1, <1>2, <1>3, Aside

LEMMA StepKeeps == Inv /\ [Next]_vars => Inv'
<1> SUFFICES ASSUME Inv, [Next]_vars PROVE Inv'
  OBVIOUS
<1>1. ASSUME NEW c \in Consoles, LoadStep(c) PROVE Inv'
  BY <1>1, BeginKeeps, ClaimKeeps, PrepareKeeps, LeaseKeeps, FetchApartKeeps, FetchOverKeeps,
     SwapKeeps, SwapApartKeeps, NameKeeps, PluginStartKeeps, PluginEntryKeeps,
     UnloadLeaseKeeps, CallKeeps, AnswerKeeps DEF LoadStep
<1>2. ASSUME NEW c \in Consoles, InfoStep(c) PROVE Inv'
  BY <1>2, InfoStartKeeps, InfoSessionKeeps, InfoTensorsKeeps, InfoNameKeeps,
     InfoStandsKeeps, InfoLineKeeps, InfoCheckKeeps, InfoExtraKeeps, InfoDoneKeeps
     DEF InfoStep
<1>3. ASSUME NEW c \in Consoles,
             ThreshEnter(c) \/ ThreshLeave(c) \/ TestClaim(c) \/ TestEnds(c)
      PROVE  Inv'
  BY <1>3, ThreshEnterKeeps, ThreshLeaveKeeps, TestClaimKeeps, TestEndsKeeps
<1>4. CASE StreamStart \/ StreamStop \/ WorkerEnter \/ WorkerLeave
  BY <1>4, StreamStartKeeps, StreamStopKeeps, WorkerEnterKeeps, WorkerLeaveKeeps
<1>5. CASE PanelTry \/ PanelPaints \/ PanelLeave \/ Writer
  BY <1>5, PanelTryKeeps, PanelPaintsKeeps, PanelLeaveKeeps, WriterKeeps
<1>6. CASE UNCHANGED vars
  BY <1>6, Stutters
<1>7. QED
  BY <1>1, <1>2, <1>3, <1>4, <1>5, <1>6 DEF Next

(* What holds of the backend's model, the loader's plugin, the counter,    *)
(* the holders of the leases and the calls still to be made, together,     *)
(* after any steps of any consoles, the stream's thread, the panel's and   *)
(* the store's other users (nn_core_model.c, nn_svc_f746_model.c).         *)
THEOREM Invariant == Spec => []Inv
<1>1. Init => Inv
  BY InitHas
<1>2. Inv /\ [Next]_vars => Inv'
  BY StepKeeps
<1>3. QED
  BY <1>1, <1>2, PTL DEF Spec

(* Every variable keeps its sort: a model or none in the backend, its name *)
(* buffer, the claims, the loader and the record; one holder of each flag  *)
(* (nn_core_model.c, nn_svc_f746_model.c).                                 *)
THEOREM TypeCorrect == Spec => []TypeOK
<1>1. Inv => TypeOK
  BY DEF Inv, Sorts, TypeOK, MaybeModel
<1>2. QED
  BY <1>1, Invariant, PTL

(* What is executed is published and its entry has returned; what is       *)
(* published is the open model's; the bytes under an open model are that   *)
(* model's: whichever load, unload, stream or memory test runs beside      *)
(* (nn_core_model.c:151, 328-337; nn.c:369).                               *)
THEOREM WholeWhileUsed == Spec => []UsedIsWhole
<1>1. Inv => UsedIsWhole
  BY DEF Inv, WorldInv, UsedIsWhole
<1>2. QED
  BY <1>1, Invariant, PTL

(* One `nn info` prints one model's tensors, name, lines, claims and       *)
(* plugin, though it holds no session while it reads some of them          *)
(* (nn_svc_common.c:35-143, cmd_nn.c:250, plugin_claims.h:119).            *)
THEOREM ReportsOneModel == Spec => []InfoOfOneModel
<1>1. Inv => InfoOfOneModel
  BY DEF Inv, Here, InfoInv, InfoOfOneModel
<1>2. QED
  BY <1>1, Invariant, PTL

(* An answer is what the load or unload left: everything as it was at the  *)
(* claim, the new model and nothing of another, or nothing at all; the     *)
(* lease given back and the counter even (nn_swap.c, nn_core_model.c).     *)
THEOREM AnswersAreTrue == Spec => []AnswerTrue
<1>1. ASSUME Inv PROVE AnswerTrue
  <2> SUFFICES ASSUME NEW c \in Consoles, At(c, "answer")
               PROVE  /\ sess = c /\ lease # c /\ ~odd
                      /\ CASE ans[c].busy \/ ans[c].state = "PREVIOUS" -> What = old[c]
                           [] ans[c].state = "NEW" /\ ans[c].ok ->
                                Left(ask[c], IF tflm /\ ask[c] \in Plugged THEN ask[c] ELSE None)
                           [] ans[c].state = "NEW" /\ ~ans[c].ok -> Left(ask[c], None)
                           [] OTHER -> Left(None, None)
    BY DEF AnswerTrue
  <2>1. pc[c] = "answer" /\ Tasks(c) = {} /\ Here(c)
    BY <1>1, ScriptEmpty DEF At, Tasks, Inv
  <2>2. sess = c /\ lease # c
    BY <2>1 DEF Here, Owns, AnswerInv, WorkPlaces
  <2>3. ~odd /\ Rest
    BY <1>1, <2>1, <2>2, EvenUnless DEF Flux, FluxPlaces
  <2>4. ans[c].busy \/ ans[c].state = "PREVIOUS" => What = old[c]
    BY <2>1 DEF Here, AnswerInv, Unmoved
  <2>5. ~ans[c].busy /\ ans[c].state = "NEW" =>
          Left(ask[c], IF ans[c].ok /\ tflm /\ ask[c] \in Plugged THEN ask[c] ELSE None)
    <3> SUFFICES ASSUME ~ans[c].busy, ans[c].state = "NEW"
                 PROVE Left(ask[c], IF ans[c].ok /\ tflm /\ ask[c] \in Plugged
                                    THEN ask[c] ELSE None)
      OBVIOUS
    <3>1. Renewed(c)
      BY <2>1 DEF Here, AnswerInv
    <3>. QED
      BY <2>1, <3>1 DEF Renewed, Left
  <2>6. ~ans[c].busy /\ ans[c].state \notin {"PREVIOUS", "NEW"} => Left(None, None)
    <3> SUFFICES ASSUME ~ans[c].busy, ans[c].state \notin {"PREVIOUS", "NEW"}
                 PROVE  Left(None, None)
      OBVIOUS
    <3>1. Emptied(c)
      BY <2>1 DEF Here, AnswerInv
    <3>2. Empty
      BY <2>1, <2>3, <3>1 DEF Emptied
    <3>. QED
      BY <3>2, HeldIs DEF Left, Empty
  <2>7. (ans[c].state = "NEW" /\ ans[c].ok) /\ ~ans[c].busy =>
          Left(ask[c], IF tflm /\ ask[c] \in Plugged THEN ask[c] ELSE None)
    BY <2>5
  <2>8. (ans[c].state = "NEW" /\ ~ans[c].ok) /\ ~ans[c].busy => Left(ask[c], None)
    BY <2>5
  <2>9. ans[c].busy => ans[c].state = None
    BY <1>1 DEF Inv, LocalSorts, Answers
  <2>10. None # "NEW" /\ None # "PREVIOUS"
    BY DEF None
  <2>11. CASE ans[c].busy \/ ans[c].state = "PREVIOUS"
    BY <2>2, <2>3, <2>4, <2>9, <2>10, <2>11
  <2>12. CASE ~ans[c].busy /\ ans[c].state = "NEW" /\ ans[c].ok
    BY <2>2, <2>3, <2>7, <2>12
  <2>13. CASE ~ans[c].busy /\ ans[c].state = "NEW" /\ ~ans[c].ok
    BY <2>2, <2>3, <2>8, <2>13
  <2>14. CASE ~ans[c].busy /\ ans[c].state \notin {"PREVIOUS", "NEW"}
    BY <2>2, <2>3, <2>6, <2>14
  <2>. QED
    BY <2>11, <2>12, <2>13, <2>14
<1>2. QED
  BY <1>1, Invariant, PTL
=============================================================================
