------------------------------- MODULE NnModel -------------------------------
(***************************************************************************)
(* Replacing the model while it may be in use: `nn model load` and `unload` *)
(* in the order every board shares (svc/nn/nn_core_model.c, nn_swap.c) over *)
(* f746g-disco's claim, store and backends (port/nn/nn_svc_f746_model.c),   *)
(* beside all that reads the model meanwhile: `nn info`, which takes no     *)
(* session, `nn thresh`, the panel's drawing and a stream's decoding, which *)
(* enter the plugin under its lease, and `sdram test`, which overwrites the *)
(* model memory.                                                            *)
(*                                                                         *)
(* The transition counter is only compared with samples of it: `odd` is its *)
(* parity and `fresh` whether a sample is still its value.  A load's run of *)
(* unconditional calls is a script, done one call a step.                   *)
(***************************************************************************)
EXTENDS Naturals, Sequences

CONSTANTS
  Consoles,
  Models,    \* the blobs that can be loaded
  Bare,      \* those that are no container
  Plugged    \* the containers that carry a plugin

ASSUME ModelsAssumption == Bare \subseteq Models /\ Plugged \subseteq Models \ Bare

None   == "none"     \* no model, plugin or owner
Junk   == "junk"     \* bytes of no model
Busy   == "busy"     \* what `nn info` says of what it cannot tell

ASSUME NamesAssumption ==
  /\ Models \cap {None, Junk, Busy} = {}
  /\ Consoles \cap {None, "stream", "writer", "worker", "panel"} = {}

VARIABLES
  tflm,       \* the build's backend: tflm, or stedgeai_reloc with its two slots
  model, name,  \* the backend's model and descriptors, and its name buffer
  buf,        \* the bytes where the open model lies
  claims,     \* nn_claims
  plug, started,  \* the loader's published plugin, and that its entry returned
  rec, recCur,  \* the last result's model, and that this session published it
  odd,        \* nn_model_life.seq is odd
  fresh,      \* each console's last sample of it is its value
  sess,       \* the nn session: None, a console or "stream"
  scratch,    \* nn_scratch_claim's holder
  blob,       \* the blob flag's holder: None, a console or "writer"
  lease,      \* the plugin lease's holder: None, a console, "worker" or "panel"
  inside,     \* the plugin the holder is executing in
  pc, todo,   \* where each console is, and the calls it has still to make
  ask,        \* the model it loads
  had, old,   \* had_open, and what there was when it claimed
  ans,        \* the answer it is about to give
  copy        \* its `nn info` report

world   == <<model, name, buf, claims, plug, started, rec, recCur>>
holds   == <<sess, scratch, blob, lease, inside>>
seqVars == <<odd, fresh>>
local   == <<pc, todo, ask, had, old, ans, copy>>
vars    == <<tflm, world, seqVars, holds, local>>

NoAnswer == [state |-> None, ok |-> FALSE, busy |-> FALSE]
NoCopy   == [tens |-> None, name |-> None, held |-> FALSE, stands |-> FALSE,
             line |-> Busy, from |-> Busy, runs |-> None]

Streaming    == sess = "stream"
Container(m) == tflm /\ m \in Models \ Bare
Held(m)      == IF Container(m) THEN m ELSE None
What         == <<model, name, claims, plug, started, rec>>

Init ==
  /\ tflm \in BOOLEAN
  /\ model = None /\ name = None /\ buf = Junk /\ claims = None
  /\ plug = None /\ started = FALSE /\ rec = None /\ recCur = FALSE
  /\ odd = FALSE /\ fresh = [c \in Consoles |-> FALSE]
  /\ sess = None /\ scratch = None /\ blob = None /\ lease = None /\ inside = None
  /\ pc = [c \in Consoles |-> "out"] /\ todo = [c \in Consoles |-> <<>>]
  /\ ask = [c \in Consoles |-> None] /\ had = [c \in Consoles |-> FALSE]
  /\ old = [c \in Consoles |-> <<>>] /\ ans = [c \in Consoles |-> NoAnswer]
  /\ copy = [c \in Consoles |-> NoCopy]

At(c, p)    == pc[c] = p /\ todo[c] = <<>>
Goes(c, p)  == pc' = [pc EXCEPT ![c] = p]
Does(c, s)  == todo' = [todo EXCEPT ![c] = s]
Bump        == odd' = ~odd /\ fresh' = [d \in Consoles |-> FALSE]

-----------------------------------------------------------------------------
(* The calls of the scripts, in the order nn_core_model.c makes them.        *)

(* Step 9a of a load: unload's order, under the lease it keeps.              *)
TakeDown == <<"plugin_unload", "invalidate", "release", "forget">>

UnloadUnleased ==
  <<"odd", "lease_give", "plugin_unload", "invalidate", "release", "forget", "even">>

UnloadScript ==
  <<"odd", "plugin_unload", "invalidate", "lease_give", "release", "forget", "even">>

If(b, s) == IF b THEN s ELSE <<>>

(* nn_swap_decide: what a load that ended so still has to do.                *)
Verdict(hadOpen, end) ==
  CASE end \in {"REFUSED", "RESTORED"} /\ hadOpen ->
         [state |-> "PREVIOUS", ok |-> FALSE, down |-> FALSE, unload |-> FALSE]
    [] end = "UNDECODED" -> [state |-> "NEW", ok |-> FALSE, down |-> FALSE, unload |-> TRUE]
    [] end = "OPENED"    -> [state |-> "NEW", ok |-> TRUE, down |-> FALSE, unload |-> FALSE]
    [] OTHER             -> [state |-> "EMPTY", ok |-> FALSE, down |-> TRUE, unload |-> TRUE]

SettleScript(v, leased) ==
  If(v.unload /\ leased /\ tflm, <<"plugin_unload">>)
  \o If(v.down, <<"release">>)
  \o If(v.state # "PREVIOUS", <<"invalidate">>)
  \o If(v.down, <<"forget">>) \o If(v.state = "NEW", <<"commit">>)
  \o If(leased, <<"even">>) \o If(leased /\ tflm, <<"lease_give">>)

(* plugin_run_unload refuses a caller without the lease.                     *)
PluginUnload(c) ==
  /\ IF lease = c THEN plug' = None /\ started' = FALSE ELSE UNCHANGED <<plug, started>>
  /\ UNCHANGED <<model, name, buf, claims, rec, recCur, seqVars, holds>>

Invalidate ==
  /\ rec' = None /\ recCur' = FALSE
  /\ UNCHANGED <<model, name, buf, claims, plug, started, seqVars, holds>>

Release ==
  /\ model' = None /\ name' = None
  /\ UNCHANGED <<buf, claims, plug, started, rec, recCur, seqVars, holds>>

ClaimsSet(m) ==
  /\ claims' = m
  /\ UNCHANGED <<model, name, buf, plug, started, rec, recCur, seqVars, holds>>

LeaseGive ==
  /\ lease' = None
  /\ UNCHANGED <<world, seqVars, sess, scratch, blob, inside>>

Call(c) ==
  /\ todo[c] # <<>>
  /\ Does(c, Tail(todo[c]))
  /\ CASE Head(todo[c]) = "plugin_unload"  -> PluginUnload(c)
       [] Head(todo[c]) = "invalidate"     -> Invalidate
       [] Head(todo[c]) = "release"        -> Release
       [] Head(todo[c]) = "forget"         -> ClaimsSet(None)
       [] Head(todo[c]) = "commit"         -> ClaimsSet(Held(ask[c]))
       [] Head(todo[c]) = "lease_give"     -> LeaseGive
       [] Head(todo[c]) \in {"odd", "even"} -> Bump /\ UNCHANGED <<world, holds>>
  /\ UNCHANGED <<tflm, pc, ask, had, old, ans, copy>>

-----------------------------------------------------------------------------
(* nn model load, nn model unload.                                           *)

(* admit: a stream refuses both.  The claim is taken in another step.        *)
Begin(c) ==
  /\ At(c, "out") /\ ~Streaming
  /\ \/ \E m \in Models : ask' = [ask EXCEPT ![c] = m] /\ Goes(c, "load")
     \/ ask' = [ask EXCEPT ![c] = None] /\ Goes(c, "unload")
  /\ UNCHANGED <<tflm, world, seqVars, holds, todo, had, old, ans, copy>>

(* nn_session_try_acquire; a refusal answers BUSY and nothing else.          *)
SessionFree == sess = None /\ scratch = None

Claim(c) ==
  /\ pc[c] \in {"load", "unload"} /\ todo[c] = <<>>
  /\ \/ /\ SessionFree
        /\ sess' = c
        /\ old' = [old EXCEPT ![c] = What]
        /\ had' = [had EXCEPT ![c] = model # None]
        /\ Goes(c, IF pc[c] = "load" THEN "prepare" ELSE "unlease")
     \/ /\ ~SessionFree /\ Goes(c, "out") /\ UNCHANGED <<sess, old, had>>
  /\ UNCHANGED <<tflm, world, seqVars, scratch, blob, lease, inside, todo, ask, ans, copy>>

(* A refusal before anything moved: the claim is all there is to give back.  *)
Told(c, state, ok, busy) ==
  ans' = [ans EXCEPT ![c] = [state |-> state, ok |-> ok, busy |-> busy]]

AsItWas(c) == IF had[c] THEN "PREVIOUS" ELSE "EMPTY"

(* nn_life_prepare: the blob flag, then the name looked up under it.         *)
Prepare(c) ==
  /\ At(c, "prepare")
  /\ \/ blob = None /\ blob' = c /\ Goes(c, "ready") /\ UNCHANGED ans
     \/ blob = None /\ Goes(c, "answer") /\ Told(c, AsItWas(c), FALSE, FALSE) /\ UNCHANGED blob
     \/ blob # None /\ Goes(c, "answer") /\ Told(c, None, FALSE, TRUE) /\ UNCHANGED blob
  /\ UNCHANGED <<tflm, world, seqVars, sess, scratch, lease, inside, todo, ask, had, old, copy>>

Settles(c, end, leased, busy) ==
  LET v == Verdict(had'[c], end) IN
  /\ Goes(c, "answer") /\ Does(c, SettleScript(v, leased))
  /\ Told(c, IF busy THEN None ELSE v.state, v.ok, busy)

(* The lease of a build that has plugins; it may not come in time.           *)
TakesLease(c) == IF tflm THEN lease = None /\ lease' = c ELSE UNCHANGED lease
LeaseMissed   == tflm /\ lease # None /\ UNCHANGED lease

(* tflm stages where the open model lies, so that goes down before the fetch; *)
(* a backend that stages apart changes nothing until the fetch is over.      *)
Lease(c) ==
  /\ At(c, IF tflm THEN "ready" ELSE "fetched")
  /\ \/ /\ TakesLease(c) /\ Bump
        /\ had' = [had EXCEPT ![c] = had[c] /\ ~tflm]
        /\ Does(c, If(tflm /\ had[c], TakeDown))
        /\ Goes(c, IF tflm THEN "fetch" ELSE "swap")
        /\ UNCHANGED ans
     \/ /\ LeaseMissed
        /\ UNCHANGED <<seqVars, had>>
        /\ Settles(c, "REFUSED", FALSE, TRUE)
  /\ UNCHANGED <<tflm, world, sess, scratch, blob, inside, ask, old, copy>>

(* nn_life_fetch: the payload, the flag given back, the CRC and the split.   *)
(* (tflm's backend would refuse the buffer while a model is open; the write  *)
(* is left unguarded, to see that it is never asked for then.)               *)
Fetch(c) ==
  /\ At(c, IF tflm THEN "fetch" ELSE "ready")
  /\ blob' = None
  /\ UNCHANGED had
  /\ \/ /\ buf' = IF tflm THEN ask[c] ELSE buf
        /\ Goes(c, IF tflm THEN "swap" ELSE "fetched") /\ UNCHANGED <<todo, ans>>
     \/ /\ buf' = IF tflm THEN Junk ELSE buf
        /\ Settles(c, "REFUSED", tflm, FALSE)
  /\ UNCHANGED <<tflm, model, name, claims, plug, started, rec, recCur, seqVars,
                 sess, scratch, lease, inside, ask, old, copy>>

(* nn_model_reload: the descriptors, then the name.  Refused, tflm is empty;  *)
(* the backend with two slots keeps what it had.                             *)
Swap(c) ==
  /\ tflm /\ At(c, "swap")
  /\ \/ model' = ask[c] /\ Goes(c, "name") /\ UNCHANGED <<name, had, todo, ans>>
     \/ model' = None /\ name' = None /\ UNCHANGED had /\ Settles(c, "LOST", TRUE, FALSE)
  /\ UNCHANGED <<tflm, buf, claims, plug, started, rec, recCur, seqVars, holds,
                 ask, old, copy>>

SwapApart(c) ==
  /\ ~tflm /\ At(c, "swap")
  /\ \/ /\ model' = ask[c] /\ buf' = ask[c]
        /\ Goes(c, "name") /\ UNCHANGED <<had, todo, ans>>
     \/ /\ UNCHANGED <<model, buf, had>>
        /\ Settles(c, IF model # None THEN "RESTORED" ELSE "LOST", TRUE, FALSE)
  /\ UNCHANGED <<tflm, name, claims, plug, started, rec, recCur, seqVars, holds,
                 ask, old, copy>>

Name(c) ==
  /\ At(c, "name")
  /\ name' = ask[c]
  /\ UNCHANGED had
  /\ IF Container(ask[c]) THEN Goes(c, "plugin") /\ UNCHANGED <<todo, ans>>
     ELSE /\ Goes(c, "answer") /\ Told(c, "NEW", TRUE, FALSE)
          /\ Does(c, If(tflm, <<"plugin_unload">>)
                     \o SettleScript(Verdict(had[c], "OPENED"), TRUE))
  /\ UNCHANGED <<tflm, model, buf, claims, plug, started, rec, recCur, seqVars, holds,
                 ask, old, copy>>

(* plugin_exec_start: whatever was there is gone; a container may carry no   *)
(* plugin, and one that is carried may be refused before it is published.    *)
PluginStart(c) ==
  /\ At(c, "plugin")
  /\ started' = FALSE /\ UNCHANGED had
  /\ \/ ask[c] \notin Plugged /\ plug' = None /\ Settles(c, "OPENED", TRUE, FALSE)
     \/ ask[c] \in Plugged /\ plug' = None /\ Settles(c, "UNDECODED", TRUE, FALSE)
     \/ ask[c] \in Plugged /\ plug' = ask[c] /\ Goes(c, "entry") /\ UNCHANGED <<todo, ans>>
  /\ UNCHANGED <<tflm, model, name, buf, claims, rec, recCur, seqVars, holds, ask, old, copy>>

(* The plugin's entry(), on the console's stack.                             *)
EntryLeavesIt(c) ==
  /\ At(c, "entry") /\ UNCHANGED had
  /\ \/ started' = TRUE /\ UNCHANGED plug /\ Settles(c, "OPENED", TRUE, FALSE)
     \/ UNCHANGED <<plug, started>> /\ Settles(c, "OPENED", TRUE, FALSE)
  /\ UNCHANGED <<tflm, model, name, buf, claims, rec, recCur, seqVars, holds, ask, old, copy>>

PluginEntry(c) ==
  /\ At(c, "entry") /\ UNCHANGED had
  /\ \/ started' = TRUE /\ UNCHANGED plug /\ Settles(c, "OPENED", TRUE, FALSE)
     \/ plug' = None /\ UNCHANGED started /\ Settles(c, "UNDECODED", TRUE, FALSE)
  /\ UNCHANGED <<tflm, model, name, buf, claims, rec, recCur, seqVars, holds, ask, old, copy>>

UnloadLease(c) ==
  /\ At(c, "unlease")
  /\ Goes(c, "answer")
  /\ \/ TakesLease(c) /\ Does(c, If(~tflm, <<"odd", "invalidate", "release", "forget", "even">>)
                                 \o If(tflm, UnloadScript))
        /\ Told(c, "EMPTY", TRUE, FALSE)
     \/ LeaseMissed /\ UNCHANGED todo /\ Told(c, None, FALSE, TRUE)
  /\ UNCHANGED <<tflm, world, seqVars, sess, scratch, blob, inside, ask, had, old, copy>>

(* claim_give: the blob flag if a load still holds it, then the session.     *)
Answer(c) ==
  /\ At(c, "answer")
  /\ Goes(c, "out")
  /\ blob' = IF blob = c THEN None ELSE blob
  /\ sess' = None
  /\ ask' = [ask EXCEPT ![c] = None] /\ had' = [had EXCEPT ![c] = FALSE]
  /\ old' = [old EXCEPT ![c] = <<>>] /\ ans' = [ans EXCEPT ![c] = NoAnswer]
  /\ UNCHANGED <<tflm, world, seqVars, scratch, lease, inside, todo, copy>>

-----------------------------------------------------------------------------
(* nn info: a copy of the model's section, then lines read one at a time.    *)

(* The counter before anything else, then the session if it can be had.      *)
InfoStart(c) ==
  /\ At(c, "out")
  /\ fresh' = [fresh EXCEPT ![c] = ~odd]
  /\ Goes(c, "session")
  /\ UNCHANGED <<tflm, world, odd, holds, todo, ask, had, old, ans, copy>>

InfoSession(c) ==
  /\ At(c, "session")
  /\ sess' = IF SessionFree THEN c ELSE sess
  /\ copy' = [copy EXCEPT ![c].held = SessionFree]
  /\ Goes(c, "tens")
  /\ UNCHANGED <<tflm, world, seqVars, scratch, blob, lease, inside, todo, ask, had, old, ans>>

InfoTensors(c) ==
  /\ At(c, "tens")
  /\ copy' = [copy EXCEPT ![c].tens = model]
  /\ Goes(c, "named")
  /\ UNCHANGED <<tflm, world, seqVars, holds, todo, ask, had, old, ans>>

InfoName(c) ==
  /\ At(c, "named")
  /\ copy' = [copy EXCEPT ![c].name = name]
  /\ Goes(c, "stands")
  /\ UNCHANGED <<tflm, world, seqVars, holds, todo, ask, had, old, ans>>

(* nn_core_model_copy_stands, on the two reads and the session.              *)
CopyStandsIfEven(c) == copy[c].held \/ ~odd
CopyStands(c)       == copy[c].held \/ fresh[c]

(* The second read, and only then the session back.                          *)
InfoStands(c) ==
  /\ At(c, "stands")
  /\ copy' = [copy EXCEPT ![c].stands = CopyStands(c)]
  /\ fresh' = [fresh EXCEPT ![c] = CopyStands(c) /\ ~odd]
  /\ sess' = IF copy[c].held THEN None ELSE sess
  /\ Goes(c, IF CopyStands(c) THEN "line" ELSE "told")
  /\ UNCHANGED <<tflm, world, odd, scratch, blob, lease, inside, todo, ask, had, old, ans>>

(* A tensor line: read, then checked to be of the copy's model still.        *)
InfoLine(c) ==
  /\ At(c, "line")
  /\ copy' = [copy EXCEPT ![c].line = model]
  /\ Goes(c, "check")
  /\ UNCHANGED <<tflm, world, seqVars, holds, todo, ask, had, old, ans>>

InfoStill(c) == fresh[c]

InfoCheck(c) ==
  /\ At(c, "check")
  /\ copy' = [copy EXCEPT ![c].line = IF InfoStill(c) THEN @ ELSE Busy]
  /\ Goes(c, "extra")
  /\ UNCHANGED <<tflm, world, seqVars, holds, todo, ask, had, old, ans>>

(* The container's claims and the loader's state, in one masked section with *)
(* the counter.                                                              *)
InfoExtra(c) ==
  /\ At(c, "extra")
  /\ copy' = [copy EXCEPT ![c].from = IF fresh[c] THEN claims ELSE Busy,
                          ![c].runs = IF fresh[c] /\ started THEN plug ELSE None]
  /\ Goes(c, "told")
  /\ UNCHANGED <<tflm, world, seqVars, holds, todo, ask, had, old, ans>>

InfoDone(c) ==
  /\ At(c, "told")
  /\ copy' = [copy EXCEPT ![c] = NoCopy] /\ fresh' = [fresh EXCEPT ![c] = FALSE]
  /\ Goes(c, "out")
  /\ UNCHANGED <<tflm, world, odd, holds, todo, ask, had, old, ans>>

-----------------------------------------------------------------------------
(* Those that enter the plugin, each under its lease.                        *)

(* A slot is called only of a plugin whose entry returned.                   *)
Enters == inside' = IF started THEN plug ELSE None

(* nn thresh: no session.                                                    *)
ThreshEnter(c) ==
  /\ tflm /\ At(c, "out") /\ lease = None
  /\ lease' = c /\ Enters /\ Goes(c, "thresh")
  /\ UNCHANGED <<tflm, world, seqVars, sess, scratch, blob, todo, ask, had, old, ans, copy>>

ThreshLeave(c) ==
  /\ At(c, "thresh")
  /\ lease' = None /\ inside' = None /\ Goes(c, "out")
  /\ UNCHANGED <<tflm, world, seqVars, sess, scratch, blob, todo, ask, had, old, ans, copy>>

(* A stream has the session; it starts with no result of its own.            *)
StreamStart ==
  /\ SessionFree /\ model # None
  /\ sess' = "stream" /\ recCur' = FALSE
  /\ UNCHANGED <<tflm, model, name, buf, claims, plug, started, rec, seqVars,
                 scratch, blob, lease, inside, local>>

StreamStop ==
  /\ Streaming /\ lease # "worker"
  /\ sess' = None /\ recCur' = FALSE
  /\ UNCHANGED <<tflm, model, name, buf, claims, plug, started, rec, seqVars,
                 scratch, blob, lease, inside, local>>

(* nn_core_on_infer_done: the decode and its publish are one lease.          *)
WorkerEnter ==
  /\ tflm /\ Streaming /\ lease = None
  /\ lease' = "worker" /\ Enters
  /\ UNCHANGED <<tflm, world, seqVars, sess, scratch, blob, local>>

WorkerLeave ==
  /\ lease = "worker"
  /\ rec' = inside /\ recCur' = TRUE
  /\ lease' = None /\ inside' = None
  /\ UNCHANGED <<tflm, model, name, buf, claims, plug, started, seqVars,
                 sess, scratch, blob, local>>

(* nn_core_draw: a try, of a plugin it saw without the lease; then, holding  *)
(* it, may it draw, and is there a result of this session's plugin.          *)
PanelTry ==
  /\ tflm /\ lease = None
  /\ lease' = "panel"
  /\ UNCHANGED <<tflm, world, seqVars, sess, scratch, blob, inside, local>>

PanelPaints ==
  /\ lease = "panel" /\ inside = None
  /\ Streaming /\ recCur /\ rec # None
  /\ Enters
  /\ UNCHANGED <<tflm, world, seqVars, sess, scratch, blob, lease, local>>

PanelLeave ==
  /\ lease = "panel"
  /\ lease' = None /\ inside' = None
  /\ UNCHANGED <<tflm, world, seqVars, sess, scratch, blob, local>>

-----------------------------------------------------------------------------
(* sdram test: nn_scratch_claim, the patterns, nn_scratch_release.           *)
MayClaim == SessionFree /\ model = None

TestClaim(c) ==
  /\ At(c, "out") /\ MayClaim
  /\ scratch' = c /\ Goes(c, "test")
  /\ UNCHANGED <<tflm, world, seqVars, sess, blob, lease, inside, todo, ask, had, old, ans, copy>>

TestEnds(c) ==
  /\ At(c, "test")
  /\ buf' = Junk /\ scratch' = None /\ Goes(c, "out")
  /\ UNCHANGED <<tflm, model, name, claims, plug, started, rec, recCur, seqVars,
                 sess, blob, lease, inside, todo, ask, had, old, ans, copy>>

(* blob write, and whatever else holds the store's flag.                     *)
Writer ==
  /\ \/ blob = None /\ blob' = "writer"
     \/ blob = "writer" /\ blob' = None
  /\ UNCHANGED <<tflm, world, seqVars, sess, scratch, lease, inside, local>>

-----------------------------------------------------------------------------
LoadStep(c) ==
  \/ Begin(c) \/ Claim(c) \/ Prepare(c) \/ Lease(c) \/ Fetch(c) \/ Swap(c) \/ SwapApart(c)
  \/ Name(c) \/ PluginStart(c) \/ PluginEntry(c) \/ UnloadLease(c) \/ Call(c) \/ Answer(c)

InfoStep(c) ==
  \/ InfoStart(c) \/ InfoSession(c) \/ InfoTensors(c) \/ InfoName(c) \/ InfoStands(c)
  \/ InfoLine(c) \/ InfoCheck(c) \/ InfoExtra(c) \/ InfoDone(c)

Next ==
  \/ \E c \in Consoles :
       \/ LoadStep(c) \/ InfoStep(c)
       \/ ThreshEnter(c) \/ ThreshLeave(c) \/ TestClaim(c) \/ TestEnds(c)
  \/ StreamStart \/ StreamStop \/ WorkerEnter \/ WorkerLeave
  \/ PanelTry \/ PanelPaints \/ PanelLeave \/ Writer

Spec == Init /\ [][Next]_vars

-----------------------------------------------------------------------------
TypeOK ==
  /\ tflm \in BOOLEAN /\ odd \in BOOLEAN /\ started \in BOOLEAN /\ recCur \in BOOLEAN
  /\ {model, name, claims, plug, rec, inside} \subseteq Models \cup {None}
  /\ buf \in Models \cup {None, Junk}
  /\ sess \in Consoles \cup {None, "stream"} /\ scratch \in Consoles \cup {None}
  /\ blob \in Consoles \cup {None, "writer"}
  /\ lease \in Consoles \cup {None, "worker", "panel"}
  /\ fresh \in [Consoles -> BOOLEAN]

(* A published plugin is the open model's, and stays published while it is  *)
(* being executed, by whatever thread; what the panel shows was decoded by  *)
(* it; and the bytes under an open model are that model's.  A load, an      *)
(* unload, the one buffer and `sdram test` each could break it              *)
(* (nn_core_model.c:151, 328-337; nn.c:369).                                *)
UsedIsWhole ==
  /\ plug # None => model = plug
  /\ inside # None => plug = inside /\ started
  /\ inside # None /\ lease = "panel" => rec = inside
  /\ model # None => buf = model

(* What one `nn info` prints is of one model: the name beside the tensors,  *)
(* each later line, the container's claims, and the plugin said to run      *)
(* (nn_svc_common.c:35-143, cmd_nn.c:250, plugin_claims.h:119).             *)
InfoOfOneModel ==
  \A c \in Consoles : pc[c] = "told" /\ copy[c].stands =>
    /\ copy[c].name = copy[c].tens
    /\ copy[c].line \in {copy[c].tens, Busy}
    /\ copy[c].from \in {Held(copy[c].tens), Busy}
    /\ copy[c].runs \in {copy[c].tens, None}

(* A load or unload that answers has left what its answer says: refused as  *)
(* busy or with the previous model still open, everything that was there at *)
(* its claim; with the new model, that model, its claims and its decoder or *)
(* none, and no result of another; empty, nothing at all.  It holds no      *)
(* lease by then and the counter is even.                                   *)
Left(m, p) ==
  /\ model = m /\ name = m /\ claims = Held(m) /\ plug = p /\ rec = None
  /\ started <=> p # None

AnswerTrue ==
  \A c \in Consoles : At(c, "answer") =>
    /\ sess = c /\ lease # c /\ ~odd
    /\ CASE ans[c].busy \/ ans[c].state = "PREVIOUS" -> What = old[c]
         [] ans[c].state = "NEW" /\ ans[c].ok ->
              Left(ask[c], IF tflm /\ ask[c] \in Plugged THEN ask[c] ELSE None)
         [] ans[c].state = "NEW" /\ ~ans[c].ok -> Left(ask[c], None)
         [] OTHER -> Left(None, None)
=============================================================================
