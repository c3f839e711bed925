------------------------------ MODULE NnSession ------------------------------
(***************************************************************************)
(* Live inference on f746g-disco: consoles that start and stop it           *)
(* (port/nn/nn_camera.c), the camera producer that writes frames into the   *)
(* model's input (nn_producer.c), the worker that runs the model and        *)
(* publishes (nn_worker.c), and the camera that comes and goes beneath them *)
(* (port/camera/cam_sink.c).                                                *)
(*                                                                         *)
(* A generation, an epoch or a run number is only ever compared with a      *)
(* sample of it, so what is kept is whether each sample is still the        *)
(* current one.  What a lock or a masked section covers is one step.  The   *)
(* semaphore is a wake-up and not a job (nn_worker.c:242): the worker looks  *)
(* at the word whether it was posted or not.                                *)
(***************************************************************************)
EXTENDS Naturals, NnHandoff, CamOwn

CONSTANT Consoles

VARIABLES
  attached,   \* cs_attached: the base has the camera sink
  joined,     \* nn is among the camera's holders
  lost,       \* and was when a stream ended for good
  want, armed,  \* the nn step of the sink
  word,       \* nncam_frame.word
  own,        \* nncam_own
  run, active, holds, drained, oneshot,   \* nncam_*
  sess,       \* who has the nn session: "free", "nn" or "other"
  plugin,     \* the model in force has a plugin
  shotOpen,   \* nn_shot: this run has not ended
  reportable, \* nncam_rec.reportable
  job,        \* nncam_job_gen is still the record's generation
  prod,       \* where the producer is in the nn step; "out" of it
  epochOk,    \* its epoch0 is still nncam_epoch
  pRun,       \* nncam_p_run: "none", "cur" or "old"
  wpc,        \* where the worker is
  wGen,       \* its copy of nncam_job_gen is still the record's
  wRun,       \* nncam_w_run
  wMore,      \* its `more`, or the answer of nn_shot_record
  took,       \* the record took its publish
  cpc,        \* where each console is
  pinned, parked,   \* what the stop under way found out
  described,  \* history: the plugin's result is the one the record counts
  pNew, jNew, wNew  \* history: the frame came in after the last boundary

baseVars == <<attached, joined, lost>>
stepVars == <<want, armed>>
runVars  == <<run, active, holds, drained, oneshot>>
recVars  == <<reportable, described>>
prodVars == <<prod, epochOk, pRun, job>>
workVars == <<wpc, wGen, wRun, wMore, took>>
consVars == <<cpc, pinned, parked>>
samples  == <<epochOk, job, wGen, wRun, pRun>>
histVars == <<pNew, jNew, wNew>>
vars == <<baseVars, stepVars, word, own, runVars, sess, plugin, shotOpen,
          recVars, prodVars, workVars, consVars, histVars>>

Busy == prod # "out"        \* the step's count: there is one producer

Runs == {"none", "cur", "old"}

(* nn_shot_open.                                                            *)
ShotNow == IF shotOpen THEN "cur" ELSE "none"

Init ==
  /\ attached \in BOOLEAN /\ joined = FALSE /\ lost = FALSE
  /\ want = FALSE /\ armed = FALSE
  /\ word = "IDLE" /\ own = "IDLE"
  /\ run = FALSE /\ active = FALSE /\ holds = FALSE
  /\ drained = FALSE /\ oneshot = FALSE
  /\ sess = "free" /\ plugin \in BOOLEAN
  /\ shotOpen = FALSE
  /\ reportable = FALSE /\ described = FALSE
  /\ job = FALSE
  /\ prod = "out" /\ epochOk = FALSE /\ pRun = "none"
  /\ wpc = "parked" /\ wGen = FALSE /\ wRun = "none" /\ wMore = FALSE
  /\ took = FALSE
  /\ cpc = [c \in Consoles |-> "out"] /\ pinned = FALSE /\ parked = FALSE
  /\ pNew = FALSE /\ jNew = FALSE /\ wNew = FALSE

-----------------------------------------------------------------------------
(* nn_det_record_boundary: every sampled generation is now an old one.      *)
Boundary ==
  /\ job' = FALSE /\ wGen' = FALSE
  /\ pNew' = FALSE /\ jNew' = FALSE /\ wNew' = FALSE
  /\ UNCHANGED recVars

(* nncam_open, then the arm: under cs_lock and out of the producer's way.   *)
StepOpens ==
  /\ ~armed /\ ~Busy /\ ~lost
  /\ armed' = TRUE
  /\ epochOk' = FALSE /\ Boundary

StepStaysShut == UNCHANGED <<armed, epochOk, job, wGen, recVars, histVars>>

(* step_close_locked: the disarm, and the close() it owes.                  *)
StepCloses ==
  \/ armed /\ armed' = FALSE /\ epochOk' = FALSE /\ Boundary
  \/ ~armed /\ StepStaysShut

(* The camera.  Its producer thread is the one that detaches a stream, and  *)
(* none runs while one is attached.                                         *)
Attach ==
  /\ ~attached /\ prod = "out"
  /\ attached' = TRUE
  /\ \/ want /\ StepOpens
     \/ ~(want /\ ~armed /\ ~Busy /\ ~lost) /\ StepStaysShut
  /\ UNCHANGED <<joined, lost, want, word, own, runVars, sess, plugin, shotOpen,
                 prod, pRun, wpc, wRun, wMore, took, consVars>>

Detach ==
  /\ attached /\ prod = "out"
  /\ attached' = FALSE
  /\ StepCloses
  /\ \/ UNCHANGED <<joined, lost>>
     \/ joined' = FALSE /\ lost' = (lost \/ joined)    \* a confirmed end
  /\ UNCHANGED <<want, word, own, runVars, sess, plugin, shotOpen, prod, pRun,
                 wpc, wRun, wMore, took, consVars>>

(* A bench, or a model load or unload, which changes what is in force.      *)
OtherTakes ==
  /\ sess = "free"
  /\ sess' = "other"
  /\ UNCHANGED <<baseVars, stepVars, word, own, runVars, plugin, shotOpen,
                 recVars, prodVars, workVars, consVars, histVars>>

OtherGives ==
  /\ sess = "other"
  /\ sess' = "free"
  /\ \/ UNCHANGED <<plugin, job, wGen, recVars>>
     \/ /\ plugin' \in BOOLEAN
        /\ job' = FALSE /\ wGen' = FALSE
        /\ reportable' = FALSE /\ described' = FALSE
  /\ UNCHANGED <<baseVars, stepVars, word, own, runVars, shotOpen, prod, epochOk,
                 pRun, wpc, wRun, wMore, took, consVars, histVars>>

-----------------------------------------------------------------------------
(* The producer, inside the camera sink's consume().                        *)

ProducerStays == UNCHANGED <<baseVars, stepVars, own, runVars, sess, plugin,
                             recVars, workVars, consVars>>

(* consume() returns: what it kept for this frame is not read again.        *)
Out == prod' = "out" /\ epochOk' = FALSE /\ pRun' = "none" /\ pNew' = FALSE
Stays(p) == prod' = p /\ UNCHANGED <<epochOk, pRun, pNew>>

Enter ==
  /\ prod = "out" /\ attached /\ armed
  /\ prod' = "in" /\ pNew' = TRUE
  /\ UNCHANGED <<epochOk, pRun, job, word, shotOpen, jNew, wNew>>
  /\ ProducerStays

(* nncam_consume: a one-shot takes frames only while its run is open.       *)
AskUnchecked == oneshot
AskOpen == oneshot /\ shotOpen

Ask ==
  /\ prod = "in"
  /\ \/ ~run /\ Out
     \/ run /\ ~oneshot /\ Stays("begin")
     \/ run /\ AskOpen /\ prod' = "begin" /\ pRun' = ShotNow
                      /\ UNCHANGED <<epochOk, pNew>>
     \/ run /\ oneshot /\ ~AskOpen /\ Out
  /\ UNCHANGED <<job, word, shotOpen, jNew, wNew>>
  /\ ProducerStays

(* nn_core_on_frame: a fill begins if the worker wants one.                 *)
BeginFill ==
  /\ prod = "begin"
  /\ word' = Stepped(word, "BEGIN")
  /\ IF word' = "FILLING" THEN Stays("sample") ELSE Out
  /\ UNCHANGED <<job, shotOpen, jNew, wNew>>
  /\ ProducerStays

(* nncam_prep: the samples, the write, and the same questions again.        *)
Sample ==
  /\ prod = "sample"
  /\ prod' = "write"
  /\ epochOk' = TRUE /\ job' = TRUE
  /\ UNCHANGED <<pRun, word, shotOpen, histVars>>
  /\ ProducerStays

(* nn_shot_record, for a run number and a reason that is a failure.         *)
Fails(number, gen) == shotOpen' = (shotOpen /\ ~(number = "cur" /\ gen))

Prepared ==
  /\ prod = "write"
  /\ LET stale == ~epochOk \/ ~run
     IN \/ ~stale /\ prod' = "hand" /\ UNCHANGED shotOpen
        \/ stale /\ prod' = "abandon" /\ UNCHANGED shotOpen
        \/ /\ ~stale                       \* the tensor was refused
           /\ prod' = "abandon"
           /\ IF oneshot THEN Fails(pRun, job) ELSE UNCHANGED shotOpen
  /\ UNCHANGED <<epochOk, pRun, job, word, histVars>>
  /\ ProducerStays

Hand ==
  /\ prod \in {"hand", "abandon"}
  /\ word' = Stepped(word, IF prod = "hand" THEN "HAND" ELSE "ABANDON")
  /\ jNew' = IF prod = "hand" THEN pNew ELSE jNew
  /\ Out
  /\ UNCHANGED <<job, shotOpen, wNew>>
  /\ ProducerStays

Producer == Enter \/ Ask \/ BeginFill \/ Sample \/ Prepared \/ Hand

-----------------------------------------------------------------------------
(* The worker.                                                              *)

WorkerStays == UNCHANGED <<baseVars, stepVars, run, drained, oneshot, plugin,
                           prodVars, consVars, pNew, jNew>>
JobStays == UNCHANGED <<own, active, holds, sess>>
Serves == UNCHANGED <<wGen, wNew, wRun, wMore, took>>

(* nncam_step returns: what it kept for this job is not read again.         *)
Over == /\ wpc' = "loop" /\ wGen' = FALSE /\ wNew' = FALSE
        /\ wMore' = FALSE /\ took' = FALSE

(* The flag that ends the park is not asked again before the worker says it *)
(* is active.                                                               *)
Wake ==
  /\ \/ wpc = "parked" /\ run /\ wpc' = "woken" /\ UNCHANGED active
     \/ wpc = "woken" /\ active' = TRUE /\ wpc' = "sample"
  /\ Serves /\ UNCHANGED <<own, holds, sess, word, shotOpen, recVars>>
  /\ WorkerStays

SampleRun ==
  /\ wpc = "sample"
  /\ wRun' = IF oneshot THEN ShotNow ELSE wRun
  /\ wpc' = "arm"
  /\ UNCHANGED <<wGen, wNew, wMore, took, word, shotOpen, recVars>>
  /\ JobStays /\ WorkerStays

Arm ==
  /\ wpc = "arm"
  /\ word' = IF ~oneshot \/ wRun # "none" THEN Stepped(word, "ARM") ELSE word
  /\ wpc' = "loop"
  /\ Serves /\ UNCHANGED <<shotOpen, recVars>>
  /\ JobStays /\ WorkerStays

Look ==
  /\ wpc = "loop" /\ run
  /\ wpc' = "look"
  /\ Serves /\ UNCHANGED <<word, shotOpen, recVars>>
  /\ JobStays /\ WorkerStays

TakenAtTake == TRUE
TakenGen == job

Take ==
  /\ wpc = "look"
  /\ word' = Stepped(word, "TAKE")
  /\ \/ Moves(word, "TAKE") /\ wpc' = "infer" /\ wGen' = TakenGen /\ wNew' = jNew
                                      /\ UNCHANGED <<wMore, took>>
     \/ ~Moves(word, "TAKE") /\ Over
  /\ UNCHANGED <<wRun, shotOpen, recVars>>
  /\ JobStays /\ WorkerStays

(* nn_run, and the lease if there is a plugin to ask: both may fail.        *)
Infer ==
  /\ wpc = "infer"
  /\ \/ wpc' = IF plugin THEN "admit" ELSE "publish"
     \/ wpc' = "failed"
  /\ wMore' = (~oneshot /\ run)
  /\ UNCHANGED <<wGen, wNew, wRun, took, word, shotOpen, recVars>>
  /\ JobStays /\ WorkerStays

(* nn_core_on_infer_done: the generation before the decode, under the lease.*)
Admit ==
  /\ wpc = "admit"
  /\ wpc' = IF wGen THEN "decode" ELSE "done"
  /\ took' = FALSE
  /\ UNCHANGED <<wGen, wNew, wRun, wMore, word, shotOpen, recVars>>
  /\ JobStays /\ WorkerStays

Decode ==
  /\ wpc = "decode"
  /\ wpc' = "publish"
  /\ described' = FALSE
  /\ Serves /\ UNCHANGED <<word, shotOpen, reportable>>
  /\ JobStays /\ WorkerStays

(* A decode that was run and then refused: what the record says of the      *)
(* plugin is withheld, since the plugin now describes something else.       *)
ReportStays == reportable
ReportRefused == FALSE

Publish ==
  /\ wpc = "publish"
  /\ wpc' = "done"
  /\ took' = wGen
  /\ reportable' = IF wGen THEN plugin
                   ELSE IF plugin THEN ReportRefused ELSE reportable
  /\ described' = (plugin /\ wGen)
  /\ UNCHANGED <<wGen, wNew, wRun, wMore, word, shotOpen>>
  /\ JobStays /\ WorkerStays

Done ==
  /\ wpc = "done"
  /\ word' = Stepped(word, IF wMore THEN "DONE" ELSE "DONE_LAST")
  /\ IF oneshot THEN wpc' = "record" /\ UNCHANGED <<wGen, wNew, wMore, took>>
                ELSE Over
  /\ UNCHANGED <<wRun, shotOpen, recVars>>
  /\ JobStays /\ WorkerStays

(* nn_shot_after_job: a publish that was taken ends the run; a frame that a *)
(* boundary overtook does not.                                              *)
Record ==
  /\ wpc = "record"
  /\ shotOpen' = (shotOpen /\ ~(wRun = "cur" /\ took))
  /\ wMore' = (shotOpen' /\ wRun = "cur")
  /\ wpc' = "rearm"
  /\ UNCHANGED <<wGen, wNew, wRun, took, word, recVars>>
  /\ JobStays /\ WorkerStays

(* nncam_job_failed.                                                        *)
JobFails ==
  /\ wpc = "failed"
  /\ IF oneshot
     THEN /\ Fails(wRun, wGen)
          /\ wMore' = (shotOpen' /\ wRun = "cur")
          /\ wpc' = "failDone"
          /\ UNCHANGED <<wGen, wNew, took, word>>
     ELSE /\ word' = Stepped(word, IF run THEN "DONE" ELSE "DONE_LAST")
          /\ Over
          /\ UNCHANGED shotOpen
  /\ UNCHANGED <<wRun, recVars>>
  /\ JobStays /\ WorkerStays

FailDone ==
  /\ wpc = "failDone"
  /\ word' = Stepped(word, "DONE_LAST")
  /\ wpc' = "rearm"
  /\ Serves /\ UNCHANGED <<shotOpen, recVars>>
  /\ JobStays /\ WorkerStays

RearmNever == FALSE
Rearms == wMore /\ run

Rearm ==
  /\ \/ /\ wpc = "rearm" /\ Rearms /\ wpc' = "rearming"
        /\ UNCHANGED <<wGen, wNew, wMore, took, word>>
     \/ wpc = "rearm" /\ ~Rearms /\ Over /\ UNCHANGED word
     \/ wpc = "rearming" /\ word' = Stepped(word, "ARM") /\ Over
  /\ UNCHANGED <<wRun, shotOpen, recVars>>
  /\ JobStays /\ WorkerStays

(* nncam_release_session: the question and the clearing are one hold.       *)
MayReleaseUndrained(out) == holds /\ out
MayRelease(out) == holds /\ drained /\ out

Release(out) ==
  IF MayRelease(out) THEN holds' = FALSE /\ sess' = "free"
                     ELSE UNCHANGED <<holds, sess>>

Leave ==
  /\ wpc = "loop" /\ ~run
  /\ wpc' = "leaving"
  /\ Release(TRUE)
  /\ Serves /\ UNCHANGED <<own, active, word, shotOpen, recVars>>
  /\ WorkerStays

Park ==
  /\ \/ wpc = "leaving" /\ active' = FALSE /\ wpc' = "settling" /\ UNCHANGED own
     \/ wpc = "settling" /\ own' = SettledFrom(own) /\ wpc' = "parked"
                         /\ UNCHANGED active
  /\ Serves /\ UNCHANGED <<holds, sess, word, shotOpen, recVars>>
  /\ WorkerStays

Worker ==
  \/ Wake \/ SampleRun \/ Arm \/ Look \/ Take \/ Infer \/ Admit \/ Decode
  \/ Publish
  \/ Done \/ Record \/ JobFails \/ FailDone \/ Rearm \/ Leave \/ Park

-----------------------------------------------------------------------------
(* nn_camera_start.                                                         *)

Goes(c, p) == cpc' = [cpc EXCEPT ![c] = p]
ConsoleStays == UNCHANGED <<attached, plugin, active, prod, wpc, wMore, took>>

StartClaims(c) ==
  /\ cpc[c] = "out" /\ StartGoes(own)
  /\ own' = "STARTING"
  /\ Goes(c, "claimed")
  /\ UNCHANGED <<joined, lost, stepVars, word, run, holds, drained, oneshot, sess,
                 shotOpen, recVars, samples, pinned, parked,
                 histVars>>
  /\ ConsoleStays

(* Still tearing down, or the session taken; or it is nn's.                 *)
StartTakes(c) ==
  /\ cpc[c] = "claimed"
  /\ \/ /\ run \/ active \/ holds \/ sess # "free"
        /\ own' = StartDone(own, FALSE) /\ Goes(c, "out")
        /\ UNCHANGED sess
     \/ /\ ~run /\ ~active /\ ~holds /\ sess = "free"
        /\ sess' = "nn"
        /\ Goes(c, "model") /\ UNCHANGED own
  /\ UNCHANGED <<joined, lost, stepVars, word, run, holds, drained, oneshot,
                 shotOpen, recVars, samples, pinned, parked,
                 histVars>>
  /\ ConsoleStays

(* The model, its input and its plugin may be refused; if not, the hold and *)
(* a boundary of its own.                                                   *)
StartAdmits(c) ==
  /\ cpc[c] = "model"
  /\ \/ /\ sess' = "free" /\ own' = StartDone(own, FALSE) /\ Goes(c, "out")
        /\ UNCHANGED <<holds, job, wGen, recVars, histVars>>
     \/ /\ holds' = TRUE /\ Boundary /\ Goes(c, "park")
        /\ UNCHANGED <<sess, own>>
  /\ UNCHANGED <<joined, lost, stepVars, word, run, drained, oneshot, shotOpen,
                 epochOk, wRun, pRun, pinned, parked>>
  /\ ConsoleStays

(* The word is parked, nothing is drained yet, and a new run has begun.     *)
StartParks(c) ==
  /\ cpc[c] = "park"
  /\ word' = Stepped(IF word = "HANDED" THEN "IDLE" ELSE word, "JOIN")
  /\ drained' = FALSE
  /\ shotOpen' = TRUE
  /\ wRun' = IF wRun = "cur" THEN "old" ELSE wRun
  /\ pRun' = IF pRun = "cur" THEN "old" ELSE pRun
  /\ Goes(c, "join")
  /\ UNCHANGED <<joined, lost, stepVars, own, run, holds, oneshot, sess, recVars,
                 epochOk, job, wGen, pinned, parked, histVars>>
  /\ ConsoleStays

StartJoins(c) ==
  /\ cpc[c] = "join"
  /\ \/ /\ joined' = TRUE /\ lost' = FALSE
        /\ run' = TRUE /\ oneshot' \in BOOLEAN
        /\ Goes(c, "enable")
        /\ UNCHANGED <<holds, sess, own>>
     \/ /\ holds' = FALSE /\ sess' = "free"
        /\ own' = StartDone(own, FALSE) /\ Goes(c, "out")
        /\ UNCHANGED <<joined, lost, run, oneshot>>
  /\ UNCHANGED <<stepVars, word, drained, shotOpen, recVars, samples, pinned, parked, histVars>>
  /\ ConsoleStays

(* camera_sink_step_enable.                                                 *)
StartEnables(c) ==
  /\ cpc[c] = "enable"
  /\ \/ /\ ~want /\ ~armed /\ ~Busy
        /\ IF attached THEN StepOpens ELSE StepStaysShut
        /\ want' = TRUE
        /\ own' = StartDone(own, TRUE) /\ Goes(c, "out")
        /\ UNCHANGED run
     \/ /\ want \/ armed \/ Busy \/ (attached /\ lost)
        /\ run' = FALSE /\ Goes(c, "undo")
        /\ StepStaysShut
        /\ UNCHANGED <<want, own>>
  /\ UNCHANGED <<joined, lost, word, holds, drained, oneshot, sess, shotOpen,
                 wRun, pRun, pinned, parked>>
  /\ ConsoleStays

StartUndoes(c) ==
  /\ cpc[c] = "undo"
  /\ joined' = FALSE
  /\ holds' = FALSE /\ sess' = "free"
  /\ own' = StartDone(own, FALSE) /\ Goes(c, "out")
  /\ UNCHANGED <<lost, stepVars, word, run, drained, oneshot, shotOpen, recVars,
                 samples, pinned, parked, histVars>>
  /\ ConsoleStays

(* nn_camera_stop.                                                          *)
StopTakes(c) ==
  /\ cpc[c] = "out" /\ StopGoes(own)
  /\ own' = "DRAINING"
  /\ Goes(c, "lower")
  /\ UNCHANGED <<joined, lost, stepVars, word, run, holds, drained, oneshot, sess,
                 shotOpen, recVars, samples, pinned, parked,
                 histVars>>
  /\ ConsoleStays

StopLowers(c) ==
  /\ \/ cpc[c] = "lower" /\ run' = FALSE /\ Goes(c, "bound")
        /\ UNCHANGED <<job, wGen, recVars, histVars>>
     \/ cpc[c] = "bound" /\ Boundary /\ Goes(c, "disable") /\ UNCHANGED run
  /\ UNCHANGED <<joined, lost, stepVars, word, own, holds, drained, oneshot, sess,
                 shotOpen, epochOk, wRun, pRun, pinned, parked>>
  /\ ConsoleStays

StopDisables(c) ==
  /\ cpc[c] = "disable"
  /\ want' = FALSE
  /\ StepCloses
  /\ joined' = FALSE
  /\ Goes(c, "drain")
  /\ UNCHANGED <<lost, word, own, run, holds, drained, oneshot, sess, shotOpen,
                 wRun, pRun, pinned, parked>>
  /\ ConsoleStays

(* The producer is out, and the word is joined; or the wait ran out.        *)
DrainSays == ~Busy

StopDrains(c) ==
  /\ cpc[c] = "drain"
  /\ pinned' = ~DrainSays
  /\ \/ DrainSays /\ Goes(c, "drained") /\ word' = Stepped(word, "JOIN")
     \/ ~DrainSays /\ Goes(c, "settle") /\ UNCHANGED word
  /\ UNCHANGED <<joined, lost, stepVars, own, run, holds, drained, oneshot, sess,
                 shotOpen, recVars, samples, parked, histVars>>
  /\ ConsoleStays

StopMarks(c) ==
  /\ cpc[c] = "drained"
  /\ drained' = TRUE
  /\ Goes(c, "settle")
  /\ UNCHANGED <<joined, lost, stepVars, word, own, run, holds, oneshot, sess,
                 shotOpen, recVars, samples, pinned, parked,
                 histVars>>
  /\ ConsoleStays

(* The worker parked, or the wait for it ran out.                           *)
StopSettles(c) ==
  /\ cpc[c] = "settle"
  /\ parked' = ~active
  /\ Goes(c, "release")
  /\ UNCHANGED <<joined, lost, stepVars, word, own, run, holds, drained, oneshot,
                 sess, shotOpen, recVars, samples, pinned,
                 histVars>>
  /\ ConsoleStays

StopReleases(c) ==
  /\ cpc[c] = "release"
  /\ Release(parked)
  /\ Goes(c, "commit")
  /\ UNCHANGED <<joined, lost, stepVars, word, own, run, drained, oneshot,
                 shotOpen, recVars, samples, pinned, parked,
                 histVars>>
  /\ ConsoleStays

(* The worker may have parked while the lifecycle still said DRAINING.      *)
RecheckNever == FALSE
RecheckSettles == ~active

StopCommits(c) ==
  /\ \/ /\ cpc[c] = "commit"
        /\ own' = DrainNext(~pinned, parked)
        /\ Goes(c, IF parked THEN "out" ELSE "recheck")
        /\ pinned' = FALSE /\ parked' = FALSE
     \/ /\ cpc[c] = "recheck"
        /\ own' = IF RecheckSettles THEN SettledFrom(own) ELSE own
        /\ Goes(c, "out") /\ UNCHANGED <<pinned, parked>>
  /\ UNCHANGED <<joined, lost, stepVars, word, run, holds, drained, oneshot, sess,
                 shotOpen, recVars, samples, histVars>>
  /\ ConsoleStays

Console(c) ==
  \/ StartClaims(c) \/ StartTakes(c) \/ StartAdmits(c) \/ StartParks(c)
  \/ StartJoins(c) \/ StartEnables(c) \/ StartUndoes(c)
  \/ StopTakes(c) \/ StopLowers(c) \/ StopDisables(c) \/ StopDrains(c)
  \/ StopMarks(c) \/ StopSettles(c) \/ StopReleases(c) \/ StopCommits(c)

Next ==
  \/ Attach \/ Detach \/ OtherTakes \/ OtherGives
  \/ Producer \/ Worker
  \/ \E c \in Consoles : Console(c)

(* The worker and the producer get to run, and a command goes on to its end. *)
Fairness ==
  /\ WF_vars(Worker)
  /\ WF_vars(prod # "out" /\ Producer)
  /\ \A c \in Consoles : WF_vars(cpc[c] # "out" /\ Console(c))

Spec == Init /\ [][Next]_vars /\ Fairness

-----------------------------------------------------------------------------
Places == {"out", "claimed", "model", "park", "join", "enable", "undo", "lower",
           "bound", "disable", "drain", "drained", "settle", "release", "commit",
           "recheck"}

(* The variables hold what the code's types and flags allow.                *)
TypeOK ==
  /\ {attached, joined, lost, want, armed, run, active, holds, drained, oneshot,
      plugin, shotOpen, reportable, described, job, epochOk,
      wGen, wMore, took, pinned, parked, pNew, jNew, wNew} \subseteq BOOLEAN
  /\ word \in Words /\ own \in Owns
  /\ sess \in {"free", "nn", "other"}
  /\ prod \in {"out", "in", "begin", "sample", "write", "hand", "abandon"}
  /\ wpc \in {"parked", "woken", "sample", "arm", "loop", "look", "infer",
              "admit", "decode", "publish", "done", "record", "failed",
              "failDone", "rearm", "rearming", "leaving", "settling"}
  /\ pRun \in Runs /\ wRun \in Runs
  /\ cpc \in [Consoles -> Places]

Writing == prod \in {"sample", "write", "hand", "abandon"}
InModel == wpc \in {"infer", "admit", "decode", "publish", "done", "failed",
                   "failDone"}

(* The model's input has one owner: the producer never writes it while the  *)
(* worker is in the model, whatever starts, stops, attaches and detaches    *)
(* came in between (nn_handoff.h).                                          *)
InputExclusive == ~(Writing /\ InModel)

(* A frame an attach, a detach or a stop has overtaken is never published,  *)
(* however late its inference ends (nn_core_frame.c:184, nn_det_record.c).  *)
NoStalePublish ==
  [][wpc = "publish" /\ took' => wNew]_vars

(* What the record says the plugin can be asked about is what the plugin    *)
(* last decoded, except while a decode of the next is under way, which the  *)
(* lease covers (nn_det_record_publish_external).                           *)
ReportDescribes == reportable /\ wpc # "publish" => described

(* A one-shot whose run has ended fills the input with nothing more         *)
(* (nn_producer.c:203).                                                     *)
ClosedRunFillsNothing ==
  [][word' = "FILLING" /\ word # "FILLING" /\ oneshot => shotOpen]_vars

(* A one-shot that has no result and no failure yet keeps asking for frames *)
(* while its worker serves it: a frame a detach or an attach made stale must *)
(* not be the last one (nncam_shot_rearm).                                  *)
StillAsking ==
  run /\ oneshot /\ shotOpen /\ wRun = "cur" /\ wpc = "loop" => word # "IDLE"

(* A teardown that waits for the worker ends when the worker parks, on      *)
(* whichever side of the stop's commit that is (nn_camera.c:827).           *)
SettlingEnds == own = "SETTLING" ~> own # "SETTLING"

(* nn_camera.c:591: under the session no load or unload can run; whoever    *)
(* writes the input or runs the model has it.                               *)
SessionCovers == Writing \/ InModel => sess = "nn"

(* nn_worker.c:335: the arm a stream begins with: a worker that waits for   *)
(* frames has asked for one.                                                *)
StreamAsks == run /\ ~oneshot /\ wpc = "loop" => word # "IDLE"

(* nn_camera.c:815: the -2 does not lose the release.                       *)
SessionComesBack == own = "IDLE" => ~holds
=============================================================================
