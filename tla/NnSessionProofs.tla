--------------------------- MODULE NnSessionProofs ---------------------------
(***************************************************************************)
(* What holds of live inference for any set of consoles: the model's input *)
(* has one owner, no overtaken frame is published, and a one-shot neither  *)
(* fills on after its run nor stops asking within it.                      *)
(***************************************************************************)
EXTENDS NnSession, TLAPS

Starting == {"claimed", "model", "park", "join", "enable", "undo"}
Stopping == {"lower", "bound", "disable", "drain", "drained", "settle",
             "release", "commit"}

(* The owner's state is that of the one command under way.                 *)
OwnerInv ==
  /\ \A c \in Consoles : cpc[c] \in Starting => own = "STARTING"
  /\ \A c \in Consoles : cpc[c] \in Stopping => own = "DRAINING"
  /\ \A c, d \in Consoles :
       cpc[c] \in Starting \cup Stopping /\ cpc[d] \in Starting \cup Stopping => c = d

(* nncam_run is up from the join to the stop's first store.                *)
RunInv ==
  /\ own \in {"IDLE", "SETTLING", "PENDING"} => ~run
  /\ \A c \in Consoles :
       cpc[c] \in (Starting \ {"enable"}) \cup (Stopping \ {"lower"}) => ~run

(* Where the drain is done, the producer is out and stays out.             *)
Quiet == ~want /\ ~armed /\ ~Busy

DrainInv ==
  /\ own \in {"IDLE", "STARTING", "SETTLING"} => Quiet
  /\ \A c \in Consoles :
       /\ cpc[c] \in {"drain", "drained", "settle", "release", "commit"} => ~want /\ ~armed
       /\ cpc[c] = "drained" => Quiet /\ ~pinned
       /\ cpc[c] \in {"settle", "release", "commit"} /\ ~pinned => Quiet

(* The word says where the producer and the worker are.                    *)
WordInv ==
  /\ word = "FILLING" <=> Writing
  /\ word = "RUNNING" <=> InModel

(* A start that has the session finds the worker short of the model, and   *)
(* the worker cannot get there before the flag goes up.                    *)
Waking == {"parked", "woken", "sample", "arm", "loop", "leaving", "settling"}

WorkerInv ==
  /\ ~active => wpc \in {"parked", "woken", "settling"}
  /\ \A c \in Consoles : cpc[c] \in {"model", "park", "join"} => wpc \in Waking

(* A sample that is still current was taken of a frame that came in after  *)
(* the last boundary.                                                      *)
FrameInv ==
  /\ Busy => pNew \/ ~run
  /\ prod = "hand" /\ job => pNew
  /\ word = "HANDED" /\ job => jNew
  /\ InModel /\ wGen => wNew
  /\ took => wpc \in {"done", "record", "rearm", "rearming"}

(* What the record says of the plugin.                                     *)
ReportInv == (reportable => plugin) /\ ReportDescribes

(* The worker's side of a one-shot.                                        *)
ServeInv ==
  /\ wpc \in {"admit", "decode", "publish", "done"} /\ oneshot => ~wMore
  /\ wpc \in {"record", "failDone", "rearm", "rearming"} => oneshot
  /\ wpc \in {"record", "rearm", "rearming"} => word = "IDLE"
  /\ wpc \in {"failDone", "rearm", "rearming"} /\ wMore => shotOpen
  /\ wpc \in {"failDone", "rearm"} /\ shotOpen /\ wRun = "cur" => wMore
  /\ wpc = "rearming" => wMore

(* Whoever may still fill the input for a one-shot does so in an open run. *)
OpenInv ==
  /\ prod = "begin" /\ oneshot /\ word = "WANT" => shotOpen
  /\ (run \/ prod = "begin") /\ oneshot /\ word = "IDLE" /\ ~shotOpen =>
       wpc \in {"record", "failDone", "rearm", "loop", "look"}
               \cup (IF run THEN {} ELSE {"leaving", "settling", "parked"})
  /\ \A c \in Consoles : cpc[c] = "join" => shotOpen

(* And it is asked for as long as the run is open.                         *)
AskInv ==
  /\ run /\ oneshot /\ shotOpen /\ wRun = "cur" /\ wpc \in {"loop", "look"} => word # "IDLE"
  /\ \A c \in Consoles :
       cpc[c] = "join" /\ wpc = "loop" /\ wRun = "cur" => word # "IDLE"

(* Where each thread is, and what the words may say.                       *)
Sorts ==
  /\ word \in Words /\ own \in Owns
  /\ sess \in {"free", "nn", "other"}
  /\ prod \in {"out", "in", "begin", "sample", "write", "hand", "abandon"}
  /\ wpc \in Waking \cup {"look", "infer", "admit", "decode", "publish", "done",
                          "record", "failed", "failDone", "rearm", "rearming"}
  /\ pRun \in Runs /\ wRun \in Runs
  /\ cpc \in [Consoles -> Places]

Inv ==
  /\ Sorts /\ OwnerInv /\ RunInv /\ DrainInv /\ WordInv /\ WorkerInv /\ FrameInv
  /\ ReportInv /\ ServeInv /\ OpenInv /\ AskInv

(* nn_handoff_step(), operation by operation.                              *)
LEMMA StepsOf ==
  \A w :
    /\ Stepped(w, "ARM")     = IF w = "IDLE" THEN "WANT" ELSE w
    /\ Stepped(w, "BEGIN")   = IF w = "WANT" THEN "FILLING" ELSE w
    /\ Stepped(w, "HAND")    = IF w = "FILLING" THEN "HANDED" ELSE w
    /\ Stepped(w, "ABANDON") = IF w = "FILLING" THEN "WANT" ELSE w
    /\ Stepped(w, "TAKE")    = IF w = "HANDED" THEN "RUNNING" ELSE w
    /\ Stepped(w, "DONE")    = IF w = "RUNNING" THEN "WANT" ELSE w
    /\ Stepped(w, "DONE_LAST") = IF w = "RUNNING" THEN "IDLE" ELSE w
    /\ Stepped(w, "JOIN")    = IF w \in Settled THEN "IDLE" ELSE w
    /\ Moves(w, "TAKE") <=> w = "HANDED"
BY DEF Stepped, Moves, From, To, Ops, Settled

(* What the producer inside consume() leaves alone.                        *)
LEMMA ProducerFrame ==
  Producer => UNCHANGED <<attached, joined, lost, want, armed, own, run, active, holds,
                          drained, oneshot, sess, plugin, reportable, described, wpc,
                          wGen, wRun, wMore, took, cpc, pinned, parked>>
BY DEF Producer, Enter, Ask, BeginFill, Sample, Prepared, Hand, ProducerStays,
   baseVars, stepVars, runVars, recVars, workVars, consVars

(* What the worker leaves alone.                                           *)
LEMMA WorkerFrame ==
  Worker => UNCHANGED <<attached, joined, lost, want, armed, run, drained, oneshot,
                        plugin, prod, epochOk, pRun, job, cpc, pinned, parked, pNew, jNew>>
BY DEF Worker, Wake, SampleRun, Arm, Look, Take, Infer, Admit, Decode, Publish, Done,
   Record, JobFails, FailDone, Rearm, Leave, Park, WorkerStays,
   baseVars, stepVars, prodVars, consVars

(* Of the lifecycle it touches only a drain that waits for it.             *)
LEMMA WorkerOwner == Worker => own' \in {own, SettledFrom(own)}
<1> USE DEF WorkerStays, JobStays
<1>1. CASE Wake \/ SampleRun \/ Arm \/ Look \/ Take \/ Infer \/ Admit \/ Decode
  BY <1>1 DEF Wake, SampleRun, Arm, Look, Take, Infer, Admit, Decode
<1>2. CASE Publish \/ Done \/ Record \/ JobFails \/ FailDone \/ Rearm
  BY <1>2 DEF Publish, Done, Record, JobFails, FailDone, Rearm
<1>3. CASE Leave \/ Park
  BY <1>3 DEF Leave, Park
<1>4. QED
  BY <1>1, <1>2, <1>3 DEF Worker

(* Every thread stays at one of its places.                                *)
LEMMA SortsKept == Inv /\ [Next]_vars => Sorts'
<1> SUFFICES ASSUME Inv, [Next]_vars PROVE Sorts'
  OBVIOUS
<1> USE DEF Inv, baseVars, stepVars, runVars, recVars, prodVars, workVars, consVars,
   samples, histVars
<1>1. CASE UNCHANGED vars
  BY <1>1 DEF vars, Sorts, Waking, Words, Owns, Runs, Places
<1>2. CASE Attach \/ Detach \/ OtherTakes \/ OtherGives
  BY <1>2 DEF Attach, StepOpens, StepStaysShut, Boundary, Busy, Detach, StepCloses,
     OtherTakes, OtherGives, Sorts, Waking, Words, Owns, Runs, Places
<1>3. CASE Enter
  BY <1>3 DEF Enter, ProducerStays, Sorts, Waking, Words, Owns, Runs, Places
<1>4. CASE Ask
  BY <1>4 DEF Ask, ProducerStays, Out, Stays, AskOpen, ShotNow, Sorts, Waking, Words,
     Owns, Runs, Places
<1>5. CASE BeginFill
  BY <1>5, StepsOf DEF BeginFill, ProducerStays, Out, Stays, Sorts, Waking, Words,
     Owns, Runs, Places
<1>6. CASE Sample
  BY <1>6 DEF Sample, ProducerStays, Sorts, Waking, Words, Owns, Runs, Places
<1>7. CASE Prepared
  BY <1>7 DEF Prepared, ProducerStays, Fails, Sorts, Waking, Words, Owns, Runs, Places
<1>8. CASE Hand
  BY <1>8, StepsOf DEF Hand, ProducerStays, Out, Sorts, Waking, Words, Owns, Runs,
     Places
<1>9. CASE Wake
  BY <1>9 DEF Wake, WorkerStays, Serves, Sorts, Waking, Words, Owns, Runs, Places
<1>10. CASE SampleRun
  BY <1>10 DEF SampleRun, WorkerStays, JobStays, ShotNow, Sorts, Waking, Words, Owns,
     Runs, Places
<1>11. CASE Arm
  BY <1>11, StepsOf DEF Arm, WorkerStays, JobStays, Serves, Sorts, Waking, Words,
     Owns, Runs, Places
<1>12. CASE Look
  BY <1>12 DEF Look, WorkerStays, JobStays, Serves, Sorts, Waking, Words, Owns, Runs,
     Places
<1>13. CASE Take
  BY <1>13, StepsOf DEF Take, WorkerStays, JobStays, Over, TakenGen, Sorts, Waking,
     Words, Owns, Runs, Places
<1>14. CASE Infer
  BY <1>14 DEF Infer, WorkerStays, JobStays, Sorts, Waking, Words, Owns, Runs, Places
<1>15. CASE Admit
  BY <1>15 DEF Admit, WorkerStays, JobStays, Sorts, Waking, Words, Owns, Runs, Places
<1>16. CASE Decode
  BY <1>16 DEF Decode, WorkerStays, JobStays, Serves, Sorts, Waking, Words, Owns,
     Runs, Places
<1>17. CASE Publish
  BY <1>17 DEF Publish, WorkerStays, JobStays, ReportRefused, Sorts, Waking, Words,
     Owns, Runs, Places
<1>18. CASE Done
  BY <1>18, StepsOf DEF Done, WorkerStays, JobStays, Over, Sorts, Waking, Words, Owns,
     Runs, Places
<1>19. CASE Record
  BY <1>19 DEF Record, WorkerStays, JobStays, Sorts, Waking, Words, Owns, Runs, Places
<1>20. CASE JobFails
  BY <1>20, StepsOf DEF JobFails, WorkerStays, JobStays, Over, Fails, Sorts, Waking,
     Words, Owns, Runs, Places
<1>21. CASE FailDone
  BY <1>21, StepsOf DEF FailDone, WorkerStays, JobStays, Serves, Sorts, Waking, Words,
     Owns, Runs, Places
<1>22. CASE Rearm
  BY <1>22, StepsOf DEF Rearm, WorkerStays, JobStays, Over, Rearms, Sorts, Waking,
     Words, Owns, Runs, Places
<1>23. CASE Leave
  BY <1>23 DEF Leave, WorkerStays, Serves, Release, MayRelease, Sorts, Waking, Words,
     Owns, Runs, Places
<1>24. CASE Park
  BY <1>24 DEF Park, WorkerStays, Serves, SettledFrom, Sorts, Waking, Words, Owns,
     Runs, Places
<1>25. ASSUME NEW c \in Consoles, StartClaims(c) PROVE Sorts'
  BY <1>25 DEF StartClaims, StartGoes, ConsoleStays, Goes, Sorts, Waking, Words, Owns,
     Runs, Places
<1>26. ASSUME NEW c \in Consoles, StartTakes(c) PROVE Sorts'
  BY <1>26 DEF StartTakes, StartDone, ConsoleStays, Goes, Sorts, Waking, Words, Owns,
     Runs, Places
<1>27. ASSUME NEW c \in Consoles, StartAdmits(c) PROVE Sorts'
  BY <1>27 DEF StartAdmits, StartDone, Boundary, ConsoleStays, Goes, Sorts, Waking,
     Words, Owns, Runs, Places
<1>28. ASSUME NEW c \in Consoles, StartParks(c) PROVE Sorts'
  BY <1>28, StepsOf DEF StartParks, ConsoleStays, Goes, Sorts, Waking, Words, Owns,
     Runs, Places
<1>29. ASSUME NEW c \in Consoles, StartJoins(c) PROVE Sorts'
  BY <1>29 DEF StartJoins, StartDone, ConsoleStays, Goes, Sorts, Waking, Words, Owns,
     Runs, Places
<1>30. ASSUME NEW c \in Consoles, StartEnables(c) PROVE Sorts'
  BY <1>30 DEF StartEnables, StartDone, StepOpens, StepStaysShut, Boundary, Busy,
     ConsoleStays, Goes, Sorts, Waking, Words, Owns, Runs, Places
<1>31. ASSUME NEW c \in Consoles, StartUndoes(c) PROVE Sorts'
  BY <1>31 DEF StartUndoes, StartDone, ConsoleStays, Goes, Sorts, Waking, Words, Owns,
     Runs, Places
<1>32. ASSUME NEW c \in Consoles, StopTakes(c) PROVE Sorts'
  BY <1>32 DEF StopTakes, StopGoes, ConsoleStays, Goes, Sorts, Waking, Words, Owns,
     Runs, Places
<1>33. ASSUME NEW c \in Consoles, StopLowers(c) PROVE Sorts'
  BY <1>33 DEF StopLowers, Boundary, ConsoleStays, Goes, Sorts, Waking, Words, Owns,
     Runs, Places
<1>34. ASSUME NEW c \in Consoles, StopDisables(c) PROVE Sorts'
  BY <1>34 DEF StopDisables, StepCloses, StepStaysShut, Boundary, ConsoleStays, Goes,
     Sorts, Waking, Words, Owns, Runs, Places
<1>35. ASSUME NEW c \in Consoles, StopDrains(c) PROVE Sorts'
  BY <1>35, StepsOf DEF StopDrains, DrainSays, Busy, ConsoleStays, Goes, Sorts,
     Waking, Words, Owns, Runs, Places
<1>36. ASSUME NEW c \in Consoles, StopMarks(c) PROVE Sorts'
  BY <1>36 DEF StopMarks, ConsoleStays, Goes, Sorts, Waking, Words, Owns, Runs, Places
<1>37. ASSUME NEW c \in Consoles, StopSettles(c) PROVE Sorts'
  BY <1>37 DEF StopSettles, ConsoleStays, Goes, Sorts, Waking, Words, Owns, Runs,
     Places
<1>38. ASSUME NEW c \in Consoles, StopReleases(c) PROVE Sorts'
  BY <1>38 DEF StopReleases, Release, MayRelease, ConsoleStays, Goes, Sorts, Waking,
     Words, Owns, Runs, Places
<1>39. ASSUME NEW c \in Consoles, StopCommits(c) PROVE Sorts'
  BY <1>39 DEF StopCommits, DrainNext, RecheckSettles, SettledFrom, ConsoleStays,
     Goes, Sorts, Waking, Words, Owns, Runs, Places
<1>40. QED
  BY <1>1, <1>2, <1>3, <1>4, <1>5, <1>6, <1>7, <1>8, <1>9, <1>10, <1>11, <1>12, <1>13,
     <1>14, <1>15, <1>16, <1>17, <1>18, <1>19, <1>20, <1>21, <1>22, <1>23, <1>24,
     <1>25, <1>26, <1>27, <1>28, <1>29, <1>30, <1>31, <1>32, <1>33, <1>34, <1>35,
     <1>36, <1>37, <1>38, <1>39 DEF Next, Producer, Worker, Console

(* One command at a time has the owner.                                    *)
LEMMA OwnerKept == Inv /\ [Next]_vars => OwnerInv'
<1> SUFFICES ASSUME Inv, [Next]_vars PROVE OwnerInv'
  OBVIOUS
<1> USE DEF Inv, baseVars, stepVars, runVars, recVars, prodVars, workVars, consVars,
   samples, histVars
<1>1. CASE UNCHANGED vars
  BY <1>1 DEF vars, OwnerInv, Sorts, Starting, Stopping
<1>2. CASE Producer
  BY <1>2, ProducerFrame DEF OwnerInv, Sorts, Starting, Stopping
<1>3. CASE Worker
  BY <1>3, WorkerFrame, WorkerOwner DEF OwnerInv, Sorts, Starting, Stopping,
     SettledFrom
<1>4. CASE Attach \/ Detach \/ OtherTakes \/ OtherGives
  BY <1>4 DEF Attach, StepOpens, StepStaysShut, Boundary, Busy, Detach, StepCloses,
     OtherTakes, OtherGives, OwnerInv, Sorts, Starting, Stopping
<1>5. ASSUME NEW c \in Consoles, StartClaims(c) PROVE OwnerInv'
  BY <1>5 DEF StartClaims, StartGoes, ConsoleStays, Goes, OwnerInv, Sorts, Starting,
     Stopping
<1>6. ASSUME NEW c \in Consoles, StartTakes(c) PROVE OwnerInv'
  BY <1>6 DEF StartTakes, StartDone, ConsoleStays, Goes, OwnerInv, Sorts, Starting,
     Stopping
<1>7. ASSUME NEW c \in Consoles, StartAdmits(c) PROVE OwnerInv'
  BY <1>7 DEF StartAdmits, StartDone, Boundary, ConsoleStays, Goes, OwnerInv, Sorts,
     Starting, Stopping
<1>8. ASSUME NEW c \in Consoles, StartParks(c) PROVE OwnerInv'
  BY <1>8, StepsOf DEF StartParks, ConsoleStays, Goes, OwnerInv, Sorts, Starting,
     Stopping
<1>9. ASSUME NEW c \in Consoles, StartJoins(c) PROVE OwnerInv'
  BY <1>9 DEF StartJoins, StartDone, ConsoleStays, Goes, OwnerInv, Sorts, Starting,
     Stopping
<1>10. ASSUME NEW c \in Consoles, StartEnables(c) PROVE OwnerInv'
  BY <1>10 DEF StartEnables, StartDone, StepOpens, StepStaysShut, Boundary, Busy,
     ConsoleStays, Goes, OwnerInv, Sorts, Starting, Stopping
<1>11. ASSUME NEW c \in Consoles, StartUndoes(c) PROVE OwnerInv'
  BY <1>11 DEF StartUndoes, StartDone, ConsoleStays, Goes, OwnerInv, Sorts, Starting,
     Stopping
<1>12. ASSUME NEW c \in Consoles, StopTakes(c) PROVE OwnerInv'
  BY <1>12 DEF StopTakes, StopGoes, ConsoleStays, Goes, OwnerInv, Sorts, Starting,
     Stopping
<1>13. ASSUME NEW c \in Consoles, StopLowers(c) PROVE OwnerInv'
  BY <1>13 DEF StopLowers, Boundary, ConsoleStays, Goes, OwnerInv, Sorts, Starting,
     Stopping
<1>14. ASSUME NEW c \in Consoles, StopDisables(c) PROVE OwnerInv'
  BY <1>14 DEF StopDisables, StepCloses, StepStaysShut, Boundary, ConsoleStays, Goes,
     OwnerInv, Sorts, Starting, Stopping
<1>15. ASSUME NEW c \in Consoles, StopDrains(c) PROVE OwnerInv'
  BY <1>15, StepsOf DEF StopDrains, DrainSays, Busy, ConsoleStays, Goes, OwnerInv,
     Sorts, Starting, Stopping
<1>16. ASSUME NEW c \in Consoles, StopMarks(c) PROVE OwnerInv'
  BY <1>16 DEF StopMarks, ConsoleStays, Goes, OwnerInv, Sorts, Starting, Stopping
<1>17. ASSUME NEW c \in Consoles, StopSettles(c) PROVE OwnerInv'
  BY <1>17 DEF StopSettles, ConsoleStays, Goes, OwnerInv, Sorts, Starting, Stopping
<1>18. ASSUME NEW c \in Consoles, StopReleases(c) PROVE OwnerInv'
  BY <1>18 DEF StopReleases, Release, MayRelease, ConsoleStays, Goes, OwnerInv, Sorts,
     Starting, Stopping
<1>19. ASSUME NEW c \in Consoles, StopCommits(c) PROVE OwnerInv'
  BY <1>19 DEF StopCommits, DrainNext, RecheckSettles, SettledFrom, ConsoleStays,
     Goes, OwnerInv, Sorts, Starting, Stopping
<1>20. QED
  BY <1>1, <1>2, <1>3, <1>4, <1>5, <1>6, <1>7, <1>8, <1>9, <1>10, <1>11, <1>12, <1>13,
     <1>14, <1>15, <1>16, <1>17, <1>18, <1>19 DEF Next, Producer, Worker, Console

(* The run is up only while a start or a stop says so.                     *)
LEMMA RunKept == Inv /\ [Next]_vars => RunInv'
<1> SUFFICES ASSUME Inv, [Next]_vars PROVE RunInv'
  OBVIOUS
<1> USE DEF Inv, baseVars, stepVars, runVars, recVars, prodVars, workVars, consVars,
   samples, histVars
<1>1. CASE UNCHANGED vars
  BY <1>1 DEF vars, RunInv, OwnerInv, Sorts, Places, Owns, Starting, Stopping
<1>2. CASE Producer
  BY <1>2, ProducerFrame DEF RunInv, OwnerInv, Sorts, Places, Owns, Starting, Stopping
<1>3. CASE Worker
  BY <1>3, WorkerFrame, WorkerOwner DEF RunInv, OwnerInv, Sorts, Places, Owns,
     Starting, Stopping, SettledFrom
<1>4. CASE Attach \/ Detach \/ OtherTakes \/ OtherGives
  BY <1>4 DEF Attach, StepOpens, StepStaysShut, Boundary, Busy, Detach, StepCloses,
     OtherTakes, OtherGives, RunInv, OwnerInv, Sorts, Places, Owns, Starting, Stopping
<1>5. ASSUME NEW c \in Consoles, StartClaims(c) PROVE RunInv'
  BY <1>5 DEF StartClaims, StartGoes, ConsoleStays, Goes, RunInv, OwnerInv, Sorts,
     Places, Owns, Starting, Stopping
<1>6. ASSUME NEW c \in Consoles, StartTakes(c) PROVE RunInv'
  BY <1>6 DEF StartTakes, StartDone, ConsoleStays, Goes, RunInv, OwnerInv, Sorts,
     Places, Owns, Starting, Stopping
<1>7. ASSUME NEW c \in Consoles, StartAdmits(c) PROVE RunInv'
  BY <1>7 DEF StartAdmits, StartDone, Boundary, ConsoleStays, Goes, RunInv, OwnerInv,
     Sorts, Places, Owns, Starting, Stopping
<1>8. ASSUME NEW c \in Consoles, StartParks(c) PROVE RunInv'
  BY <1>8, StepsOf DEF StartParks, ConsoleStays, Goes, RunInv, OwnerInv, Sorts,
     Places, Owns, Starting, Stopping
<1>9. ASSUME NEW c \in Consoles, StartJoins(c) PROVE RunInv'
  BY <1>9 DEF StartJoins, StartDone, ConsoleStays, Goes, RunInv, OwnerInv, Sorts,
     Places, Owns, Starting, Stopping
<1>10. ASSUME NEW c \in Consoles, StartEnables(c) PROVE RunInv'
  BY <1>10 DEF StartEnables, StartDone, StepOpens, StepStaysShut, Boundary, Busy,
     ConsoleStays, Goes, RunInv, OwnerInv, Sorts, Places, Owns, Starting, Stopping
<1>11. ASSUME NEW c \in Consoles, StartUndoes(c) PROVE RunInv'
  BY <1>11 DEF StartUndoes, StartDone, ConsoleStays, Goes, RunInv, OwnerInv, Sorts,
     Places, Owns, Starting, Stopping
<1>12. ASSUME NEW c \in Consoles, StopTakes(c) PROVE RunInv'
  BY <1>12 DEF StopTakes, StopGoes, ConsoleStays, Goes, RunInv, OwnerInv, Sorts,
     Places, Owns, Starting, Stopping
<1>13. ASSUME NEW c \in Consoles, StopLowers(c) PROVE RunInv'
  BY <1>13 DEF StopLowers, Boundary, ConsoleStays, Goes, RunInv, OwnerInv, Sorts,
     Places, Owns, Starting, Stopping
<1>14. ASSUME NEW c \in Consoles, StopDisables(c) PROVE RunInv'
  BY <1>14 DEF StopDisables, StepCloses, StepStaysShut, Boundary, ConsoleStays, Goes,
     RunInv, OwnerInv, Sorts, Places, Owns, Starting, Stopping
<1>15. ASSUME NEW c \in Consoles, StopDrains(c) PROVE RunInv'
  BY <1>15, StepsOf DEF StopDrains, DrainSays, Busy, ConsoleStays, Goes, RunInv,
     OwnerInv, Sorts, Places, Owns, Starting, Stopping
<1>16. ASSUME NEW c \in Consoles, StopMarks(c) PROVE RunInv'
  BY <1>16 DEF StopMarks, ConsoleStays, Goes, RunInv, OwnerInv, Sorts, Places, Owns,
     Starting, Stopping
<1>17. ASSUME NEW c \in Consoles, StopSettles(c) PROVE RunInv'
  BY <1>17 DEF StopSettles, ConsoleStays, Goes, RunInv, OwnerInv, Sorts, Places, Owns,
     Starting, Stopping
<1>18. ASSUME NEW c \in Consoles, StopReleases(c) PROVE RunInv'
  BY <1>18 DEF StopReleases, Release, MayRelease, ConsoleStays, Goes, RunInv,
     OwnerInv, Sorts, Places, Owns, Starting, Stopping
<1>19. ASSUME NEW c \in Consoles, StopCommits(c) PROVE RunInv'
  BY <1>19 DEF StopCommits, DrainNext, RecheckSettles, SettledFrom, ConsoleStays,
     Goes, RunInv, OwnerInv, Sorts, Places, Owns, Starting, Stopping
<1>20. QED
  BY <1>1, <1>2, <1>3, <1>4, <1>5, <1>6, <1>7, <1>8, <1>9, <1>10, <1>11, <1>12, <1>13,
     <1>14, <1>15, <1>16, <1>17, <1>18, <1>19 DEF Next, Producer, Worker, Console

(* What was drained stays so.                                              *)
LEMMA DrainKept == Inv /\ [Next]_vars => DrainInv'
<1> SUFFICES ASSUME Inv, [Next]_vars PROVE DrainInv'
  OBVIOUS
<1> USE DEF Inv, baseVars, stepVars, runVars, recVars, prodVars, workVars, consVars,
   samples, histVars
<1>1. CASE UNCHANGED vars
  BY <1>1 DEF vars, DrainInv, RunInv, OwnerInv, Sorts, Owns, Places, Quiet, Busy,
     Starting, Stopping
<1>2. CASE Worker
  BY <1>2, WorkerFrame, WorkerOwner DEF DrainInv, RunInv, OwnerInv, Sorts, Owns,
     Places, Quiet, Busy, Starting, Stopping, SettledFrom
<1>3. CASE Attach
  BY <1>3 DEF Attach, StepOpens, StepStaysShut, Boundary, Busy, DrainInv, RunInv,
     OwnerInv, Sorts, Owns, Places, Quiet, Starting, Stopping
<1>4. CASE Detach
  BY <1>4 DEF Detach, StepCloses, StepStaysShut, Boundary, DrainInv, RunInv, OwnerInv,
     Sorts, Owns, Places, Quiet, Busy, Starting, Stopping
<1>5. CASE OtherTakes
  BY <1>5 DEF OtherTakes, DrainInv, RunInv, OwnerInv, Sorts, Owns, Places, Quiet,
     Busy, Starting, Stopping
<1>6. CASE OtherGives
  BY <1>6 DEF OtherGives, DrainInv, RunInv, OwnerInv, Sorts, Owns, Places, Quiet,
     Busy, Starting, Stopping
<1>7. CASE Enter
  BY <1>7 DEF Enter, ProducerStays, DrainInv, RunInv, OwnerInv, Sorts, Owns, Places,
     Quiet, Busy, Starting, Stopping
<1>8. CASE Ask
  BY <1>8 DEF Ask, ProducerStays, Out, Stays, AskOpen, ShotNow, DrainInv, RunInv,
     OwnerInv, Sorts, Owns, Places, Quiet, Busy, Starting, Stopping
<1>9. CASE BeginFill
  BY <1>9, StepsOf DEF BeginFill, ProducerStays, Out, Stays, DrainInv, RunInv,
     OwnerInv, Sorts, Owns, Places, Quiet, Busy, Starting, Stopping
<1>10. CASE Sample
  BY <1>10 DEF Sample, ProducerStays, DrainInv, RunInv, OwnerInv, Sorts, Owns, Places,
     Quiet, Busy, Starting, Stopping
<1>11. CASE Prepared
  BY <1>11 DEF Prepared, ProducerStays, Fails, DrainInv, RunInv, OwnerInv, Sorts,
     Owns, Places, Quiet, Busy, Starting, Stopping
<1>12. CASE Hand
  BY <1>12, StepsOf DEF Hand, ProducerStays, Out, DrainInv, RunInv, OwnerInv, Sorts,
     Owns, Places, Quiet, Busy, Starting, Stopping
<1>13. ASSUME NEW c \in Consoles, StartClaims(c) PROVE DrainInv'
  BY <1>13 DEF StartClaims, StartGoes, ConsoleStays, Goes, DrainInv, RunInv, OwnerInv,
     Sorts, Owns, Places, Quiet, Busy, Starting, Stopping
<1>14. ASSUME NEW c \in Consoles, StartTakes(c) PROVE DrainInv'
  BY <1>14 DEF StartTakes, StartDone, ConsoleStays, Goes, DrainInv, RunInv, OwnerInv,
     Sorts, Owns, Places, Quiet, Busy, Starting, Stopping
<1>15. ASSUME NEW c \in Consoles, StartAdmits(c) PROVE DrainInv'
  BY <1>15 DEF StartAdmits, StartDone, Boundary, ConsoleStays, Goes, DrainInv, RunInv,
     OwnerInv, Sorts, Owns, Places, Quiet, Busy, Starting, Stopping
<1>16. ASSUME NEW c \in Consoles, StartParks(c) PROVE DrainInv'
  BY <1>16, StepsOf DEF StartParks, ConsoleStays, Goes, DrainInv, RunInv, OwnerInv,
     Sorts, Owns, Places, Quiet, Busy, Starting, Stopping
<1>17. ASSUME NEW c \in Consoles, StartJoins(c) PROVE DrainInv'
  BY <1>17 DEF StartJoins, StartDone, ConsoleStays, Goes, DrainInv, RunInv, OwnerInv,
     Sorts, Owns, Places, Quiet, Busy, Starting, Stopping
<1>18. ASSUME NEW c \in Consoles, StartEnables(c) PROVE DrainInv'
  BY <1>18 DEF StartEnables, StartDone, StepOpens, StepStaysShut, Boundary, Busy,
     ConsoleStays, Goes, DrainInv, RunInv, OwnerInv, Sorts, Owns, Places, Quiet,
     Starting, Stopping
<1>19. ASSUME NEW c \in Consoles, StartUndoes(c) PROVE DrainInv'
  BY <1>19 DEF StartUndoes, StartDone, ConsoleStays, Goes, DrainInv, RunInv, OwnerInv,
     Sorts, Owns, Places, Quiet, Busy, Starting, Stopping
<1>20. ASSUME NEW c \in Consoles, StopTakes(c) PROVE DrainInv'
  BY <1>20 DEF StopTakes, StopGoes, ConsoleStays, Goes, DrainInv, RunInv, OwnerInv,
     Sorts, Owns, Places, Quiet, Busy, Starting, Stopping
<1>21. ASSUME NEW c \in Consoles, StopLowers(c) PROVE DrainInv'
  BY <1>21 DEF StopLowers, Boundary, ConsoleStays, Goes, DrainInv, RunInv, OwnerInv,
     Sorts, Owns, Places, Quiet, Busy, Starting, Stopping
<1>22. ASSUME NEW c \in Consoles, StopDisables(c) PROVE DrainInv'
  BY <1>22 DEF StopDisables, StepCloses, StepStaysShut, Boundary, ConsoleStays, Goes,
     DrainInv, RunInv, OwnerInv, Sorts, Owns, Places, Quiet, Busy, Starting, Stopping
<1>23. ASSUME NEW c \in Consoles, StopMarks(c) PROVE DrainInv'
  BY <1>23 DEF StopMarks, ConsoleStays, Goes, DrainInv, RunInv, OwnerInv, Sorts, Owns,
     Places, Quiet, Busy, Starting, Stopping
<1>24. ASSUME NEW c \in Consoles, StopSettles(c) PROVE DrainInv'
  BY <1>24 DEF StopSettles, ConsoleStays, Goes, DrainInv, RunInv, OwnerInv, Sorts,
     Owns, Places, Quiet, Busy, Starting, Stopping
<1>25. ASSUME NEW c \in Consoles, StopReleases(c) PROVE DrainInv'
  BY <1>25 DEF StopReleases, Release, MayRelease, ConsoleStays, Goes, DrainInv,
     RunInv, OwnerInv, Sorts, Owns, Places, Quiet, Busy, Starting, Stopping
<1>26. ASSUME NEW c \in Consoles, StopCommits(c) PROVE DrainInv'
  BY <1>26 DEF StopCommits, DrainNext, RecheckSettles, SettledFrom, ConsoleStays,
     Goes, DrainInv, RunInv, OwnerInv, Sorts, Owns, Places, Quiet, Busy, Starting,
     Stopping
<1>27. ASSUME NEW c \in Consoles, StopDrains(c) PROVE DrainInv'
  <2>1. cpc[c] = "drain" /\ own = "DRAINING" /\ ~want /\ ~armed /\ pinned' = Busy
    BY <1>27 DEF StopDrains, DrainSays, DrainInv, OwnerInv, Stopping, Busy
  <2>2. UNCHANGED <<want, armed, own, prod>>
    BY <1>27 DEF StopDrains, ConsoleStays
  <2>3. \A d \in Consoles : d # c => cpc'[d] = cpc[d] /\ cpc[d] \notin Stopping
    BY <1>27, <2>1 DEF StopDrains, Goes, OwnerInv, Stopping, Sorts
  <2>4. cpc'[c] = IF Busy THEN "settle" ELSE "drained"
    BY <1>27 DEF StopDrains, DrainSays, Goes, Sorts
  <2>. QED
    BY <2>1, <2>2, <2>3, <2>4 DEF DrainInv, Quiet, Busy, Stopping
<1>28. QED
  BY <1>1, <1>2, <1>3, <1>4, <1>5, <1>6, <1>7, <1>8, <1>9, <1>10, <1>11, <1>12, <1>13,
     <1>14, <1>15, <1>16, <1>17, <1>18, <1>19, <1>20, <1>21, <1>22, <1>23, <1>24,
     <1>25, <1>26, <1>27 DEF Next, Producer, Worker, Console

(* The word follows the producer and the worker.                           *)
LEMMA WordKept == Inv /\ [Next]_vars => WordInv'
<1> SUFFICES ASSUME Inv, [Next]_vars PROVE WordInv'
  OBVIOUS
<1> USE DEF Inv, baseVars, stepVars, runVars, recVars, prodVars, workVars, consVars,
   samples, histVars
<1>1. CASE UNCHANGED vars
  BY <1>1 DEF vars, WordInv, DrainInv, OwnerInv, WorkerInv, Sorts, Words, Settled,
     Quiet, Busy, Starting, Stopping, Waking, Writing, InModel
<1>2. CASE Attach \/ Detach \/ OtherTakes \/ OtherGives
  BY <1>2 DEF Attach, StepOpens, StepStaysShut, Boundary, Busy, Detach, StepCloses,
     OtherTakes, OtherGives, WordInv, DrainInv, OwnerInv, WorkerInv, Sorts, Words,
     Settled, Quiet, Starting, Stopping, Waking, Writing, InModel
<1>3. CASE Enter
  BY <1>3 DEF Enter, ProducerStays, WordInv, DrainInv, OwnerInv, WorkerInv, Sorts,
     Words, Settled, Quiet, Busy, Starting, Stopping, Waking, Writing, InModel
<1>4. CASE Ask
  BY <1>4 DEF Ask, ProducerStays, Out, Stays, AskOpen, ShotNow, WordInv, DrainInv,
     OwnerInv, WorkerInv, Sorts, Words, Settled, Quiet, Busy, Starting, Stopping,
     Waking, Writing, InModel
<1>5. CASE BeginFill
  BY <1>5, StepsOf DEF BeginFill, ProducerStays, Out, Stays, WordInv, DrainInv,
     OwnerInv, WorkerInv, Sorts, Words, Settled, Quiet, Busy, Starting, Stopping,
     Waking, Writing, InModel
<1>6. CASE Sample
  BY <1>6 DEF Sample, ProducerStays, WordInv, DrainInv, OwnerInv, WorkerInv, Sorts,
     Words, Settled, Quiet, Busy, Starting, Stopping, Waking, Writing, InModel
<1>7. CASE Prepared
  BY <1>7 DEF Prepared, ProducerStays, Fails, WordInv, DrainInv, OwnerInv, WorkerInv,
     Sorts, Words, Settled, Quiet, Busy, Starting, Stopping, Waking, Writing, InModel
<1>8. CASE Hand
  BY <1>8, StepsOf DEF Hand, ProducerStays, Out, WordInv, DrainInv, OwnerInv,
     WorkerInv, Sorts, Words, Settled, Quiet, Busy, Starting, Stopping, Waking,
     Writing, InModel
<1>9. CASE Wake
  BY <1>9 DEF Wake, WorkerStays, Serves, WordInv, DrainInv, OwnerInv, WorkerInv,
     Sorts, Words, Settled, Quiet, Busy, Starting, Stopping, Waking, Writing, InModel
<1>10. CASE SampleRun
  BY <1>10 DEF SampleRun, WorkerStays, JobStays, ShotNow, WordInv, DrainInv, OwnerInv,
     WorkerInv, Sorts, Words, Settled, Quiet, Busy, Starting, Stopping, Waking,
     Writing, InModel
<1>11. CASE Arm
  BY <1>11, StepsOf DEF Arm, WorkerStays, JobStays, Serves, WordInv, DrainInv,
     OwnerInv, WorkerInv, Sorts, Words, Settled, Quiet, Busy, Starting, Stopping,
     Waking, Writing, InModel
<1>12. CASE Look
  BY <1>12 DEF Look, WorkerStays, JobStays, Serves, WordInv, DrainInv, OwnerInv,
     WorkerInv, Sorts, Words, Settled, Quiet, Busy, Starting, Stopping, Waking,
     Writing, InModel
<1>13. CASE Take
  BY <1>13, StepsOf DEF Take, WorkerStays, JobStays, Over, TakenGen, WordInv,
     DrainInv, OwnerInv, WorkerInv, Sorts, Words, Settled, Quiet, Busy, Starting,
     Stopping, Waking, Writing, InModel
<1>14. CASE Infer
  BY <1>14 DEF Infer, WorkerStays, JobStays, WordInv, DrainInv, OwnerInv, WorkerInv,
     Sorts, Words, Settled, Quiet, Busy, Starting, Stopping, Waking, Writing, InModel
<1>15. CASE Admit
  BY <1>15 DEF Admit, WorkerStays, JobStays, WordInv, DrainInv, OwnerInv, WorkerInv,
     Sorts, Words, Settled, Quiet, Busy, Starting, Stopping, Waking, Writing, InModel
<1>16. CASE Decode
  BY <1>16 DEF Decode, WorkerStays, JobStays, Serves, WordInv, DrainInv, OwnerInv,
     WorkerInv, Sorts, Words, Settled, Quiet, Busy, Starting, Stopping, Waking,
     Writing, InModel
<1>17. CASE Publish
  BY <1>17 DEF Publish, WorkerStays, JobStays, ReportRefused, WordInv, DrainInv,
     OwnerInv, WorkerInv, Sorts, Words, Settled, Quiet, Busy, Starting, Stopping,
     Waking, Writing, InModel
<1>18. CASE Done
  BY <1>18, StepsOf DEF Done, WorkerStays, JobStays, Over, WordInv, DrainInv,
     OwnerInv, WorkerInv, Sorts, Words, Settled, Quiet, Busy, Starting, Stopping,
     Waking, Writing, InModel
<1>19. CASE Record
  BY <1>19 DEF Record, WorkerStays, JobStays, WordInv, DrainInv, OwnerInv, WorkerInv,
     Sorts, Words, Settled, Quiet, Busy, Starting, Stopping, Waking, Writing, InModel
<1>20. CASE JobFails
  BY <1>20, StepsOf DEF JobFails, WorkerStays, JobStays, Over, Fails, WordInv,
     DrainInv, OwnerInv, WorkerInv, Sorts, Words, Settled, Quiet, Busy, Starting,
     Stopping, Waking, Writing, InModel
<1>21. CASE FailDone
  BY <1>21, StepsOf DEF FailDone, WorkerStays, JobStays, Serves, WordInv, DrainInv,
     OwnerInv, WorkerInv, Sorts, Words, Settled, Quiet, Busy, Starting, Stopping,
     Waking, Writing, InModel
<1>22. CASE Rearm
  BY <1>22, StepsOf DEF Rearm, WorkerStays, JobStays, Over, Rearms, WordInv, DrainInv,
     OwnerInv, WorkerInv, Sorts, Words, Settled, Quiet, Busy, Starting, Stopping,
     Waking, Writing, InModel
<1>23. CASE Leave
  BY <1>23 DEF Leave, WorkerStays, Serves, Release, MayRelease, WordInv, DrainInv,
     OwnerInv, WorkerInv, Sorts, Words, Settled, Quiet, Busy, Starting, Stopping,
     Waking, Writing, InModel
<1>24. CASE Park
  BY <1>24 DEF Park, WorkerStays, Serves, SettledFrom, WordInv, DrainInv, OwnerInv,
     WorkerInv, Sorts, Words, Settled, Quiet, Busy, Starting, Stopping, Waking,
     Writing, InModel
<1>25. ASSUME NEW c \in Consoles, StartClaims(c) \/ StartTakes(c) \/ StartAdmits(c) \/
   StartJoins(c) \/ StartEnables(c) PROVE WordInv'
  BY <1>25 DEF StartClaims, StartGoes, StartTakes, StartDone, StartAdmits, Boundary,
     StartJoins, StartEnables, StepOpens, StepStaysShut, Busy, ConsoleStays, Goes,
     WordInv, DrainInv, OwnerInv, WorkerInv, Sorts, Words, Settled, Quiet, Starting,
     Stopping, Waking, Writing, InModel
<1>26. ASSUME NEW c \in Consoles, StartUndoes(c) \/ StopTakes(c) \/ StopLowers(c) \/
   StopDisables(c) \/ StopMarks(c) PROVE WordInv'
  BY <1>26 DEF StartUndoes, StartDone, StopTakes, StopGoes, StopLowers, Boundary,
     StopDisables, StepCloses, StepStaysShut, StopMarks, ConsoleStays, Goes, WordInv,
     DrainInv, OwnerInv, WorkerInv, Sorts, Words, Settled, Quiet, Busy, Starting,
     Stopping, Waking, Writing, InModel
<1>27. ASSUME NEW c \in Consoles, StopSettles(c) \/ StopReleases(c) \/ StopCommits(c)
   PROVE WordInv'
  BY <1>27 DEF StopSettles, StopReleases, Release, MayRelease, StopCommits, DrainNext,
     RecheckSettles, SettledFrom, ConsoleStays, Goes, WordInv, DrainInv, OwnerInv,
     WorkerInv, Sorts, Words, Settled, Quiet, Busy, Starting, Stopping, Waking,
     Writing, InModel
<1>28. ASSUME NEW c \in Consoles, StartParks(c) PROVE WordInv'
  BY <1>28, StepsOf DEF StartParks, ConsoleStays, Goes, WordInv, DrainInv, OwnerInv,
     WorkerInv, Sorts, Words, Settled, Quiet, Busy, Starting, Stopping, Waking,
     Writing, InModel
<1>29. ASSUME NEW c \in Consoles, StopDrains(c) PROVE WordInv'
  BY <1>29, StepsOf DEF StopDrains, DrainSays, Busy, ConsoleStays, Goes, WordInv,
     DrainInv, OwnerInv, WorkerInv, Sorts, Words, Settled, Quiet, Starting, Stopping,
     Waking, Writing, InModel
<1>30. QED
  BY <1>1, <1>2, <1>3, <1>4, <1>5, <1>6, <1>7, <1>8, <1>9, <1>10, <1>11, <1>12, <1>13,
     <1>14, <1>15, <1>16, <1>17, <1>18, <1>19, <1>20, <1>21, <1>22, <1>23, <1>24,
     <1>25, <1>26, <1>27, <1>28, <1>29 DEF Next, Producer, Worker, Console

(* No start finds the worker in the model.                                 *)
LEMMA WorkerKept == Inv /\ [Next]_vars => WorkerInv'
<1> SUFFICES ASSUME Inv, [Next]_vars PROVE WorkerInv'
  OBVIOUS
<1> USE DEF Inv, baseVars, stepVars, runVars, recVars, prodVars, workVars, consVars,
   samples, histVars
<1>1. CASE UNCHANGED vars
  BY <1>1 DEF vars, WorkerInv, RunInv, OwnerInv, Sorts, Waking, Starting, Stopping
<1>2. CASE Producer
  BY <1>2, ProducerFrame DEF WorkerInv, RunInv, OwnerInv, Sorts, Waking, Starting,
     Stopping
<1>3. CASE Attach \/ Detach \/ OtherTakes \/ OtherGives
  BY <1>3 DEF Attach, StepOpens, StepStaysShut, Boundary, Busy, Detach, StepCloses,
     OtherTakes, OtherGives, WorkerInv, RunInv, OwnerInv, Sorts, Waking, Starting,
     Stopping
<1>4. CASE Wake
  BY <1>4 DEF Wake, WorkerStays, Serves, WorkerInv, RunInv, OwnerInv, Sorts, Waking,
     Starting, Stopping
<1>5. CASE SampleRun
  BY <1>5 DEF SampleRun, WorkerStays, JobStays, ShotNow, WorkerInv, RunInv, OwnerInv,
     Sorts, Waking, Starting, Stopping
<1>6. CASE Arm
  BY <1>6, StepsOf DEF Arm, WorkerStays, JobStays, Serves, WorkerInv, RunInv,
     OwnerInv, Sorts, Waking, Starting, Stopping
<1>7. CASE Look
  BY <1>7 DEF Look, WorkerStays, JobStays, Serves, WorkerInv, RunInv, OwnerInv, Sorts,
     Waking, Starting, Stopping
<1>8. CASE Take
  BY <1>8, StepsOf DEF Take, WorkerStays, JobStays, Over, TakenGen, WorkerInv, RunInv,
     OwnerInv, Sorts, Waking, Starting, Stopping
<1>9. CASE Infer
  BY <1>9 DEF Infer, WorkerStays, JobStays, WorkerInv, RunInv, OwnerInv, Sorts,
     Waking, Starting, Stopping
<1>10. CASE Admit
  BY <1>10 DEF Admit, WorkerStays, JobStays, WorkerInv, RunInv, OwnerInv, Sorts,
     Waking, Starting, Stopping
<1>11. CASE Decode
  BY <1>11 DEF Decode, WorkerStays, JobStays, Serves, WorkerInv, RunInv, OwnerInv,
     Sorts, Waking, Starting, Stopping
<1>12. CASE Publish
  BY <1>12 DEF Publish, WorkerStays, JobStays, ReportRefused, WorkerInv, RunInv,
     OwnerInv, Sorts, Waking, Starting, Stopping
<1>13. CASE Done
  BY <1>13, StepsOf DEF Done, WorkerStays, JobStays, Over, WorkerInv, RunInv,
     OwnerInv, Sorts, Waking, Starting, Stopping
<1>14. CASE Record
  BY <1>14 DEF Record, WorkerStays, JobStays, WorkerInv, RunInv, OwnerInv, Sorts,
     Waking, Starting, Stopping
<1>15. CASE JobFails
  BY <1>15, StepsOf DEF JobFails, WorkerStays, JobStays, Over, Fails, WorkerInv,
     RunInv, OwnerInv, Sorts, Waking, Starting, Stopping
<1>16. CASE FailDone
  BY <1>16, StepsOf DEF FailDone, WorkerStays, JobStays, Serves, WorkerInv, RunInv,
     OwnerInv, Sorts, Waking, Starting, Stopping
<1>17. CASE Rearm
  BY <1>17, StepsOf DEF Rearm, WorkerStays, JobStays, Over, Rearms, WorkerInv, RunInv,
     OwnerInv, Sorts, Waking, Starting, Stopping
<1>18. CASE Leave
  BY <1>18 DEF Leave, WorkerStays, Serves, Release, MayRelease, WorkerInv, RunInv,
     OwnerInv, Sorts, Waking, Starting, Stopping
<1>19. CASE Park
  BY <1>19 DEF Park, WorkerStays, Serves, SettledFrom, WorkerInv, RunInv, OwnerInv,
     Sorts, Waking, Starting, Stopping
<1>20. ASSUME NEW c \in Consoles, StartClaims(c) PROVE WorkerInv'
  BY <1>20 DEF StartClaims, StartGoes, ConsoleStays, Goes, WorkerInv, RunInv,
     OwnerInv, Sorts, Waking, Starting, Stopping
<1>21. ASSUME NEW c \in Consoles, StartTakes(c) PROVE WorkerInv'
  BY <1>21 DEF StartTakes, StartDone, ConsoleStays, Goes, WorkerInv, RunInv, OwnerInv,
     Sorts, Waking, Starting, Stopping
<1>22. ASSUME NEW c \in Consoles, StartAdmits(c) PROVE WorkerInv'
  BY <1>22 DEF StartAdmits, StartDone, Boundary, ConsoleStays, Goes, WorkerInv,
     RunInv, OwnerInv, Sorts, Waking, Starting, Stopping
<1>23. ASSUME NEW c \in Consoles, StartParks(c) PROVE WorkerInv'
  BY <1>23, StepsOf DEF StartParks, ConsoleStays, Goes, WorkerInv, RunInv, OwnerInv,
     Sorts, Waking, Starting, Stopping
<1>24. ASSUME NEW c \in Consoles, StartJoins(c) PROVE WorkerInv'
  BY <1>24 DEF StartJoins, StartDone, ConsoleStays, Goes, WorkerInv, RunInv, OwnerInv,
     Sorts, Waking, Starting, Stopping
<1>25. ASSUME NEW c \in Consoles, StartEnables(c) PROVE WorkerInv'
  BY <1>25 DEF StartEnables, StartDone, StepOpens, StepStaysShut, Boundary, Busy,
     ConsoleStays, Goes, WorkerInv, RunInv, OwnerInv, Sorts, Waking, Starting,
     Stopping
<1>26. ASSUME NEW c \in Consoles, StartUndoes(c) PROVE WorkerInv'
  BY <1>26 DEF StartUndoes, StartDone, ConsoleStays, Goes, WorkerInv, RunInv,
     OwnerInv, Sorts, Waking, Starting, Stopping
<1>27. ASSUME NEW c \in Consoles, StopTakes(c) PROVE WorkerInv'
  BY <1>27 DEF StopTakes, StopGoes, ConsoleStays, Goes, WorkerInv, RunInv, OwnerInv,
     Sorts, Waking, Starting, Stopping
<1>28. ASSUME NEW c \in Consoles, StopLowers(c) PROVE WorkerInv'
  BY <1>28 DEF StopLowers, Boundary, ConsoleStays, Goes, WorkerInv, RunInv, OwnerInv,
     Sorts, Waking, Starting, Stopping
<1>29. ASSUME NEW c \in Consoles, StopDisables(c) PROVE WorkerInv'
  BY <1>29 DEF StopDisables, StepCloses, StepStaysShut, Boundary, ConsoleStays, Goes,
     WorkerInv, RunInv, OwnerInv, Sorts, Waking, Starting, Stopping
<1>30. ASSUME NEW c \in Consoles, StopDrains(c) PROVE WorkerInv'
  BY <1>30, StepsOf DEF StopDrains, DrainSays, Busy, ConsoleStays, Goes, WorkerInv,
     RunInv, OwnerInv, Sorts, Waking, Starting, Stopping
<1>31. ASSUME NEW c \in Consoles, StopMarks(c) PROVE WorkerInv'
  BY <1>31 DEF StopMarks, ConsoleStays, Goes, WorkerInv, RunInv, OwnerInv, Sorts,
     Waking, Starting, Stopping
<1>32. ASSUME NEW c \in Consoles, StopSettles(c) PROVE WorkerInv'
  BY <1>32 DEF StopSettles, ConsoleStays, Goes, WorkerInv, RunInv, OwnerInv, Sorts,
     Waking, Starting, Stopping
<1>33. ASSUME NEW c \in Consoles, StopReleases(c) PROVE WorkerInv'
  BY <1>33 DEF StopReleases, Release, MayRelease, ConsoleStays, Goes, WorkerInv,
     RunInv, OwnerInv, Sorts, Waking, Starting, Stopping
<1>34. ASSUME NEW c \in Consoles, StopCommits(c) PROVE WorkerInv'
  BY <1>34 DEF StopCommits, DrainNext, RecheckSettles, SettledFrom, ConsoleStays,
     Goes, WorkerInv, RunInv, OwnerInv, Sorts, Waking, Starting, Stopping
<1>35. QED
  BY <1>1, <1>2, <1>3, <1>4, <1>5, <1>6, <1>7, <1>8, <1>9, <1>10, <1>11, <1>12, <1>13,
     <1>14, <1>15, <1>16, <1>17, <1>18, <1>19, <1>20, <1>21, <1>22, <1>23, <1>24,
     <1>25, <1>26, <1>27, <1>28, <1>29, <1>30, <1>31, <1>32, <1>33, <1>34 DEF Next,
     Producer, Worker, Console

(* What is still current came in after the last boundary.                  *)
LEMMA FrameKept == Inv /\ [Next]_vars => FrameInv'
<1> SUFFICES ASSUME Inv, [Next]_vars PROVE FrameInv'
  OBVIOUS
<1> USE DEF Inv, baseVars, stepVars, runVars, recVars, prodVars, workVars, consVars,
   samples, histVars
<1>1. CASE UNCHANGED vars
  BY <1>1 DEF vars, FrameInv, RunInv, DrainInv, OwnerInv, WordInv, Sorts, Quiet, Busy,
     Starting, Stopping, Writing, InModel
<1>2. CASE Attach
  BY <1>2 DEF Attach, StepOpens, StepStaysShut, Boundary, Busy, FrameInv, RunInv,
     DrainInv, OwnerInv, WordInv, Sorts, Quiet, Starting, Stopping, Writing, InModel
<1>3. CASE Detach
  BY <1>3 DEF Detach, StepCloses, StepStaysShut, Boundary, FrameInv, RunInv, DrainInv,
     OwnerInv, WordInv, Sorts, Quiet, Busy, Starting, Stopping, Writing, InModel
<1>4. CASE OtherTakes
  BY <1>4 DEF OtherTakes, FrameInv, RunInv, DrainInv, OwnerInv, WordInv, Sorts, Quiet,
     Busy, Starting, Stopping, Writing, InModel
<1>5. CASE OtherGives
  BY <1>5 DEF OtherGives, FrameInv, RunInv, DrainInv, OwnerInv, WordInv, Sorts, Quiet,
     Busy, Starting, Stopping, Writing, InModel
<1>6. CASE Enter
  BY <1>6 DEF Enter, ProducerStays, FrameInv, RunInv, DrainInv, OwnerInv, WordInv,
     Sorts, Quiet, Busy, Starting, Stopping, Writing, InModel
<1>7. CASE Ask
  BY <1>7 DEF Ask, ProducerStays, Out, Stays, AskOpen, ShotNow, FrameInv, RunInv,
     DrainInv, OwnerInv, WordInv, Sorts, Quiet, Busy, Starting, Stopping, Writing,
     InModel
<1>8. CASE BeginFill
  BY <1>8, StepsOf DEF BeginFill, ProducerStays, Out, Stays, FrameInv, RunInv,
     DrainInv, OwnerInv, WordInv, Sorts, Quiet, Busy, Starting, Stopping, Writing,
     InModel
<1>9. CASE Sample
  BY <1>9 DEF Sample, ProducerStays, FrameInv, RunInv, DrainInv, OwnerInv, WordInv,
     Sorts, Quiet, Busy, Starting, Stopping, Writing, InModel
<1>10. CASE Prepared
  BY <1>10 DEF Prepared, ProducerStays, Fails, FrameInv, RunInv, DrainInv, OwnerInv,
     WordInv, Sorts, Quiet, Busy, Starting, Stopping, Writing, InModel
<1>11. CASE Hand
  BY <1>11, StepsOf DEF Hand, ProducerStays, Out, FrameInv, RunInv, DrainInv,
     OwnerInv, WordInv, Sorts, Quiet, Busy, Starting, Stopping, Writing, InModel
<1>12. CASE Wake
  BY <1>12 DEF Wake, WorkerStays, Serves, FrameInv, RunInv, DrainInv, OwnerInv,
     WordInv, Sorts, Quiet, Busy, Starting, Stopping, Writing, InModel
<1>13. CASE SampleRun
  BY <1>13 DEF SampleRun, WorkerStays, JobStays, ShotNow, FrameInv, RunInv, DrainInv,
     OwnerInv, WordInv, Sorts, Quiet, Busy, Starting, Stopping, Writing, InModel
<1>14. CASE Arm
  BY <1>14, StepsOf DEF Arm, WorkerStays, JobStays, Serves, FrameInv, RunInv,
     DrainInv, OwnerInv, WordInv, Sorts, Quiet, Busy, Starting, Stopping, Writing,
     InModel
<1>15. CASE Look
  BY <1>15 DEF Look, WorkerStays, JobStays, Serves, FrameInv, RunInv, DrainInv,
     OwnerInv, WordInv, Sorts, Quiet, Busy, Starting, Stopping, Writing, InModel
<1>16. CASE Take
  BY <1>16, StepsOf DEF Take, WorkerStays, JobStays, Over, TakenGen, FrameInv, RunInv,
     DrainInv, OwnerInv, WordInv, Sorts, Quiet, Busy, Starting, Stopping, Writing,
     InModel
<1>17. CASE Infer
  BY <1>17 DEF Infer, WorkerStays, JobStays, FrameInv, RunInv, DrainInv, OwnerInv,
     WordInv, Sorts, Quiet, Busy, Starting, Stopping, Writing, InModel
<1>18. CASE Admit
  BY <1>18 DEF Admit, WorkerStays, JobStays, FrameInv, RunInv, DrainInv, OwnerInv,
     WordInv, Sorts, Quiet, Busy, Starting, Stopping, Writing, InModel
<1>19. CASE Decode
  BY <1>19 DEF Decode, WorkerStays, JobStays, Serves, FrameInv, RunInv, DrainInv,
     OwnerInv, WordInv, Sorts, Quiet, Busy, Starting, Stopping, Writing, InModel
<1>20. CASE Publish
  BY <1>20 DEF Publish, WorkerStays, JobStays, ReportRefused, FrameInv, RunInv,
     DrainInv, OwnerInv, WordInv, Sorts, Quiet, Busy, Starting, Stopping, Writing,
     InModel
<1>21. CASE Done
  BY <1>21, StepsOf DEF Done, WorkerStays, JobStays, Over, FrameInv, RunInv, DrainInv,
     OwnerInv, WordInv, Sorts, Quiet, Busy, Starting, Stopping, Writing, InModel
<1>22. CASE Record
  BY <1>22 DEF Record, WorkerStays, JobStays, FrameInv, RunInv, DrainInv, OwnerInv,
     WordInv, Sorts, Quiet, Busy, Starting, Stopping, Writing, InModel
<1>23. CASE JobFails
  BY <1>23, StepsOf DEF JobFails, WorkerStays, JobStays, Over, Fails, FrameInv,
     RunInv, DrainInv, OwnerInv, WordInv, Sorts, Quiet, Busy, Starting, Stopping,
     Writing, InModel
<1>24. CASE FailDone
  BY <1>24, StepsOf DEF FailDone, WorkerStays, JobStays, Serves, FrameInv, RunInv,
     DrainInv, OwnerInv, WordInv, Sorts, Quiet, Busy, Starting, Stopping, Writing,
     InModel
<1>25. CASE Rearm
  BY <1>25, StepsOf DEF Rearm, WorkerStays, JobStays, Over, Rearms, FrameInv, RunInv,
     DrainInv, OwnerInv, WordInv, Sorts, Quiet, Busy, Starting, Stopping, Writing,
     InModel
<1>26. CASE Leave
  BY <1>26 DEF Leave, WorkerStays, Serves, Release, MayRelease, FrameInv, RunInv,
     DrainInv, OwnerInv, WordInv, Sorts, Quiet, Busy, Starting, Stopping, Writing,
     InModel
<1>27. CASE Park
  BY <1>27 DEF Park, WorkerStays, Serves, SettledFrom, FrameInv, RunInv, DrainInv,
     OwnerInv, WordInv, Sorts, Quiet, Busy, Starting, Stopping, Writing, InModel
<1>28. ASSUME NEW c \in Consoles, StartClaims(c) \/ StartTakes(c) \/ StartUndoes(c) \/
   StopTakes(c) \/ StopMarks(c) PROVE FrameInv'
  BY <1>28 DEF StartClaims, StartGoes, StartTakes, StartDone, StartUndoes, StopTakes,
     StopGoes, StopMarks, ConsoleStays, Goes, FrameInv, RunInv, DrainInv, OwnerInv,
     WordInv, Sorts, Quiet, Busy, Starting, Stopping, Writing, InModel
<1>29. ASSUME NEW c \in Consoles, StopSettles(c) \/ StopReleases(c) \/ StopCommits(c)
   PROVE FrameInv'
  BY <1>29 DEF StopSettles, StopReleases, Release, MayRelease, StopCommits, DrainNext,
     RecheckSettles, SettledFrom, ConsoleStays, Goes, FrameInv, RunInv, DrainInv,
     OwnerInv, WordInv, Sorts, Quiet, Busy, Starting, Stopping, Writing, InModel
<1>30. ASSUME NEW c \in Consoles, StartAdmits(c) PROVE FrameInv'
  BY <1>30 DEF StartAdmits, StartDone, Boundary, ConsoleStays, Goes, FrameInv, RunInv,
     DrainInv, OwnerInv, WordInv, Sorts, Quiet, Busy, Starting, Stopping, Writing,
     InModel
<1>31. ASSUME NEW c \in Consoles, StartParks(c) PROVE FrameInv'
  BY <1>31, StepsOf DEF StartParks, ConsoleStays, Goes, FrameInv, RunInv, DrainInv,
     OwnerInv, WordInv, Sorts, Quiet, Busy, Starting, Stopping, Writing, InModel
<1>32. ASSUME NEW c \in Consoles, StartJoins(c) PROVE FrameInv'
  BY <1>32 DEF StartJoins, StartDone, ConsoleStays, Goes, FrameInv, RunInv, DrainInv,
     OwnerInv, WordInv, Sorts, Quiet, Busy, Starting, Stopping, Writing, InModel
<1>33. ASSUME NEW c \in Consoles, StartEnables(c) PROVE FrameInv'
  BY <1>33 DEF StartEnables, StartDone, StepOpens, StepStaysShut, Boundary, Busy,
     ConsoleStays, Goes, FrameInv, RunInv, DrainInv, OwnerInv, WordInv, Sorts, Quiet,
     Starting, Stopping, Writing, InModel
<1>34. ASSUME NEW c \in Consoles, StopLowers(c) PROVE FrameInv'
  BY <1>34 DEF StopLowers, Boundary, ConsoleStays, Goes, FrameInv, RunInv, DrainInv,
     OwnerInv, WordInv, Sorts, Quiet, Busy, Starting, Stopping, Writing, InModel
<1>35. ASSUME NEW c \in Consoles, StopDisables(c) PROVE FrameInv'
  BY <1>35 DEF StopDisables, StepCloses, StepStaysShut, Boundary, ConsoleStays, Goes,
     FrameInv, RunInv, DrainInv, OwnerInv, WordInv, Sorts, Quiet, Busy, Starting,
     Stopping, Writing, InModel
<1>36. ASSUME NEW c \in Consoles, StopDrains(c) PROVE FrameInv'
  BY <1>36, StepsOf DEF StopDrains, DrainSays, Busy, ConsoleStays, Goes, FrameInv,
     RunInv, DrainInv, OwnerInv, WordInv, Sorts, Quiet, Starting, Stopping, Writing,
     InModel
<1>37. QED
  BY <1>1, <1>2, <1>3, <1>4, <1>5, <1>6, <1>7, <1>8, <1>9, <1>10, <1>11, <1>12, <1>13,
     <1>14, <1>15, <1>16, <1>17, <1>18, <1>19, <1>20, <1>21, <1>22, <1>23, <1>24,
     <1>25, <1>26, <1>27, <1>28, <1>29, <1>30, <1>31, <1>32, <1>33, <1>34, <1>35,
     <1>36 DEF Next, Producer, Worker, Console

(* The record describes what the plugin decoded last.                      *)
LEMMA ReportKept == Inv /\ [Next]_vars => ReportInv'
<1> SUFFICES ASSUME Inv, [Next]_vars PROVE ReportInv'
  OBVIOUS
<1> USE DEF Inv, baseVars, stepVars, runVars, recVars, prodVars, workVars, consVars,
   samples, histVars
<1>1. CASE UNCHANGED vars
  BY <1>1 DEF vars, ReportInv, ReportDescribes, Sorts
<1>2. CASE Producer
  BY <1>2, ProducerFrame DEF ReportInv, ReportDescribes, Sorts
<1>3. CASE Attach
  BY <1>3 DEF Attach, StepOpens, StepStaysShut, Boundary, Busy, ReportInv,
     ReportDescribes, Sorts
<1>4. CASE Detach
  BY <1>4 DEF Detach, StepCloses, StepStaysShut, Boundary, ReportInv, ReportDescribes,
     Sorts
<1>5. CASE OtherTakes
  BY <1>5 DEF OtherTakes, ReportInv, ReportDescribes, Sorts
<1>6. CASE OtherGives
  BY <1>6 DEF OtherGives, ReportInv, ReportDescribes, Sorts
<1>7. CASE Wake \/ SampleRun \/ Arm \/ Look \/ Take \/ Admit \/ Record \/ JobFails
  BY <1>7, StepsOf DEF Wake, WorkerStays, Serves, SampleRun, JobStays, ShotNow, Arm,
     Look, Take, Over, TakenGen, Admit, Record, JobFails, Fails, ReportInv,
     ReportDescribes, Sorts
<1>8. CASE FailDone \/ Rearm \/ Leave \/ Park
  BY <1>8, StepsOf DEF FailDone, WorkerStays, JobStays, Serves, Rearm, Over, Rearms,
     Leave, Release, MayRelease, Park, SettledFrom, ReportInv, ReportDescribes, Sorts
<1>9. CASE Infer
  BY <1>9 DEF Infer, WorkerStays, JobStays, ReportInv, ReportDescribes, Sorts
<1>10. CASE Decode
  BY <1>10 DEF Decode, WorkerStays, JobStays, Serves, ReportInv, ReportDescribes,
     Sorts
<1>11. CASE Publish
  BY <1>11 DEF Publish, WorkerStays, JobStays, ReportRefused, ReportInv,
     ReportDescribes, Sorts
<1>12. CASE Done
  BY <1>12, StepsOf DEF Done, WorkerStays, JobStays, Over, ReportInv, ReportDescribes,
     Sorts
<1>13. ASSUME NEW c \in Consoles, StartClaims(c) \/ StartTakes(c) \/ StartParks(c) \/
   StartJoins(c) \/ StartUndoes(c) PROVE ReportInv'
  BY <1>13, StepsOf DEF StartClaims, StartGoes, StartTakes, StartDone, StartParks,
     StartJoins, StartUndoes, ConsoleStays, Goes, ReportInv, ReportDescribes, Sorts
<1>14. ASSUME NEW c \in Consoles, StopTakes(c) \/ StopDrains(c) \/ StopMarks(c) \/
   StopSettles(c) \/ StopReleases(c) PROVE ReportInv'
  BY <1>14, StepsOf DEF StopTakes, StopGoes, StopDrains, DrainSays, Busy, StopMarks,
     StopSettles, StopReleases, Release, MayRelease, ConsoleStays, Goes, ReportInv,
     ReportDescribes, Sorts
<1>15. ASSUME NEW c \in Consoles, StopCommits(c) PROVE ReportInv'
  BY <1>15 DEF StopCommits, DrainNext, RecheckSettles, SettledFrom, ConsoleStays,
     Goes, ReportInv, ReportDescribes, Sorts
<1>16. ASSUME NEW c \in Consoles, StartAdmits(c) PROVE ReportInv'
  BY <1>16 DEF StartAdmits, StartDone, Boundary, ConsoleStays, Goes, ReportInv,
     ReportDescribes, Sorts
<1>17. ASSUME NEW c \in Consoles, StartEnables(c) PROVE ReportInv'
  BY <1>17 DEF StartEnables, StartDone, StepOpens, StepStaysShut, Boundary, Busy,
     ConsoleStays, Goes, ReportInv, ReportDescribes, Sorts
<1>18. ASSUME NEW c \in Consoles, StopLowers(c) PROVE ReportInv'
  BY <1>18 DEF StopLowers, Boundary, ConsoleStays, Goes, ReportInv, ReportDescribes,
     Sorts
<1>19. ASSUME NEW c \in Consoles, StopDisables(c) PROVE ReportInv'
  BY <1>19 DEF StopDisables, StepCloses, StepStaysShut, Boundary, ConsoleStays, Goes,
     ReportInv, ReportDescribes, Sorts
<1>20. QED
  BY <1>1, <1>2, <1>3, <1>4, <1>5, <1>6, <1>7, <1>8, <1>9, <1>10, <1>11, <1>12, <1>13,
     <1>14, <1>15, <1>16, <1>17, <1>18, <1>19 DEF Next, Producer, Worker, Console

(* What the worker of a one-shot still means to do.                        *)
LEMMA ServeKept == Inv /\ [Next]_vars => ServeInv'
<1> SUFFICES ASSUME Inv, [Next]_vars PROVE ServeInv'
  OBVIOUS
<1> USE DEF Inv, baseVars, stepVars, runVars, recVars, prodVars, workVars, consVars,
   samples, histVars
<1>1. CASE UNCHANGED vars
  BY <1>1 DEF vars, ServeInv, WorkerInv, WordInv, RunInv, OwnerInv, Sorts, Waking,
     Starting, Stopping, Settled, Writing, InModel
<1>2. CASE Attach \/ Detach \/ OtherTakes \/ OtherGives
  BY <1>2 DEF Attach, StepOpens, StepStaysShut, Boundary, Busy, Detach, StepCloses,
     OtherTakes, OtherGives, ServeInv, WorkerInv, WordInv, RunInv, OwnerInv, Sorts,
     Waking, Starting, Stopping, Settled, Writing, InModel
<1>3. CASE Enter
  BY <1>3 DEF Enter, ProducerStays, ServeInv, WorkerInv, WordInv, RunInv, OwnerInv,
     Sorts, Waking, Starting, Stopping, Settled, Writing, InModel
<1>4. CASE Ask
  BY <1>4 DEF Ask, ProducerStays, Out, Stays, AskOpen, ShotNow, ServeInv, WorkerInv,
     WordInv, RunInv, OwnerInv, Sorts, Waking, Starting, Stopping, Settled, Writing,
     InModel
<1>5. CASE BeginFill
  BY <1>5, StepsOf DEF BeginFill, ProducerStays, Out, Stays, ServeInv, WorkerInv,
     WordInv, RunInv, OwnerInv, Sorts, Waking, Starting, Stopping, Settled, Writing,
     InModel
<1>6. CASE Sample
  BY <1>6 DEF Sample, ProducerStays, ServeInv, WorkerInv, WordInv, RunInv, OwnerInv,
     Sorts, Waking, Starting, Stopping, Settled, Writing, InModel
<1>7. CASE Prepared
  BY <1>7 DEF Prepared, ProducerStays, Fails, ServeInv, WorkerInv, WordInv, RunInv,
     OwnerInv, Sorts, Waking, Starting, Stopping, Settled, Writing, InModel
<1>8. CASE Hand
  BY <1>8, StepsOf DEF Hand, ProducerStays, Out, ServeInv, WorkerInv, WordInv, RunInv,
     OwnerInv, Sorts, Waking, Starting, Stopping, Settled, Writing, InModel
<1>9. CASE Wake
  BY <1>9 DEF Wake, WorkerStays, Serves, ServeInv, WorkerInv, WordInv, RunInv,
     OwnerInv, Sorts, Waking, Starting, Stopping, Settled, Writing, InModel
<1>10. CASE SampleRun
  BY <1>10 DEF SampleRun, WorkerStays, JobStays, ShotNow, ServeInv, WorkerInv,
     WordInv, RunInv, OwnerInv, Sorts, Waking, Starting, Stopping, Settled, Writing,
     InModel
<1>11. CASE Arm
  BY <1>11, StepsOf DEF Arm, WorkerStays, JobStays, Serves, ServeInv, WorkerInv,
     WordInv, RunInv, OwnerInv, Sorts, Waking, Starting, Stopping, Settled, Writing,
     InModel
<1>12. CASE Look
  BY <1>12 DEF Look, WorkerStays, JobStays, Serves, ServeInv, WorkerInv, WordInv,
     RunInv, OwnerInv, Sorts, Waking, Starting, Stopping, Settled, Writing, InModel
<1>13. CASE Take
  BY <1>13, StepsOf DEF Take, WorkerStays, JobStays, Over, TakenGen, ServeInv,
     WorkerInv, WordInv, RunInv, OwnerInv, Sorts, Waking, Starting, Stopping, Settled,
     Writing, InModel
<1>14. CASE Infer
  BY <1>14 DEF Infer, WorkerStays, JobStays, ServeInv, WorkerInv, WordInv, RunInv,
     OwnerInv, Sorts, Waking, Starting, Stopping, Settled, Writing, InModel
<1>15. CASE Admit
  BY <1>15 DEF Admit, WorkerStays, JobStays, ServeInv, WorkerInv, WordInv, RunInv,
     OwnerInv, Sorts, Waking, Starting, Stopping, Settled, Writing, InModel
<1>16. CASE Decode
  BY <1>16 DEF Decode, WorkerStays, JobStays, Serves, ServeInv, WorkerInv, WordInv,
     RunInv, OwnerInv, Sorts, Waking, Starting, Stopping, Settled, Writing, InModel
<1>17. CASE Publish
  BY <1>17 DEF Publish, WorkerStays, JobStays, ReportRefused, ServeInv, WorkerInv,
     WordInv, RunInv, OwnerInv, Sorts, Waking, Starting, Stopping, Settled, Writing,
     InModel
<1>18. CASE Done
  BY <1>18, StepsOf DEF Done, WorkerStays, JobStays, Over, ServeInv, WorkerInv,
     WordInv, RunInv, OwnerInv, Sorts, Waking, Starting, Stopping, Settled, Writing,
     InModel
<1>19. CASE Record
  BY <1>19 DEF Record, WorkerStays, JobStays, ServeInv, WorkerInv, WordInv, RunInv,
     OwnerInv, Sorts, Waking, Starting, Stopping, Settled, Writing, InModel
<1>20. CASE JobFails
  BY <1>20, StepsOf DEF JobFails, WorkerStays, JobStays, Over, Fails, ServeInv,
     WorkerInv, WordInv, RunInv, OwnerInv, Sorts, Waking, Starting, Stopping, Settled,
     Writing, InModel
<1>21. CASE FailDone
  BY <1>21, StepsOf DEF FailDone, WorkerStays, JobStays, Serves, ServeInv, WorkerInv,
     WordInv, RunInv, OwnerInv, Sorts, Waking, Starting, Stopping, Settled, Writing,
     InModel
<1>22. CASE Rearm
  BY <1>22, StepsOf DEF Rearm, WorkerStays, JobStays, Over, Rearms, ServeInv,
     WorkerInv, WordInv, RunInv, OwnerInv, Sorts, Waking, Starting, Stopping, Settled,
     Writing, InModel
<1>23. CASE Leave
  BY <1>23 DEF Leave, WorkerStays, Serves, Release, MayRelease, ServeInv, WorkerInv,
     WordInv, RunInv, OwnerInv, Sorts, Waking, Starting, Stopping, Settled, Writing,
     InModel
<1>24. CASE Park
  BY <1>24 DEF Park, WorkerStays, Serves, SettledFrom, ServeInv, WorkerInv, WordInv,
     RunInv, OwnerInv, Sorts, Waking, Starting, Stopping, Settled, Writing, InModel
<1>25. ASSUME NEW c \in Consoles, StartClaims(c) \/ StartTakes(c) \/ StartAdmits(c) \/
   StartEnables(c) \/ StartUndoes(c) PROVE ServeInv'
  BY <1>25 DEF StartClaims, StartGoes, StartTakes, StartDone, StartAdmits, Boundary,
     StartEnables, StepOpens, StepStaysShut, Busy, StartUndoes, ConsoleStays, Goes,
     ServeInv, WorkerInv, WordInv, RunInv, OwnerInv, Sorts, Waking, Starting,
     Stopping, Settled, Writing, InModel
<1>26. ASSUME NEW c \in Consoles, StopTakes(c) \/ StopLowers(c) \/ StopDisables(c) \/
   StopMarks(c) \/ StopSettles(c) PROVE ServeInv'
  BY <1>26 DEF StopTakes, StopGoes, StopLowers, Boundary, StopDisables, StepCloses,
     StepStaysShut, StopMarks, StopSettles, ConsoleStays, Goes, ServeInv, WorkerInv,
     WordInv, RunInv, OwnerInv, Sorts, Waking, Starting, Stopping, Settled, Writing,
     InModel
<1>27. ASSUME NEW c \in Consoles, StopReleases(c) \/ StopCommits(c) PROVE ServeInv'
  BY <1>27 DEF StopReleases, Release, MayRelease, StopCommits, DrainNext,
     RecheckSettles, SettledFrom, ConsoleStays, Goes, ServeInv, WorkerInv, WordInv,
     RunInv, OwnerInv, Sorts, Waking, Starting, Stopping, Settled, Writing, InModel
<1>28. ASSUME NEW c \in Consoles, StartParks(c) PROVE ServeInv'
  BY <1>28, StepsOf DEF StartParks, ConsoleStays, Goes, ServeInv, WorkerInv, WordInv,
     RunInv, OwnerInv, Sorts, Waking, Starting, Stopping, Settled, Writing, InModel
<1>29. ASSUME NEW c \in Consoles, StartJoins(c) PROVE ServeInv'
  BY <1>29 DEF StartJoins, StartDone, ConsoleStays, Goes, ServeInv, WorkerInv,
     WordInv, RunInv, OwnerInv, Sorts, Waking, Starting, Stopping, Settled, Writing,
     InModel
<1>30. ASSUME NEW c \in Consoles, StopDrains(c) PROVE ServeInv'
  BY <1>30, StepsOf DEF StopDrains, DrainSays, Busy, ConsoleStays, Goes, ServeInv,
     WorkerInv, WordInv, RunInv, OwnerInv, Sorts, Waking, Starting, Stopping, Settled,
     Writing, InModel
<1>31. QED
  BY <1>1, <1>2, <1>3, <1>4, <1>5, <1>6, <1>7, <1>8, <1>9, <1>10, <1>11, <1>12, <1>13,
     <1>14, <1>15, <1>16, <1>17, <1>18, <1>19, <1>20, <1>21, <1>22, <1>23, <1>24,
     <1>25, <1>26, <1>27, <1>28, <1>29, <1>30 DEF Next, Producer, Worker, Console

(* Nobody fills the input for a run that is over.                          *)
LEMMA OpenKept == Inv /\ [Next]_vars => OpenInv'
<1> SUFFICES ASSUME Inv, [Next]_vars PROVE OpenInv'
  OBVIOUS
<1> USE DEF Inv, baseVars, stepVars, runVars, recVars, prodVars, workVars, consVars,
   samples, histVars
<1>1. CASE UNCHANGED vars
  BY <1>1 DEF vars, OpenInv, ServeInv, WorkerInv, WordInv, RunInv, DrainInv, OwnerInv,
     Sorts, Waking, Starting, Stopping, Settled, Quiet, Busy, Writing, InModel
<1>2. CASE Attach \/ Detach \/ OtherTakes \/ OtherGives
  BY <1>2 DEF Attach, StepOpens, StepStaysShut, Boundary, Busy, Detach, StepCloses,
     OtherTakes, OtherGives, OpenInv, ServeInv, WorkerInv, WordInv, RunInv, DrainInv,
     OwnerInv, Sorts, Waking, Starting, Stopping, Settled, Quiet, Writing, InModel
<1>3. CASE Enter
  BY <1>3 DEF Enter, ProducerStays, OpenInv, ServeInv, WorkerInv, WordInv, RunInv,
     DrainInv, OwnerInv, Sorts, Waking, Starting, Stopping, Settled, Quiet, Busy,
     Writing, InModel
<1>4. CASE Ask
  BY <1>4 DEF Ask, ProducerStays, Out, Stays, AskOpen, ShotNow, OpenInv, ServeInv,
     WorkerInv, WordInv, RunInv, DrainInv, OwnerInv, Sorts, Waking, Starting,
     Stopping, Settled, Quiet, Busy, Writing, InModel
<1>5. CASE BeginFill
  BY <1>5, StepsOf DEF BeginFill, ProducerStays, Out, Stays, OpenInv, ServeInv,
     WorkerInv, WordInv, RunInv, DrainInv, OwnerInv, Sorts, Waking, Starting,
     Stopping, Settled, Quiet, Busy, Writing, InModel
<1>6. CASE Sample
  BY <1>6 DEF Sample, ProducerStays, OpenInv, ServeInv, WorkerInv, WordInv, RunInv,
     DrainInv, OwnerInv, Sorts, Waking, Starting, Stopping, Settled, Quiet, Busy,
     Writing, InModel
<1>7. CASE Prepared
  BY <1>7 DEF Prepared, ProducerStays, Fails, OpenInv, ServeInv, WorkerInv, WordInv,
     RunInv, DrainInv, OwnerInv, Sorts, Waking, Starting, Stopping, Settled, Quiet,
     Busy, Writing, InModel
<1>8. CASE Hand
  BY <1>8, StepsOf DEF Hand, ProducerStays, Out, OpenInv, ServeInv, WorkerInv,
     WordInv, RunInv, DrainInv, OwnerInv, Sorts, Waking, Starting, Stopping, Settled,
     Quiet, Busy, Writing, InModel
<1>9. CASE Wake
  BY <1>9 DEF Wake, WorkerStays, Serves, OpenInv, ServeInv, WorkerInv, WordInv,
     RunInv, DrainInv, OwnerInv, Sorts, Waking, Starting, Stopping, Settled, Quiet,
     Busy, Writing, InModel
<1>10. CASE SampleRun
  BY <1>10 DEF SampleRun, WorkerStays, JobStays, ShotNow, OpenInv, ServeInv,
     WorkerInv, WordInv, RunInv, DrainInv, OwnerInv, Sorts, Waking, Starting,
     Stopping, Settled, Quiet, Busy, Writing, InModel
<1>11. CASE Arm
  BY <1>11, StepsOf DEF Arm, WorkerStays, JobStays, Serves, OpenInv, ServeInv,
     WorkerInv, WordInv, RunInv, DrainInv, OwnerInv, Sorts, Waking, Starting,
     Stopping, Settled, Quiet, Busy, Writing, InModel
<1>12. CASE Look
  BY <1>12 DEF Look, WorkerStays, JobStays, Serves, OpenInv, ServeInv, WorkerInv,
     WordInv, RunInv, DrainInv, OwnerInv, Sorts, Waking, Starting, Stopping, Settled,
     Quiet, Busy, Writing, InModel
<1>13. CASE Take
  BY <1>13, StepsOf DEF Take, WorkerStays, JobStays, Over, TakenGen, OpenInv,
     ServeInv, WorkerInv, WordInv, RunInv, DrainInv, OwnerInv, Sorts, Waking,
     Starting, Stopping, Settled, Quiet, Busy, Writing, InModel
<1>14. CASE Infer
  BY <1>14 DEF Infer, WorkerStays, JobStays, OpenInv, ServeInv, WorkerInv, WordInv,
     RunInv, DrainInv, OwnerInv, Sorts, Waking, Starting, Stopping, Settled, Quiet,
     Busy, Writing, InModel
<1>15. CASE Admit
  BY <1>15 DEF Admit, WorkerStays, JobStays, OpenInv, ServeInv, WorkerInv, WordInv,
     RunInv, DrainInv, OwnerInv, Sorts, Waking, Starting, Stopping, Settled, Quiet,
     Busy, Writing, InModel
<1>16. CASE Decode
  BY <1>16 DEF Decode, WorkerStays, JobStays, Serves, OpenInv, ServeInv, WorkerInv,
     WordInv, RunInv, DrainInv, OwnerInv, Sorts, Waking, Starting, Stopping, Settled,
     Quiet, Busy, Writing, InModel
<1>17. CASE Publish
  BY <1>17 DEF Publish, WorkerStays, JobStays, ReportRefused, OpenInv, ServeInv,
     WorkerInv, WordInv, RunInv, DrainInv, OwnerInv, Sorts, Waking, Starting,
     Stopping, Settled, Quiet, Busy, Writing, InModel
<1>18. CASE Done
  BY <1>18, StepsOf DEF Done, WorkerStays, JobStays, Over, OpenInv, ServeInv,
     WorkerInv, WordInv, RunInv, DrainInv, OwnerInv, Sorts, Waking, Starting,
     Stopping, Settled, Quiet, Busy, Writing, InModel
<1>19. CASE Record
  BY <1>19 DEF Record, WorkerStays, JobStays, OpenInv, ServeInv, WorkerInv, WordInv,
     RunInv, DrainInv, OwnerInv, Sorts, Waking, Starting, Stopping, Settled, Quiet,
     Busy, Writing, InModel
<1>20. CASE JobFails
  BY <1>20, StepsOf DEF JobFails, WorkerStays, JobStays, Over, Fails, OpenInv,
     ServeInv, WorkerInv, WordInv, RunInv, DrainInv, OwnerInv, Sorts, Waking,
     Starting, Stopping, Settled, Quiet, Busy, Writing, InModel
<1>21. CASE FailDone
  BY <1>21, StepsOf DEF FailDone, WorkerStays, JobStays, Serves, OpenInv, ServeInv,
     WorkerInv, WordInv, RunInv, DrainInv, OwnerInv, Sorts, Waking, Starting,
     Stopping, Settled, Quiet, Busy, Writing, InModel
<1>22. CASE Rearm
  BY <1>22, StepsOf DEF Rearm, WorkerStays, JobStays, Over, Rearms, OpenInv, ServeInv,
     WorkerInv, WordInv, RunInv, DrainInv, OwnerInv, Sorts, Waking, Starting,
     Stopping, Settled, Quiet, Busy, Writing, InModel
<1>23. CASE Leave
  BY <1>23 DEF Leave, WorkerStays, Serves, Release, MayRelease, OpenInv, ServeInv,
     WorkerInv, WordInv, RunInv, DrainInv, OwnerInv, Sorts, Waking, Starting,
     Stopping, Settled, Quiet, Busy, Writing, InModel
<1>24. CASE Park
  BY <1>24 DEF Park, WorkerStays, Serves, SettledFrom, OpenInv, ServeInv, WorkerInv,
     WordInv, RunInv, DrainInv, OwnerInv, Sorts, Waking, Starting, Stopping, Settled,
     Quiet, Busy, Writing, InModel
<1>25. ASSUME NEW c \in Consoles, StartClaims(c) PROVE OpenInv'
  BY <1>25 DEF StartClaims, StartGoes, ConsoleStays, Goes, OpenInv, ServeInv,
     WorkerInv, WordInv, RunInv, DrainInv, OwnerInv, Sorts, Waking, Starting,
     Stopping, Settled, Quiet, Busy, Writing, InModel
<1>26. ASSUME NEW c \in Consoles, StartTakes(c) PROVE OpenInv'
  BY <1>26 DEF StartTakes, StartDone, ConsoleStays, Goes, OpenInv, ServeInv,
     WorkerInv, WordInv, RunInv, DrainInv, OwnerInv, Sorts, Waking, Starting,
     Stopping, Settled, Quiet, Busy, Writing, InModel
<1>27. ASSUME NEW c \in Consoles, StartAdmits(c) PROVE OpenInv'
  BY <1>27 DEF StartAdmits, StartDone, Boundary, ConsoleStays, Goes, OpenInv,
     ServeInv, WorkerInv, WordInv, RunInv, DrainInv, OwnerInv, Sorts, Waking,
     Starting, Stopping, Settled, Quiet, Busy, Writing, InModel
<1>28. ASSUME NEW c \in Consoles, StartParks(c) PROVE OpenInv'
  BY <1>28, StepsOf DEF StartParks, ConsoleStays, Goes, OpenInv, ServeInv, WorkerInv,
     WordInv, RunInv, DrainInv, OwnerInv, Sorts, Waking, Starting, Stopping, Settled,
     Quiet, Busy, Writing, InModel
<1>29. ASSUME NEW c \in Consoles, StartJoins(c) PROVE OpenInv'
  BY <1>29 DEF StartJoins, StartDone, ConsoleStays, Goes, OpenInv, ServeInv,
     WorkerInv, WordInv, RunInv, DrainInv, OwnerInv, Sorts, Waking, Starting,
     Stopping, Settled, Quiet, Busy, Writing, InModel
<1>30. ASSUME NEW c \in Consoles, StartEnables(c) PROVE OpenInv'
  BY <1>30 DEF StartEnables, StartDone, StepOpens, StepStaysShut, Boundary, Busy,
     ConsoleStays, Goes, OpenInv, ServeInv, WorkerInv, WordInv, RunInv, DrainInv,
     OwnerInv, Sorts, Waking, Starting, Stopping, Settled, Quiet, Writing, InModel
<1>31. ASSUME NEW c \in Consoles, StartUndoes(c) PROVE OpenInv'
  BY <1>31 DEF StartUndoes, StartDone, ConsoleStays, Goes, OpenInv, ServeInv,
     WorkerInv, WordInv, RunInv, DrainInv, OwnerInv, Sorts, Waking, Starting,
     Stopping, Settled, Quiet, Busy, Writing, InModel
<1>32. ASSUME NEW c \in Consoles, StopTakes(c) PROVE OpenInv'
  BY <1>32 DEF StopTakes, StopGoes, ConsoleStays, Goes, OpenInv, ServeInv, WorkerInv,
     WordInv, RunInv, DrainInv, OwnerInv, Sorts, Waking, Starting, Stopping, Settled,
     Quiet, Busy, Writing, InModel
<1>33. ASSUME NEW c \in Consoles, StopLowers(c) PROVE OpenInv'
  BY <1>33 DEF StopLowers, Boundary, ConsoleStays, Goes, OpenInv, ServeInv, WorkerInv,
     WordInv, RunInv, DrainInv, OwnerInv, Sorts, Waking, Starting, Stopping, Settled,
     Quiet, Busy, Writing, InModel
<1>34. ASSUME NEW c \in Consoles, StopDisables(c) PROVE OpenInv'
  BY <1>34 DEF StopDisables, StepCloses, StepStaysShut, Boundary, ConsoleStays, Goes,
     OpenInv, ServeInv, WorkerInv, WordInv, RunInv, DrainInv, OwnerInv, Sorts, Waking,
     Starting, Stopping, Settled, Quiet, Busy, Writing, InModel
<1>35. ASSUME NEW c \in Consoles, StopDrains(c) PROVE OpenInv'
  BY <1>35, StepsOf DEF StopDrains, DrainSays, Busy, ConsoleStays, Goes, OpenInv,
     ServeInv, WorkerInv, WordInv, RunInv, DrainInv, OwnerInv, Sorts, Waking,
     Starting, Stopping, Settled, Quiet, Writing, InModel
<1>36. ASSUME NEW c \in Consoles, StopMarks(c) PROVE OpenInv'
  BY <1>36 DEF StopMarks, ConsoleStays, Goes, OpenInv, ServeInv, WorkerInv, WordInv,
     RunInv, DrainInv, OwnerInv, Sorts, Waking, Starting, Stopping, Settled, Quiet,
     Busy, Writing, InModel
<1>37. ASSUME NEW c \in Consoles, StopSettles(c) PROVE OpenInv'
  BY <1>37 DEF StopSettles, ConsoleStays, Goes, OpenInv, ServeInv, WorkerInv, WordInv,
     RunInv, DrainInv, OwnerInv, Sorts, Waking, Starting, Stopping, Settled, Quiet,
     Busy, Writing, InModel
<1>38. ASSUME NEW c \in Consoles, StopReleases(c) PROVE OpenInv'
  BY <1>38 DEF StopReleases, Release, MayRelease, ConsoleStays, Goes, OpenInv,
     ServeInv, WorkerInv, WordInv, RunInv, DrainInv, OwnerInv, Sorts, Waking,
     Starting, Stopping, Settled, Quiet, Busy, Writing, InModel
<1>39. ASSUME NEW c \in Consoles, StopCommits(c) PROVE OpenInv'
  BY <1>39 DEF StopCommits, DrainNext, RecheckSettles, SettledFrom, ConsoleStays,
     Goes, OpenInv, ServeInv, WorkerInv, WordInv, RunInv, DrainInv, OwnerInv, Sorts,
     Waking, Starting, Stopping, Settled, Quiet, Busy, Writing, InModel
<1>40. QED
  BY <1>1, <1>2, <1>3, <1>4, <1>5, <1>6, <1>7, <1>8, <1>9, <1>10, <1>11, <1>12, <1>13,
     <1>14, <1>15, <1>16, <1>17, <1>18, <1>19, <1>20, <1>21, <1>22, <1>23, <1>24,
     <1>25, <1>26, <1>27, <1>28, <1>29, <1>30, <1>31, <1>32, <1>33, <1>34, <1>35,
     <1>36, <1>37, <1>38, <1>39 DEF Next, Producer, Worker, Console

(* An open run keeps asking.                                               *)
LEMMA AskKept == Inv /\ [Next]_vars => AskInv'
<1> SUFFICES ASSUME Inv, [Next]_vars PROVE AskInv'
  OBVIOUS
<1> USE DEF Inv, baseVars, stepVars, runVars, recVars, prodVars, workVars, consVars,
   samples, histVars
<1>1. CASE UNCHANGED vars
  BY <1>1 DEF vars, AskInv, OpenInv, ServeInv, WorkerInv, WordInv, RunInv, DrainInv,
     OwnerInv, Sorts, Waking, Starting, Stopping, Settled, Quiet, Busy, Writing,
     InModel
<1>2. CASE Attach \/ Detach \/ OtherTakes \/ OtherGives
  BY <1>2 DEF Attach, StepOpens, StepStaysShut, Boundary, Busy, Detach, StepCloses,
     OtherTakes, OtherGives, AskInv, OpenInv, ServeInv, WorkerInv, WordInv, RunInv,
     DrainInv, OwnerInv, Sorts, Waking, Starting, Stopping, Settled, Quiet, Writing,
     InModel
<1>3. CASE Enter
  BY <1>3 DEF Enter, ProducerStays, AskInv, OpenInv, ServeInv, WorkerInv, WordInv,
     RunInv, DrainInv, OwnerInv, Sorts, Waking, Starting, Stopping, Settled, Quiet,
     Busy, Writing, InModel
<1>4. CASE Ask
  BY <1>4 DEF Ask, ProducerStays, Out, Stays, AskOpen, ShotNow, AskInv, OpenInv,
     ServeInv, WorkerInv, WordInv, RunInv, DrainInv, OwnerInv, Sorts, Waking,
     Starting, Stopping, Settled, Quiet, Busy, Writing, InModel
<1>5. CASE BeginFill
  BY <1>5, StepsOf DEF BeginFill, ProducerStays, Out, Stays, AskInv, OpenInv,
     ServeInv, WorkerInv, WordInv, RunInv, DrainInv, OwnerInv, Sorts, Waking,
     Starting, Stopping, Settled, Quiet, Busy, Writing, InModel
<1>6. CASE Sample
  BY <1>6 DEF Sample, ProducerStays, AskInv, OpenInv, ServeInv, WorkerInv, WordInv,
     RunInv, DrainInv, OwnerInv, Sorts, Waking, Starting, Stopping, Settled, Quiet,
     Busy, Writing, InModel
<1>7. CASE Prepared
  BY <1>7 DEF Prepared, ProducerStays, Fails, AskInv, OpenInv, ServeInv, WorkerInv,
     WordInv, RunInv, DrainInv, OwnerInv, Sorts, Waking, Starting, Stopping, Settled,
     Quiet, Busy, Writing, InModel
<1>8. CASE Hand
  BY <1>8, StepsOf DEF Hand, ProducerStays, Out, AskInv, OpenInv, ServeInv, WorkerInv,
     WordInv, RunInv, DrainInv, OwnerInv, Sorts, Waking, Starting, Stopping, Settled,
     Quiet, Busy, Writing, InModel
<1>9. CASE Wake
  BY <1>9 DEF Wake, WorkerStays, Serves, AskInv, OpenInv, ServeInv, WorkerInv,
     WordInv, RunInv, DrainInv, OwnerInv, Sorts, Waking, Starting, Stopping, Settled,
     Quiet, Busy, Writing, InModel
<1>10. CASE SampleRun
  BY <1>10 DEF SampleRun, WorkerStays, JobStays, ShotNow, AskInv, OpenInv, ServeInv,
     WorkerInv, WordInv, RunInv, DrainInv, OwnerInv, Sorts, Waking, Starting,
     Stopping, Settled, Quiet, Busy, Writing, InModel
<1>11. CASE Arm
  BY <1>11, StepsOf DEF Arm, WorkerStays, JobStays, Serves, AskInv, OpenInv, ServeInv,
     WorkerInv, WordInv, RunInv, DrainInv, OwnerInv, Sorts, Waking, Starting,
     Stopping, Settled, Quiet, Busy, Writing, InModel
<1>12. CASE Look
  BY <1>12 DEF Look, WorkerStays, JobStays, Serves, AskInv, OpenInv, ServeInv,
     WorkerInv, WordInv, RunInv, DrainInv, OwnerInv, Sorts, Waking, Starting,
     Stopping, Settled, Quiet, Busy, Writing, InModel
<1>13. CASE Take
  BY <1>13, StepsOf DEF Take, WorkerStays, JobStays, Over, TakenGen, AskInv, OpenInv,
     ServeInv, WorkerInv, WordInv, RunInv, DrainInv, OwnerInv, Sorts, Waking,
     Starting, Stopping, Settled, Quiet, Busy, Writing, InModel
<1>14. CASE Infer
  BY <1>14 DEF Infer, WorkerStays, JobStays, AskInv, OpenInv, ServeInv, WorkerInv,
     WordInv, RunInv, DrainInv, OwnerInv, Sorts, Waking, Starting, Stopping, Settled,
     Quiet, Busy, Writing, InModel
<1>15. CASE Admit
  BY <1>15 DEF Admit, WorkerStays, JobStays, AskInv, OpenInv, ServeInv, WorkerInv,
     WordInv, RunInv, DrainInv, OwnerInv, Sorts, Waking, Starting, Stopping, Settled,
     Quiet, Busy, Writing, InModel
<1>16. CASE Decode
  BY <1>16 DEF Decode, WorkerStays, JobStays, Serves, AskInv, OpenInv, ServeInv,
     WorkerInv, WordInv, RunInv, DrainInv, OwnerInv, Sorts, Waking, Starting,
     Stopping, Settled, Quiet, Busy, Writing, InModel
<1>17. CASE Publish
  BY <1>17 DEF Publish, WorkerStays, JobStays, ReportRefused, AskInv, OpenInv,
     ServeInv, WorkerInv, WordInv, RunInv, DrainInv, OwnerInv, Sorts, Waking,
     Starting, Stopping, Settled, Quiet, Busy, Writing, InModel
<1>18. CASE Done
  BY <1>18, StepsOf DEF Done, WorkerStays, JobStays, Over, AskInv, OpenInv, ServeInv,
     WorkerInv, WordInv, RunInv, DrainInv, OwnerInv, Sorts, Waking, Starting,
     Stopping, Settled, Quiet, Busy, Writing, InModel
<1>19. CASE Record
  BY <1>19 DEF Record, WorkerStays, JobStays, AskInv, OpenInv, ServeInv, WorkerInv,
     WordInv, RunInv, DrainInv, OwnerInv, Sorts, Waking, Starting, Stopping, Settled,
     Quiet, Busy, Writing, InModel
<1>20. CASE JobFails
  BY <1>20, StepsOf DEF JobFails, WorkerStays, JobStays, Over, Fails, AskInv, OpenInv,
     ServeInv, WorkerInv, WordInv, RunInv, DrainInv, OwnerInv, Sorts, Waking,
     Starting, Stopping, Settled, Quiet, Busy, Writing, InModel
<1>21. CASE FailDone
  BY <1>21, StepsOf DEF FailDone, WorkerStays, JobStays, Serves, AskInv, OpenInv,
     ServeInv, WorkerInv, WordInv, RunInv, DrainInv, OwnerInv, Sorts, Waking,
     Starting, Stopping, Settled, Quiet, Busy, Writing, InModel
<1>22. CASE Rearm
  BY <1>22, StepsOf DEF Rearm, WorkerStays, JobStays, Over, Rearms, AskInv, OpenInv,
     ServeInv, WorkerInv, WordInv, RunInv, DrainInv, OwnerInv, Sorts, Waking,
     Starting, Stopping, Settled, Quiet, Busy, Writing, InModel
<1>23. CASE Leave
  BY <1>23 DEF Leave, WorkerStays, Serves, Release, MayRelease, AskInv, OpenInv,
     ServeInv, WorkerInv, WordInv, RunInv, DrainInv, OwnerInv, Sorts, Waking,
     Starting, Stopping, Settled, Quiet, Busy, Writing, InModel
<1>24. CASE Park
  BY <1>24 DEF Park, WorkerStays, Serves, SettledFrom, AskInv, OpenInv, ServeInv,
     WorkerInv, WordInv, RunInv, DrainInv, OwnerInv, Sorts, Waking, Starting,
     Stopping, Settled, Quiet, Busy, Writing, InModel
<1>25. ASSUME NEW c \in Consoles, StartClaims(c) PROVE AskInv'
  BY <1>25 DEF StartClaims, StartGoes, ConsoleStays, Goes, AskInv, OpenInv, ServeInv,
     WorkerInv, WordInv, RunInv, DrainInv, OwnerInv, Sorts, Waking, Starting,
     Stopping, Settled, Quiet, Busy, Writing, InModel
<1>26. ASSUME NEW c \in Consoles, StartTakes(c) PROVE AskInv'
  BY <1>26 DEF StartTakes, StartDone, ConsoleStays, Goes, AskInv, OpenInv, ServeInv,
     WorkerInv, WordInv, RunInv, DrainInv, OwnerInv, Sorts, Waking, Starting,
     Stopping, Settled, Quiet, Busy, Writing, InModel
<1>27. ASSUME NEW c \in Consoles, StartAdmits(c) PROVE AskInv'
  BY <1>27 DEF StartAdmits, StartDone, Boundary, ConsoleStays, Goes, AskInv, OpenInv,
     ServeInv, WorkerInv, WordInv, RunInv, DrainInv, OwnerInv, Sorts, Waking,
     Starting, Stopping, Settled, Quiet, Busy, Writing, InModel
<1>28. ASSUME NEW c \in Consoles, StartParks(c) PROVE AskInv'
  BY <1>28, StepsOf DEF StartParks, ConsoleStays, Goes, AskInv, OpenInv, ServeInv,
     WorkerInv, WordInv, RunInv, DrainInv, OwnerInv, Sorts, Waking, Starting,
     Stopping, Settled, Quiet, Busy, Writing, InModel
<1>29. ASSUME NEW c \in Consoles, StartJoins(c) PROVE AskInv'
  BY <1>29 DEF StartJoins, StartDone, ConsoleStays, Goes, AskInv, OpenInv, ServeInv,
     WorkerInv, WordInv, RunInv, DrainInv, OwnerInv, Sorts, Waking, Starting,
     Stopping, Settled, Quiet, Busy, Writing, InModel
<1>30. ASSUME NEW c \in Consoles, StartEnables(c) PROVE AskInv'
  BY <1>30 DEF StartEnables, StartDone, StepOpens, StepStaysShut, Boundary, Busy,
     ConsoleStays, Goes, AskInv, OpenInv, ServeInv, WorkerInv, WordInv, RunInv,
     DrainInv, OwnerInv, Sorts, Waking, Starting, Stopping, Settled, Quiet, Writing,
     InModel
<1>31. ASSUME NEW c \in Consoles, StartUndoes(c) PROVE AskInv'
  BY <1>31 DEF StartUndoes, StartDone, ConsoleStays, Goes, AskInv, OpenInv, ServeInv,
     WorkerInv, WordInv, RunInv, DrainInv, OwnerInv, Sorts, Waking, Starting,
     Stopping, Settled, Quiet, Busy, Writing, InModel
<1>32. ASSUME NEW c \in Consoles, StopTakes(c) PROVE AskInv'
  BY <1>32 DEF StopTakes, StopGoes, ConsoleStays, Goes, AskInv, OpenInv, ServeInv,
     WorkerInv, WordInv, RunInv, DrainInv, OwnerInv, Sorts, Waking, Starting,
     Stopping, Settled, Quiet, Busy, Writing, InModel
<1>33. ASSUME NEW c \in Consoles, StopLowers(c) PROVE AskInv'
  BY <1>33 DEF StopLowers, Boundary, ConsoleStays, Goes, AskInv, OpenInv, ServeInv,
     WorkerInv, WordInv, RunInv, DrainInv, OwnerInv, Sorts, Waking, Starting,
     Stopping, Settled, Quiet, Busy, Writing, InModel
<1>34. ASSUME NEW c \in Consoles, StopDisables(c) PROVE AskInv'
  BY <1>34 DEF StopDisables, StepCloses, StepStaysShut, Boundary, ConsoleStays, Goes,
     AskInv, OpenInv, ServeInv, WorkerInv, WordInv, RunInv, DrainInv, OwnerInv, Sorts,
     Waking, Starting, Stopping, Settled, Quiet, Busy, Writing, InModel
<1>35. ASSUME NEW c \in Consoles, StopDrains(c) PROVE AskInv'
  BY <1>35, StepsOf DEF StopDrains, DrainSays, Busy, ConsoleStays, Goes, AskInv,
     OpenInv, ServeInv, WorkerInv, WordInv, RunInv, DrainInv, OwnerInv, Sorts, Waking,
     Starting, Stopping, Settled, Quiet, Writing, InModel
<1>36. ASSUME NEW c \in Consoles, StopMarks(c) PROVE AskInv'
  BY <1>36 DEF StopMarks, ConsoleStays, Goes, AskInv, OpenInv, ServeInv, WorkerInv,
     WordInv, RunInv, DrainInv, OwnerInv, Sorts, Waking, Starting, Stopping, Settled,
     Quiet, Busy, Writing, InModel
<1>37. ASSUME NEW c \in Consoles, StopSettles(c) PROVE AskInv'
  BY <1>37 DEF StopSettles, ConsoleStays, Goes, AskInv, OpenInv, ServeInv, WorkerInv,
     WordInv, RunInv, DrainInv, OwnerInv, Sorts, Waking, Starting, Stopping, Settled,
     Quiet, Busy, Writing, InModel
<1>38. ASSUME NEW c \in Consoles, StopReleases(c) PROVE AskInv'
  BY <1>38 DEF StopReleases, Release, MayRelease, ConsoleStays, Goes, AskInv, OpenInv,
     ServeInv, WorkerInv, WordInv, RunInv, DrainInv, OwnerInv, Sorts, Waking,
     Starting, Stopping, Settled, Quiet, Busy, Writing, InModel
<1>39. ASSUME NEW c \in Consoles, StopCommits(c) PROVE AskInv'
  BY <1>39 DEF StopCommits, DrainNext, RecheckSettles, SettledFrom, ConsoleStays,
     Goes, AskInv, OpenInv, ServeInv, WorkerInv, WordInv, RunInv, DrainInv, OwnerInv,
     Sorts, Waking, Starting, Stopping, Settled, Quiet, Busy, Writing, InModel
<1>40. QED
  BY <1>1, <1>2, <1>3, <1>4, <1>5, <1>6, <1>7, <1>8, <1>9, <1>10, <1>11, <1>12, <1>13,
     <1>14, <1>15, <1>16, <1>17, <1>18, <1>19, <1>20, <1>21, <1>22, <1>23, <1>24,
     <1>25, <1>26, <1>27, <1>28, <1>29, <1>30, <1>31, <1>32, <1>33, <1>34, <1>35,
     <1>36, <1>37, <1>38, <1>39 DEF Next, Producer, Worker, Console


(* It holds when the board is up.                                          *)
LEMMA InvAtInit == Init => Inv
BY DEF Init, Inv, Sorts, Words, Owns, Runs, Places, Waking, OwnerInv, RunInv, DrainInv,
   Quiet, Busy, WordInv, Writing, InModel, WorkerInv, FrameInv, ReportInv,
   ReportDescribes, ServeInv, OpenInv, AskInv, Starting, Stopping

(* And ever after, with any set of consoles.                               *)
THEOREM Invariant == Spec => []Inv
<1>1. Inv /\ [Next]_vars => Inv'
  BY SortsKept, OwnerKept, RunKept, DrainKept, WordKept, WorkerKept, FrameKept, ReportKept,
     ServeKept, OpenKept, AskKept DEF Inv
<1>2. QED
  BY <1>1, InvAtInit, PTL DEF Spec

(* The producer never writes the model's input while the worker is in the  *)
(* model, through every start, stop, attach and detach (nn_handoff.h).     *)
THEOREM OneOwnerOfInput == Spec => []InputExclusive
<1>1. Inv => InputExclusive
  BY DEF Inv, WordInv, InputExclusive
<1>2. QED
  BY <1>1, Invariant, PTL

(* What the record offers to describe is what the plugin decoded last, but *)
(* while the next decode is under way (nn_det_record_publish_external).    *)
THEOREM RecordDescribes == Spec => []ReportDescribes
<1>1. Inv => ReportDescribes
  BY DEF Inv, ReportInv
<1>2. QED
  BY <1>1, Invariant, PTL

(* A one-shot without a result keeps asking for frames, also after a frame *)
(* that a detach or an attach made stale (nncam_shot_rearm).               *)
THEOREM OneShotAsks == Spec => []StillAsking
<1>1. Inv => StillAsking
  BY DEF Inv, AskInv, StillAsking
<1>2. QED
  BY <1>1, Invariant, PTL

(* No frame that an attach, a detach or a stop has overtaken is published, *)
(* however late its inference ends (nn_core_frame.c:184).                  *)
THEOREM OvertakenNotPublished == Spec => NoStalePublish
<1>1. Inv /\ [Next]_vars => [wpc = "publish" /\ took' => wNew]_vars
  <2> SUFFICES ASSUME Inv, Next, wpc = "publish", took' PROVE wNew
    OBVIOUS
  <2>1. ~took
    BY DEF Inv, FrameInv
  <2>2. CASE UNCHANGED took
    BY <2>1, <2>2
  <2>3. CASE Worker
    <3>1. Publish
      BY <2>3 DEF Worker, Wake, SampleRun, Arm, Look, Take, Infer, Admit, Decode, Done,
         Record, JobFails, FailDone, Rearm, Leave, Park
    <3>2. QED
      BY <3>1 DEF Publish, Inv, FrameInv, InModel
  <2>4. CASE Producer
    BY <2>2, <2>4, ProducerFrame
  <2>5. CASE Attach \/ Detach \/ OtherTakes \/ OtherGives
    BY <2>2, <2>5 DEF Attach, Detach, OtherTakes, OtherGives, workVars
  <2>6. CASE \E c \in Consoles : Console(c)
    BY <2>2, <2>6 DEF Console, StartClaims, StartTakes, StartAdmits, StartParks, StartJoins,
       StartEnables, StartUndoes, StopTakes, StopLowers, StopDisables, StopDrains,
       StopMarks, StopSettles, StopReleases, StopCommits, ConsoleStays
  <2>7. QED
    BY <2>3, <2>4, <2>5, <2>6 DEF Next
<1>2. QED
  BY <1>1, Invariant, PTL DEF Spec, NoStalePublish

(* Once a one-shot's run has ended, no fill of the input begins for it     *)
(* (nn_producer.c:203).                                                    *)
THEOREM NoFillAfterTheRun == Spec => ClosedRunFillsNothing
<1>1. Inv /\ [Next]_vars =>
        [word' = "FILLING" /\ word # "FILLING" /\ oneshot => shotOpen]_vars
  <2> SUFFICES ASSUME Inv, Next, word' = "FILLING", word # "FILLING", oneshot PROVE shotOpen
    OBVIOUS
  <2>1. CASE Producer
    <3>1. BeginFill
      BY <2>1, StepsOf DEF Producer, Enter, Ask, Sample, Prepared, Hand
    <3>2. QED
      BY <3>1, StepsOf DEF BeginFill, Inv, OpenInv
  <2>2. CASE Worker
    BY <2>2, StepsOf DEF Worker, Wake, SampleRun, Arm, Look, Take, Infer, Admit, Decode,
       Publish, Done, Record, JobFails, FailDone, Rearm, Leave, Park
  <2>3. CASE Attach \/ Detach \/ OtherTakes \/ OtherGives
    BY <2>3 DEF Attach, Detach, OtherTakes, OtherGives
  <2>4. CASE \E c \in Consoles : Console(c)
    BY <2>4, StepsOf DEF Console, StartClaims, StartTakes, StartAdmits, StartParks,
       StartJoins, StartEnables, StartUndoes, StopTakes, StopLowers, StopDisables,
       StopDrains, StopMarks, StopSettles, StopReleases, StopCommits
  <2>5. QED
    BY <2>1, <2>2, <2>3, <2>4 DEF Next
<1>2. QED
  BY <1>1, Invariant, PTL DEF Spec, ClosedRunFillsNothing

=============================================================================
