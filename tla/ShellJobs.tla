------------------------------ MODULE ShellJobs ------------------------------
(***************************************************************************)
(* The shell's background jobs: shell/core/cli_job.c with the parts of      *)
(* cli_session.c, cli_core.c and cli_registry.c a worker runs.              *)
(*                                                                         *)
(* `cmd &` claims a slot of a static pool and starts a worker thread in it; *)
(* a finished worker is deleted later by whichever thread reaps first: a    *)
(* console before each line and each launch, or any thread running `jobs`,  *)
(* a worker (`jobs &`) included.  `kill %N` latches a cancel in the job's   *)
(* slot.  One action is one critical section (TX_DISABLE .. TX_RESTORE), or *)
(* the stores and calls between two of them that no other thread looks at.  *)
(*                                                                         *)
(* Abstractions.  A worker's TX_THREAD and its cli_instance live in the     *)
(* slot, so all three go by the slot's number.  Command lines are the       *)
(* number of the job they were typed for: `line` is inst.line, and Endless  *)
(* says which commands (watch) return only when cancelled.  Any thread may  *)
(* run between any two steps: the priorities of workers and consoles only   *)
(* remove behaviours.  Plain stores of one thread take effect in program    *)
(* order.  Labels, notices and the rest of the instance are left out.       *)
(***************************************************************************)
EXTENDS Integers, FiniteSets

CONSTANTS
  Consoles,   \* the foreground shell instances, started at boot
  NSlots,     \* CLI_MAX_BG_JOBS
  MapMax,     \* CLI_THREAD_MAP_MAX
  MaxJobs,    \* bound: job numbers given out
  Endless     \* the jobs whose command returns only when cancelled

Slots   == 1 .. NSlots
Ids     == 1 .. MaxJobs
Threads == Consoles \cup Slots

ASSUME ConsolesAssumption ==
  /\ IsFiniteSet(Consoles)
  /\ Consoles \cap Slots = {}
ASSUME SizesAssumption ==
  /\ NSlots \in Nat \ {0}
  /\ MaxJobs \in Nat
  /\ MapMax \in Nat
  /\ Endless \subseteq Ids

(* As cli_config.h sizes it by default; a build may override either side. *)
RegistrySized == Cardinality(Consoles) + NSlots <= MapMax

VARIABLES
  evtOk,       \* slot -> evt_ok: its event flags group was created at boot
  state,       \* slot -> enum cli_job_state
  id,          \* slot -> j->id, 0 when free
  line,        \* slot -> the job whose command line inst.line holds
  cancel,      \* slot -> inst.cancel_req
  killFlag,    \* slot -> CLI_EVT_KILL is set in inst.events
  nextId,      \* cli_job_next_id
  registered,  \* the threads in cli_thread_reg
  thread,      \* slot -> where its worker thread is
  pc,          \* thread -> where it is in a launch or a reap
  at,          \* thread -> the slot it looks at or works on
  launching,   \* thread -> its reap is the first half of a launch
  claimed,     \* thread -> the number its launch took
  stage,       \* history: number -> new, live, over or told
  killed       \* history: the numbers cli_job_kill answered 0 for

slotVars   == <<evtOk, state, id, nextId>>
instVars   == <<line, cancel, killFlag, registered, thread>>
callerVars == <<pc, at, launching, claimed>>
vars       == <<slotVars, instVars, callerVars, stage, killed>>

SlotStates == {"FREE", "LAUNCHING", "RUNNING", "REAPING"}

(* A worker thread: no control block; created; polling for a cancel at the *)
(* top of a watch round; in the command; waiting for TX space; past the     *)
(* command; in cli_sleep; dispatched; unregistered; TX_COMPLETED.           *)
Dispatched   == {"top", "handler", "printing", "round", "asleep", "tail"}
ThreadStates == {"none", "ready", "epilogue", "over"} \cup Dispatched

LaunchSteps == {"prepare", "register", "create", "open"}
ReapSteps   == {"delete", "clear", "free"}
CallStates  == {"rest", "scan", "claim", "unid"} \cup LaunchSteps \cup ReapSteps

Init ==
  /\ evtOk \in [Slots -> BOOLEAN]
  /\ state = [s \in Slots |-> "FREE"]
  /\ id = [s \in Slots |-> 0]
  /\ line = [s \in Slots |-> 0]
  /\ cancel = [s \in Slots |-> FALSE]
  /\ killFlag = [s \in Slots |-> FALSE]
  /\ nextId = 1
  /\ registered = Consoles
  /\ thread = [s \in Slots |-> "none"]
  /\ pc = [t \in Threads |-> "rest"]
  /\ at = [t \in Threads |-> 0]
  /\ launching = [t \in Threads |-> FALSE]
  /\ claimed = [t \in Threads |-> 0]
  /\ stage = [k \in Ids |-> "new"]
  /\ killed = {}

-----------------------------------------------------------------------------
(* Commands.  A console runs one whenever it is not in the middle of        *)
(* another; a worker runs one as its job's command, or as the command its   *)
(* watch repeats.                                                           *)

MayCommand(t) == pc[t] = "rest" /\ (t \in Slots => thread[t] = "handler")

(* The thread states once the command of t is done or under way. *)
Commanded(t) == [s \in Slots |-> IF s = t THEN "round" ELSE thread[s]]

(* A line is submitted, or `jobs`: the table is scanned from slot 1. *)
StartReap(t) ==
  /\ MayCommand(t)
  /\ pc' = [pc EXCEPT ![t] = "scan"]
  /\ at' = [at EXCEPT ![t] = 1]
  /\ thread' = Commanded(t)
  /\ UNCHANGED <<slotVars, line, cancel, killFlag, registered, launching,
                 claimed, stage, killed>>

(* `cmd &`: only a console gets here, a worker runs its one segment. *)
StartLaunch(t) ==
  /\ t \in Consoles
  /\ pc[t] = "rest"
  /\ pc' = [pc EXCEPT ![t] = "scan"]
  /\ at' = [at EXCEPT ![t] = 1]
  /\ launching' = [launching EXCEPT ![t] = TRUE]
  /\ UNCHANGED <<slotVars, instVars, claimed, stage, killed>>

Killable(s, k) == state[s] = "RUNNING" /\ id[s] = k

Kill(t, k) ==
  /\ MayCommand(t)
  /\ \E s \in Slots :
       /\ Killable(s, k)
       /\ cancel' = [cancel EXCEPT ![s] = TRUE]
       /\ killFlag' = [killFlag EXCEPT ![s] = TRUE]
  /\ killed' = killed \cup {k}
  /\ thread' = Commanded(t)
  /\ UNCHANGED <<slotVars, line, registered, callerVars, stage>>

-----------------------------------------------------------------------------
(* Reaping: cli_jobs_reap. *)

FinishedByFlag(s) == state[s] = "RUNNING" /\ thread[s] \in {"epilogue", "over"}

Finished(s) == state[s] = "RUNNING" /\ thread[s] = "over"

(* To the next slot, or on to the claim, or back to the prompt. *)
Onward(t) ==
  IF at[t] < NSlots
    THEN /\ pc' = [pc EXCEPT ![t] = "scan"]
         /\ at' = [at EXCEPT ![t] = @ + 1]
         /\ UNCHANGED launching
    ELSE /\ pc' = [pc EXCEPT ![t] = IF launching[t] THEN "claim" ELSE "rest"]
         /\ at' = [at EXCEPT ![t] = 0]
         /\ launching' = [launching EXCEPT ![t] = FALSE]

ReapSkip(t) ==
  /\ pc[t] = "scan"
  /\ ~Finished(at[t])
  /\ Onward(t)
  /\ UNCHANGED <<slotVars, instVars, claimed, stage, killed>>

ReapClaim(t) ==
  /\ pc[t] = "scan"
  /\ Finished(at[t])
  /\ state' = [state EXCEPT ![at[t]] = "REAPING"]
  /\ pc' = [pc EXCEPT ![t] = "delete"]
  /\ UNCHANGED <<evtOk, id, nextId, instVars, at, launching, claimed, stage,
                 killed>>

(* cli_reg_remove: the table without the entry of s. *)
KeptEntry(s) == registered

Without(s) == registered \ {s}

(* Unregister once more, delete the thread, print "[id] Done". *)
ReapDelete(t) ==
  /\ pc[t] = "delete"
  /\ registered' = Without(at[t])
  /\ thread' = [thread EXCEPT ![at[t]] = "none"]
  /\ stage' = [k \in Ids |-> IF k = id[at[t]] THEN "told" ELSE stage[k]]
  /\ pc' = [pc EXCEPT ![t] = "clear"]
  /\ UNCHANGED <<slotVars, line, cancel, killFlag, at, launching, claimed,
                 killed>>

ReapClear(t) ==
  /\ pc[t] = "clear"
  /\ id' = [id EXCEPT ![at[t]] = 0]
  /\ pc' = [pc EXCEPT ![t] = "free"]
  /\ UNCHANGED <<evtOk, state, nextId, instVars, at, launching, claimed,
                 stage, killed>>

Freed(s) == [state EXCEPT ![s] = "FREE"]

ReapFree(t) ==
  /\ pc[t] = "free"
  /\ state' = Freed(at[t])
  /\ Onward(t)
  /\ UNCHANGED <<evtOk, id, nextId, instVars, claimed, stage, killed>>

-----------------------------------------------------------------------------
(* Launching: cli_job_launch after its reap. *)

Claimable(s) == state[s] = "FREE" /\ evtOk[s]

NextIdAfter == nextId + 1

Claim(t) ==
  /\ pc[t] = "claim"
  /\ nextId <= MaxJobs                                             \* bound
  /\ \E s \in Slots :
       /\ Claimable(s)
       /\ \A r \in Slots : Claimable(r) => s <= r
       /\ state' = [state EXCEPT ![s] = "LAUNCHING"]
       /\ at' = [at EXCEPT ![t] = s]
  /\ claimed' = [claimed EXCEPT ![t] = nextId]
  /\ nextId' = NextIdAfter
  /\ pc' = [pc EXCEPT ![t] = "prepare"]
  /\ UNCHANGED <<evtOk, id, instVars, launching, stage, killed>>

(* "too many background jobs"; past the bound every launch ends here. *)
NoSlot(t) ==
  /\ pc[t] = "claim"
  /\ nextId > MaxJobs \/ \A s \in Slots : ~Claimable(s)
  /\ pc' = [pc EXCEPT ![t] = "rest"]
  /\ UNCHANGED <<slotVars, instVars, at, launching, claimed, stage, killed>>

(* The event flags after cli_job_inst_reset: all cleared. *)
FlagAtLaunch(s) == FALSE

Prepare(t) ==
  /\ pc[t] = "prepare"
  /\ LET s == at[t]
     IN /\ id' = [id EXCEPT ![s] = claimed[t]]
        /\ line' = [line EXCEPT ![s] = claimed[t]]
        /\ cancel' = [cancel EXCEPT ![s] = FALSE]
        /\ killFlag' = [killFlag EXCEPT ![s] = FlagAtLaunch(s)]
  /\ pc' = [pc EXCEPT ![t] = "register"]
  /\ UNCHANGED <<evtOk, state, nextId, registered, thread, at, launching,
                 claimed, stage, killed>>

(* cli_reg_add: the thread is not in the table, and the table has room. *)
Registrable(s) == s \notin registered /\ Cardinality(registered) < MapMax

Register(t) ==
  /\ pc[t] = "register"
  /\ IF Registrable(at[t])
       THEN /\ registered' = registered \cup {at[t]}
            /\ pc' = [pc EXCEPT ![t] = "create"]
            /\ UNCHANGED state
       ELSE /\ state' = [state EXCEPT ![at[t]] = "FREE"]
            /\ pc' = [pc EXCEPT ![t] = "unid"]
            /\ UNCHANGED registered
  /\ UNCHANGED <<evtOk, id, nextId, line, cancel, killFlag, thread, at,
                 launching, claimed, stage, killed>>

(* tx_thread_create refuses a control block that is still in use. *)
Create(t) ==
  /\ pc[t] = "create"
  /\ IF thread[at[t]] = "none"
       THEN /\ thread' = [thread EXCEPT ![at[t]] = "ready"]
            /\ stage' = [stage EXCEPT ![claimed[t]] = "live"]
            /\ pc' = [pc EXCEPT ![t] = "open"]
            /\ UNCHANGED <<registered, state>>
       ELSE /\ registered' = Without(at[t])
            /\ state' = [state EXCEPT ![at[t]] = "FREE"]
            /\ pc' = [pc EXCEPT ![t] = "unid"]
            /\ UNCHANGED <<thread, stage>>
  /\ UNCHANGED <<evtOk, id, nextId, line, cancel, killFlag, at, launching,
                 claimed, killed>>

Open(t) ==
  /\ pc[t] = "open"
  /\ state' = [state EXCEPT ![at[t]] = "RUNNING"]
  /\ pc' = [pc EXCEPT ![t] = "rest"]
  /\ at' = [at EXCEPT ![t] = 0]
  /\ UNCHANGED <<evtOk, id, nextId, instVars, launching, claimed, stage,
                 killed>>

(* The rest of a failed launch: the slot is FREE before its id is 0. *)
Unid(t) ==
  /\ pc[t] = "unid"
  /\ id' = [id EXCEPT ![at[t]] = 0]
  /\ pc' = [pc EXCEPT ![t] = "rest"]
  /\ at' = [at EXCEPT ![t] = 0]
  /\ UNCHANGED <<evtOk, state, nextId, instVars, launching, claimed, stage,
                 killed>>

-----------------------------------------------------------------------------
(* The worker: cli_job_entry. *)

Watching(s) == line[s] \in Endless

PollsConsole(s) == FALSE

(* cli_cancel_poll in a worker: its sticky flag, never the console's RX. *)
CancelPoll(s) == cancel[s]

ClearedAtDispatch(s) == FALSE

(* What dispatching leaves of a cancel latched before it. *)
CancelAtDispatch(s) == cancel[s]

GoesTo(s, from, to) ==
  /\ thread[s] = from
  /\ pc[s] = "rest"
  /\ thread' = [thread EXCEPT ![s] = to]

Dispatch(s) ==
  /\ GoesTo(s, "ready", IF Watching(s) THEN "top" ELSE "handler")
  /\ cancel' = [cancel EXCEPT ![s] = CancelAtDispatch(s)]
  /\ UNCHANGED <<slotVars, line, killFlag, registered, callerVars, stage,
                 killed>>

(* The top of a round of watch. *)
Top(s) ==
  /\ GoesTo(s, "top", IF CancelPoll(s) THEN "tail" ELSE "handler")
  /\ UNCHANGED <<slotVars, line, cancel, killFlag, registered, callerVars,
                 stage, killed>>

(* A command that touches nothing here, or a kill that finds no job. *)
Compute(s) ==
  /\ GoesTo(s, "handler", "round")
  /\ UNCHANGED <<slotVars, line, cancel, killFlag, registered, callerVars,
                 stage, killed>>

(* Output: refused at once after a cancel; on a full transport the wait may *)
(* take CLI_EVT_KILL away, and only cancel_req still tells of the kill.     *)
Output(s) ==
  /\ ~cancel[s]
  /\ GoesTo(s, "handler", "printing")
  /\ UNCHANGED <<slotVars, line, cancel, killFlag, registered, callerVars,
                 stage, killed>>

OutputDone(s) ==
  /\ GoesTo(s, "printing", "handler")
  /\ \E waited \in BOOLEAN :
       killFlag' = [killFlag EXCEPT ![s] = @ /\ ~waited]
  /\ UNCHANGED <<slotVars, line, cancel, registered, callerVars, stage,
                 killed>>

(* The command is over: watch polls and sleeps, for no time with `-n 0`.    *)
(* Any other job is done, or was a sleep, which polls before it waits.      *)
Round(s) ==
  /\ \E next \in IF CancelPoll(s) THEN {"tail"}
                ELSE {"asleep", IF Watching(s) THEN "top" ELSE "tail"} :
       GoesTo(s, "round", next)
  /\ UNCHANGED <<slotVars, line, cancel, killFlag, registered, callerVars,
                 stage, killed>>

WokenByKill(s) ==
  /\ killFlag[s]
  /\ GoesTo(s, "asleep", "tail")
  /\ killFlag' = [killFlag EXCEPT ![s] = FALSE]
  /\ UNCHANGED <<slotVars, line, cancel, registered, callerVars, stage,
                 killed>>

SleptOut(s) ==
  /\ ~killFlag[s]
  /\ GoesTo(s, "asleep", IF Watching(s) THEN "top" ELSE "tail")
  /\ UNCHANGED <<slotVars, line, cancel, killFlag, registered, callerVars,
                 stage, killed>>

Unregister(s) ==
  /\ GoesTo(s, "tail", "epilogue")
  /\ registered' = Without(s)
  /\ UNCHANGED <<slotVars, line, cancel, killFlag, callerVars, stage, killed>>

(* The thread entry returns and ThreadX marks the thread TX_COMPLETED. *)
Complete(s) ==
  /\ GoesTo(s, "epilogue", "over")
  /\ stage' = [stage EXCEPT ![line[s]] = "over"]
  /\ UNCHANGED <<slotVars, line, cancel, killFlag, registered, callerVars,
                 killed>>

-----------------------------------------------------------------------------
CallStep(t) ==
  \/ ReapSkip(t) \/ ReapClaim(t) \/ ReapDelete(t) \/ ReapClear(t) \/ ReapFree(t)
  \/ Claim(t) \/ NoSlot(t) \/ Prepare(t) \/ Register(t) \/ Create(t)
  \/ Open(t) \/ Unid(t)

WorkerStep(s) ==
  \/ Dispatch(s) \/ Top(s) \/ Compute(s) \/ Output(s) \/ OutputDone(s)
  \/ Round(s) \/ WokenByKill(s) \/ SleptOut(s) \/ Unregister(s) \/ Complete(s)

Next ==
  \/ \E t \in Threads :
       \/ StartReap(t) \/ StartLaunch(t) \/ CallStep(t)
       \/ \E k \in Ids : Kill(t, k)
  \/ \E s \in Slots : WorkerStep(s)

Spec == Init /\ [][Next]_vars

(* A thread in a launch or a reap waits for nothing but space for a line of *)
(* output, and a worker runs whenever the consoles wait for input.          *)
Fairness ==
  /\ \A t \in Threads : WF_vars(CallStep(t))
  /\ \A s \in Slots : WF_vars(WorkerStep(s))

LiveSpec == Spec /\ Fairness

-----------------------------------------------------------------------------
TypeOK ==
  /\ evtOk \in [Slots -> BOOLEAN]
  /\ state \in [Slots -> SlotStates]
  /\ id \in [Slots -> 0 .. MaxJobs]
  /\ line \in [Slots -> 0 .. MaxJobs]
  /\ cancel \in [Slots -> BOOLEAN]
  /\ killFlag \in [Slots -> BOOLEAN]
  /\ nextId \in 1 .. MaxJobs + 1
  /\ registered \subseteq Threads
  /\ thread \in [Slots -> ThreadStates]
  /\ pc \in [Threads -> CallStates]
  /\ at \in [Threads -> 0 .. NSlots]
  /\ launching \in [Threads -> BOOLEAN]
  /\ claimed \in [Threads -> 0 .. MaxJobs]
  /\ stage \in [Ids -> {"new", "live", "over", "told"}]
  /\ killed \subseteq Ids

(* The threads in the middle of launching into s, or of reaping it. *)
Keepers(s) == {t \in Threads : /\ at[t] = s
                               /\ pc[t] \in LaunchSteps \cup ReapSteps}

(* cli_job.c:50-65.  A slot in LAUNCHING or REAPING is the work of exactly   *)
(* one thread, and nobody works on one that is FREE or RUNNING: not when two *)
(* consoles and a `jobs &` launch and reap at once.                          *)
OneKeeper ==
  \A s \in Slots :
    IF state[s] \in {"LAUNCHING", "REAPING"}
      THEN \E t \in Threads : Keepers(s) = {t}
      ELSE Keepers(s) = {}

(* cli_job.c:258-296.  A launch that claimed a slot starts its job: the      *)
(* thread registry has room and no entry of an earlier tenant, and the       *)
(* control block is free, so neither refusal of the launch ever runs.        *)
LaunchSucceeds == \A t \in Threads : pc[t] # "unid"

(* cli_job.c:75, 334.  The ids `jobs` shows and `kill` matches: of a running  *)
(* slot the number of the job whose command line it holds, and of no two.    *)
JobIdentity ==
  \A s \in Slots :
    state[s] = "RUNNING" =>
      /\ id[s] = line[s]
      /\ id[s] # 0
      /\ \A r \in Slots \ {s} : state[r] = "RUNNING" => id[r] # id[s]

(* cli_session.c:119-127, cli_job.c:131-138.  A job's cancel is latched      *)
(* exactly when a kill of that job succeeded: an early kill is not lost at   *)
(* dispatch, and none reaches a later tenant of the slot, as flag or event.  *)
KillExact ==
  \A s \in Slots :
    thread[s] # "none" =>
      /\ cancel[s] <=> line[s] \in killed
      /\ killFlag[s] => line[s] \in killed

(* cli_job.c:148-154, 265-269.  From its first step to its last printf a     *)
(* worker finds itself in the thread registry, and the registry holds no     *)
(* worker but those and the one about to be created.                         *)
PrintfRouted ==
  \A s \in Slots :
    s \in registered <=>
      \/ thread[s] \in {"ready"} \cup Dispatched
      \/ \E t \in Keepers(s) : pc[t] = "create"

Ledger == INSTANCE JobLedger WITH Ids <- Ids, Endless <- Endless,
                                   stage <- stage, killed <- killed

(* cli_job.c:9-35.  The pool keeps what JobLedger promises: one start and    *)
(* one notice per number, the notice after the end, kills only of jobs not   *)
(* yet announced, and a watch that ends only because it was killed.          *)
JobsAccounted == Ledger!Spec

(* cli_session.c:119-127.  A killed job ends, whatever its worker was doing  *)
(* when the kill came and even if its output wait took the event away.       *)
KilledEnds ==
  \A k \in Ids : (k \in killed /\ stage[k] = "live") ~> stage[k] # "live"

==============================================================================
