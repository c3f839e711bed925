--------------------------- MODULE ShellJobsProofs ---------------------------
(***************************************************************************)
(* Machine-checked proofs about the job pool, for any consoles, any number  *)
(* of slots, any size of the thread registry and any number of jobs.        *)
(*                                                                         *)
(* The inductive invariant has six parts: types; where each thread is in a  *)
(* launch or a reap; which slot it keeps; whose job a slot holds; what was  *)
(* killed; who is registered.  Each part is proved to be kept by a step     *)
(* taken where all of them hold.                                            *)
(***************************************************************************)
EXTENDS ShellJobs, FiniteSetTheorems, TLAPS

-----------------------------------------------------------------------------
(* A thread at rest or about to claim looks at no slot.  A worker only      *)
(* reaps, as the command of its own job, so its thread waits for that.      *)
Caller(t) ==
  /\ at[t] = 0 <=> pc[t] \in {"rest", "claim"}
  /\ t \in Slots =>
       /\ ~launching[t]
       /\ pc[t] # "rest" => /\ pc[t] \in {"scan"} \cup ReapSteps
                            /\ thread[t] = "round"

CallerInv == \A t \in Threads : Caller(t)

(* The thread keeps a slot: it is in the middle of launching or reaping it. *)
Keeps(t) == pc[t] \in LaunchSteps \cup ReapSteps

Keeper(t) ==
  /\ pc[t] \in LaunchSteps => state[at[t]] = "LAUNCHING"
  /\ pc[t] \in ReapSteps => state[at[t]] = "REAPING"
  /\ pc[t] \in LaunchSteps \ {"open"} => thread[at[t]] = "none"
  /\ pc[t] \in {"clear", "free"} => thread[at[t]] = "none"
  /\ pc[t] = "open" => thread[at[t]] # "none"
  /\ pc[t] = "delete" => thread[at[t]] = "over"

Kept(s) ==
  /\ state[s] \in {"LAUNCHING", "REAPING"} =>
       \E t \in Threads : Keeps(t) /\ at[t] = s
  /\ state[s] = "FREE" => thread[s] = "none"
  /\ state[s] = "RUNNING" => thread[s] # "none"

OneEach ==
  \A t, u \in Threads : Keeps(t) /\ Keeps(u) /\ at[t] = at[u] => t = u

KeepInv ==
  /\ \A t \in Threads : Keeper(t)
  /\ \A s \in Slots : Kept(s)
  /\ OneEach

(* A number is new until its thread is created, and each thread runs the    *)
(* command line of its own number; the id of its slot is that number, or 0. *)
Launches(t) == pc[t] \in {"prepare", "register", "create"}

Launch(t) ==
  /\ Launches(t) => /\ claimed[t] \in Ids
                    /\ claimed[t] < nextId
                    /\ stage[claimed[t]] = "new"
  /\ pc[t] \in {"register", "create"} => /\ line[at[t]] = claimed[t]
                                         /\ id[at[t]] \in {0, claimed[t]}

Tenant(s) ==
  thread[s] # "none" =>
    /\ line[s] \in Ids
    /\ stage[line[s]] = IF thread[s] = "over" THEN "over" ELSE "live"
    /\ id[s] \in {0, line[s]}

OwnLines ==
  \A s, r \in Slots :
    thread[s] # "none" /\ thread[r] # "none" /\ line[s] = line[r] => s = r

OwnNumbers ==
  \A t, u \in Threads :
    Launches(t) /\ Launches(u) /\ claimed[t] = claimed[u] => t = u

JobInv ==
  /\ \A t \in Threads : Launch(t)
  /\ \A s \in Slots : Tenant(s)
  /\ OwnLines
  /\ OwnNumbers
  /\ \A k \in Ids : k >= nextId => stage[k] = "new"

(* Only a job that runs is killed, its slot carries exactly its own kill,   *)
(* and a watch past its loop was killed.                                    *)
Fresh(t) ==
  pc[t] \in {"register", "create"} => ~cancel[at[t]] /\ ~killFlag[at[t]]

Killed(s) ==
  thread[s] # "none" =>
    /\ cancel[s] <=> line[s] \in killed
    /\ killFlag[s] => line[s] \in killed
    /\ thread[s] \in {"tail", "epilogue", "over"} /\ line[s] \in Endless =>
         line[s] \in killed

KillInv ==
  /\ \A k \in killed : stage[k] # "new"
  /\ \A t \in Threads : Fresh(t)
  /\ \A s \in Slots : Killed(s)

(* The registry holds the workers that may print, and the one whose thread  *)
(* is about to be created.                                                  *)
Prints(s) == thread[s] \in {"ready"} \cup Dispatched

RegInv ==
  /\ \A s \in Slots : Prints(s) => s \in registered
  /\ \A t \in Threads : pc[t] = "create" => at[t] \in registered
  /\ \A s \in Slots : s \in registered =>
       Prints(s) \/ \E t \in Threads : pc[t] = "create" /\ at[t] = s

(* With a registry of the default size, no launch is undone. *)
Numbered(t) ==
  /\ pc[t] # "unid"
  /\ pc[t] \in {"register", "create", "open"} => id[at[t]] = line[at[t]]

SizedInv ==
  RegistrySized =>
    /\ \A t \in Threads : Numbered(t)
    /\ \A s \in Slots : state[s] = "RUNNING" => id[s] = line[s]

Inductive ==
  TypeOK /\ CallerInv /\ KeepInv /\ JobInv /\ KillInv /\ RegInv /\ SizedInv

(* The names of the states, by kind. *)
LEMMA Names ==
  /\ {"rest", "scan", "claim", "unid"} \subseteq CallStates
  /\ {"prepare", "register", "create", "open"} \subseteq CallStates
  /\ {"delete", "clear", "free"} \subseteq CallStates
  /\ {"FREE", "LAUNCHING", "RUNNING", "REAPING"} \subseteq SlotStates
  /\ {"none", "ready", "epilogue", "over"} \subseteq ThreadStates
  /\ {"top", "handler", "printing", "round", "asleep", "tail"}
       \subseteq ThreadStates
  BY DEF CallStates, LaunchSteps, ReapSteps, SlotStates, ThreadStates,
         Dispatched

(* The bounds of the numbers a step assigns. *)
LEMMA Bounds ==
  /\ Slots \subseteq 0 .. NSlots /\ 0 \notin Slots
  /\ 0 \in 0 .. NSlots /\ 1 \in 0 .. NSlots
  /\ 0 \in 0 .. MaxJobs
  /\ \A n \in 1 .. MaxJobs + 1 :
       n <= MaxJobs => n \in 0 .. MaxJobs /\ n + 1 \in 1 .. MaxJobs + 1
  /\ \A n \in Slots : n < NSlots => n + 1 \in 0 .. NSlots /\ n + 1 # 0
  BY SizesAssumption DEF Slots

(* Going on from a slot leads to the next one, to the claim or to rest. *)
LEMMA OnwardFacts ==
  ASSUME TypeOK, NEW t \in Threads, at[t] \in Slots, Onward(t)
  PROVE  /\ pc' \in [Threads -> CallStates]
         /\ at' \in [Threads -> 0 .. NSlots]
         /\ launching' \in [Threads -> BOOLEAN]
         /\ pc'[t] \in {"scan", "claim", "rest"}
         /\ at'[t] = 0 <=> pc'[t] \in {"claim", "rest"}
         /\ ~launching[t] => pc'[t] # "claim" /\ ~launching'[t]
         /\ \A u \in Threads \ {t} : /\ pc'[u] = pc[u]
                                     /\ at'[u] = at[u]
                                     /\ launching'[u] = launching[u]
<1>1. CASE at[t] < NSlots
  BY <1>1, Bounds, Names DEF Onward, TypeOK
<1>2. CASE ~(at[t] < NSlots)
  <2>1. pc' = [pc EXCEPT ![t] = IF launching[t] THEN "claim" ELSE "rest"]
    BY <1>2 DEF Onward
  <2>2. /\ at' = [at EXCEPT ![t] = 0]
        /\ launching' = [launching EXCEPT ![t] = FALSE]
    BY <1>2 DEF Onward
  <2> QED
    BY <2>1, <2>2, Bounds, Names DEF TypeOK
<1> QED
  BY <1>1, <1>2

(* A thread that is neither at rest nor about to claim is at a slot. *)
LEMMA AtSlot ==
  ASSUME TypeOK, CallerInv, NEW t \in Threads, pc[t] \notin {"rest", "claim"}
  PROVE  at[t] \in Slots /\ at[t] \in Threads
  BY SizesAssumption DEF TypeOK, CallerInv, Caller, Slots, Threads

(* Every step assigns values of the right type.                             *)
LEMMA StepTypes == TypeOK /\ CallerInv /\ [Next]_vars => TypeOK'
<1> SUFFICES ASSUME TypeOK, CallerInv, [Next]_vars PROVE TypeOK'
  OBVIOUS
<1> USE DEF TypeOK
<1>1. ASSUME NEW t \in Threads, StartReap(t) PROVE TypeOK'
  BY <1>1, Names, Bounds, AtSlot
  DEF StartReap, MayCommand, Commanded, slotVars, instVars, callerVars
<1>2. ASSUME NEW t \in Threads, StartLaunch(t) PROVE TypeOK'
  BY <1>2, Names, Bounds
  DEF StartLaunch, slotVars, instVars, callerVars
<1>3. ASSUME NEW t \in Threads, NEW k \in Ids, Kill(t, k) PROVE TypeOK'
  BY <1>3, Names, Bounds, AtSlot
  DEF Kill, MayCommand, Commanded, Killable, slotVars, instVars, callerVars
<1>4. ASSUME NEW t \in Threads, ReapSkip(t) PROVE TypeOK'
  BY <1>4, Names, Bounds, AtSlot, OnwardFacts
  DEF ReapSkip, Finished, slotVars, instVars, callerVars
<1>5. ASSUME NEW t \in Threads, ReapClaim(t) PROVE TypeOK'
  BY <1>5, Names, Bounds, AtSlot
  DEF ReapClaim, Finished, slotVars, instVars, callerVars
<1>6. ASSUME NEW t \in Threads, ReapDelete(t) PROVE TypeOK'
  BY <1>6, Names, Bounds, AtSlot
  DEF ReapDelete, Without, slotVars, instVars, callerVars
<1>7. ASSUME NEW t \in Threads, ReapClear(t) PROVE TypeOK'
  BY <1>7, Names, Bounds, AtSlot
  DEF ReapClear, slotVars, instVars, callerVars
<1>8. ASSUME NEW t \in Threads, ReapFree(t) PROVE TypeOK'
  BY <1>8, Names, Bounds, AtSlot, OnwardFacts
  DEF ReapFree, Freed, slotVars, instVars, callerVars
<1>9. ASSUME NEW t \in Threads, Claim(t) PROVE TypeOK'
  BY <1>9, Names, Bounds
  DEF Claim, Claimable, NextIdAfter, slotVars, instVars, callerVars
<1>10. ASSUME NEW t \in Threads, NoSlot(t) PROVE TypeOK'
  BY <1>10, Names, Bounds
  DEF NoSlot, Claimable, slotVars, instVars, callerVars
<1>11. ASSUME NEW t \in Threads, Prepare(t) PROVE TypeOK'
  BY <1>11, Names, Bounds, AtSlot
  DEF Prepare, FlagAtLaunch, slotVars, instVars, callerVars
<1>12. ASSUME NEW t \in Threads, Register(t) PROVE TypeOK'
  BY <1>12, Names, Bounds, AtSlot
  DEF Register, Registrable, slotVars, instVars, callerVars
<1>13. ASSUME NEW t \in Threads, Create(t) PROVE TypeOK'
  BY <1>13, Names, Bounds, AtSlot
  DEF Create, Without, slotVars, instVars, callerVars
<1>14. ASSUME NEW t \in Threads, Open(t) PROVE TypeOK'
  BY <1>14, Names, Bounds, AtSlot
  DEF Open, slotVars, instVars, callerVars
<1>15. ASSUME NEW t \in Threads, Unid(t) PROVE TypeOK'
  BY <1>15, Names, Bounds, AtSlot
  DEF Unid, slotVars, instVars, callerVars
<1>16. ASSUME NEW s \in Slots, Dispatch(s) PROVE TypeOK'
  BY <1>16, Names, Bounds
  DEF Dispatch, GoesTo, CancelAtDispatch, Watching, slotVars, instVars,
      callerVars
<1>17. ASSUME NEW s \in Slots, Top(s) PROVE TypeOK'
  BY <1>17, Names, Bounds
  DEF Top, GoesTo, CancelPoll, slotVars, instVars, callerVars
<1>18. ASSUME NEW s \in Slots, Compute(s) PROVE TypeOK'
  BY <1>18, Names, Bounds
  DEF Compute, GoesTo, slotVars, instVars, callerVars
<1>19. ASSUME NEW s \in Slots, Output(s) PROVE TypeOK'
  BY <1>19, Names, Bounds
  DEF Output, GoesTo, slotVars, instVars, callerVars
<1>20. ASSUME NEW s \in Slots, OutputDone(s) PROVE TypeOK'
  BY <1>20, Names, Bounds
  DEF OutputDone, GoesTo, slotVars, instVars, callerVars
<1>21. ASSUME NEW s \in Slots, Round(s) PROVE TypeOK'
  BY <1>21, Names, Bounds
  DEF Round, GoesTo, CancelPoll, Watching, slotVars, instVars, callerVars
<1>22. ASSUME NEW s \in Slots, WokenByKill(s) PROVE TypeOK'
  BY <1>22, Names, Bounds
  DEF WokenByKill, GoesTo, slotVars, instVars, callerVars
<1>23. ASSUME NEW s \in Slots, SleptOut(s) PROVE TypeOK'
  BY <1>23, Names, Bounds
  DEF SleptOut, GoesTo, Watching, slotVars, instVars, callerVars
<1>24. ASSUME NEW s \in Slots, Unregister(s) PROVE TypeOK'
  BY <1>24, Names, Bounds
  DEF Unregister, GoesTo, Without, slotVars, instVars, callerVars
<1>25. ASSUME NEW s \in Slots, Complete(s) PROVE TypeOK'
  BY <1>25, Names, Bounds
  DEF Complete, GoesTo, slotVars, instVars, callerVars
<1>26. CASE UNCHANGED vars
  BY <1>26 DEF vars, slotVars, instVars, callerVars
<1> QED
  BY <1>1, <1>2, <1>3, <1>4, <1>5, <1>6, <1>7, <1>8, <1>9, <1>10, <1>11,
     <1>12, <1>13, <1>14, <1>15, <1>16, <1>17, <1>18, <1>19, <1>20, <1>21,
     <1>22, <1>23, <1>24, <1>25, <1>26
  DEF Next, CallStep, WorkerStep

(* A registry with an entry for every thread has one for a thread that is   *)
(* not in it: a launch that prepared a slot can register it.                *)
LEMMA RegistryRoom ==
  ASSUME TypeOK, CallerInv, KeepInv, RegInv, RegistrySized,
         NEW t \in Threads, pc[t] = "register"
  PROVE  Registrable(at[t])
<1> DEFINE s == at[t]
<1>1. s \in Slots /\ thread[s] = "none"
  BY AtSlot DEF KeepInv, Keeper, LaunchSteps
<1>2. s \notin registered
  BY <1>1 DEF RegInv, Prints, Dispatched, KeepInv, OneEach, Keeps, LaunchSteps
<1>3. IsFiniteSet(Slots) /\ Cardinality(Slots) = NSlots
  BY SizesAssumption, FS_Interval DEF Slots
<1>4. /\ IsFiniteSet(Threads)
      /\ Cardinality(Threads) = Cardinality(Consoles) + NSlots
  <2>1. Cardinality(Consoles \cap Slots) = 0
    BY ConsolesAssumption, FS_EmptySet
  <2>2. Cardinality(Consoles) \in Nat
    BY ConsolesAssumption, FS_CardinalityType
  <2> QED
    BY <1>3, <2>1, <2>2, ConsolesAssumption, SizesAssumption, FS_Union
    DEF Threads
<1>5. IsFiniteSet(registered) /\ registered \cup {s} \subseteq Threads
  BY <1>1, <1>4, FS_Subset DEF TypeOK, Threads
<1>6. Cardinality(registered \cup {s}) = Cardinality(registered) + 1
  BY <1>2, <1>5, FS_AddElement
<1>7. Cardinality(registered \cup {s}) <= Cardinality(Threads)
  BY <1>4, <1>5, FS_Subset
<1>8. Cardinality(registered) \in Nat /\ Cardinality(Threads) \in Nat
  BY <1>4, <1>5, FS_CardinalityType
<1> QED
  BY <1>2, <1>4, <1>6, <1>7, <1>8, SizesAssumption
  DEF Registrable, RegistrySized

(* A thread goes from one step of its launch or reap to the next, and the   *)
(* command of a worker keeps its thread where it is.                        *)
LEMMA StepCallers ==
  TypeOK /\ CallerInv /\ KeepInv /\ [Next]_vars
    => CallerInv'
<1> SUFFICES ASSUME TypeOK, CallerInv, KeepInv, [Next]_vars PROVE CallerInv'
  OBVIOUS
<1> USE ConsolesAssumption
        DEF TypeOK, LaunchSteps, ReapSteps, CallerInv, Caller, KeepInv,
            Keeper, Threads
<1>1. ASSUME NEW t \in Threads, StartReap(t) PROVE CallerInv'
  BY <1>1, Bounds, AtSlot
  DEF StartReap, MayCommand, Commanded, slotVars, instVars, callerVars
<1>2. ASSUME NEW t \in Threads, StartLaunch(t) PROVE CallerInv'
  BY <1>2, Bounds
  DEF StartLaunch, slotVars, instVars, callerVars
<1>3. ASSUME NEW t \in Threads, NEW k \in Ids, Kill(t, k) PROVE CallerInv'
  BY <1>3, Bounds, AtSlot
  DEF Kill, MayCommand, Commanded, Killable, slotVars, instVars, callerVars
<1>4. ASSUME NEW t \in Threads, ReapSkip(t) PROVE CallerInv'
  <2> SUFFICES ASSUME NEW u \in Threads PROVE Caller(u)'
    BY DEF CallerInv
  <2>1. CASE u = t
    BY <1>4, <2>1, Bounds, AtSlot, OnwardFacts
    DEF ReapSkip, Finished, slotVars, instVars
  <2>2. CASE u # t
    BY <1>4, <2>2, Bounds, AtSlot, OnwardFacts
    DEF ReapSkip, Finished, slotVars, instVars
  <2> QED
    BY <2>1, <2>2
<1>5. ASSUME NEW t \in Threads, ReapClaim(t) PROVE CallerInv'
  BY <1>5, Bounds, AtSlot
  DEF ReapClaim, Finished, slotVars, instVars, callerVars
<1>6. ASSUME NEW t \in Threads, ReapDelete(t) PROVE CallerInv'
  BY <1>6, Bounds, AtSlot
  DEF ReapDelete, Without, slotVars, instVars, callerVars
<1>7. ASSUME NEW t \in Threads, ReapClear(t) PROVE CallerInv'
  BY <1>7, Bounds, AtSlot
  DEF ReapClear, slotVars, instVars, callerVars
<1>8. ASSUME NEW t \in Threads, ReapFree(t) PROVE CallerInv'
  <2> SUFFICES ASSUME NEW u \in Threads PROVE Caller(u)'
    BY DEF CallerInv
  <2>1. CASE u = t
    BY <1>8, <2>1, Bounds, AtSlot, OnwardFacts
    DEF ReapFree, Freed, slotVars, instVars
  <2>2. CASE u # t
    BY <1>8, <2>2, Bounds, AtSlot, OnwardFacts
    DEF ReapFree, Freed, slotVars, instVars
  <2> QED
    BY <2>1, <2>2
<1>9. ASSUME NEW t \in Threads, Claim(t) PROVE CallerInv'
  <2> SUFFICES ASSUME NEW u \in Threads PROVE Caller(u)'
    BY DEF CallerInv
  <2>1. CASE u = t
    BY <1>9, <2>1, Bounds, AtSlot, OnwardFacts
    DEF Claim, Claimable, NextIdAfter, slotVars, instVars
  <2>2. CASE u # t
    BY <1>9, <2>2, Bounds, AtSlot, OnwardFacts
    DEF Claim, Claimable, NextIdAfter, slotVars, instVars
  <2> QED
    BY <2>1, <2>2
<1>10. ASSUME NEW t \in Threads, NoSlot(t) PROVE CallerInv'
  BY <1>10, Bounds
  DEF NoSlot, Claimable, slotVars, instVars, callerVars
<1>11. ASSUME NEW t \in Threads, Prepare(t) PROVE CallerInv'
  BY <1>11, Bounds, AtSlot
  DEF Prepare, FlagAtLaunch, slotVars, instVars, callerVars
<1>12. ASSUME NEW t \in Threads, Register(t) PROVE CallerInv'
  BY <1>12, Bounds, AtSlot
  DEF Register, Registrable, slotVars, instVars, callerVars
<1>13. ASSUME NEW t \in Threads, Create(t) PROVE CallerInv'
  <2> SUFFICES ASSUME NEW u \in Threads PROVE Caller(u)'
    BY DEF CallerInv
  <2>1. CASE u = t
    BY <1>13, <2>1, Bounds, AtSlot, OnwardFacts
    DEF Create, Without, slotVars, instVars
  <2>2. CASE u # t
    <3>1. pc'[u] = pc[u] /\ at'[u] = at[u] /\ launching'[u] = launching[u]
      BY <1>13, <2>2 DEF Create
    <3>2. u \in Slots /\ thread[u] = "round" => thread'[u] = "round"
      BY <1>13 DEF Create
    <3> QED
      BY <3>1, <3>2
  <2> QED
    BY <2>1, <2>2
<1>14. ASSUME NEW t \in Threads, Open(t) PROVE CallerInv'
  BY <1>14, Bounds, AtSlot
  DEF Open, slotVars, instVars, callerVars
<1>15. ASSUME NEW t \in Threads, Unid(t) PROVE CallerInv'
  BY <1>15, Bounds, AtSlot
  DEF Unid, slotVars, instVars, callerVars
<1>16. ASSUME NEW s \in Slots, Dispatch(s) PROVE CallerInv'
  BY <1>16, Bounds
  DEF Dispatch, GoesTo, CancelAtDispatch, Watching, slotVars, instVars,
      callerVars
<1>17. ASSUME NEW s \in Slots, Top(s) PROVE CallerInv'
  BY <1>17, Bounds
  DEF Top, GoesTo, CancelPoll, slotVars, instVars, callerVars
<1>18. ASSUME NEW s \in Slots, Compute(s) PROVE CallerInv'
  BY <1>18, Bounds
  DEF Compute, GoesTo, slotVars, instVars, callerVars
<1>19. ASSUME NEW s \in Slots, Output(s) PROVE CallerInv'
  BY <1>19, Bounds
  DEF Output, GoesTo, slotVars, instVars, callerVars
<1>20. ASSUME NEW s \in Slots, OutputDone(s) PROVE CallerInv'
  BY <1>20, Bounds
  DEF OutputDone, GoesTo, slotVars, instVars, callerVars
<1>21. ASSUME NEW s \in Slots, Round(s) PROVE CallerInv'
  BY <1>21, Bounds
  DEF Round, GoesTo, CancelPoll, Watching, slotVars, instVars, callerVars
<1>22. ASSUME NEW s \in Slots, WokenByKill(s) PROVE CallerInv'
  BY <1>22, Bounds
  DEF WokenByKill, GoesTo, slotVars, instVars, callerVars
<1>23. ASSUME NEW s \in Slots, SleptOut(s) PROVE CallerInv'
  BY <1>23, Bounds
  DEF SleptOut, GoesTo, Watching, slotVars, instVars, callerVars
<1>24. ASSUME NEW s \in Slots, Unregister(s) PROVE CallerInv'
  BY <1>24, Bounds
  DEF Unregister, GoesTo, Without, slotVars, instVars, callerVars
<1>25. ASSUME NEW s \in Slots, Complete(s) PROVE CallerInv'
  BY <1>25, Bounds
  DEF Complete, GoesTo, slotVars, instVars, callerVars
<1>26. CASE UNCHANGED vars
  BY <1>26 DEF vars, slotVars, instVars, callerVars
<1> QED
  BY <1>1, <1>2, <1>3, <1>4, <1>5, <1>6, <1>7, <1>8, <1>9, <1>10, <1>11,
     <1>12, <1>13, <1>14, <1>15, <1>16, <1>17, <1>18, <1>19, <1>20, <1>21,
     <1>22, <1>23, <1>24, <1>25, <1>26
  DEF Next, CallStep, WorkerStep

(* A thread takes a slot only when nobody keeps it, and leaves it FREE with *)
(* no thread or RUNNING with one.                                           *)
LEMMA StepKeeps == TypeOK /\ CallerInv /\ KeepInv /\ [Next]_vars => KeepInv'
<1> SUFFICES ASSUME TypeOK, CallerInv, KeepInv, [Next]_vars PROVE KeepInv'
  OBVIOUS
<1> USE DEF TypeOK, LaunchSteps, ReapSteps, KeepInv, Keeper, Kept, OneEach,
        Keeps, Dispatched
<1>1. ASSUME NEW t \in Threads, StartReap(t) PROVE KeepInv'
  BY <1>1, AtSlot
  DEF StartReap, MayCommand, Commanded, slotVars, instVars, callerVars
<1>2. ASSUME NEW t \in Threads, StartLaunch(t) PROVE KeepInv'
  BY <1>2
  DEF StartLaunch, slotVars, instVars, callerVars
<1>3. ASSUME NEW t \in Threads, NEW k \in Ids, Kill(t, k) PROVE KeepInv'
  BY <1>3, AtSlot
  DEF Kill, MayCommand, Commanded, Killable, slotVars, instVars, callerVars
<1>4. ASSUME NEW t \in Threads, ReapSkip(t) PROVE KeepInv'
  BY <1>4, AtSlot, OnwardFacts
  DEF ReapSkip, Finished, slotVars, instVars, callerVars
<1>5. ASSUME NEW t \in Threads, ReapClaim(t) PROVE KeepInv'
  BY <1>5, AtSlot
  DEF ReapClaim, Finished, slotVars, instVars, callerVars
<1>6. ASSUME NEW t \in Threads, ReapDelete(t) PROVE KeepInv'
  BY <1>6, AtSlot
  DEF ReapDelete, Without, slotVars, instVars, callerVars
<1>7. ASSUME NEW t \in Threads, ReapClear(t) PROVE KeepInv'
  BY <1>7, AtSlot
  DEF ReapClear, slotVars, instVars, callerVars
<1>8. ASSUME NEW t \in Threads, ReapFree(t) PROVE KeepInv'
  BY <1>8, AtSlot, OnwardFacts
  DEF ReapFree, Freed, slotVars, instVars, callerVars
<1>9. ASSUME NEW t \in Threads, Claim(t) PROVE KeepInv'
  BY <1>9
  DEF Claim, Claimable, NextIdAfter, slotVars, instVars, callerVars
<1>10. ASSUME NEW t \in Threads, NoSlot(t) PROVE KeepInv'
  BY <1>10
  DEF NoSlot, Claimable, slotVars, instVars, callerVars
<1>11. ASSUME NEW t \in Threads, Prepare(t) PROVE KeepInv'
  BY <1>11, AtSlot
  DEF Prepare, FlagAtLaunch, slotVars, instVars, callerVars
<1>12. ASSUME NEW t \in Threads, Register(t) PROVE KeepInv'
  BY <1>12, AtSlot
  DEF Register, Registrable, slotVars, instVars, callerVars
<1>13. ASSUME NEW t \in Threads, Create(t) PROVE KeepInv'
  BY <1>13, AtSlot
  DEF Create, Without, slotVars, instVars, callerVars
<1>14. ASSUME NEW t \in Threads, Open(t) PROVE KeepInv'
  BY <1>14, AtSlot
  DEF Open, slotVars, instVars, callerVars
<1>15. ASSUME NEW t \in Threads, Unid(t) PROVE KeepInv'
  BY <1>15, AtSlot
  DEF Unid, slotVars, instVars, callerVars
<1>16. ASSUME NEW s \in Slots, Dispatch(s) PROVE KeepInv'
  BY <1>16
  DEF Dispatch, GoesTo, CancelAtDispatch, Watching, slotVars, instVars,
      callerVars
<1>17. ASSUME NEW s \in Slots, Top(s) PROVE KeepInv'
  BY <1>17
  DEF Top, GoesTo, CancelPoll, slotVars, instVars, callerVars
<1>18. ASSUME NEW s \in Slots, Compute(s) PROVE KeepInv'
  BY <1>18
  DEF Compute, GoesTo, slotVars, instVars, callerVars
<1>19. ASSUME NEW s \in Slots, Output(s) PROVE KeepInv'
  BY <1>19
  DEF Output, GoesTo, slotVars, instVars, callerVars
<1>20. ASSUME NEW s \in Slots, OutputDone(s) PROVE KeepInv'
  BY <1>20
  DEF OutputDone, GoesTo, slotVars, instVars, callerVars
<1>21. ASSUME NEW s \in Slots, Round(s) PROVE KeepInv'
  BY <1>21
  DEF Round, GoesTo, CancelPoll, Watching, slotVars, instVars, callerVars
<1>22. ASSUME NEW s \in Slots, WokenByKill(s) PROVE KeepInv'
  BY <1>22
  DEF WokenByKill, GoesTo, slotVars, instVars, callerVars
<1>23. ASSUME NEW s \in Slots, SleptOut(s) PROVE KeepInv'
  BY <1>23
  DEF SleptOut, GoesTo, Watching, slotVars, instVars, callerVars
<1>24. ASSUME NEW s \in Slots, Unregister(s) PROVE KeepInv'
  BY <1>24
  DEF Unregister, GoesTo, Without, slotVars, instVars, callerVars
<1>25. ASSUME NEW s \in Slots, Complete(s) PROVE KeepInv'
  BY <1>25
  DEF Complete, GoesTo, slotVars, instVars, callerVars
<1>26. CASE UNCHANGED vars
  BY <1>26 DEF vars, slotVars, instVars, callerVars
<1> QED
  BY <1>1, <1>2, <1>3, <1>4, <1>5, <1>6, <1>7, <1>8, <1>9, <1>10, <1>11,
     <1>12, <1>13, <1>14, <1>15, <1>16, <1>17, <1>18, <1>19, <1>20, <1>21,
     <1>22, <1>23, <1>24, <1>25, <1>26
  DEF Next, CallStep, WorkerStep

(* A number is claimed once, goes with the command line into one slot, and  *)
(* is started, ended and announced with that slot's thread.                 *)
LEMMA StepJobs ==
  TypeOK /\ CallerInv /\ KeepInv /\ JobInv /\ [Next]_vars
    => JobInv'
<1> SUFFICES ASSUME TypeOK, CallerInv, KeepInv, JobInv, [Next]_vars
             PROVE  JobInv'
  OBVIOUS
<1> USE DEF TypeOK, LaunchSteps, ReapSteps, KeepInv, Keeper, Kept, OneEach,
        Keeps, Dispatched, JobInv, Launch, Launches, Tenant, OwnLines,
        OwnNumbers
<1>1. ASSUME NEW t \in Threads, StartReap(t) PROVE JobInv'
  BY <1>1, AtSlot
  DEF StartReap, MayCommand, Commanded, slotVars, instVars, callerVars
<1>2. ASSUME NEW t \in Threads, StartLaunch(t) PROVE JobInv'
  BY <1>2
  DEF StartLaunch, slotVars, instVars, callerVars
<1>3. ASSUME NEW t \in Threads, NEW k \in Ids, Kill(t, k) PROVE JobInv'
  BY <1>3, AtSlot
  DEF Kill, MayCommand, Commanded, Killable, slotVars, instVars, callerVars
<1>4. ASSUME NEW t \in Threads, ReapSkip(t) PROVE JobInv'
  BY <1>4, AtSlot, OnwardFacts
  DEF ReapSkip, Finished, slotVars, instVars, callerVars
<1>5. ASSUME NEW t \in Threads, ReapClaim(t) PROVE JobInv'
  BY <1>5, AtSlot
  DEF ReapClaim, Finished, slotVars, instVars, callerVars
<1>6. ASSUME NEW t \in Threads, ReapDelete(t) PROVE JobInv'
  <2> DEFINE s == at[t]
  <2>1. s \in Slots /\ thread[s] = "over" /\ line[s] \in Ids
    BY <1>6, AtSlot DEF ReapDelete
  <2>2. stage[line[s]] = "over" /\ id[s] \in {0, line[s]}
    BY <2>1
  <2>3. \A k \in Ids : k # line[s] => stage'[k] = stage[k]
    BY <1>6, <2>2 DEF ReapDelete, Ids
  <2>4. \A k \in Ids : stage[k] = "new" => stage'[k] = "new"
    BY <2>2, <2>3
  <2>5. thread' = [thread EXCEPT ![s] = "none"]
        /\ UNCHANGED <<line, id, nextId, claimed, at>>
    BY <1>6 DEF ReapDelete, slotVars
  <2>6. pc' = [pc EXCEPT ![t] = "clear"]
    BY <1>6 DEF ReapDelete
  <2>7. \A u \in Threads : Launch(u)'
    BY <2>4, <2>5, <2>6
  <2>8. \A r \in Slots : Tenant(r)'
    BY <2>1, <2>3, <2>5
  <2>9. OwnLines'
    BY <2>1, <2>5
  <2>10. OwnNumbers'
    BY <2>5, <2>6
  <2>11. \A k \in Ids : k >= nextId' => stage'[k] = "new"
    BY <2>4, <2>5
  <2> QED
    BY <2>7, <2>8, <2>9, <2>10, <2>11
<1>7. ASSUME NEW t \in Threads, ReapClear(t) PROVE JobInv'
  BY <1>7, AtSlot
  DEF ReapClear, slotVars, instVars, callerVars
<1>8. ASSUME NEW t \in Threads, ReapFree(t) PROVE JobInv'
  BY <1>8, AtSlot, OnwardFacts
  DEF ReapFree, Freed, slotVars, instVars, callerVars
<1>9. ASSUME NEW t \in Threads, Claim(t) PROVE JobInv'
  <2>1. nextId \in Ids /\ stage[nextId] = "new" /\ nextId' = nextId + 1
    BY <1>9 DEF Claim, NextIdAfter, Ids
  <2>2. /\ pc[t] = "claim"
        /\ pc' = [pc EXCEPT ![t] = "prepare"]
        /\ claimed' = [claimed EXCEPT ![t] = nextId]
        /\ \A u \in Threads \ {t} : at'[u] = at[u]
        /\ UNCHANGED <<id, line, thread, stage>>
    BY <1>9 DEF Claim, instVars
  <2>3. \A u \in Threads : claimed[u] \in Nat
    BY Bounds DEF Slots
  <2>4. \A u \in Threads : Launch(u)'
    BY <2>1, <2>2, <2>3 DEF Ids
  <2>5. OwnNumbers'
    BY <2>1, <2>2, <2>3 DEF Ids
  <2>6. (\A r \in Slots : Tenant(r)') /\ OwnLines'
    BY <2>2
  <2>7. \A k \in Ids : k >= nextId' => stage'[k] = "new"
    BY <2>1, <2>2 DEF Ids
  <2> QED
    BY <2>4, <2>5, <2>6, <2>7
<1>10. ASSUME NEW t \in Threads, NoSlot(t) PROVE JobInv'
  BY <1>10
  DEF NoSlot, Claimable, slotVars, instVars, callerVars
<1>11. ASSUME NEW t \in Threads, Prepare(t) PROVE JobInv'
  BY <1>11, AtSlot
  DEF Prepare, FlagAtLaunch, slotVars, instVars, callerVars
<1>12. ASSUME NEW t \in Threads, Register(t) PROVE JobInv'
  BY <1>12, AtSlot
  DEF Register, Registrable, slotVars, instVars, callerVars
<1>13. ASSUME NEW t \in Threads, Create(t) PROVE JobInv'
  BY <1>13, AtSlot
  DEF Create, Without, slotVars, instVars, callerVars
<1>14. ASSUME NEW t \in Threads, Open(t) PROVE JobInv'
  BY <1>14, AtSlot
  DEF Open, slotVars, instVars, callerVars
<1>15. ASSUME NEW t \in Threads, Unid(t) PROVE JobInv'
  BY <1>15, AtSlot
  DEF Unid, slotVars, instVars, callerVars
<1>16. ASSUME NEW s \in Slots, Dispatch(s) PROVE JobInv'
  BY <1>16
  DEF Dispatch, GoesTo, CancelAtDispatch, Watching, slotVars, instVars,
      callerVars
<1>17. ASSUME NEW s \in Slots, Top(s) PROVE JobInv'
  BY <1>17
  DEF Top, GoesTo, CancelPoll, slotVars, instVars, callerVars
<1>18. ASSUME NEW s \in Slots, Compute(s) PROVE JobInv'
  BY <1>18
  DEF Compute, GoesTo, slotVars, instVars, callerVars
<1>19. ASSUME NEW s \in Slots, Output(s) PROVE JobInv'
  BY <1>19
  DEF Output, GoesTo, slotVars, instVars, callerVars
<1>20. ASSUME NEW s \in Slots, OutputDone(s) PROVE JobInv'
  BY <1>20
  DEF OutputDone, GoesTo, slotVars, instVars, callerVars
<1>21. ASSUME NEW s \in Slots, Round(s) PROVE JobInv'
  BY <1>21
  DEF Round, GoesTo, CancelPoll, Watching, slotVars, instVars, callerVars
<1>22. ASSUME NEW s \in Slots, WokenByKill(s) PROVE JobInv'
  BY <1>22
  DEF WokenByKill, GoesTo, slotVars, instVars, callerVars
<1>23. ASSUME NEW s \in Slots, SleptOut(s) PROVE JobInv'
  BY <1>23
  DEF SleptOut, GoesTo, Watching, slotVars, instVars, callerVars
<1>24. ASSUME NEW s \in Slots, Unregister(s) PROVE JobInv'
  BY <1>24
  DEF Unregister, GoesTo, Without, slotVars, instVars, callerVars
<1>25. ASSUME NEW s \in Slots, Complete(s) PROVE JobInv'
  BY <1>25
  DEF Complete, GoesTo, slotVars, instVars, callerVars
<1>26. CASE UNCHANGED vars
  BY <1>26 DEF vars, slotVars, instVars, callerVars
<1> QED
  BY <1>1, <1>2, <1>3, <1>4, <1>5, <1>6, <1>7, <1>8, <1>9, <1>10, <1>11,
     <1>12, <1>13, <1>14, <1>15, <1>16, <1>17, <1>18, <1>19, <1>20, <1>21,
     <1>22, <1>23, <1>24, <1>25, <1>26
  DEF Next, CallStep, WorkerStep

(* A kill marks the slot of the job it names and no other, and a new tenant *)
(* starts without a mark.                                                   *)
LEMMA StepKills ==
  TypeOK /\ CallerInv /\ KeepInv /\ JobInv /\ KillInv /\ [Next]_vars
    => KillInv'
<1> SUFFICES ASSUME TypeOK, CallerInv, KeepInv, JobInv, KillInv, [Next]_vars
             PROVE  KillInv'
  OBVIOUS
<1> USE DEF TypeOK, LaunchSteps, ReapSteps, KeepInv, Keeper, Kept, OneEach,
        Keeps, Dispatched, JobInv, Launch, Launches, Tenant, OwnLines,
        KillInv, Killed, Fresh
<1>1. ASSUME NEW t \in Threads, StartReap(t) PROVE KillInv'
  BY <1>1, AtSlot
  DEF StartReap, MayCommand, Commanded, slotVars, instVars, callerVars
<1>2. ASSUME NEW t \in Threads, StartLaunch(t) PROVE KillInv'
  BY <1>2
  DEF StartLaunch, slotVars, instVars, callerVars
<1>3. ASSUME NEW t \in Threads, NEW k \in Ids, Kill(t, k) PROVE KillInv'
  <2>1. PICK s \in Slots :
          /\ Killable(s, k)
          /\ cancel' = [cancel EXCEPT ![s] = TRUE]
          /\ killFlag' = [killFlag EXCEPT ![s] = TRUE]
    BY <1>3 DEF Kill
  <2>2. k # 0
    BY DEF Ids
  <2>3. thread[s] # "none" /\ line[s] = k /\ stage[k] # "new"
    BY <2>1, <2>2 DEF Killable
  <2>4. /\ killed' = killed \cup {k}
        /\ thread' = Commanded(t)
        /\ MayCommand(t)
        /\ UNCHANGED <<line, stage, pc, at, state>>
    BY <1>3 DEF Kill, slotVars, callerVars
  <2>5. \A u \in Threads : Fresh(u)'
    BY <2>1, <2>4, AtSlot DEF Killable
  <2>6. \A r \in Slots : Killed(r)'
    BY <2>1, <2>3, <2>4 DEF MayCommand, Commanded
  <2>7. \A j \in killed' : stage'[j] # "new"
    BY <2>3, <2>4
  <2> QED
    BY <2>5, <2>6, <2>7
<1>4. ASSUME NEW t \in Threads, ReapSkip(t) PROVE KillInv'
  BY <1>4, AtSlot, OnwardFacts
  DEF ReapSkip, Finished, slotVars, instVars, callerVars
<1>5. ASSUME NEW t \in Threads, ReapClaim(t) PROVE KillInv'
  BY <1>5, AtSlot
  DEF ReapClaim, Finished, slotVars, instVars, callerVars
<1>6. ASSUME NEW t \in Threads, ReapDelete(t) PROVE KillInv'
  BY <1>6, AtSlot
  DEF ReapDelete, Without, slotVars, instVars, callerVars
<1>7. ASSUME NEW t \in Threads, ReapClear(t) PROVE KillInv'
  BY <1>7, AtSlot
  DEF ReapClear, slotVars, instVars, callerVars
<1>8. ASSUME NEW t \in Threads, ReapFree(t) PROVE KillInv'
  BY <1>8, AtSlot, OnwardFacts
  DEF ReapFree, Freed, slotVars, instVars, callerVars
<1>9. ASSUME NEW t \in Threads, Claim(t) PROVE KillInv'
  BY <1>9
  DEF Claim, Claimable, NextIdAfter, slotVars, instVars, callerVars
<1>10. ASSUME NEW t \in Threads, NoSlot(t) PROVE KillInv'
  BY <1>10
  DEF NoSlot, Claimable, slotVars, instVars, callerVars
<1>11. ASSUME NEW t \in Threads, Prepare(t) PROVE KillInv'
  BY <1>11, AtSlot
  DEF Prepare, FlagAtLaunch, slotVars, instVars, callerVars
<1>12. ASSUME NEW t \in Threads, Register(t) PROVE KillInv'
  BY <1>12, AtSlot
  DEF Register, Registrable, slotVars, instVars, callerVars
<1>13. ASSUME NEW t \in Threads, Create(t) PROVE KillInv'
  BY <1>13, AtSlot
  DEF Create, Without, slotVars, instVars, callerVars
<1>14. ASSUME NEW t \in Threads, Open(t) PROVE KillInv'
  BY <1>14, AtSlot
  DEF Open, slotVars, instVars, callerVars
<1>15. ASSUME NEW t \in Threads, Unid(t) PROVE KillInv'
  BY <1>15, AtSlot
  DEF Unid, slotVars, instVars, callerVars
<1>16. ASSUME NEW s \in Slots, Dispatch(s) PROVE KillInv'
  BY <1>16
  DEF Dispatch, GoesTo, CancelAtDispatch, Watching, slotVars, instVars,
      callerVars
<1>17. ASSUME NEW s \in Slots, Top(s) PROVE KillInv'
  BY <1>17
  DEF Top, GoesTo, CancelPoll, slotVars, instVars, callerVars
<1>18. ASSUME NEW s \in Slots, Compute(s) PROVE KillInv'
  BY <1>18
  DEF Compute, GoesTo, slotVars, instVars, callerVars
<1>19. ASSUME NEW s \in Slots, Output(s) PROVE KillInv'
  BY <1>19
  DEF Output, GoesTo, slotVars, instVars, callerVars
<1>20. ASSUME NEW s \in Slots, OutputDone(s) PROVE KillInv'
  BY <1>20
  DEF OutputDone, GoesTo, slotVars, instVars, callerVars
<1>21. ASSUME NEW s \in Slots, Round(s) PROVE KillInv'
  BY <1>21
  DEF Round, GoesTo, CancelPoll, Watching, slotVars, instVars, callerVars
<1>22. ASSUME NEW s \in Slots, WokenByKill(s) PROVE KillInv'
  BY <1>22
  DEF WokenByKill, GoesTo, slotVars, instVars, callerVars
<1>23. ASSUME NEW s \in Slots, SleptOut(s) PROVE KillInv'
  BY <1>23
  DEF SleptOut, GoesTo, Watching, slotVars, instVars, callerVars
<1>24. ASSUME NEW s \in Slots, Unregister(s) PROVE KillInv'
  BY <1>24
  DEF Unregister, GoesTo, Without, slotVars, instVars, callerVars
<1>25. ASSUME NEW s \in Slots, Complete(s) PROVE KillInv'
  BY <1>25
  DEF Complete, GoesTo, slotVars, instVars, callerVars
<1>26. CASE UNCHANGED vars
  BY <1>26 DEF vars, slotVars, instVars, callerVars
<1> QED
  BY <1>1, <1>2, <1>3, <1>4, <1>5, <1>6, <1>7, <1>8, <1>9, <1>10, <1>11,
     <1>12, <1>13, <1>14, <1>15, <1>16, <1>17, <1>18, <1>19, <1>20, <1>21,
     <1>22, <1>23, <1>24, <1>25, <1>26
  DEF Next, CallStep, WorkerStep

(* A worker is registered before it is created and leaves after its last    *)
(* printf; the removals of a reap find nothing left.                        *)
LEMMA StepRegistry ==
  TypeOK /\ CallerInv /\ KeepInv /\ RegInv /\ [Next]_vars
    => RegInv'
<1> SUFFICES ASSUME TypeOK, CallerInv, KeepInv, RegInv, [Next]_vars
             PROVE  RegInv'
  OBVIOUS
<1> USE DEF TypeOK, LaunchSteps, ReapSteps, KeepInv, Keeper, Kept, OneEach,
        Keeps, Dispatched, RegInv, Prints
<1>1. ASSUME NEW t \in Threads, StartReap(t) PROVE RegInv'
  BY <1>1, AtSlot
  DEF StartReap, MayCommand, Commanded, slotVars, instVars, callerVars
<1>2. ASSUME NEW t \in Threads, StartLaunch(t) PROVE RegInv'
  BY <1>2
  DEF StartLaunch, slotVars, instVars, callerVars
<1>3. ASSUME NEW t \in Threads, NEW k \in Ids, Kill(t, k) PROVE RegInv'
  BY <1>3, AtSlot
  DEF Kill, MayCommand, Commanded, Killable, slotVars, instVars, callerVars
<1>4. ASSUME NEW t \in Threads, ReapSkip(t) PROVE RegInv'
  BY <1>4, AtSlot, OnwardFacts
  DEF ReapSkip, Finished, slotVars, instVars, callerVars
<1>5. ASSUME NEW t \in Threads, ReapClaim(t) PROVE RegInv'
  BY <1>5, AtSlot
  DEF ReapClaim, Finished, slotVars, instVars, callerVars
<1>6. ASSUME NEW t \in Threads, ReapDelete(t) PROVE RegInv'
  BY <1>6, AtSlot
  DEF ReapDelete, Without, slotVars, instVars, callerVars
<1>7. ASSUME NEW t \in Threads, ReapClear(t) PROVE RegInv'
  BY <1>7, AtSlot
  DEF ReapClear, slotVars, instVars, callerVars
<1>8. ASSUME NEW t \in Threads, ReapFree(t) PROVE RegInv'
  BY <1>8, AtSlot, OnwardFacts
  DEF ReapFree, Freed, slotVars, instVars, callerVars
<1>9. ASSUME NEW t \in Threads, Claim(t) PROVE RegInv'
  BY <1>9
  DEF Claim, Claimable, NextIdAfter, slotVars, instVars, callerVars
<1>10. ASSUME NEW t \in Threads, NoSlot(t) PROVE RegInv'
  BY <1>10
  DEF NoSlot, Claimable, slotVars, instVars, callerVars
<1>11. ASSUME NEW t \in Threads, Prepare(t) PROVE RegInv'
  BY <1>11, AtSlot
  DEF Prepare, FlagAtLaunch, slotVars, instVars, callerVars
<1>12. ASSUME NEW t \in Threads, Register(t) PROVE RegInv'
  BY <1>12, AtSlot
  DEF Register, Registrable, slotVars, instVars, callerVars
<1>13. ASSUME NEW t \in Threads, Create(t) PROVE RegInv'
  BY <1>13, AtSlot
  DEF Create, Without, slotVars, instVars, callerVars
<1>14. ASSUME NEW t \in Threads, Open(t) PROVE RegInv'
  BY <1>14, AtSlot
  DEF Open, slotVars, instVars, callerVars
<1>15. ASSUME NEW t \in Threads, Unid(t) PROVE RegInv'
  BY <1>15, AtSlot
  DEF Unid, slotVars, instVars, callerVars
<1>16. ASSUME NEW s \in Slots, Dispatch(s) PROVE RegInv'
  BY <1>16
  DEF Dispatch, GoesTo, CancelAtDispatch, Watching, slotVars, instVars,
      callerVars
<1>17. ASSUME NEW s \in Slots, Top(s) PROVE RegInv'
  BY <1>17
  DEF Top, GoesTo, CancelPoll, slotVars, instVars, callerVars
<1>18. ASSUME NEW s \in Slots, Compute(s) PROVE RegInv'
  BY <1>18
  DEF Compute, GoesTo, slotVars, instVars, callerVars
<1>19. ASSUME NEW s \in Slots, Output(s) PROVE RegInv'
  BY <1>19
  DEF Output, GoesTo, slotVars, instVars, callerVars
<1>20. ASSUME NEW s \in Slots, OutputDone(s) PROVE RegInv'
  BY <1>20
  DEF OutputDone, GoesTo, slotVars, instVars, callerVars
<1>21. ASSUME NEW s \in Slots, Round(s) PROVE RegInv'
  BY <1>21
  DEF Round, GoesTo, CancelPoll, Watching, slotVars, instVars, callerVars
<1>22. ASSUME NEW s \in Slots, WokenByKill(s) PROVE RegInv'
  BY <1>22
  DEF WokenByKill, GoesTo, slotVars, instVars, callerVars
<1>23. ASSUME NEW s \in Slots, SleptOut(s) PROVE RegInv'
  BY <1>23
  DEF SleptOut, GoesTo, Watching, slotVars, instVars, callerVars
<1>24. ASSUME NEW s \in Slots, Unregister(s) PROVE RegInv'
  BY <1>24
  DEF Unregister, GoesTo, Without, slotVars, instVars, callerVars
<1>25. ASSUME NEW s \in Slots, Complete(s) PROVE RegInv'
  BY <1>25
  DEF Complete, GoesTo, slotVars, instVars, callerVars
<1>26. CASE UNCHANGED vars
  BY <1>26 DEF vars, slotVars, instVars, callerVars
<1> QED
  BY <1>1, <1>2, <1>3, <1>4, <1>5, <1>6, <1>7, <1>8, <1>9, <1>10, <1>11,
     <1>12, <1>13, <1>14, <1>15, <1>16, <1>17, <1>18, <1>19, <1>20, <1>21,
     <1>22, <1>23, <1>24, <1>25, <1>26
  DEF Next, CallStep, WorkerStep

(* With room in the registry a launch is never undone, so the id of a slot  *)
(* is set once for each tenant.                                             *)
LEMMA StepSized ==
  TypeOK /\ CallerInv /\ KeepInv /\ JobInv /\ RegInv /\ SizedInv /\
  [Next]_vars
    => SizedInv'
<1> SUFFICES ASSUME TypeOK, CallerInv, KeepInv, JobInv, RegInv, SizedInv,
                    [Next]_vars
             PROVE  SizedInv'
  OBVIOUS
<1> USE DEF TypeOK, LaunchSteps, ReapSteps, KeepInv, Keeper, Kept, OneEach,
        Keeps, SizedInv, Numbered
<1>1. ASSUME NEW t \in Threads, StartReap(t) PROVE SizedInv'
  BY <1>1, AtSlot
  DEF StartReap, MayCommand, Commanded, slotVars, instVars, callerVars
<1>2. ASSUME NEW t \in Threads, StartLaunch(t) PROVE SizedInv'
  BY <1>2
  DEF StartLaunch, slotVars, instVars, callerVars
<1>3. ASSUME NEW t \in Threads, NEW k \in Ids, Kill(t, k) PROVE SizedInv'
  BY <1>3, AtSlot
  DEF Kill, MayCommand, Commanded, Killable, slotVars, instVars, callerVars
<1>4. ASSUME NEW t \in Threads, ReapSkip(t) PROVE SizedInv'
  BY <1>4, AtSlot, OnwardFacts
  DEF ReapSkip, Finished, slotVars, instVars, callerVars
<1>5. ASSUME NEW t \in Threads, ReapClaim(t) PROVE SizedInv'
  BY <1>5, AtSlot
  DEF ReapClaim, Finished, slotVars, instVars, callerVars
<1>6. ASSUME NEW t \in Threads, ReapDelete(t) PROVE SizedInv'
  BY <1>6, AtSlot
  DEF ReapDelete, Without, slotVars, instVars, callerVars
<1>7. ASSUME NEW t \in Threads, ReapClear(t) PROVE SizedInv'
  BY <1>7, AtSlot
  DEF ReapClear, slotVars, instVars, callerVars
<1>8. ASSUME NEW t \in Threads, ReapFree(t) PROVE SizedInv'
  BY <1>8, AtSlot, OnwardFacts
  DEF ReapFree, Freed, slotVars, instVars, callerVars
<1>9. ASSUME NEW t \in Threads, Claim(t) PROVE SizedInv'
  BY <1>9
  DEF Claim, Claimable, NextIdAfter, slotVars, instVars, callerVars
<1>10. ASSUME NEW t \in Threads, NoSlot(t) PROVE SizedInv'
  BY <1>10
  DEF NoSlot, Claimable, slotVars, instVars, callerVars
<1>11. ASSUME NEW t \in Threads, Prepare(t) PROVE SizedInv'
  BY <1>11, AtSlot
  DEF Prepare, FlagAtLaunch, slotVars, instVars, callerVars
<1>12. ASSUME NEW t \in Threads, Register(t) PROVE SizedInv'
  <2> SUFFICES ASSUME RegistrySized
               PROVE  /\ \A u \in Threads : Numbered(u)'
                      /\ \A r \in Slots :
                           state'[r] = "RUNNING" => id'[r] = line'[r]
    BY DEF RegistrySized
  <2>1. Registrable(at[t]) /\ pc[t] = "register"
    BY <1>12, RegistryRoom DEF Register
  <2>2. /\ pc' = [pc EXCEPT ![t] = "create"]
        /\ UNCHANGED <<state, id, line, at>>
    BY <1>12, <2>1 DEF Register
  <2> QED
    BY <2>1, <2>2
<1>13. ASSUME NEW t \in Threads, Create(t) PROVE SizedInv'
  BY <1>13, AtSlot
  DEF Create, Without, slotVars, instVars, callerVars
<1>14. ASSUME NEW t \in Threads, Open(t) PROVE SizedInv'
  BY <1>14, AtSlot
  DEF Open, slotVars, instVars, callerVars
<1>15. ASSUME NEW t \in Threads, Unid(t) PROVE SizedInv'
  BY <1>15, AtSlot
  DEF Unid, slotVars, instVars, callerVars
<1>16. ASSUME NEW s \in Slots, Dispatch(s) PROVE SizedInv'
  BY <1>16
  DEF Dispatch, GoesTo, CancelAtDispatch, Watching, slotVars, instVars,
      callerVars
<1>17. ASSUME NEW s \in Slots, Top(s) PROVE SizedInv'
  BY <1>17
  DEF Top, GoesTo, CancelPoll, slotVars, instVars, callerVars
<1>18. ASSUME NEW s \in Slots, Compute(s) PROVE SizedInv'
  BY <1>18
  DEF Compute, GoesTo, slotVars, instVars, callerVars
<1>19. ASSUME NEW s \in Slots, Output(s) PROVE SizedInv'
  BY <1>19
  DEF Output, GoesTo, slotVars, instVars, callerVars
<1>20. ASSUME NEW s \in Slots, OutputDone(s) PROVE SizedInv'
  BY <1>20
  DEF OutputDone, GoesTo, slotVars, instVars, callerVars
<1>21. ASSUME NEW s \in Slots, Round(s) PROVE SizedInv'
  BY <1>21
  DEF Round, GoesTo, CancelPoll, Watching, slotVars, instVars, callerVars
<1>22. ASSUME NEW s \in Slots, WokenByKill(s) PROVE SizedInv'
  BY <1>22
  DEF WokenByKill, GoesTo, slotVars, instVars, callerVars
<1>23. ASSUME NEW s \in Slots, SleptOut(s) PROVE SizedInv'
  BY <1>23
  DEF SleptOut, GoesTo, Watching, slotVars, instVars, callerVars
<1>24. ASSUME NEW s \in Slots, Unregister(s) PROVE SizedInv'
  BY <1>24
  DEF Unregister, GoesTo, Without, slotVars, instVars, callerVars
<1>25. ASSUME NEW s \in Slots, Complete(s) PROVE SizedInv'
  BY <1>25
  DEF Complete, GoesTo, slotVars, instVars, callerVars
<1>26. CASE UNCHANGED vars
  BY <1>26 DEF vars, slotVars, instVars, callerVars
<1> QED
  BY <1>1, <1>2, <1>3, <1>4, <1>5, <1>6, <1>7, <1>8, <1>9, <1>10, <1>11,
     <1>12, <1>13, <1>14, <1>15, <1>16, <1>17, <1>18, <1>19, <1>20, <1>21,
     <1>22, <1>23, <1>24, <1>25, <1>26
  DEF Next, CallStep, WorkerStep

-----------------------------------------------------------------------------
(* At boot no slot is in use, no number is taken and only the consoles are  *)
(* registered.                                                              *)
LEMMA InitInductive == Init => Inductive
<1> SUFFICES ASSUME Init PROVE Inductive
  OBVIOUS
<1> USE DEF Init
<1>1. TypeOK
  BY Names, Bounds, SizesAssumption DEF TypeOK, Threads
<1>2. CallerInv /\ KeepInv
  BY DEF CallerInv, Caller, KeepInv, Keeper, Kept, OneEach, Keeps,
         LaunchSteps, ReapSteps
<1>3. JobInv /\ KillInv
  BY DEF JobInv, Launch, Launches, Tenant, OwnLines, OwnNumbers, KillInv,
         Fresh, Killed
<1>4. RegInv /\ SizedInv
  BY ConsolesAssumption
  DEF RegInv, Prints, Dispatched, SizedInv, Numbered
<1> QED
  BY <1>1, <1>2, <1>3, <1>4 DEF Inductive

(* Every step of every thread keeps all the parts.                          *)
LEMMA StepInductive == Inductive /\ [Next]_vars => Inductive'
  BY StepTypes, StepCallers, StepKeeps, StepJobs, StepKills, StepRegistry,
     StepSized
  DEF Inductive

(* The inductive invariant holds throughout.                                *)
THEOREM Invariance == Spec => []Inductive
  BY InitInductive, StepInductive, PTL DEF Spec

-----------------------------------------------------------------------------
(* The pool's variables keep their types, whatever the interleaving.        *)
THEOREM JobTypesCorrect == Spec => []TypeOK
<1>1. Inductive => TypeOK
  BY DEF Inductive
<1> QED
  BY <1>1, Invariance, PTL

(* A slot being launched or reaped belongs to one thread, any other to none *)
(* (cli_job.c:50-65).                                                       *)
THEOREM SlotsKeptByOne == Spec => []OneKeeper
<1>1. Inductive => OneKeeper
  <2> SUFFICES ASSUME Inductive, NEW s \in Slots
               PROVE  IF state[s] \in {"LAUNCHING", "REAPING"}
                        THEN \E t \in Threads : Keepers(s) = {t}
                        ELSE Keepers(s) = {}
    BY DEF OneKeeper
  <2> USE DEF Inductive, KeepInv, Keepers, Keeps
  <2>1. CASE state[s] \in {"LAUNCHING", "REAPING"}
    <3>1. PICK t \in Threads : Keeps(t) /\ at[t] = s
      BY <2>1 DEF Kept
    <3>2. \A u \in Threads : Keeps(u) /\ at[u] = s => u = t
      BY <3>1 DEF OneEach
    <3> QED
      BY <2>1, <3>1, <3>2
  <2>2. CASE state[s] \notin {"LAUNCHING", "REAPING"}
    BY <2>2 DEF Keeper
  <2> QED
    BY <2>1, <2>2
<1> QED
  BY <1>1, Invariance, PTL

(* A latched cancel is the job's own, and no accepted kill of a running job *)
(* is lost (cli_session.c:119-127, cli_job.c:131-138).                      *)
THEOREM KillsExact == Spec => []KillExact
<1>1. Inductive => KillExact
  BY DEF Inductive, KillInv, Killed, KillExact
<1> QED
  BY <1>1, Invariance, PTL

(* A worker is in the thread registry for as long as it may print, and out  *)
(* of it after that (cli_job.c:148-154, 265-269).                           *)
THEOREM PrintfFound == Spec => []PrintfRouted
<1>1. Inductive => PrintfRouted
  <2> SUFFICES ASSUME Inductive, NEW s \in Slots
               PROVE  s \in registered <=>
                        \/ Prints(s)
                        \/ \E t \in Keepers(s) : pc[t] = "create"
    BY DEF PrintfRouted, Prints
  <2>1. \A t \in Threads : pc[t] = "create" /\ at[t] = s => t \in Keepers(s)
    BY DEF Keepers, LaunchSteps
  <2>2. \A t \in Keepers(s) : t \in Threads /\ at[t] = s
    BY DEF Keepers
  <2> QED
    BY <2>1, <2>2 DEF Inductive, RegInv
<1> QED
  BY <1>1, Invariance, PTL

(* With a registry as large as cli_config.h makes it by default, neither    *)
(* refusal of cli_job_launch ever runs (cli_job.c:258-296).                 *)
THEOREM LaunchesSucceed ==
  ASSUME RegistrySized
  PROVE  Spec => []LaunchSucceeds
<1>1. Inductive => LaunchSucceeds
  BY DEF Inductive, SizedInv, Numbered, LaunchSucceeds
<1> QED
  BY <1>1, Invariance, PTL

(* With such a registry the id of a running slot is the number of its job,  *)
(* and no two have the same (cli_job.c:75, 334).                            *)
THEOREM IdsHold ==
  ASSUME RegistrySized
  PROVE  Spec => []JobIdentity
<1>1. Inductive => JobIdentity
  <2> SUFFICES ASSUME Inductive PROVE JobIdentity
    OBVIOUS
  <2>1. \A s \in Slots : state[s] = "RUNNING" => /\ id[s] = line[s]
                                                 /\ thread[s] # "none"
    BY DEF Inductive, SizedInv, KeepInv, Kept
  <2>2. \A s \in Slots : thread[s] # "none" => line[s] # 0
    BY DEF Inductive, JobInv, Tenant, Ids
  <2> QED
    BY <2>1, <2>2 DEF JobIdentity, Inductive, JobInv, OwnLines
<1> QED
  BY <1>1, Invariance, PTL

-----------------------------------------------------------------------------
(* Every step of the pool is a step of the promise JobLedger states, or     *)
(* leaves what it speaks of alone: a created thread starts its number, an   *)
(* accepted kill kills it, a completed thread ends it, a deleted one is     *)
(* announced.                                                               *)
LEMMA StepLedger ==
  Inductive /\ [Next]_vars => [Ledger!Next]_<<stage, killed>>
<1> SUFFICES ASSUME Inductive, [Next]_vars
             PROVE  [Ledger!Next]_<<stage, killed>>
  OBVIOUS
<1> USE DEF Inductive, TypeOK
<1>1. ASSUME NEW t \in Threads, Create(t)
      PROVE  [Ledger!Next]_<<stage, killed>>
  <2>1. claimed[t] \in Ids /\ stage[claimed[t]] = "new"
    BY <1>1 DEF Create, JobInv, Launch, Launches
  <2>2. CASE thread[at[t]] = "none"
    <3>1. Ledger!Start(claimed[t])
      BY <1>1, <2>1, <2>2 DEF Create, Ledger!Start
    <3> QED
      BY <2>1, <3>1 DEF Ledger!Next
  <2>3. CASE thread[at[t]] # "none"
    BY <1>1, <2>3 DEF Create
  <2> QED
    BY <2>2, <2>3
<1>2. ASSUME NEW t \in Threads, NEW k \in Ids, Kill(t, k)
      PROVE  [Ledger!Next]_<<stage, killed>>
  <2>1. PICK s \in Slots : Killable(s, k)
    BY <1>2 DEF Kill
  <2>2. thread[s] # "none" /\ line[s] = k
    BY <2>1 DEF Killable, KeepInv, Kept, JobInv, Tenant, Ids
  <2>3. stage[k] \in {"live", "over"}
    BY <2>2 DEF JobInv, Tenant
  <2>4. Ledger!Kill(k)
    BY <1>2, <2>3 DEF Kill, Ledger!Kill
  <2> QED
    BY <2>4 DEF Ledger!Next
<1>3. ASSUME NEW t \in Threads, ReapDelete(t)
      PROVE  [Ledger!Next]_<<stage, killed>>
  <2> DEFINE k == id[at[t]]
  <2>1. at[t] \in Slots /\ thread[at[t]] = "over"
    BY <1>3, AtSlot DEF ReapDelete, KeepInv, Keeper
  <2>2. line[at[t]] \in Ids /\ stage[line[at[t]]] = "over"
        /\ k \in {0, line[at[t]]}
    BY <2>1 DEF JobInv, Tenant
  <2>3. CASE k \in Ids
    <3>1. stage' = [stage EXCEPT ![k] = "told"] /\ UNCHANGED killed
      BY <1>3 DEF ReapDelete
    <3>2. Ledger!Announce(k)
      BY <2>2, <2>3, <3>1 DEF Ledger!Announce, Ids
    <3> QED
      BY <2>3, <3>2 DEF Ledger!Next
  <2>4. CASE k \notin Ids
    BY <1>3, <2>4 DEF ReapDelete
  <2> QED
    BY <2>3, <2>4
<1>4. ASSUME NEW s \in Slots, Complete(s)
      PROVE  [Ledger!Next]_<<stage, killed>>
  <2>1. thread[s] = "epilogue"
    BY <1>4 DEF Complete, GoesTo
  <2>2. line[s] \in Ids /\ stage[line[s]] = "live"
    BY <2>1 DEF JobInv, Tenant
  <2>3. line[s] \in Endless => line[s] \in killed
    BY <2>1 DEF KillInv, Killed
  <2>4. Ledger!End(line[s])
    BY <1>4, <2>2, <2>3 DEF Complete, Ledger!End
  <2> QED
    BY <2>2, <2>4 DEF Ledger!Next
<1>5. ASSUME NEW t \in Threads,
             \/ StartReap(t) \/ StartLaunch(t) \/ ReapSkip(t)
             \/ ReapClaim(t) \/ ReapClear(t) \/ ReapFree(t) \/ Claim(t)
             \/ NoSlot(t) \/ Prepare(t) \/ Register(t) \/ Open(t) \/ Unid(t)
      PROVE  UNCHANGED <<stage, killed>>
  BY <1>5
  DEF StartReap, StartLaunch, ReapSkip, ReapClaim, ReapClear, ReapFree,
      Claim, NoSlot, Prepare, Register, Open, Unid
<1>6. ASSUME NEW s \in Slots,
             \/ Dispatch(s) \/ Top(s) \/ Compute(s) \/ Output(s)
             \/ OutputDone(s) \/ Round(s) \/ WokenByKill(s) \/ SleptOut(s)
             \/ Unregister(s)
      PROVE  UNCHANGED <<stage, killed>>
  BY <1>6
  DEF Dispatch, Top, Compute, Output, OutputDone, Round, WokenByKill,
      SleptOut, Unregister
<1>7. CASE UNCHANGED vars
  BY <1>7 DEF vars
<1> QED
  BY <1>1, <1>2, <1>3, <1>4, <1>5, <1>6, <1>7 DEF Next, CallStep, WorkerStep

(* The pool implements the ledger (cli_job.c:9-35): one start and one       *)
(* notice per number, the notice after the end, a watch that ends only      *)
(* because it was killed, and no kill taken back.                           *)
THEOREM PoolImplementsLedger == Spec => JobsAccounted
<1>1. Init => Ledger!Init
  BY DEF Init, Ledger!Init
<1> QED
  BY <1>1, StepLedger, Invariance, PTL DEF Spec, JobsAccounted, Ledger!Spec
==============================================================================
