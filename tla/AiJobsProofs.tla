---------------------------- MODULE AiJobsProofs ----------------------------
(***************************************************************************)
(* Theorems about AiJobs, for every number of jobs and of slots.           *)
(*                                                                        *)
(* Slots: TypeOK /\ SlotsAccounted is inductive; the type of inflight      *)
(* needs the count of running threads, so the two are proved together.     *)
(* Verdicts: Control ties each status to the place of the job's thread;    *)
(* with it Doomed and Delivered are stable, which gives all the rest.      *)
(***************************************************************************)
EXTENDS AiJobs, TLAPS, FiniteSetTheorems

LEMMA JobFinite == IsFiniteSet(Job)
  BY JobsAssumption, FS_Union DEF Job

LEMMA SlotCountType == SlotCount \in [Slot -> Nat]
  BY SlotsAssumption DEF SlotCount, Slot

\* Counting: a set of jobs that one job joins, leaves, or that does not change.
LEMMA CountJoin ==
  ASSUME NEW S \in SUBSET Job, NEW j \in Job, j \notin S
  PROVE  /\ Cardinality(S \cup {j}) = Cardinality(S) + 1
         /\ Cardinality(S) \in Nat
  BY JobFinite, FS_Subset, FS_AddElement, FS_CardinalityType

LEMMA CountLeave ==
  ASSUME NEW S \in SUBSET Job, NEW j \in S
  PROVE  /\ Cardinality(S \ {j}) = Cardinality(S) - 1
         /\ Cardinality(S) \in Nat /\ Cardinality(S) >= 1
<1>1. IsFiniteSet(S)
  BY JobFinite, FS_Subset
<1>2. Cardinality(S \ {j}) = Cardinality(S) - 1 /\ IsFiniteSet(S \ {j})
  BY <1>1, FS_RemoveElement
<1>3. Cardinality(S) \in Nat /\ Cardinality(S \ {j}) \in Nat
  BY <1>1, <1>2, FS_CardinalityType
<1> QED BY <1>2, <1>3

-----------------------------------------------------------------------------
(* Slots.                                                                  *)

SlotsInv == TypeOK /\ SlotsAccounted

\* The `at` values at which a thread holds its stage's slot, or runs in it.
Holding  == {"check", "mark", "phase", "enter", "run", "leave", "release"}
InEngine == {"run", "leave"}

\* A step that leaves the counters, the stages and the two groups of threads
\* alone leaves the accounts alone.
LEMMA AccountsKept ==
  ASSUME SlotsAccounted, UNCHANGED <<free, inflight, pings>>,
         \A k \in Slot : Holders(k)' = Holders(k) /\ Running(k)' = Running(k)
  PROVE  SlotsAccounted'
  BY DEF SlotsAccounted

\* A thread that moves within the same group does not change the groups.
LEMMA MoveWithin ==
  ASSUME TypeOK, NEW j \in Job, NEW a \in Step, NEW b \in Step, Go(j, a, b),
         UNCHANGED stage, (a \in Holding) <=> (b \in Holding),
         (a \in InEngine) <=> (b \in InEngine)
  PROVE  \A k \in Slot : Holders(k)' = Holders(k) /\ Running(k)' = Running(k)
  BY DEF TypeOK, Go, Holders, Running, Holding, InEngine

\* One more holder of slot k, or one fewer; the same for the running threads.
LEMMA HolderJoins ==
  ASSUME TypeOK, NEW j \in Job, NEW a \in Step, NEW b \in Step, Go(j, a, b),
         UNCHANGED stage, a \notin Holding, b \in Holding, b \notin InEngine, a \notin InEngine
  PROVE  /\ Holders(stage[j])' = Holders(stage[j]) \cup {j} /\ j \notin Holders(stage[j])
         /\ \A k \in Slot : k # stage[j] => Holders(k)' = Holders(k)
         /\ \A k \in Slot : Running(k)' = Running(k)
  BY DEF TypeOK, Go, Holders, Running, Holding, InEngine

LEMMA HolderLeaves ==
  ASSUME TypeOK, NEW j \in Job, NEW a \in Step, NEW b \in Step, Go(j, a, b),
         UNCHANGED stage, a \in Holding, b \notin Holding, b \notin InEngine, a \notin InEngine
  PROVE  /\ Holders(stage[j])' = Holders(stage[j]) \ {j} /\ j \in Holders(stage[j])
         /\ \A k \in Slot : k # stage[j] => Holders(k)' = Holders(k)
         /\ \A k \in Slot : Running(k)' = Running(k)
  BY DEF TypeOK, Go, Holders, Running, Holding, InEngine

LEMMA RunnerJoins ==
  ASSUME TypeOK, NEW j \in Job, Go(j, "enter", "run"), UNCHANGED stage
  PROVE  /\ Running(stage[j])' = Running(stage[j]) \cup {j} /\ j \notin Running(stage[j])
         /\ \A k \in Slot : k # stage[j] => Running(k)' = Running(k)
         /\ \A k \in Slot : Holders(k)' = Holders(k)
  BY DEF TypeOK, Go, Holders, Running

LEMMA RunnerLeaves ==
  ASSUME TypeOK, NEW j \in Job, Go(j, "leave", "release"), UNCHANGED stage
  PROVE  /\ Running(stage[j])' = Running(stage[j]) \ {j} /\ j \in Running(stage[j])
         /\ \A k \in Slot : k # stage[j] => Running(k)' = Running(k)
         /\ \A k \in Slot : Holders(k)' = Holders(k)
  BY DEF TypeOK, Go, Holders, Running

LEMMA SlotsInvInit == Init => SlotsInv
<1> SUFFICES ASSUME Init PROVE SlotsInv
  OBVIOUS
<1>1. TypeOK
  BY SlotCountType DEF Init, TypeOK, Status, Phase, Slot, Step, Fate
<1>2. \A k \in Slot : Holders(k) = {} /\ Running(k) = {}
  BY DEF Init, Holders, Running
<1>3. SlotsAccounted
  BY <1>2, FS_EmptySet, SlotCountType DEF Init, SlotsAccounted
<1> QED BY <1>1, <1>3 DEF SlotsInv

\* Every step keeps the types; leaving the engine needs the count.
LEMMA TypeStep == SlotsInv /\ [Next]_vars => TypeOK'
<1> SUFFICES ASSUME SlotsInv, [Next]_vars PROVE TypeOK'
  OBVIOUS
<1> USE DEF SlotsInv, TypeOK, Status, Active, Terminal, Phase, Slot, Step, Fate, Go, Mark, SetPhase, tables
<1>1. ASSUME NEW j \in Job, Submit(j) PROVE TypeOK'
  BY <1>1 DEF Submit, WaitingPhase
<1>2. ASSUME NEW j \in Job, Acquire(j) PROVE TypeOK'
  BY <1>2 DEF Acquire
<1>3. ASSUME NEW j \in Job, Check(j) PROVE TypeOK'
  BY <1>3 DEF Check
<1>4. ASSUME NEW j \in Job, MarkProcessing(j) PROVE TypeOK'
  BY <1>4 DEF MarkProcessing
<1>5. ASSUME NEW j \in Job, EnterPhase(j) PROVE TypeOK'
  BY <1>5 DEF EnterPhase, WorkPhase
<1>6. ASSUME NEW j \in Job, Enter(j) PROVE TypeOK'
  BY <1>6 DEF Enter
<1>7. ASSUME NEW j \in Job, Run(j) PROVE TypeOK'
  BY <1>7 DEF Run, Outcome
<1>8. ASSUME NEW j \in Job, Leave(j) PROVE TypeOK'
  <2>1. j \in Running(stage[j]) /\ Running(stage[j]) \in SUBSET Job
    BY <1>8 DEF Leave, Running
  <2>2. Cardinality(Running(stage[j])) >= 1
    BY <2>1, CountLeave
  <2>3. inflight[stage[j]] >= 1
    BY <2>2 DEF SlotsAccounted
  <2> QED BY <1>8, <2>3 DEF Leave
<1>9. ASSUME NEW j \in Job, Release(j) PROVE TypeOK'
  BY <1>9 DEF Release
<1>10. ASSUME NEW j \in Job, Recheck(j) PROVE TypeOK'
  BY <1>10 DEF Recheck
<1>11. ASSUME NEW j \in Job, Handoff(j) PROVE TypeOK'
  BY <1>11 DEF Handoff
<1>12. ASSUME NEW j \in Job, Settle(j) PROVE TypeOK'
  BY <1>12 DEF Settle, Verdict
<1>13. ASSUME NEW j \in Job, Cleanup(j) PROVE TypeOK'
  BY <1>13 DEF Cleanup
<1>14. ASSUME NEW j \in Job, Cancel(j) PROVE TypeOK'
  BY <1>14 DEF Cancel
<1>15. CASE VerifyBegin \/ VerifyEnd
  BY <1>15 DEF VerifyBegin, VerifyEnd
<1>16. ASSUME NEW S \in SUBSET Stallable, StallScan(S) PROVE TypeOK'
  <2>1. S \subseteq Job
    BY <1>16 DEF Stallable
  <2>2. jobs' \in [Job -> Status] /\ ev' \in [Job -> BOOLEAN]
    <3>1. CASE MarkStallAsError
      <4>1. /\ jobs' = [j \in Job |-> IF j \in S THEN "stalled" ELSE jobs[j]]
            /\ ev' = [j \in Job |-> ev[j] \/ j \in S \cap cancels]
        BY <1>16, <3>1 DEF StallScan
      <4>2. jobs' \in [Job -> Status]
        BY <4>1
      <4>3. ev' \in [Job -> BOOLEAN]
        BY <4>1
      <4> QED BY <4>2, <4>3
    <3>2. CASE ~MarkStallAsError
      BY <1>16, <3>2 DEF StallScan
    <3> QED BY <3>1, <3>2
  <2> QED BY <1>16, <2>1, <2>2 DEF StallScan
<1>17. ASSUME NEW S \in SUBSET Expirable, Purge(S) PROVE TypeOK'
  BY <1>17 DEF Purge, Expirable, Closed
<1>18. CASE UNCHANGED vars
  BY <1>18 DEF vars, tables
<1> QED BY <1>1, <1>2, <1>3, <1>4, <1>5, <1>6, <1>7, <1>8, <1>9, <1>10, <1>11,
           <1>12, <1>13, <1>14, <1>15, <1>16, <1>17, <1>18 DEF Next, Manage

\* Every step keeps the accounts: one step in each direction for each counter.
LEMMA AccountsStep == SlotsInv /\ [Next]_vars => SlotsAccounted'
<1> SUFFICES ASSUME SlotsInv, [Next]_vars PROVE SlotsAccounted'
  OBVIOUS
<1> USE DEF SlotsInv
<1>t. /\ stage \in [Job -> Slot] /\ free \in [Slot -> Nat] /\ inflight \in [Slot -> Nat]
      /\ pings \in Nat /\ SlotCount \in [Slot -> Nat]
  BY SlotCountType DEF TypeOK
<1>c. \A k \in Slot : /\ Holders(k) \in SUBSET Job /\ Cardinality(Holders(k)) \in Nat
                      /\ Running(k) \in SUBSET Job /\ Cardinality(Running(k)) \in Nat
  BY JobFinite, FS_Subset, FS_CardinalityType DEF Holders, Running
<1>w. \A j \in Job, a \in Step, b \in Step :
        /\ Go(j, a, b) /\ UNCHANGED <<stage, free, inflight, pings>>
        /\ (a \in Holding) <=> (b \in Holding)
        /\ (a \in InEngine) <=> (b \in InEngine)
        => SlotsAccounted'
  BY MoveWithin, AccountsKept
<1>n. UNCHANGED <<at, stage, free, inflight, pings>> => SlotsAccounted'
  BY AccountsKept DEF Holders, Running
<1>1. ASSUME NEW j \in Job, Submit(j) PROVE SlotsAccounted'
  BY <1>1, <1>w DEF Submit, Step, Holding, InEngine
<1>2. ASSUME NEW j \in Job, Acquire(j) PROVE SlotsAccounted'
  <2>1. /\ Holders(stage[j])' = Holders(stage[j]) \cup {j} /\ j \notin Holders(stage[j])
        /\ \A k \in Slot : k # stage[j] => Holders(k)' = Holders(k)
        /\ \A k \in Slot : Running(k)' = Running(k)
    BY <1>2, HolderJoins DEF Acquire, Step, Holding, InEngine
  <2>2. Cardinality(Holders(stage[j])') = Cardinality(Holders(stage[j])) + 1
    BY <2>1, <1>c, <1>t, CountJoin
  <2>3. free' = [free EXCEPT ![stage[j]] = @ - 1] /\ UNCHANGED <<inflight, pings, stage>>
    BY <1>2 DEF Acquire
  <2>4. ASSUME NEW k \in Slot
        PROVE  free'[k] + Cardinality(Holders(k)') + (IF k = "llm" THEN pings' ELSE 0) = SlotCount[k]
    <3>1. free[k] + Cardinality(Holders(k)) + (IF k = "llm" THEN pings ELSE 0) = SlotCount[k]
      BY DEF SlotsAccounted
    <3>2. CASE k = stage[j]
      <4>1. free'[k] = free[k] - 1 /\ Cardinality(Holders(k)') = Cardinality(Holders(k)) + 1
        BY <3>2, <2>2, <2>3, <1>t
      <4> QED BY <4>1, <3>1, <2>3, <1>t, <1>c
    <3>3. CASE k # stage[j]
      BY <3>3, <3>1, <2>1, <2>3, <1>t
    <3> QED BY <3>2, <3>3
  <2> QED BY <2>1, <2>3, <2>4 DEF SlotsAccounted
<1>3. ASSUME NEW j \in Job, Check(j) PROVE SlotsAccounted'
  <2>1. \E b \in {"release", "mark", "phase"} : Go(j, "check", b)
    BY <1>3 DEF Check, Go
  <2>2. UNCHANGED <<stage, free, inflight, pings>>
    BY <1>3 DEF Check
  <2> QED BY <2>1, <2>2, <1>w DEF Step, Holding, InEngine
<1>4. ASSUME NEW j \in Job, MarkProcessing(j) \/ EnterPhase(j) PROVE SlotsAccounted'
  BY <1>4, <1>w DEF MarkProcessing, EnterPhase, Step, Holding, InEngine
<1>5. ASSUME NEW j \in Job, Enter(j) PROVE SlotsAccounted'
  <2>1. /\ Running(stage[j])' = Running(stage[j]) \cup {j} /\ j \notin Running(stage[j])
        /\ \A k \in Slot : k # stage[j] => Running(k)' = Running(k)
        /\ \A k \in Slot : Holders(k)' = Holders(k)
    BY <1>5, RunnerJoins DEF Enter
  <2>2. Cardinality(Running(stage[j])') = Cardinality(Running(stage[j])) + 1
    BY <2>1, <1>c, <1>t, CountJoin
  <2>3. inflight' = [inflight EXCEPT ![stage[j]] = @ + 1] /\ UNCHANGED <<free, pings, stage>>
    BY <1>5 DEF Enter
  <2> QED BY <2>1, <2>2, <2>3, <1>t, <1>c DEF SlotsAccounted
<1>6. ASSUME NEW j \in Job, Run(j) PROVE SlotsAccounted'
  BY <1>6, <1>w DEF Run, Step, Holding, InEngine
<1>7. ASSUME NEW j \in Job, Leave(j) PROVE SlotsAccounted'
  <2>1. /\ Running(stage[j])' = Running(stage[j]) \ {j} /\ j \in Running(stage[j])
        /\ \A k \in Slot : k # stage[j] => Running(k)' = Running(k)
        /\ \A k \in Slot : Holders(k)' = Holders(k)
    BY <1>7, RunnerLeaves DEF Leave
  <2>2. Cardinality(Running(stage[j])') = Cardinality(Running(stage[j])) - 1
    BY <2>1, <1>c, <1>t, CountLeave
  <2>3. inflight' = [inflight EXCEPT ![stage[j]] = @ - 1] /\ UNCHANGED <<free, pings, stage>>
    BY <1>7 DEF Leave
  <2> QED BY <2>1, <2>2, <2>3, <1>t, <1>c DEF SlotsAccounted
<1>8. ASSUME NEW j \in Job, Release(j) PROVE SlotsAccounted'
  <2>0. \E b \in {"cleanup", "recheck", "settle"} : Go(j, "release", b)
    BY <1>8 DEF Release
  <2>1. /\ Holders(stage[j])' = Holders(stage[j]) \ {j} /\ j \in Holders(stage[j])
        /\ \A k \in Slot : k # stage[j] => Holders(k)' = Holders(k)
        /\ \A k \in Slot : Running(k)' = Running(k)
    BY <1>8, <2>0, HolderLeaves DEF Release, Step, Holding, InEngine
  <2>2. Cardinality(Holders(stage[j])') = Cardinality(Holders(stage[j])) - 1
    BY <2>1, <1>c, <1>t, CountLeave
  <2>3. free' = [free EXCEPT ![stage[j]] = @ + 1] /\ UNCHANGED <<inflight, pings, stage>>
    BY <1>8 DEF Release
  <2>4. ASSUME NEW k \in Slot
        PROVE  free'[k] + Cardinality(Holders(k)') + (IF k = "llm" THEN pings' ELSE 0) = SlotCount[k]
    <3>1. free[k] + Cardinality(Holders(k)) + (IF k = "llm" THEN pings ELSE 0) = SlotCount[k]
      BY DEF SlotsAccounted
    <3>2. CASE k = stage[j]
      <4>1. free'[k] = free[k] + 1 /\ Cardinality(Holders(k)') = Cardinality(Holders(k)) - 1
        BY <3>2, <2>2, <2>3, <1>t
      <4> QED BY <4>1, <3>1, <2>3, <1>t, <1>c
    <3>3. CASE k # stage[j]
      BY <3>3, <3>1, <2>1, <2>3, <1>t
    <3> QED BY <3>2, <3>3
  <2> QED BY <2>1, <2>3, <2>4 DEF SlotsAccounted
<1>9. ASSUME NEW j \in Job, Recheck(j) PROVE SlotsAccounted'
  BY <1>9, <1>w DEF Recheck, Step, Holding, InEngine
<1>10. ASSUME NEW j \in Job, Handoff(j) PROVE SlotsAccounted'
  <2>1. \A k \in Slot : Holders(k)' = Holders(k) /\ Running(k)' = Running(k)
    BY <1>10 DEF Handoff, Go, Holders, Running, TypeOK
  <2> QED BY <2>1, <1>10, AccountsKept DEF Handoff
<1>11. ASSUME NEW j \in Job, Settle(j) \/ Cleanup(j) PROVE SlotsAccounted'
  BY <1>11, <1>w DEF Settle, Cleanup, Step, Holding, InEngine
<1>12. ASSUME NEW j \in Job, Cancel(j) PROVE SlotsAccounted'
  BY <1>12, <1>n DEF Cancel
<1>13. CASE VerifyBegin \/ VerifyEnd
  <2>1. \A k \in Slot : Holders(k)' = Holders(k) /\ Running(k)' = Running(k)
    BY <1>13 DEF VerifyBegin, VerifyEnd, Holders, Running
  <2> QED BY <2>1, <1>13, <1>t, <1>c DEF VerifyBegin, VerifyEnd, SlotsAccounted, Slot
<1>14. ASSUME NEW S \in SUBSET Stallable, StallScan(S) PROVE SlotsAccounted'
  BY <1>14, <1>n DEF StallScan
<1>15. ASSUME NEW S \in SUBSET Expirable, Purge(S) PROVE SlotsAccounted'
  BY <1>15, <1>n DEF Purge
<1>16. CASE UNCHANGED vars
  BY <1>16, <1>n DEF vars
<1> QED BY <1>1, <1>2, <1>3, <1>4, <1>5, <1>6, <1>7, <1>8, <1>9, <1>10, <1>11,
           <1>12, <1>13, <1>14, <1>15, <1>16 DEF Next, Manage

\* The types hold for every number of jobs and slots.
THEOREM TypeCorrect == Spec => []TypeOK
<1>1. SlotsInv /\ [Next]_vars => SlotsInv'
  BY TypeStep, AccountsStep DEF SlotsInv
<1>2. SlotsInv => TypeOK
  BY DEF SlotsInv
<1> QED BY <1>1, <1>2, SlotsInvInit, PTL DEF Spec

\* No way out of a `with` block leaks a slot, returns one twice or miscounts it,
\* whatever the tables say of the job.
THEOREM SlotsAreAccounted == Spec => []SlotsAccounted
<1>1. SlotsInv /\ [Next]_vars => SlotsInv'
  BY TypeStep, AccountsStep DEF SlotsInv
<1>2. SlotsInv => SlotsAccounted
  BY DEF SlotsInv
<1> QED BY <1>1, <1>2, SlotsInvInit, PTL DEF Spec

-----------------------------------------------------------------------------
(***************************************************************************)
(* What a user is told about a job is never taken back: the verdicts of    *)
(* recordings, the finality of results, what the purge spares, and that    *)
(* AiJobs implements JobVerdicts.                                          *)
(***************************************************************************)

\* Where a job's thread is determines how its last block ended, whether it is in
\* _job_cancels and which statuses the table may show.
ControlOf(j) ==
  /\ at[j] \in {"idle", "wait", "check", "mark", "phase", "enter", "run"} => fate[j] = "none"
  /\ at[j] \in {"recheck", "handoff"} => fate[j] = "ok" /\ stage[j] = "stt"
  /\ at[j] \in {"leave", "settle"} => fate[j] \in {"ok", "cancelled", "error"}
  /\ at[j] \in {"release", "cleanup", "ended"} => fate[j] # "none"
  /\ at[j] \in {"settle", "cleanup", "ended"} /\ fate[j] = "ok" => stage[j] = "llm"
  /\ j \in cancels <=> at[j] \notin {"idle", "ended"}
  /\ jobs[j] \in Active => at[j] \notin {"idle", "cleanup", "ended"} /\ fate[j] # "returned"
  /\ jobs[j] = "done" => at[j] \in {"cleanup", "ended"} /\ fate[j] = "ok"

\* For a recording, the phase and the queued status also tell its stage.
RecordingOf(j) ==
  /\ at[j] \in {"idle", "mark"} => stage[j] = "stt"
  /\ jobs[j] = "queued" => stage[j] = "stt" /\ at[j] \in {"wait", "check", "mark"}
  /\ phase[j] = "transcribing" => stage[j] = "stt"
  /\ jobs[j] \in {"cancelled", "stalled", "error"} => Doomed(j)
  /\ jobs[j] = "done" => Delivered(j) /\ j \in owner
  /\ at[j] # "idle" /\ ~Doomed(j) /\ ~Delivered(j) => j \in owner /\ jobs[j] \in Active

VerdictInv ==
  /\ TypeOK
  /\ \A j \in Job : ControlOf(j)
  /\ \A j \in SttJobs : RecordingOf(j)

LEMMA VerdictInvInit == Init => VerdictInv
<1> SUFFICES ASSUME Init PROVE VerdictInv
  OBVIOUS
<1>1. TypeOK
  BY SlotsInvInit DEF SlotsInv
<1>2. \A j \in Job : ControlOf(j)
  BY DEF Init, ControlOf, Active
<1>3. \A j \in SttJobs : RecordingOf(j)
  BY DEF Init, RecordingOf, Active, Job, Doomed, Delivered
<1> QED BY <1>1, <1>2, <1>3 DEF VerdictInv

LEMMA ControlStep ==
  ASSUME VerdictInv, [Next]_vars, NEW i \in Job
  PROVE  ControlOf(i)'
<1>t. TypeOK /\ ControlOf(i)
  BY DEF VerdictInv
<1> USE <1>t DEF TypeOK, Active, Terminal, Go, Mark, SetPhase, tables, ControlOf
<1>1. ASSUME NEW j \in Job, Submit(j) PROVE ControlOf(i)'
  BY <1>1 DEF Submit, WaitingPhase, Slot
<1>2. ASSUME NEW j \in Job, Acquire(j) PROVE ControlOf(i)'
  BY <1>2 DEF Acquire
<1>3. ASSUME NEW j \in Job, Check(j) PROVE ControlOf(i)'
  BY <1>3 DEF Check, SeesCancel, Slot
<1>4. ASSUME NEW j \in Job, MarkProcessing(j) PROVE ControlOf(i)'
  BY <1>4 DEF MarkProcessing
<1>5. ASSUME NEW j \in Job, EnterPhase(j) PROVE ControlOf(i)'
  BY <1>5 DEF EnterPhase, WorkPhase
<1>6. ASSUME NEW j \in Job, Enter(j) PROVE ControlOf(i)'
  BY <1>6 DEF Enter
<1>7. ASSUME NEW j \in Job, Run(j) PROVE ControlOf(i)'
  BY <1>7 DEF Run, Outcome
<1>8. ASSUME NEW j \in Job, Leave(j) PROVE ControlOf(i)'
  BY <1>8 DEF Leave
<1>9. ASSUME NEW j \in Job, Release(j) PROVE ControlOf(i)'
  <2>1. CASE fate[j] = "returned"
    BY <1>9, <2>1 DEF Release
  <2>2. CASE fate[j] = "ok" /\ stage[j] = "stt"
    BY <1>9, <2>2 DEF Release
  <2>3. CASE fate[j] # "returned" /\ ~(fate[j] = "ok" /\ stage[j] = "stt")
    <3>1. Go(j, "release", "settle")
      BY <1>9, <2>3 DEF Release
    <3>2. fate[j] \in {"ok", "cancelled", "error"} /\ (fate[j] = "ok" => stage[j] = "llm")
      BY <1>9, <2>3 DEF Release, VerdictInv, Fate, Slot
    <3> QED BY <1>9, <3>1, <3>2 DEF Release
  <2> QED BY <2>1, <2>2, <2>3
<1>10. ASSUME NEW j \in Job, Recheck(j) PROVE ControlOf(i)'
  BY <1>10 DEF Recheck, SeesCancel
<1>11. ASSUME NEW j \in Job, Handoff(j) PROVE ControlOf(i)'
  BY <1>11 DEF Handoff
<1>12. ASSUME NEW j \in Job, Settle(j) PROVE ControlOf(i)'
  BY <1>12 DEF Settle, Verdict
<1>13. ASSUME NEW j \in Job, Cleanup(j) PROVE ControlOf(i)'
  BY <1>13 DEF Cleanup
<1>14. ASSUME NEW j \in Job, Cancel(j) PROVE ControlOf(i)'
  BY <1>14 DEF Cancel
<1>15. CASE VerifyBegin \/ VerifyEnd
  BY <1>15 DEF VerifyBegin, VerifyEnd
<1>16. ASSUME NEW S \in SUBSET Stallable, StallScan(S) PROVE ControlOf(i)'
  BY <1>16 DEF StallScan, Stallable
<1>17. ASSUME NEW S \in SUBSET Expirable, Purge(S) PROVE ControlOf(i)'
  BY <1>17 DEF Purge, Expirable, Closed
<1>18. CASE UNCHANGED vars
  BY <1>18 DEF vars
<1> QED BY <1>1, <1>2, <1>3, <1>4, <1>5, <1>6, <1>7, <1>8, <1>9, <1>10, <1>11,
           <1>12, <1>13, <1>14, <1>15, <1>16, <1>17, <1>18 DEF Next, Manage

\* The watchdog changes a job only by marking it as stalled and setting its event.
LEMMA StallEffect ==
  ASSUME NEW S, StallScan(S), NEW i \in Job
  PROVE  /\ UNCHANGED <<owner, phase, stage, at, fate>>
         /\ ev[i] => ev'[i]
         /\ \/ jobs'[i] = jobs[i]
            \/ /\ jobs'[i] = "stalled" /\ i \in S
               /\ i \in cancels => ev'[i]
<1>1. CASE MarkStallAsError
  <2>1. jobs'[i] = IF i \in S THEN "stalled" ELSE jobs[i]
    BY <1>1 DEF StallScan
  <2>2. ev'[i] = (ev[i] \/ i \in S \cap cancels)
    BY <1>1 DEF StallScan
  <2> QED BY <2>1, <2>2 DEF StallScan
<1>2. CASE ~MarkStallAsError
  BY <1>2 DEF StallScan
<1> QED BY <1>1, <1>2

LEMMA RecordingStep ==
  ASSUME VerdictInv, [Next]_vars, NEW i \in SttJobs
  PROVE  RecordingOf(i)'
<1>j. i \in Job
  BY DEF Job
<1>t. TypeOK /\ ControlOf(i) /\ RecordingOf(i)
  BY <1>j DEF VerdictInv
<1> USE <1>j, <1>t DEF TypeOK, Active, Terminal, Go, Mark, SetPhase, tables, ControlOf, RecordingOf,
        Doomed, Delivered
<1>1. ASSUME NEW j \in Job, Submit(j) PROVE RecordingOf(i)'
  BY <1>1 DEF Submit, WaitingPhase, Slot
<1>2. ASSUME NEW j \in Job, Acquire(j) PROVE RecordingOf(i)'
  BY <1>2 DEF Acquire
<1>3. ASSUME NEW j \in Job, Check(j) PROVE RecordingOf(i)'
  BY <1>3 DEF Check, SeesCancel, Slot
<1>4. ASSUME NEW j \in Job, MarkProcessing(j) PROVE RecordingOf(i)'
  BY <1>4 DEF MarkProcessing
<1>5. ASSUME NEW j \in Job, EnterPhase(j) PROVE RecordingOf(i)'
  BY <1>5 DEF EnterPhase, WorkPhase
<1>6. ASSUME NEW j \in Job, Enter(j) PROVE RecordingOf(i)'
  BY <1>6 DEF Enter
<1>7. ASSUME NEW j \in Job, Run(j) PROVE RecordingOf(i)'
  BY <1>7 DEF Run, Outcome
<1>8. ASSUME NEW j \in Job, Leave(j) PROVE RecordingOf(i)'
  BY <1>8 DEF Leave
<1>9. ASSUME NEW j \in Job, Release(j) PROVE RecordingOf(i)'
  BY <1>9 DEF Release
<1>10. ASSUME NEW j \in Job, Recheck(j) PROVE RecordingOf(i)'
  BY <1>10 DEF Recheck, SeesCancel
<1>11. ASSUME NEW j \in Job, Handoff(j) PROVE RecordingOf(i)'
  BY <1>11 DEF Handoff
<1>12. ASSUME NEW j \in Job, Settle(j) PROVE RecordingOf(i)'
  BY <1>12 DEF Settle, Verdict
<1>13. ASSUME NEW j \in Job, Cleanup(j) PROVE RecordingOf(i)'
  BY <1>13 DEF Cleanup
<1>14. ASSUME NEW j \in Job, Cancel(j) PROVE RecordingOf(i)'
  BY <1>14 DEF Cancel
<1>15. CASE VerifyBegin \/ VerifyEnd
  BY <1>15 DEF VerifyBegin, VerifyEnd
<1>16. ASSUME NEW S \in SUBSET Stallable, StallScan(S) PROVE RecordingOf(i)'
  <2>1. /\ UNCHANGED <<owner, phase, stage, at, fate>>
        /\ ev[i] => ev'[i]
        /\ \/ jobs'[i] = jobs[i]
           \/ /\ jobs'[i] = "stalled" /\ i \in S
              /\ i \in cancels => ev'[i]
    BY <1>16, StallEffect
  <2>2. CASE jobs'[i] = jobs[i]
    BY <2>1, <2>2
  <2>3. CASE jobs'[i] = "stalled" /\ i \in S /\ (i \in cancels => ev'[i])
    <3>1. phase[i] = "transcribing" /\ jobs[i] = "processing"
      BY <2>3, <1>16 DEF Stallable
    <3>2. i \in cancels /\ stage[i] = "stt"
      BY <3>1
    <3> QED BY <2>1, <2>3, <3>1, <3>2
  <2> QED BY <2>1, <2>2, <2>3
<1>17. ASSUME NEW S \in SUBSET Expirable, Purge(S) PROVE RecordingOf(i)'
  BY <1>17 DEF Purge, Expirable, Closed
<1>18. CASE UNCHANGED vars
  BY <1>18 DEF vars
<1> QED BY <1>1, <1>2, <1>3, <1>4, <1>5, <1>6, <1>7, <1>8, <1>9, <1>10, <1>11,
           <1>12, <1>13, <1>14, <1>15, <1>16, <1>17, <1>18 DEF Next, Manage

LEMMA VerdictInvariant == Spec => []VerdictInv
<1>1. VerdictInv /\ [Next]_vars /\ TypeOK' => VerdictInv'
  BY ControlStep, RecordingStep DEF VerdictInv
<1> QED BY <1>1, VerdictInvInit, TypeCorrect, PTL DEF Spec

\* What the tables show follows the fate of the job.
THEOREM ShownVerdictsAreReal == Spec => []ShownVerdictIsReal
<1>1. VerdictInv => ShownVerdictIsReal
  BY DEF VerdictInv, RecordingOf, ShownVerdictIsReal
<1> QED BY <1>1, VerdictInvariant, PTL

\* A finished recording has its owner: no purge came between.
THEOREM ResultsHaveOwners == Spec => []ResultHasOwner
<1>1. VerdictInv => ResultHasOwner
  BY DEF VerdictInv, RecordingOf, ResultHasOwner
<1> QED BY <1>1, VerdictInvariant, PTL

\* Neither fate is taken back.
LEMMA FateStable ==
  ASSUME VerdictInv, [Next]_vars, NEW i \in SttJobs
  PROVE  (Doomed(i) => Doomed(i)') /\ (Delivered(i) => Delivered(i)')
<1>j. i \in Job
  BY DEF Job
<1>t. TypeOK /\ ControlOf(i)
  BY <1>j DEF VerdictInv
<1> DEFINE Kept == (Doomed(i) => Doomed(i)') /\ (Delivered(i) => Delivered(i)')
<1> USE <1>j, <1>t DEF TypeOK, Go, tables, ControlOf, Doomed, Delivered
<1>1. ASSUME NEW j \in Job, Submit(j) PROVE Kept
  BY <1>1 DEF Submit, WaitingPhase
<1>2. ASSUME NEW j \in Job, Acquire(j) PROVE Kept
  BY <1>2 DEF Acquire
<1>3. ASSUME NEW j \in Job, Check(j) PROVE Kept
  BY <1>3 DEF Check, SeesCancel
<1>4. ASSUME NEW j \in Job, MarkProcessing(j) PROVE Kept
  BY <1>4 DEF MarkProcessing
<1>5. ASSUME NEW j \in Job, EnterPhase(j) PROVE Kept
  BY <1>5 DEF EnterPhase, WorkPhase
<1>6. ASSUME NEW j \in Job, Enter(j) PROVE Kept
  BY <1>6 DEF Enter
<1>7. ASSUME NEW j \in Job, Run(j) PROVE Kept
  BY <1>7 DEF Run, Outcome
<1>8. ASSUME NEW j \in Job, Leave(j) PROVE Kept
  BY <1>8 DEF Leave
<1>9. ASSUME NEW j \in Job, Release(j) PROVE Kept
  BY <1>9 DEF Release
<1>10. ASSUME NEW j \in Job, Recheck(j) PROVE Kept
  BY <1>10 DEF Recheck, SeesCancel
<1>11. ASSUME NEW j \in Job, Handoff(j) PROVE Kept
  BY <1>11 DEF Handoff
<1>12. ASSUME NEW j \in Job, Settle(j) PROVE Kept
  BY <1>12 DEF Settle, Verdict
<1>13. ASSUME NEW j \in Job, Cleanup(j) PROVE Kept
  BY <1>13 DEF Cleanup
<1>14. ASSUME NEW j \in Job, Cancel(j) PROVE Kept
  BY <1>14 DEF Cancel
<1>15. CASE VerifyBegin \/ VerifyEnd
  BY <1>15 DEF VerifyBegin, VerifyEnd
<1>16. ASSUME NEW S \in SUBSET Stallable, StallScan(S) PROVE Kept
  BY <1>16 DEF StallScan, Stallable
<1>17. ASSUME NEW S \in SUBSET Expirable, Purge(S) PROVE Kept
  BY <1>17 DEF Purge, Expirable, Closed
<1>18. CASE UNCHANGED vars
  BY <1>18 DEF vars
<1> QED BY <1>1, <1>2, <1>3, <1>4, <1>5, <1>6, <1>7, <1>8, <1>9, <1>10, <1>11,
           <1>12, <1>13, <1>14, <1>15, <1>16, <1>17, <1>18 DEF Next, Manage

LEMMA DoomedHasNoResult ==
  ASSUME VerdictInv, NEW i \in SttJobs, Doomed(i)
  PROVE  jobs[i] # "done"
  BY DEF VerdictInv, RecordingOf, Doomed, Delivered

\* A recording shown as cancelled or stalled never becomes a result.
THEOREM VerdictsAreKept == Spec => VerdictNeverBecomesDone
<1>1. ASSUME NEW j \in SttJobs
      PROVE  Spec => [](jobs[j] \in {"cancelled", "stalled"} => [](jobs[j] # "done"))
  <2>1. VerdictInv => (jobs[j] \in {"cancelled", "stalled"} => Doomed(j))
    BY DEF VerdictInv, RecordingOf
  <2>2. VerdictInv /\ Doomed(j) /\ [Next]_vars => Doomed(j)'
    BY FateStable
  <2>3. VerdictInv => (Doomed(j) => jobs[j] # "done")
    BY DoomedHasNoResult
  <2> QED BY <2>1, <2>2, <2>3, VerdictInvariant, PTL DEF Spec
<1> QED BY <1>1 DEF VerdictNeverBecomesDone

\* Only the purge removes a stored result, of any kind of job.
THEOREM ResultsAreFinal == Spec => ResultIsFinal
<1> DEFINE Final(i) == jobs[i] = "done" => jobs'[i] \in {"done", "absent"}
<1>1. ASSUME VerdictInv, [Next]_vars, NEW i \in Job PROVE Final(i)
  <2>t. TypeOK /\ ControlOf(i)
    BY <1>1 DEF VerdictInv
  <2> USE <1>1, <2>t DEF TypeOK, Active, Terminal, Go, Mark, tables, ControlOf
  <2>1. ASSUME NEW j \in Job, Submit(j) PROVE Final(i)
    BY <2>1 DEF Submit, WaitingPhase
  <2>2. ASSUME NEW j \in Job, Acquire(j) PROVE Final(i)
    BY <2>2 DEF Acquire
  <2>3. ASSUME NEW j \in Job, Check(j) PROVE Final(i)
    BY <2>3 DEF Check, SeesCancel
  <2>4. ASSUME NEW j \in Job, MarkProcessing(j) PROVE Final(i)
    BY <2>4 DEF MarkProcessing
  <2>5. ASSUME NEW j \in Job, EnterPhase(j) PROVE Final(i)
    BY <2>5 DEF EnterPhase, WorkPhase
  <2>6. ASSUME NEW j \in Job, Enter(j) PROVE Final(i)
    BY <2>6 DEF Enter
  <2>7. ASSUME NEW j \in Job, Run(j) PROVE Final(i)
    BY <2>7 DEF Run, Outcome
  <2>8. ASSUME NEW j \in Job, Leave(j) PROVE Final(i)
    BY <2>8 DEF Leave
  <2>9. ASSUME NEW j \in Job, Release(j) PROVE Final(i)
    BY <2>9 DEF Release
  <2>10. ASSUME NEW j \in Job, Recheck(j) PROVE Final(i)
    BY <2>10 DEF Recheck, SeesCancel
  <2>11. ASSUME NEW j \in Job, Handoff(j) PROVE Final(i)
    BY <2>11 DEF Handoff
  <2>12. ASSUME NEW j \in Job, Settle(j) PROVE Final(i)
    BY <2>12 DEF Settle, Verdict
  <2>13. ASSUME NEW j \in Job, Cleanup(j) PROVE Final(i)
    BY <2>13 DEF Cleanup
  <2>14. ASSUME NEW j \in Job, Cancel(j) PROVE Final(i)
    BY <2>14 DEF Cancel
  <2>15. CASE VerifyBegin \/ VerifyEnd
    BY <2>15 DEF VerifyBegin, VerifyEnd
  <2>16. ASSUME NEW S \in SUBSET Stallable, StallScan(S) PROVE Final(i)
    BY <2>16 DEF StallScan, Stallable
  <2>17. ASSUME NEW S \in SUBSET Expirable, Purge(S) PROVE Final(i)
    BY <2>17 DEF Purge, Expirable, Closed
  <2>18. CASE UNCHANGED vars
    BY <2>18 DEF vars
  <2> QED BY <2>1, <2>2, <2>3, <2>4, <2>5, <2>6, <2>7, <2>8, <2>9, <2>10, <2>11,
             <2>12, <2>13, <2>14, <2>15, <2>16, <2>17, <2>18 DEF Next, Manage
<1>2. VerdictInv /\ [Next]_vars => [\A j \in Job : jobs[j] = "done" => jobs'[j] \in {"done", "absent"}]_vars
  BY <1>1
<1>3. Spec => [][\A j \in Job : jobs[j] = "done" => jobs'[j] \in {"done", "absent"}]_vars
  BY <1>2, VerdictInvariant, PTL DEF Spec
<1> QED BY <1>3, PTL DEF ResultIsFinal

\* A purge takes no open job, whatever was stamped before.
THEOREM PurgeSparesOpen == Spec => PurgeSparesOpenJobs
<1> DEFINE Spared(i) == jobs[i] \in Active => jobs'[i] # "absent" /\ (i \in owner => i \in owner')
<1>1. ASSUME VerdictInv, [Next]_vars, NEW i \in Job PROVE Spared(i)
  <2>t. TypeOK
    BY <1>1 DEF VerdictInv
  <2> USE <1>1, <2>t DEF TypeOK, Active, Terminal, Go, Mark, tables
  <2>1. ASSUME NEW j \in Job, Submit(j) PROVE Spared(i)
    BY <2>1 DEF Submit, WaitingPhase
  <2>2. ASSUME NEW j \in Job, Acquire(j) PROVE Spared(i)
    BY <2>2 DEF Acquire
  <2>3. ASSUME NEW j \in Job, Check(j) PROVE Spared(i)
    BY <2>3 DEF Check, SeesCancel
  <2>4. ASSUME NEW j \in Job, MarkProcessing(j) PROVE Spared(i)
    BY <2>4 DEF MarkProcessing
  <2>5. ASSUME NEW j \in Job, EnterPhase(j) PROVE Spared(i)
    BY <2>5 DEF EnterPhase, WorkPhase
  <2>6. ASSUME NEW j \in Job, Enter(j) PROVE Spared(i)
    BY <2>6 DEF Enter
  <2>7. ASSUME NEW j \in Job, Run(j) PROVE Spared(i)
    BY <2>7 DEF Run, Outcome
  <2>8. ASSUME NEW j \in Job, Leave(j) PROVE Spared(i)
    BY <2>8 DEF Leave
  <2>9. ASSUME NEW j \in Job, Release(j) PROVE Spared(i)
    BY <2>9 DEF Release
  <2>10. ASSUME NEW j \in Job, Recheck(j) PROVE Spared(i)
    BY <2>10 DEF Recheck, SeesCancel
  <2>11. ASSUME NEW j \in Job, Handoff(j) PROVE Spared(i)
    BY <2>11 DEF Handoff
  <2>12. ASSUME NEW j \in Job, Settle(j) PROVE Spared(i)
    BY <2>12 DEF Settle, Verdict
  <2>13. ASSUME NEW j \in Job, Cleanup(j) PROVE Spared(i)
    BY <2>13 DEF Cleanup
  <2>14. ASSUME NEW j \in Job, Cancel(j) PROVE Spared(i)
    BY <2>14 DEF Cancel
  <2>15. CASE VerifyBegin \/ VerifyEnd
    BY <2>15 DEF VerifyBegin, VerifyEnd
  <2>16. ASSUME NEW S \in SUBSET Stallable, StallScan(S) PROVE Spared(i)
    BY <2>16 DEF StallScan, Stallable
  <2>17. ASSUME NEW S \in SUBSET Expirable, Purge(S) PROVE Spared(i)
    BY <2>17 DEF Purge, Expirable, Closed
  <2>18. CASE UNCHANGED vars
    BY <2>18 DEF vars
  <2> QED BY <2>1, <2>2, <2>3, <2>4, <2>5, <2>6, <2>7, <2>8, <2>9, <2>10, <2>11,
             <2>12, <2>13, <2>14, <2>15, <2>16, <2>17, <2>18 DEF Next, Manage
<1>2. VerdictInv /\ [Next]_vars
        => [\A j \in Job : jobs[j] \in Active => jobs'[j] # "absent" /\ (j \in owner => j \in owner')]_vars
  BY <1>1
<1>3. Spec => [][\A j \in Job : jobs[j] \in Active => jobs'[j] # "absent" /\ (j \in owner => j \in owner')]_vars
  BY <1>2, VerdictInvariant, PTL DEF Spec
<1> QED BY <1>3, PTL DEF PurgeSparesOpenJobs

LEMMA OnlySettleDelivers ==
  ASSUME VerdictInv, [Next]_vars, NEW i \in SttJobs, ~Delivered(i), Delivered(i)'
  PROVE  Settle(i) /\ stage[i] = "llm" /\ fate[i] = "ok"
<1>j. i \in Job
  BY DEF Job
<1>t. TypeOK /\ ControlOf(i)
  BY <1>j DEF VerdictInv
<1> DEFINE Here == Settle(i) /\ stage[i] = "llm" /\ fate[i] = "ok"
<1> USE <1>j, <1>t DEF TypeOK, Go, tables, ControlOf, Delivered
<1>1. ASSUME NEW j \in Job, Submit(j) PROVE Here
  BY <1>1 DEF Submit, WaitingPhase
<1>2. ASSUME NEW j \in Job, Acquire(j) PROVE Here
  BY <1>2 DEF Acquire
<1>3. ASSUME NEW j \in Job, Check(j) PROVE Here
  BY <1>3 DEF Check, SeesCancel
<1>4. ASSUME NEW j \in Job, MarkProcessing(j) PROVE Here
  BY <1>4 DEF MarkProcessing
<1>5. ASSUME NEW j \in Job, EnterPhase(j) PROVE Here
  BY <1>5 DEF EnterPhase, WorkPhase
<1>6. ASSUME NEW j \in Job, Enter(j) PROVE Here
  BY <1>6 DEF Enter
<1>7. ASSUME NEW j \in Job, Run(j) PROVE Here
  BY <1>7 DEF Run, Outcome
<1>8. ASSUME NEW j \in Job, Leave(j) PROVE Here
  BY <1>8 DEF Leave
<1>9. ASSUME NEW j \in Job, Release(j) PROVE Here
  BY <1>9 DEF Release
<1>10. ASSUME NEW j \in Job, Recheck(j) PROVE Here
  BY <1>10 DEF Recheck, SeesCancel
<1>11. ASSUME NEW j \in Job, Handoff(j) PROVE Here
  BY <1>11 DEF Handoff
<1>12. ASSUME NEW j \in Job, Settle(j) PROVE Here
  BY <1>12 DEF Settle, Verdict
<1>13. ASSUME NEW j \in Job, Cleanup(j) PROVE Here
  BY <1>13 DEF Cleanup
<1>14. ASSUME NEW j \in Job, Cancel(j) PROVE Here
  BY <1>14 DEF Cancel
<1>15. CASE VerifyBegin \/ VerifyEnd
  BY <1>15 DEF VerifyBegin, VerifyEnd
<1>16. ASSUME NEW S \in SUBSET Stallable, StallScan(S) PROVE Here
  BY <1>16 DEF StallScan, Stallable
<1>17. ASSUME NEW S \in SUBSET Expirable, Purge(S) PROVE Here
  BY <1>17 DEF Purge, Expirable, Closed
<1>18. CASE UNCHANGED vars
  BY <1>18 DEF vars
<1> QED BY <1>1, <1>2, <1>3, <1>4, <1>5, <1>6, <1>7, <1>8, <1>9, <1>10, <1>11,
           <1>12, <1>13, <1>14, <1>15, <1>16, <1>17, <1>18 DEF Next, Manage

\* The job table implements JobVerdicts: a step delivers one recording, or
\* refuses those it newly dooms (a stutter when there are none).
THEOREM Implements == Spec => KeepsPromise
<1> DEFINE v == [j \in SttJobs |-> IF Delivered(j) THEN "delivered"
                                  ELSE IF Doomed(j) THEN "refused" ELSE "open"]
<1>1. Init => Promise!Init
  BY DEF Init, Promise!Init, Delivered, Doomed, Job
<1>2. ASSUME VerdictInv, [Next]_vars PROVE [Promise!Next]_v
  <2>s. \A i \in SttJobs : (Doomed(i) => Doomed(i)') /\ (Delivered(i) => Delivered(i)')
    BY <1>2, FateStable
  <2>x. \A i \in SttJobs : ~(Doomed(i) /\ Delivered(i)) /\ ~(Doomed(i)' /\ Delivered(i)')
    BY DEF Doomed, Delivered
  <2>1. CASE \E j \in SttJobs : ~Delivered(j) /\ Delivered(j)'
    <3>1. PICK j \in SttJobs : ~Delivered(j) /\ Delivered(j)'
      BY <2>1
    <3>2. /\ Settle(j) /\ stage[j] = "llm" /\ fate[j] = "ok"
      BY <1>2, <3>1, OnlySettleDelivers
    <3>3. \A i \in SttJobs : i # j => Doomed(i)' = Doomed(i) /\ Delivered(i)' = Delivered(i)
      BY <3>2, <1>2 DEF Settle, Go, Doomed, Delivered, VerdictInv, TypeOK, Job
    <3>4. ~Doomed(j)
      BY <3>2 DEF Settle, Go, Doomed
    <3>5. v[j] = "open" /\ v' = [v EXCEPT ![j] = "delivered"]
      BY <3>1, <3>3, <3>4
    <3> QED BY <3>5 DEF Promise!Next, Promise!Deliver
  <2>2. CASE \A j \in SttJobs : Delivered(j)' => Delivered(j)
    <3> DEFINE S == {j \in SttJobs : ~Doomed(j) /\ Doomed(j)'}
    <3>1. \A j \in S : v[j] = "open"
      BY <2>s, <2>x
    <3>2. v' = [j \in SttJobs |-> IF j \in S THEN "refused" ELSE v[j]]
      BY <2>2, <2>s, <2>x
    <3>3. Promise!Refuse(S)
      BY <3>1, <3>2 DEF Promise!Refuse
    <3> QED BY <3>3 DEF Promise!Next
  <2> QED BY <2>1, <2>2
<1> QED BY <1>1, <1>2, VerdictInvariant, PTL DEF Spec, KeepsPromise, Promise!Spec
=============================================================================
