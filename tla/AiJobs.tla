------------------------------- MODULE AiJobs -------------------------------
(***************************************************************************)
(* The AI jobs of web/app.py: one thread per submitted job, two           *)
(* semaphores (STT on the GPU, LLM calls), the job tables guarded by      *)
(* _jobs_lock, and the three actors that change them under the threads:   *)
(* the cancel endpoint, the stall watchdog and the purge loop.            *)
(*                                                                        *)
(* A step is what the code does between two releases of _jobs_lock or     *)
(* two blocking calls.  The result, the messages and the times are        *)
(* abstracted: of the error codes only stt_stalled, which is not written  *)
(* by the thread, is told apart; a stall or an expiry may be observed     *)
(* whenever its guard holds.                                              *)
(***************************************************************************)
EXTENDS Naturals, FiniteSets

CONSTANTS
  SttJobs,           \* jobs of POST /api/ai/process: STT, then LLM
  RegenJobs,         \* jobs of POST .../regenerate: LLM only
  SttSlots, LlmSlots,
  MarkStallAsError,  \* STT_STALL_MARK_ERROR
  Hangs              \* jobs whose transcription may never return

ASSUME JobsAssumption ==
  /\ IsFiniteSet(SttJobs) /\ IsFiniteSet(RegenJobs)
  /\ SttJobs \cap RegenJobs = {}
  /\ Hangs \subseteq SttJobs

ASSUME SlotsAssumption ==
  /\ SttSlots \in Nat \ {0} /\ LlmSlots \in Nat \ {0}
  /\ MarkStallAsError \in BOOLEAN

Job  == SttJobs \cup RegenJobs
Slot == {"stt", "llm"}
SlotCount == [k \in Slot |-> IF k = "stt" THEN SttSlots ELSE LlmSlots]

VARIABLES
  jobs,      \* _jobs[id].status; "stalled" is an error with code stt_stalled
  owner,     \* ids in _job_owner
  cancels,   \* ids in _job_cancels
  ev,        \* the job's threading.Event is set
  phase,     \* _job_meta[id].phase; "none" when there is no entry
  warned,    \* ids whose _job_meta entry has warning = stt_stalled
  stamped,   \* ids in _job_finished_at
  free,      \* the two semaphores' counters
  inflight,  \* _inflight
  pings,     \* credential verifications inside `with _llm_semaphore`
  stage,     \* which `with _..._semaphore` block the thread is at
  at,        \* the thread's next step
  fate       \* how its `with` block ended

tables == <<jobs, owner, cancels, ev, phase, warned, stamped>>
vars   == <<tables, free, inflight, pings, stage, at, fate>>

Active   == {"queued", "processing"}
Terminal == {"done", "cancelled", "error", "stalled"}
Status   == {"absent"} \cup Active \cup Terminal

WaitingPhase == [k \in Slot |-> IF k = "stt" THEN "waiting_stt" ELSE "waiting_llm"]
WorkPhase    == [k \in Slot |-> IF k = "stt" THEN "transcribing" ELSE "summarizing"]
Phase == {"none", "waiting_stt", "transcribing", "waiting_llm", "summarizing"}

Step == {"idle", "wait", "check", "mark", "phase", "enter", "run", "leave",
         "release", "recheck", "handoff", "settle", "cleanup", "ended"}
Fate == {"none", "returned", "ok", "cancelled", "error"}

Init ==
  /\ jobs = [j \in Job |-> "absent"]
  /\ owner = {} /\ cancels = {} /\ warned = {} /\ stamped = {}
  /\ ev = [j \in Job |-> FALSE]
  /\ phase = [j \in Job |-> "none"]
  /\ free = SlotCount
  /\ inflight = [k \in Slot |-> 0]
  /\ pings = 0
  /\ stage = [j \in Job |-> IF j \in SttJobs THEN "stt" ELSE "llm"]
  /\ at = [j \in Job |-> "idle"]
  /\ fate = [j \in Job |-> "none"]

Mark(j, s)   == jobs' = [jobs EXCEPT ![j] = s]
SetPhase(j, p) == phase' = [phase EXCEPT ![j] = p]
Go(j, from, to) == at[j] = from /\ at' = [at EXCEPT ![j] = to]

-----------------------------------------------------------------------------
(* The endpoints that start a job.  The id is not known to anyone before   *)
(* the reply, and a queued job is of no interest to the watchdog or the    *)
(* purge, so the table writes and the thread start are one step.           *)
Submit(j) ==
  /\ Go(j, "idle", "wait")
  /\ Mark(j, "queued")
  /\ owner' = owner \cup {j}
  /\ cancels' = cancels \cup {j}
  /\ SetPhase(j, WaitingPhase[stage[j]])
  /\ UNCHANGED <<ev, warned, stamped, free, inflight, pings, stage, fate>>

-----------------------------------------------------------------------------
(* The job's thread.                                                       *)

\* `with _stt_semaphore` / `with _llm_semaphore`
Acquire(j) ==
  /\ Go(j, "wait", "check")
  /\ free[stage[j]] > 0
  /\ free' = [free EXCEPT ![stage[j]] = @ - 1]
  /\ UNCHANGED <<tables, inflight, pings, stage, fate>>

\* Variant: only the checks of the STT stage are kept.
SeesCancelInSttOnly(j) == ev[j] /\ stage[j] = "stt"

\* The event as the thread reads it in _job_cancelled.
SeesCancel(j) == ev[j]

\* _job_cancelled right after the slot is taken.
Check(j) ==
  /\ at[j] = "check"
  /\ IF SeesCancel(j)
     THEN /\ Mark(j, "cancelled")
          /\ fate' = [fate EXCEPT ![j] = "returned"]
          /\ at' = [at EXCEPT ![j] = "release"]
     ELSE /\ at' = [at EXCEPT ![j] =
                      IF j \in SttJobs /\ stage[j] = "llm" THEN "phase" ELSE "mark"]
          /\ UNCHANGED <<jobs, fate>>
  /\ UNCHANGED <<owner, cancels, ev, phase, warned, stamped, free, inflight, pings, stage>>

MarkProcessing(j) ==
  /\ Go(j, "mark", "phase")
  /\ Mark(j, "processing")
  /\ UNCHANGED <<owner, cancels, ev, phase, warned, stamped, free, inflight, pings, stage, fate>>

\* _set_phase keeps the entry's warning, and makes a new entry after a purge.
EnterPhase(j) ==
  /\ Go(j, "phase", "enter")
  /\ SetPhase(j, WorkPhase[stage[j]])
  /\ UNCHANGED <<jobs, owner, cancels, ev, warned, stamped, free, inflight, pings, stage, fate>>

Enter(j) ==
  /\ Go(j, "enter", "run")
  /\ inflight' = [inflight EXCEPT ![stage[j]] = @ + 1]
  /\ UNCHANGED <<tables, free, pings, stage, fate>>

\* transcribe_to_segments, enrich_to_contract, run_meeting_core: they return,
\* fail, or raise OperationCancelled where they poll a set event.
Outcome(j) == {"ok", "error"} \cup (IF ev[j] THEN {"cancelled"} ELSE {})

Run(j) ==
  /\ Go(j, "run", "leave")
  /\ \E o \in Outcome(j) : fate' = [fate EXCEPT ![j] = o]
  /\ UNCHANGED <<tables, free, inflight, pings, stage>>

\* finally: _inflight_delta(kind, -1)
Leave(j) ==
  /\ Go(j, "leave", "release")
  /\ inflight' = [inflight EXCEPT ![stage[j]] = @ - 1]
  /\ UNCHANGED <<tables, free, pings, stage, fate>>

\* Variant: acquire and release without `with`: the early return keeps the slot.
ReleaseUnlessReturned(j) ==
  /\ Go(j, "release", CASE fate[j] = "returned" -> "cleanup"
                        [] fate[j] = "ok" /\ stage[j] = "stt" -> "recheck"
                        [] OTHER -> "settle")
  /\ free' = [free EXCEPT ![stage[j]] = IF fate[j] = "returned" THEN @ ELSE @ + 1]
  /\ UNCHANGED <<tables, inflight, pings, stage, fate>>

\* The `with` block ends: by return, by exception or by falling through.
Release(j) ==
  /\ Go(j, "release", CASE fate[j] = "returned" -> "cleanup"
                        [] fate[j] = "ok" /\ stage[j] = "stt" -> "recheck"
                        [] OTHER -> "settle")
  /\ free' = [free EXCEPT ![stage[j]] = @ + 1]
  /\ UNCHANGED <<tables, inflight, pings, stage, fate>>

\* _job_cancelled between the two stages of an STT job.
Recheck(j) ==
  /\ Go(j, "recheck", IF SeesCancel(j) THEN "cleanup" ELSE "handoff")
  /\ IF SeesCancel(j)
     THEN Mark(j, "cancelled") /\ fate' = [fate EXCEPT ![j] = "returned"]
     ELSE UNCHANGED <<jobs, fate>>
  /\ UNCHANGED <<owner, cancels, ev, phase, warned, stamped, free, inflight, pings, stage>>

Handoff(j) ==
  /\ Go(j, "handoff", "wait")
  /\ SetPhase(j, "waiting_llm")
  /\ stage' = [stage EXCEPT ![j] = "llm"]
  /\ fate' = [fate EXCEPT ![j] = "none"]
  /\ UNCHANGED <<jobs, owner, cancels, ev, warned, stamped, free, inflight, pings>>

\* The status written by the last line of the try block or an except clause.
Verdict(j) ==
  CASE fate[j] = "ok" -> "done"
    [] fate[j] = "cancelled" -> "cancelled"
    [] OTHER -> "error"

Settle(j) ==
  /\ Go(j, "settle", "cleanup")
  /\ Mark(j, Verdict(j))
  /\ UNCHANGED <<owner, cancels, ev, phase, warned, stamped, free, inflight, pings, stage, fate>>

\* finally: _job_cancels.pop(job_id)
Cleanup(j) ==
  /\ Go(j, "cleanup", "ended")
  /\ cancels' = cancels \ {j}
  /\ UNCHANGED <<jobs, owner, ev, phase, warned, stamped, free, inflight, pings, stage, fate>>

-----------------------------------------------------------------------------
(* The other actors.                                                       *)

\* POST /api/ai/jobs/{id}/cancel, by the owner, while the job is open.
Cancel(j) ==
  /\ j \in owner \cap cancels
  /\ jobs[j] \in Active
  /\ ev' = [ev EXCEPT ![j] = TRUE]
  /\ IF jobs[j] = "queued" THEN Mark(j, "cancelled") ELSE UNCHANGED jobs
  /\ UNCHANGED <<owner, cancels, phase, warned, stamped, free, inflight, pings, stage, at, fate>>

\* GET .../claude-credential/verify pings under an LLM slot, uncounted.
VerifyBegin ==
  /\ free["llm"] > 0
  /\ free' = [free EXCEPT !["llm"] = @ - 1]
  /\ pings' = pings + 1
  /\ UNCHANGED <<tables, inflight, stage, at, fate>>

VerifyEnd ==
  /\ pings > 0
  /\ free' = [free EXCEPT !["llm"] = @ + 1]
  /\ pings' = pings - 1
  /\ UNCHANGED <<tables, inflight, stage, at, fate>>

\* _scan_stt_stalls: S is the set of jobs past STT_STALL_SEC at this pass.
Stallable == {j \in Job : phase[j] = "transcribing" /\ jobs[j] = "processing"}

\* Variant: the thread is told but the job is left open.
StallScanLeavesOpen(S) ==
  /\ warned' = warned \cup S
  /\ ev' = [j \in Job |-> ev[j] \/ (MarkStallAsError /\ j \in S \cap cancels)]
  /\ UNCHANGED <<jobs, owner, cancels, phase, stamped, free, inflight, pings, stage, at, fate>>

StallScan(S) ==
  /\ warned' = warned \cup S
  /\ IF MarkStallAsError
     THEN /\ jobs' = [j \in Job |-> IF j \in S THEN "stalled" ELSE jobs[j]]
          /\ ev' = [j \in Job |-> ev[j] \/ j \in S \cap cancels]
     ELSE UNCHANGED <<jobs, ev>>
  /\ UNCHANGED <<owner, cancels, phase, stamped, free, inflight, pings, stage, at, fate>>

\* _purge_finished_jobs: S is the set of stamps older than the retention.
Closed == {j \in Job : jobs[j] \in Terminal}

\* Variant: the stamp of a job that is open again is not dropped.
StampedOnce == stamped

Expirable == stamped \cap Closed

\* Variant: the meta table is not purged with the others.
PurgeKeepsMeta(S) ==
  LET gone == S \cup {j \in stamped : jobs[j] = "absent"}
  IN  /\ stamped' = ((stamped \cap {j \in Job : jobs[j] = "absent"}) \cup Closed) \ gone
      /\ jobs' = [j \in Job |-> IF j \in gone THEN "absent" ELSE jobs[j]]
      /\ owner' = owner \ gone
      /\ UNCHANGED <<phase, warned, cancels, ev, free, inflight, pings, stage, at, fate>>

Purge(S) ==
  LET gone == S \cup {j \in stamped : jobs[j] = "absent"}
  IN  /\ stamped' = ((stamped \cap {j \in Job : jobs[j] = "absent"}) \cup Closed) \ gone
      /\ jobs' = [j \in Job |-> IF j \in gone THEN "absent" ELSE jobs[j]]
      /\ phase' = [j \in Job |-> IF j \in gone THEN "none" ELSE phase[j]]
      /\ owner' = owner \ gone
      /\ warned' = warned \ gone
      /\ UNCHANGED <<cancels, ev, free, inflight, pings, stage, at, fate>>

-----------------------------------------------------------------------------
Manage(j) ==
  \/ Acquire(j) \/ Check(j) \/ MarkProcessing(j) \/ EnterPhase(j) \/ Enter(j)
  \/ Leave(j) \/ Release(j) \/ Recheck(j) \/ Handoff(j) \/ Settle(j) \/ Cleanup(j)

Next ==
  \/ \E j \in Job : Submit(j) \/ Manage(j) \/ Run(j) \/ Cancel(j)
  \/ VerifyBegin \/ VerifyEnd
  \/ \E S \in SUBSET Stallable : StallScan(S)
  \/ \E S \in SUBSET Expirable : Purge(S)

Spec == Init /\ [][Next]_vars

\* Threads run unless their engine hangs (LLM calls and pings have a timeout); a
\* thread waiting for a semaphore that keeps being released gets it (a user's
\* verifications are spaced by the cooldown, so they cannot barge forever); the
\* watchdog and the purge run periodically, so what stays past its limit is seen.
Fairness ==
  /\ \A j \in Job : WF_vars(Manage(j)) /\ SF_vars(Acquire(j))
  /\ \A j \in Job : WF_vars(Run(j) /\ (j \in Hangs => stage[j] = "llm"))
  /\ WF_vars(VerifyEnd)
  /\ WF_vars(StallScan(Stallable))
  /\ WF_vars(Purge(Expirable))

FairSpec == Spec /\ Fairness

-----------------------------------------------------------------------------
(* Properties.                                                             *)

TypeOK ==
  /\ jobs \in [Job -> Status]
  /\ owner \subseteq Job /\ cancels \subseteq Job
  /\ warned \subseteq Job /\ stamped \subseteq Job
  /\ ev \in [Job -> BOOLEAN]
  /\ phase \in [Job -> Phase]
  /\ free \in [Slot -> Nat] /\ inflight \in [Slot -> Nat] /\ pings \in Nat
  /\ stage \in [Job -> Slot]
  /\ at \in [Job -> Step] /\ fate \in [Job -> Fate]

Holders(k) == {j \in Job : stage[j] = k
                 /\ at[j] \in {"check", "mark", "phase", "enter", "run", "leave", "release"}}
Running(k) == {j \in Job : stage[j] = k /\ at[j] \in {"run", "leave"}}

\* The semaphores and the counters shown to operators always agree with the
\* threads, on every way out of a `with` block, also for a job already closed
\* as stalled or cancelled (the comment on _inflight): no slot leaks, none is
\* returned twice, and no more threads run than there are slots.
SlotsAccounted ==
  \A k \in Slot :
    /\ free[k] + Cardinality(Holders(k)) + (IF k = "llm" THEN pings ELSE 0) = SlotCount[k]
    /\ inflight[k] = Cardinality(Running(k))

\* A job whose result can no longer be stored: its event is set before the last
\* check that reads it, or its last block ended otherwise.
Doomed(j) ==
  \/ fate[j] \in {"returned", "cancelled", "error"}
  \/ ev[j] /\ stage[j] = "stt"
  \/ ev[j] /\ at[j] \in {"wait", "check"}

Delivered(j) == stage[j] = "llm" /\ fate[j] = "ok" /\ at[j] \in {"cleanup", "ended"}

\* What the tables show follows the fate of the job: a recording once shown as
\* cancelled or stalled is doomed, and only a delivered one is shown as done.
ShownVerdictIsReal ==
  \A j \in SttJobs :
    /\ jobs[j] \in {"cancelled", "stalled"} => Doomed(j)
    /\ jobs[j] = "done" => Delivered(j)

\* A recording the user was told is cancelled or stalled never turns into a
\* result afterwards, whatever its thread, the watchdog and the purge do (the
\* reason the watchdog also sets the event).
VerdictNeverBecomesDone ==
  \A j \in SttJobs : [](jobs[j] \in {"cancelled", "stalled"} => [](jobs[j] # "done"))

\* A stored result is never overwritten: only the purge removes it.
ResultIsFinal ==
  [][\A j \in Job : jobs[j] = "done" => jobs'[j] \in {"done", "absent"}]_vars

\* The purge never takes a job that is open, not even one it had stamped as
\* finished and whose thread has since set it back to processing.
PurgeSparesOpenJobs ==
  [][\A j \in Job : jobs[j] \in Active => jobs'[j] # "absent" /\ (j \in owner => j \in owner')]_vars

\* A finished recording always has its owner, so its user can fetch it (the
\* poll hides jobs without an owner).
ResultHasOwner == \A j \in SttJobs : jobs[j] = "done" => j \in owner

\* The job table implements the promise of JobVerdicts.
Promise == INSTANCE JobVerdicts WITH
  Job <- SttJobs,
  verdict <- [j \in SttJobs |-> IF Delivered(j) THEN "delivered"
                                ELSE IF Doomed(j) THEN "refused" ELSE "open"]
KeepsPromise == Promise!Spec

\* Every submitted job is closed for its user, also when engines hang, as long
\* as one STT slot is not held by a hung engine: the watchdog closes those, where
\* MarkStallAsError lets it, which is off by default.
EveryJobSettles ==
  \A j \in Job : (jobs[j] = "queued") ~> (jobs[j] \notin Active)

\* Once a thread has ended, every trace of its job is reclaimed, also the rows
\* it re-created after an earlier purge.
TablesReclaimed ==
  \A j \in Job : (at[j] = "ended") ~>
     (jobs[j] = "absent" /\ phase[j] = "none" /\ j \notin owner \cup warned \cup stamped \cup cancels)
=============================================================================
