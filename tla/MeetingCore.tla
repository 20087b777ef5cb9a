------------------------------ MODULE MeetingCore ------------------------------
(***************************************************************************)
(* One run of the meeting core (postprocess/orchestrator.py): the windows  *)
(* of a meeting are summarised and searched for actions by a pool of       *)
(* workers, then the partial summaries are merged, checked by a critic and *)
(* put into Korean, each with one call of the agent CLI (backends/         *)
(* agent_cli.py), which repeats failed attempts and can be cancelled.      *)
(*                                                                         *)
(* A step is one access to what threads share - the cancel event, the      *)
(* counters, the progress of the job - or the end of one CLI process.  Of  *)
(* an answer only its kind is kept.  A meeting without any segment that    *)
(* passes the language gate makes no calls and is left out.                *)
(***************************************************************************)
EXTENDS Naturals, FiniteSets

CONSTANTS
  WindowCount,   \* len(plan.windows)
  SumOn, ExOn,   \* a summary backend, an extraction backend is configured
  CriticOn,      \* CORE_CRITIC_ENABLED
  LocalizeOn,    \* CORE_LOCALIZE_ENABLED
  MaxParallel,   \* CORE_MAX_PARALLEL
  Retries        \* AGENT_CLI_RETRIES

ASSUME CountsAssumption == WindowCount \in Nat \ {0} /\ MaxParallel \in Nat \ {0} /\ Retries \in Nat
ASSUME SwitchAssumption == {SumOn, ExOn, CriticOn, LocalizeOn} \subseteq BOOLEAN /\ (SumOn \/ ExOn)

Sums == IF SumOn THEN 1..WindowCount ELSE {}
Tasks == 1..(IF SumOn /\ ExOn THEN 2 * WindowCount ELSE WindowCount)
Core == 0                      \* the thread of run_meeting_core
Threads == Tasks \cup {Core}

\* _PROPAGATE: AgentCLIAuthError and OperationCancelled are never swallowed.
Signals == {"auth", "cancelled"}
Answer == {"parsed", "garbled"}
Kinds == {"worker", "summarizeParse", "extractParse", "reduce", "critic", "criticParse", "localize"}

VARIABLES
  at,        \* the next step of each thread
  got,       \* how the last call of each thread ended
  tries,     \* attempts of its call that failed
  stage,     \* the stage the core has reached
  gathered,  \* results taken from the pool, in the order of the tasks
  content,   \* the summary or the actions have something to check
  ticks,     \* done_count
  held,      \* what a worker has read of, or computed from, a shared counter
  shown,     \* the progress of the job, as the user sees it
  lost,      \* _FAILURES: the swallowed failures that go into coreMeta
  cancelled, \* the cancel event of the job
  outcome    \* what enrich_to_contract returned or raised

worker == <<ticks, held, shown, lost>>
vars == <<at, got, tries, stage, gathered, content, worker, cancelled, outcome>>

Init ==
  /\ at = [c \in Threads |-> IF c = Core THEN "gather" ELSE "queued"]
  /\ got = [c \in Threads |-> "none"] /\ tries = [c \in Threads |-> 0]
  /\ stage = "analyze" /\ gathered = 0 /\ content = FALSE
  /\ ticks = 0 /\ held = [t \in Tasks |-> 0]
  /\ shown = [stage |-> "analyze", done |-> 0]
  /\ lost = [k \in Kinds |-> 0]
  /\ cancelled = FALSE /\ outcome = "none"

Active(t) == at[t] \notin {"queued", "over", "skipped"}
Goto(c, s) == at' = [at EXCEPT ![c] = s]
Counts(k, n) == lost' = [lost EXCEPT ![k] = @ + n]

-----------------------------------------------------------------------------
(* AgentCLIBackend.generate, called by a worker or by the core.            *)

\* The call is over; a worker counts a failure before it reports its end.
Returns(c, how) ==
  /\ got' = [got EXCEPT ![c] = how]
  /\ tries' = [tries EXCEPT ![c] = 0]
  /\ Goto(c, IF c = Core THEN "back" ELSE IF how = "failed" THEN "read" ELSE "tick")
  /\ UNCHANGED <<stage, gathered, content, worker, cancelled, outcome>>

\* _raise_if_cancelled before every attempt.
Attempt(c) ==
  /\ at[c] = "ready"
  /\ \/ cancelled /\ Returns(c, "cancelled")
     \/ /\ ~cancelled /\ Goto(c, "asked")
        /\ UNCHANGED <<got, tries, stage, gathered, content, worker, cancelled, outcome>>

\* Exit status 0, with an answer of some kind.
Answers(c) == at[c] = "asked" /\ \E how \in Answer : Returns(c, how)

\* Variant: the attempts are not counted.
FailsForever(c) ==
  /\ at[c] = "asked" /\ Goto(c, "ready")
  /\ UNCHANGED <<got, tries, stage, gathered, content, worker, cancelled, outcome>>

\* A timeout or another exit status: again, until the retries are used up.
Fails(c) ==
  /\ at[c] = "asked"
  /\ \/ tries[c] = Retries /\ Returns(c, "failed")
     \/ /\ tries[c] < Retries
        /\ tries' = [tries EXCEPT ![c] = @ + 1] /\ Goto(c, "ready")
        /\ UNCHANGED <<got, stage, gathered, content, worker, cancelled, outcome>>

\* stderr has one of _AUTH_MARKERS: not repeated.
Refused(c) == at[c] = "asked" /\ Returns(c, "auth")

\* The wait loop sees the event and kills the process group.
Killed(c) == at[c] = "asked" /\ cancelled /\ Returns(c, "cancelled")

CallEnds(c) == Answers(c) \/ Fails(c) \/ Refused(c) \/ Killed(c)

-----------------------------------------------------------------------------
(* A worker of _run_parallel.                                              *)

\* The pool starts its tasks in order, MaxParallel at a time.
Start(t) ==
  /\ at[t] = "queued" /\ \A u \in 1..(t-1) : at[u] # "queued"
  /\ Cardinality({u \in Tasks : Active(u)}) < MaxParallel
  /\ Goto(t, "ready")
  /\ UNCHANGED <<got, tries, stage, gathered, content, worker, cancelled, outcome>>

\* _count_failure("worker") reads the counter and then writes it.
ReadCount(t) ==
  /\ at[t] = "read" /\ Goto(t, "write")
  /\ held' = [held EXCEPT ![t] = lost["worker"]]
  /\ UNCHANGED <<got, tries, stage, gathered, content, ticks, shown, lost, cancelled, outcome>>

\* Variant: the old value is written back.
WriteOld(t) ==
  /\ at[t] = "write" /\ Goto(t, "tick")
  /\ lost' = [lost EXCEPT !["worker"] = held[t]]
  /\ UNCHANGED <<got, tries, stage, gathered, content, ticks, held, shown, cancelled, outcome>>

WriteCount(t) ==
  /\ at[t] = "write" /\ Goto(t, "tick")
  /\ lost' = [lost EXCEPT !["worker"] = held[t] + 1]
  /\ UNCHANGED <<got, tries, stage, gathered, content, ticks, held, shown, cancelled, outcome>>

\* _task_done counts under done_lock and reports outside it.
Tick(t) ==
  /\ at[t] = "tick" /\ Goto(t, "tell")
  /\ ticks' = ticks + 1 /\ held' = [held EXCEPT ![t] = ticks + 1]
  /\ UNCHANGED <<got, tries, stage, gathered, content, shown, lost, cancelled, outcome>>

Tell(t) ==
  /\ at[t] = "tell" /\ Goto(t, "over")
  /\ shown' = [stage |-> "analyze", done |-> held[t]] /\ held' = [held EXCEPT ![t] = 0]
  /\ UNCHANGED <<got, tries, stage, gathered, content, ticks, lost, cancelled, outcome>>

-----------------------------------------------------------------------------
(* run_meeting_core.                                                       *)

\* Variant: a signal counts as a window without result.
GatherPast ==
  /\ at[Core] = "gather"
  /\ gathered + 1 \in Tasks /\ at[gathered + 1] = "over"
  /\ gathered' = gathered + 1
  /\ UNCHANGED <<at, got, tries, stage, content, worker, cancelled, outcome>>

\* The next result in the order of the tasks.  A signal ends the collection,
\* and what has not been started is cancelled.
Takes ==
  /\ \/ /\ got[gathered + 1] \notin Signals
        /\ gathered' = gathered + 1
        /\ UNCHANGED <<at, got>>
     \/ /\ got[gathered + 1] \in Signals
        /\ got' = [got EXCEPT ![Core] = got[gathered + 1]]
        /\ at' = [c \in Threads |-> IF c = Core THEN "unwind"
                                    ELSE IF at[c] = "queued" THEN "skipped" ELSE at[c]]
        /\ UNCHANGED gathered
  /\ UNCHANGED <<tries, stage, content, worker, cancelled, outcome>>

\* list(pool.map(...)).
Gather == at[Core] = "gather" /\ gathered + 1 \in Tasks /\ at[gathered + 1] = "over" /\ Takes

\* Variant: the pool is left without waiting for its workers.
UnwindAtOnce ==
  /\ at[Core] = "unwind"
  /\ outcome' = got[Core] /\ Goto(Core, "over")
  /\ UNCHANGED <<got, tries, stage, gathered, content, worker, cancelled>>

\* Leaving the pool waits for the workers that run.
Unwind ==
  /\ at[Core] = "unwind" /\ \A t \in Tasks : ~Active(t)
  /\ outcome' = got[Core] /\ Goto(Core, "over")
  /\ UNCHANGED <<got, tries, stage, gathered, content, worker, cancelled>>

\* Summaries that take part in the merge: one that could not be parsed is empty, but there.
Parts == {t \in Sums : got[t] \in Answer}
Garbled(S) == Cardinality({t \in S : got[t] = "garbled"})

\* The core reports the stage it enters and, except for localize, makes its call.
Enters(s) ==
  /\ stage' = s /\ shown' = [stage |-> s, done |-> 0]
  /\ Goto(Core, IF s = "localize" THEN "inspect" ELSE "ready")

\* The critic needs something to check.
EntersChecks(c) == content' = c /\ Enters(IF CriticOn /\ SumOn /\ c THEN "critic" ELSE "localize")

\* All results are there; partial summaries are merged if there are several.
Assemble ==
  /\ at[Core] = "gather" /\ gathered = Cardinality(Tasks)
  /\ lost' = [lost EXCEPT !["summarizeParse"] = Garbled(Sums),
                          !["extractParse"] = Garbled(Tasks \ Sums)]
  /\ \E some \in IF \E t \in Tasks : got[t] = "parsed" THEN BOOLEAN ELSE {FALSE} :
       IF Cardinality(Parts) > 1 THEN content' = some /\ Enters("reduce") ELSE EntersChecks(some)
  /\ UNCHANGED <<got, tries, gathered, ticks, held, cancelled, outcome>>

\* The merge, or else the parts one after the other.
Reduced ==
  /\ at[Core] = "back" /\ stage = "reduce" /\ got[Core] \notin Signals
  /\ Counts("reduce", IF got[Core] = "failed" THEN 1 ELSE 0)
  /\ \E c \in IF got[Core] = "parsed" THEN BOOLEAN ELSE {content} : EntersChecks(c)
  /\ UNCHANGED <<got, tries, gathered, ticks, held, cancelled, outcome>>

\* Verdicts may drop everything; without verdicts everything is kept.
Criticised ==
  /\ at[Core] = "back" /\ stage = "critic" /\ got[Core] \notin Signals
  /\ lost' = [lost EXCEPT !["critic"] = IF got[Core] = "failed" THEN 1 ELSE 0,
                          !["criticParse"] = IF got[Core] = "garbled" THEN 1 ELSE 0]
  /\ content' \in IF got[Core] = "parsed" THEN BOOLEAN ELSE {content}
  /\ Enters("localize")
  /\ UNCHANGED <<got, tries, gathered, ticks, held, cancelled, outcome>>

\* Texts are grounded and delivered.
Delivers ==
  /\ stage' = "finalize" /\ shown' = [stage |-> "finalize", done |-> 0]
  /\ outcome' = "result" /\ Goto(Core, "over")

\* _enforce_korean: one more call if some text, a title say, is not Korean.
Inspect ==
  /\ at[Core] = "inspect"
  /\ \/ /\ LocalizeOn /\ (\E c \in Threads : got[c] = "parsed") /\ Goto(Core, "ready")
        /\ UNCHANGED <<stage, shown, outcome>>
     \/ Delivers
  /\ UNCHANGED <<got, tries, gathered, content, ticks, held, lost, cancelled>>

Localised ==
  /\ at[Core] = "back" /\ stage = "localize" /\ got[Core] \notin Signals
  /\ Counts("localize", IF got[Core] = "failed" THEN 1 ELSE 0)
  /\ Delivers
  /\ UNCHANGED <<got, tries, gathered, content, ticks, held, cancelled>>

\* except _PROPAGATE: raise.
Propagates ==
  /\ at[Core] = "back" /\ got[Core] \in Signals
  /\ outcome' = got[Core] /\ Goto(Core, "over")
  /\ UNCHANGED <<got, tries, stage, gathered, content, worker, cancelled>>

-----------------------------------------------------------------------------
\* The user cancels the job.
Cancel ==
  /\ ~cancelled /\ outcome = "none" /\ cancelled' = TRUE
  /\ UNCHANGED <<at, got, tries, stage, gathered, content, worker, outcome>>

WorkerStep(t) == Start(t) \/ Attempt(t) \/ ReadCount(t) \/ WriteCount(t) \/ Tick(t) \/ Tell(t)

CoreStep ==
  \/ Gather \/ Unwind \/ Assemble \/ Attempt(Core)
  \/ Reduced \/ Criticised \/ Inspect \/ Localised \/ Propagates

Next ==
  \/ \E t \in Tasks : WorkerStep(t)
  \/ CoreStep
  \/ \E c \in Threads : CallEnds(c)
  \/ Cancel

Spec == Init /\ [][Next]_vars

\* Threads run on, and every attempt ends by itself or at its deadline.
FairSpec ==
  /\ Spec /\ WF_vars(CoreStep)
  /\ \A t \in Tasks : WF_vars(WorkerStep(t))
  /\ \A c \in Threads : WF_vars(CallEnds(c))

-----------------------------------------------------------------------------
TypeOK ==
  /\ at \in [Threads -> {"queued", "ready", "asked", "read", "write", "tick", "tell", "skipped",
                         "gather", "unwind", "back", "inspect", "over"}]
  /\ got \in [Threads -> Answer \cup Signals \cup {"none", "failed"}]
  /\ tries \in [Threads -> 0..Retries]
  /\ stage \in {"analyze", "reduce", "critic", "localize", "finalize"}
  /\ gathered \in 0..Cardinality(Tasks) /\ content \in BOOLEAN
  /\ ticks \in Nat /\ held \in [Tasks -> Nat]
  /\ shown \in [stage : {"analyze", "reduce", "critic", "localize", "finalize"}, done : Nat]
  /\ lost \in [Kinds -> Nat]
  /\ cancelled \in BOOLEAN /\ outcome \in Signals \cup {"none", "result"}

\* An expired login or a cancel that any call met is never delivered as a
\* (poorer) result: the user is told (_run_parallel, "삼키지 않고 전파한다").
SignalsReachUser == outcome = "result" => \A c \in Threads : got[c] \notin Signals

\* When the core is over, no worker and no CLI process of it is left to use
\* the LLM slot that its job now gives back.
NoCallOutlivesCore ==
  outcome # "none" => \A c \in Threads : at[c] \in {"over", "skipped"}

\* A result in which a call was lost says so in coreMeta.failures, and one in
\* which none was lost has no failures, although two workers may write the
\* counter over each other (_count_failure).
LossIsTraced ==
  outcome = "result" =>
    /\ lost["worker"] > 0 <=> \E t \in Tasks : got[t] = "failed"
    /\ lost["worker"] <= Cardinality({t \in Tasks : got[t] = "failed"})
    /\ lost["summarizeParse"] > 0 <=> \E t \in Sums : got[t] = "garbled"
    /\ lost["extractParse"] > 0 <=> \E t \in Tasks \ Sums : got[t] = "garbled"

\* The stage on screen is the stage the core is in: no worker's report arrives
\* after the core has gone on (on_done runs before the result is there).
ShownStageIsReal == shown.stage = stage

\* However calls fail, hang or are cancelled, the job gets an answer.
CoreEnds == <>(outcome # "none")

=============================================================================
