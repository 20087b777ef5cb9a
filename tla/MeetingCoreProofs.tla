--------------------------- MODULE MeetingCoreProofs ---------------------------
(***************************************************************************)
(* Theorems about the meeting core.  MeetingCore first, for any number of  *)
(* windows, workers and retries and every setting of the switches; then    *)
(* CoreText, for every transcript, every sequence of answers and every     *)
(* setting of the gate and of the windows.                                 *)
(***************************************************************************)
EXTENDS MeetingCore, CoreText, SequenceTheorems, FiniteSetTheorems, WellFoundedInduction, TLAPS

Stages == {"analyze", "reduce", "critic", "localize", "finalize"}
Ends == Answer \cup Signals \cup {"failed"}
WorkerSteps == {"queued", "ready", "asked", "read", "write", "tick", "tell", "skipped", "over"}
CoreSteps == {"gather", "unwind", "ready", "asked", "back", "inspect", "over"}

LEMMA TasksAreFinite ==
  /\ IsFiniteSet(Tasks) /\ Tasks \subseteq Nat /\ Core \notin Tasks /\ Sums \subseteq Tasks
  /\ Cardinality(Tasks) \in Nat /\ Tasks = 1..Cardinality(Tasks)
<1> DEFINE n == IF SumOn /\ ExOn THEN 2 * WindowCount ELSE WindowCount
<1>1. n \in Nat /\ WindowCount <= n /\ WindowCount \in Nat
  BY CountsAssumption
<1>3. Tasks = 1..n
  BY DEF Tasks
<1> HIDE DEF n
<1>2. IsFiniteSet(1..n) /\ Cardinality(1..n) = n
  <2>1. 1 \in Int /\ n \in Int
    BY <1>1
  <2>2. IsFiniteSet(1..n) /\ Cardinality(1..n) = IF 1 > n THEN 0 ELSE n - 1 + 1
    BY <2>1, FS_Interval
  <2> QED BY <2>2, <1>1
<1>4. Sums \subseteq Tasks
  BY <1>1, <1>3 DEF Sums
<1> QED BY <1>1, <1>2, <1>3, <1>4 DEF Core

\* What is counted over tasks is a number, and it is 0 for the empty set alone.
LEMMA CountsTasks ==
  ASSUME NEW S \in SUBSET Tasks
  PROVE  IsFiniteSet(S) /\ Cardinality(S) \in Nat /\ (Cardinality(S) = 0 <=> S = {})
BY TasksAreFinite, FS_Subset, FS_CardinalityType, FS_EmptySet

LEMMA GarbledIsNat == Garbled(Sums) \in Nat /\ Garbled(Tasks \ Sums) \in Nat
<1>1. /\ {t \in Sums : got[t] = "garbled"} \in SUBSET Tasks
      /\ {t \in Tasks \ Sums : got[t] = "garbled"} \in SUBSET Tasks
  BY TasksAreFinite
<1> QED BY <1>1, CountsTasks DEF Garbled

-----------------------------------------------------------------------------
(* The inductive invariant.                                                *)

\* Results that were taken belong to workers that are done and were no signal;
\* the core goes on only with all of them; a signal it met is what it ends with.
PoolInv ==
  /\ \A t \in Tasks : at[t] \in WorkerSteps
  /\ at[Core] \in CoreSteps
  /\ \A t \in Tasks : t <= gathered => at[t] = "over" /\ got[t] \notin Signals
  /\ stage # "analyze" => gathered = Cardinality(Tasks)
  /\ at[Core] \in {"ready", "asked", "back", "inspect"} => stage # "analyze"
  /\ at[Core] = "gather" => stage = "analyze"
  /\ at[Core] = "unwind" => got[Core] \in Signals /\ \A t \in Tasks : at[t] # "queued"
  /\ at[Core] = "over" => \A t \in Tasks : at[t] \in {"over", "skipped"}
  /\ outcome # "none" <=> at[Core] = "over"
  /\ outcome = "result" => stage # "analyze"
  /\ outcome = "result" \/ at[Core] \in {"gather", "ready", "asked", "inspect"}
       => got[Core] \notin Signals

\* The failures whose worker has written the counter.
Counted == {t \in Tasks : got[t] = "failed" /\ at[t] \notin {"read", "write"}}

\* Writes may be lost, but one that happened leaves at least one.
LossInv ==
  /\ \A t \in Tasks : at[t] \in {"read", "write"} => got[t] = "failed"
  /\ \A t \in Tasks : at[t] \in {"queued", "ready", "asked", "skipped"} => got[t] = "none"
  /\ lost["worker"] > 0 <=> Counted # {}
  /\ lost["worker"] <= Cardinality(Counted)
  /\ \A t \in Tasks : at[t] = "write" => held[t] <= Cardinality(Counted)
  /\ stage # "analyze" => /\ lost["summarizeParse"] = Garbled(Sums)
                         /\ lost["extractParse"] = Garbled(Tasks \ Sums)

CoreInv == TypeOK /\ PoolInv /\ LossInv /\ ShownStageIsReal

-----------------------------------------------------------------------------
(* Types.                                                                  *)

LEMMA ReturnsType ==
  ASSUME TypeOK, NEW c \in Threads, NEW how \in Ends, Returns(c, how)
  PROVE  TypeOK'
BY CountsAssumption DEF TypeOK, Returns, Goto, worker, Ends

LEMMA EntersType ==
  ASSUME TypeOK, NEW s \in Stages, Enters(s)
  PROVE  /\ stage' \in Stages /\ shown' \in [stage : Stages, done : Nat]
         /\ at' \in [Threads -> WorkerSteps \cup CoreSteps]
BY DEF TypeOK, Enters, Goto, Stages, WorkerSteps, CoreSteps, Core, Threads

LEMMA ChecksType ==
  ASSUME TypeOK, NEW b \in BOOLEAN, EntersChecks(b)
  PROVE  /\ content' \in BOOLEAN
         /\ stage' \in Stages /\ shown' \in [stage : Stages, done : Nat]
         /\ at' \in [Threads -> WorkerSteps \cup CoreSteps]
<1>1. content' \in BOOLEAN /\ (Enters("critic") \/ Enters("localize"))
  BY DEF EntersChecks
<1> QED BY <1>1, EntersType DEF Stages

LEMMA CountsType ==
  ASSUME TypeOK, NEW k \in Kinds, NEW n \in Nat, Counts(k, n)
  PROVE  lost' \in [Kinds -> Nat]
<1>1. lost[k] + n \in Nat
  BY DEF TypeOK
<1> QED BY <1>1 DEF TypeOK, Counts

LEMMA TypeStep == TypeOK /\ PoolInv /\ [Next]_vars => TypeOK'
<1> SUFFICES ASSUME TypeOK, PoolInv, [Next]_vars PROVE TypeOK'
  OBVIOUS
<1>a. Core \in Threads /\ Tasks \subseteq Threads
  BY DEF Threads
<1>b. Garbled(Sums) \in Nat /\ Garbled(Tasks \ Sums) \in Nat
  BY GarbledIsNat
<1>1. ASSUME NEW t \in Tasks, WorkerStep(t) PROVE TypeOK'
  <2>1. CASE Start(t)
    BY <2>1, <1>a DEF TypeOK, Start, Goto, worker
  <2>2. CASE Attempt(t)
    <3>1. CASE Returns(t, "cancelled")
      BY <3>1, <1>a, ReturnsType DEF Ends, Signals
    <3>2. CASE ~Returns(t, "cancelled")
      BY <2>2, <3>2, <1>a DEF TypeOK, Attempt, Goto, worker
    <3> QED BY <3>1, <3>2
  <2>3. CASE ReadCount(t)
    <3>1. lost["worker"] \in Nat
      BY DEF TypeOK, Kinds
    <3> QED BY <2>3, <1>a, <3>1 DEF TypeOK, ReadCount, Goto
  <2>4. CASE WriteCount(t)
    <3>1. held[t] + 1 \in Nat
      BY DEF TypeOK
    <3> QED BY <2>4, <1>a, <3>1 DEF TypeOK, WriteCount, Goto
  <2>5. CASE Tick(t)
    BY <2>5, <1>a DEF TypeOK, Tick, Goto
  <2>6. CASE Tell(t)
    BY <2>6, <1>a DEF TypeOK, Tell, Goto
  <2> QED BY <1>1, <2>1, <2>2, <2>3, <2>4, <2>5, <2>6 DEF WorkerStep
<1>2. ASSUME NEW c \in Threads, CallEnds(c) PROVE TypeOK'
  <2>1. CASE \E how \in Ends : Returns(c, how)
    BY <2>1, ReturnsType
  <2>2. CASE ~\E how \in Ends : Returns(c, how)
    BY <1>2, <2>2, CountsAssumption
    DEF TypeOK, CallEnds, Answers, Fails, Refused, Killed, Ends, Signals, Goto, worker
  <2> QED BY <2>1, <2>2
<1>3. CASE Gather
  <2>1. gathered + 1 \in Threads /\ gathered + 1 \in 0..Cardinality(Tasks)
    BY <1>3, <1>a, TasksAreFinite DEF TypeOK, Gather
  <2> QED BY <1>3, <1>a, <2>1 DEF TypeOK, Gather, Takes, worker
<1>4. CASE Unwind \/ Propagates
  <2>1. got[Core] \in Signals
    BY <1>4 DEF PoolInv, Unwind, Propagates
  <2> QED BY <1>4, <1>a, <2>1 DEF TypeOK, Unwind, Propagates, Goto, worker
<1>5. CASE Assemble
  <2>1. lost' \in [Kinds -> Nat]
    BY <1>5, <1>b DEF TypeOK, Assemble
  <2>2. PICK b \in BOOLEAN : (content' = b /\ Enters("reduce")) \/ EntersChecks(b)
    BY <1>5 DEF Assemble
  <2>3. CASE content' = b /\ Enters("reduce")
    BY <1>5, <2>1, <2>3, EntersType DEF TypeOK, Assemble, Stages, WorkerSteps, CoreSteps
  <2>4. CASE EntersChecks(b)
    BY <1>5, <2>1, <2>4, ChecksType DEF TypeOK, Assemble, Stages, WorkerSteps, CoreSteps
  <2> QED BY <2>2, <2>3, <2>4
<1>6. CASE Attempt(Core)
  <2>1. CASE Returns(Core, "cancelled")
    BY <2>1, <1>a, ReturnsType DEF Ends, Signals
  <2>2. CASE ~Returns(Core, "cancelled")
    BY <1>6, <2>2, <1>a DEF TypeOK, Attempt, Goto, worker
  <2> QED BY <2>1, <2>2
<1>7. CASE Reduced
  <2>1. lost' \in [Kinds -> Nat]
    <3>1. Counts("reduce", 0) \/ Counts("reduce", 1)
      BY <1>7 DEF Reduced
    <3> QED BY <3>1, CountsType DEF Kinds
  <2>2. PICK b \in BOOLEAN : EntersChecks(b)
    BY <1>7 DEF TypeOK, Reduced
  <2> QED BY <1>7, <2>1, <2>2, ChecksType DEF TypeOK, Reduced, Stages, WorkerSteps, CoreSteps
<1>8. CASE Criticised
  <2>1. lost' \in [Kinds -> Nat] /\ content' \in BOOLEAN
    BY <1>8 DEF TypeOK, Criticised
  <2>2. Enters("localize")
    BY <1>8 DEF Criticised
  <2> QED BY <1>8, <2>1, <2>2, EntersType DEF TypeOK, Criticised, Stages, WorkerSteps, CoreSteps
<1>9. CASE Inspect
  BY <1>9, <1>a DEF TypeOK, Inspect, Delivers, Goto
<1>10. CASE Localised
  <2>1. lost' \in [Kinds -> Nat]
    <3>1. Counts("localize", 0) \/ Counts("localize", 1)
      BY <1>10 DEF Localised
    <3> QED BY <3>1, CountsType DEF Kinds
  <2> QED BY <1>10, <1>a, <2>1 DEF TypeOK, Localised, Delivers, Goto
<1>11. CASE Cancel
  BY <1>11 DEF TypeOK, Cancel, worker
<1>12. CASE UNCHANGED vars
  BY <1>12 DEF TypeOK, vars, worker
<1> QED
  BY <1>1, <1>2, <1>3, <1>4, <1>5, <1>6, <1>7, <1>8, <1>9, <1>10, <1>11, <1>12
  DEF Next, CoreStep

-----------------------------------------------------------------------------
(* The pool and the core.                                                  *)

\* While a worker is at work the core is collecting, or waiting to leave.
LEMMA ActiveWorker ==
  ASSUME PoolInv, NEW t \in Tasks, at[t] \notin {"over", "skipped"}
  PROVE  stage = "analyze" /\ at[Core] \in {"gather", "unwind"} /\ ~(t <= gathered)
<1>1. ~(t <= gathered)
  BY DEF PoolInv
<1>2. t <= Cardinality(Tasks)
  BY TasksAreFinite
<1>3. stage = "analyze"
  BY <1>1, <1>2 DEF PoolInv
<1> QED BY <1>1, <1>3 DEF PoolInv, CoreSteps

LEMMA WorkerMoves ==
  ASSUME TypeOK, PoolInv, ShownStageIsReal,
         NEW t \in Tasks, at[t] \notin {"over", "skipped"},
         NEW s \in WorkerSteps \ {"queued"}, Goto(t, s),
         \A c \in Threads \ {t} : got'[c] = got[c],
         UNCHANGED <<stage, gathered, outcome>>,
         shown' = shown \/ shown'.stage = "analyze"
  PROVE  PoolInv' /\ ShownStageIsReal'
<1>1. stage = "analyze" /\ at[Core] \in {"gather", "unwind"} /\ ~(t <= gathered)
  BY ActiveWorker
<1>2. /\ Core \in Threads \ {t} /\ t \in Threads
      /\ \A u \in Tasks : u # t => u \in Threads \ {t}
  BY TasksAreFinite DEF Threads
<1>3. at'[t] = s /\ \A c \in Threads \ {t} : at'[c] = at[c]
  BY <1>2 DEF Goto, TypeOK
<1>4. ShownStageIsReal'
  BY <1>1 DEF ShownStageIsReal
<1>5. \A u \in Tasks : at'[u] \in WorkerSteps /\ (u <= gathered' => at'[u] = "over" /\ got'[u] \notin Signals)
  BY <1>1, <1>2, <1>3 DEF PoolInv
<1>6. at[Core] = "unwind" => \A u \in Tasks : at'[u] # "queued"
  BY <1>2, <1>3 DEF PoolInv
<1>7. at'[Core] = at[Core] /\ got'[Core] = got[Core]
  BY <1>2, <1>3
<1> QED BY <1>1, <1>4, <1>5, <1>6, <1>7 DEF PoolInv

LEMMA WorkerReturns ==
  ASSUME TypeOK, PoolInv, ShownStageIsReal,
         NEW t \in Tasks, at[t] \in {"ready", "asked"}, NEW how, Returns(t, how)
  PROVE  PoolInv' /\ ShownStageIsReal'
<1>1. t # Core /\ t \in Threads
  BY TasksAreFinite DEF Threads
<1>2. PICK s \in {"read", "tick"} : Goto(t, s)
  BY <1>1 DEF Returns
<1>3. \A c \in Threads \ {t} : got'[c] = got[c]
  BY <1>1 DEF Returns, TypeOK
<1> QED BY <1>2, <1>3, WorkerMoves DEF Returns, WorkerSteps, worker

LEMMA CoreReturns ==
  ASSUME TypeOK, PoolInv, ShownStageIsReal, at[Core] \in {"ready", "asked"}, NEW how, Returns(Core, how)
  PROVE  PoolInv' /\ ShownStageIsReal'
<1>1. Core \in Threads /\ \A u \in Tasks : u \in Threads /\ u # Core
  BY TasksAreFinite DEF Threads
<1>2. at'[Core] = "back" /\ \A u \in Tasks : at'[u] = at[u] /\ got'[u] = got[u]
  BY <1>1 DEF Returns, Goto, TypeOK
<1> QED BY <1>2 DEF PoolInv, ShownStageIsReal, Returns, worker, CoreSteps

LEMMA AttemptPool ==
  ASSUME TypeOK, PoolInv, ShownStageIsReal, NEW c \in Threads, Attempt(c)
  PROVE  PoolInv' /\ ShownStageIsReal'
<1>1. CASE Returns(c, "cancelled")
  BY <1>1, WorkerReturns, CoreReturns DEF Attempt, Threads
<1>2. CASE ~Returns(c, "cancelled") /\ c \in Tasks
  <2>1. /\ Goto(c, "asked") /\ at[c] = "ready"
        /\ UNCHANGED <<got, stage, gathered, outcome, shown>>
    BY <1>2 DEF Attempt, worker
  <2> QED BY <1>2, <2>1, WorkerMoves DEF WorkerSteps
<1>3. CASE ~Returns(c, "cancelled") /\ c = Core
  <2>1. \A u \in Tasks : u \in Threads /\ u # Core
    BY TasksAreFinite DEF Threads
  <2>2. at'[Core] = "asked" /\ \A u \in Tasks : at'[u] = at[u]
    BY <1>3, <2>1 DEF Attempt, Goto, TypeOK
  <2> QED BY <1>3, <2>2 DEF Attempt, PoolInv, ShownStageIsReal, CoreSteps, worker
<1> QED BY <1>1, <1>2, <1>3 DEF Threads

LEMMA CallEndsPool ==
  ASSUME TypeOK, PoolInv, ShownStageIsReal, NEW c \in Threads, CallEnds(c)
  PROVE  PoolInv' /\ ShownStageIsReal'
<1>0. at[c] = "asked"
  BY DEF CallEnds, Answers, Fails, Refused, Killed
<1>1. CASE \E how : Returns(c, how)
  BY <1>0, <1>1, WorkerReturns, CoreReturns DEF Threads
<1>2. CASE Goto(c, "ready") /\ UNCHANGED <<got, stage, gathered, outcome, shown>>
  <2>1. CASE c \in Tasks
    BY <1>0, <1>2, <2>1, WorkerMoves DEF WorkerSteps
  <2>2. CASE c = Core
    <3>1. \A u \in Tasks : u \in Threads /\ u # Core
      BY TasksAreFinite DEF Threads
    <3>2. at'[Core] = "ready" /\ \A u \in Tasks : at'[u] = at[u]
      BY <1>2, <2>2, <3>1 DEF Goto, TypeOK
    <3> QED BY <1>0, <1>2, <2>2, <3>2 DEF PoolInv, ShownStageIsReal, CoreSteps
  <2> QED BY <2>1, <2>2 DEF Threads
<1> QED BY <1>1, <1>2 DEF CallEnds, Answers, Fails, Refused, Killed, worker

\* The core alone goes on, when all results are there.
LEMMA CoreMoves ==
  ASSUME TypeOK, PoolInv, gathered = Cardinality(Tasks),
         NEW s \in {"ready", "inspect"}, Goto(Core, s), got[Core] \notin Signals,
         stage' # "analyze", shown'.stage = stage', outcome = "none",
         UNCHANGED <<got, gathered, outcome>>
  PROVE  PoolInv' /\ ShownStageIsReal'
<1>1. Core \in Threads /\ \A u \in Tasks : u \in Threads /\ u # Core
  BY TasksAreFinite DEF Threads
<1>2. at'[Core] = s /\ \A u \in Tasks : at'[u] = at[u]
  BY <1>1 DEF Goto, TypeOK
<1> QED BY <1>2 DEF PoolInv, ShownStageIsReal, CoreSteps

LEMMA CoreEnters ==
  ASSUME NEW s \in Stages \ {"analyze"}, Enters(s)
  PROVE  stage' # "analyze" /\ shown'.stage = stage' /\ \E p \in {"ready", "inspect"} : Goto(Core, p)
BY DEF Enters, Stages

LEMMA CoreChecks ==
  ASSUME NEW b, EntersChecks(b)
  PROVE  stage' # "analyze" /\ shown'.stage = stage' /\ \E p \in {"ready", "inspect"} : Goto(Core, p)
BY CoreEnters DEF EntersChecks, Stages

\* With all results taken every worker is done.
LEMMA AllOver ==
  ASSUME PoolInv, gathered = Cardinality(Tasks)
  PROVE  \A t \in Tasks : at[t] = "over"
BY TasksAreFinite DEF PoolInv

\* The core ends in a step in which no worker moves.
LEMMA CoreOver ==
  ASSUME TypeOK, PoolInv, Goto(Core, "over"), \A t \in Tasks : at[t] \in {"over", "skipped"},
         outcome' # "none", got[Core] \in Signals \/ stage' # "analyze",
         outcome' = "result" => got[Core] \notin Signals /\ stage' # "analyze",
         stage' # "analyze" => gathered = Cardinality(Tasks),
         shown'.stage = stage', UNCHANGED <<got, gathered>>
  PROVE  PoolInv' /\ ShownStageIsReal'
<1>1. Core \in Threads /\ \A u \in Tasks : u \in Threads /\ u # Core
  BY TasksAreFinite DEF Threads
<1>2. at'[Core] = "over" /\ \A u \in Tasks : at'[u] = at[u]
  BY <1>1 DEF Goto, TypeOK
<1> QED BY <1>2 DEF PoolInv, ShownStageIsReal, CoreSteps

LEMMA PoolStep ==
  ASSUME TypeOK, PoolInv, ShownStageIsReal, [Next]_vars
  PROVE  PoolInv' /\ ShownStageIsReal'
<1>1. ASSUME NEW t \in Tasks, WorkerStep(t) PROVE PoolInv' /\ ShownStageIsReal'
  <2>1. CASE Attempt(t)
    BY <2>1, AttemptPool DEF Threads
  <2>2. CASE Start(t) \/ ReadCount(t) \/ WriteCount(t) \/ Tick(t) \/ Tell(t)
    <3>1. /\ at[t] \notin {"over", "skipped"}
          /\ \E s \in WorkerSteps \ {"queued"} : Goto(t, s)
          /\ UNCHANGED <<got, stage, gathered, outcome>>
          /\ shown' = shown \/ shown'.stage = "analyze"
      BY <2>2 DEF Start, ReadCount, WriteCount, Tick, Tell, worker, WorkerSteps
    <3> QED BY <3>1, WorkerMoves
  <2> QED BY <1>1, <2>1, <2>2 DEF WorkerStep
<1>2. ASSUME NEW c \in Threads, CallEnds(c) PROVE PoolInv' /\ ShownStageIsReal'
  BY <1>2, CallEndsPool
<1>3. CASE Gather
  <2>0. Core \in Threads /\ \A u \in Tasks : u \in Threads /\ u # Core
    BY TasksAreFinite DEF Threads
  <2>1. CASE got[gathered + 1] \notin Signals
    <3>1. gathered' = gathered + 1 /\ gathered \in Nat /\ \A u \in Tasks : u \in Nat
      BY <1>3, <2>1, TasksAreFinite DEF Gather, Takes, TypeOK
    <3>2. \A u \in Tasks : u <= gathered' => u <= gathered \/ u = gathered + 1
      BY <3>1
    <3>3. UNCHANGED <<at, got, stage, shown, outcome>>
      BY <1>3, <2>1 DEF Gather, Takes, worker
    <3>4. stage = "analyze"
      BY <1>3 DEF Gather, PoolInv
    <3> QED BY <1>3, <2>1, <3>2, <3>3, <3>4 DEF Gather, PoolInv, ShownStageIsReal
  <2>2. CASE got[gathered + 1] \in Signals
    <3>1. /\ at'[Core] = "unwind"
          /\ \A u \in Tasks : at'[u] = IF at[u] = "queued" THEN "skipped" ELSE at[u]
      BY <1>3, <2>0, <2>2 DEF Gather, Takes
    <3>2. got'[Core] \in Signals /\ \A u \in Tasks : got'[u] = got[u]
      BY <1>3, <2>0, <2>2 DEF Gather, Takes, TypeOK
    <3>3. UNCHANGED <<gathered, stage, shown, outcome>> /\ at[Core] = "gather"
      BY <1>3, <2>2 DEF Gather, Takes, worker
    <3>4. \A u \in Tasks : at'[u] \in WorkerSteps /\ at'[u] # "queued"
      BY <3>1 DEF PoolInv, WorkerSteps
    <3>5. stage = "analyze" /\ outcome = "none"
      BY <3>3 DEF PoolInv
    <3>6. \A u \in Tasks : u <= gathered' => at'[u] = "over" /\ got'[u] \notin Signals
      BY <3>1, <3>2, <3>3 DEF PoolInv
    <3> QED BY <3>1, <3>2, <3>3, <3>4, <3>5, <3>6 DEF PoolInv, ShownStageIsReal, CoreSteps
  <2> QED BY <2>1, <2>2
<1>4. CASE Unwind
  <2>1. \A t \in Tasks : at[t] \in {"over", "skipped"}
    BY <1>4 DEF Unwind, Active, PoolInv
  <2>2. /\ got[Core] \in Signals /\ outcome' = got[Core] /\ Goto(Core, "over")
        /\ UNCHANGED <<got, gathered, stage, shown>>
    BY <1>4 DEF Unwind, PoolInv, worker
  <2>3. outcome' \notin {"none", "result"}
    BY <2>2 DEF Signals
  <2>4. stage' # "analyze" => gathered = Cardinality(Tasks)
    BY <2>2 DEF PoolInv
  <2> QED BY <2>1, <2>2, <2>3, <2>4, CoreOver DEF ShownStageIsReal
<1>5. CASE Assemble
  <2>1. /\ gathered = Cardinality(Tasks) /\ UNCHANGED <<got, gathered, outcome>>
        /\ got[Core] \notin Signals /\ outcome = "none"
    BY <1>5 DEF Assemble, PoolInv
  <2>2. \E b : Enters("reduce") \/ EntersChecks(b)
    BY <1>5 DEF Assemble
  <2>3. stage' # "analyze" /\ shown'.stage = stage' /\ \E p \in {"ready", "inspect"} : Goto(Core, p)
    BY <2>2, CoreEnters, CoreChecks DEF Stages
  <2> QED BY <2>1, <2>3, CoreMoves
<1>6. CASE Attempt(Core)
  BY <1>6, AttemptPool DEF Threads
<1>7. CASE Reduced \/ Criticised
  <2>1. /\ gathered = Cardinality(Tasks) /\ UNCHANGED <<got, gathered, outcome>>
        /\ got[Core] \notin Signals /\ outcome = "none"
    BY <1>7 DEF Reduced, Criticised, PoolInv
  <2>2. \E b : Enters("localize") \/ EntersChecks(b)
    BY <1>7 DEF Reduced, Criticised
  <2>3. stage' # "analyze" /\ shown'.stage = stage' /\ \E p \in {"ready", "inspect"} : Goto(Core, p)
    BY <2>2, CoreEnters, CoreChecks DEF Stages
  <2> QED BY <2>1, <2>3, CoreMoves
<1>8. CASE Inspect /\ ~Delivers
  <2>1. /\ gathered = Cardinality(Tasks) /\ stage # "analyze" /\ outcome = "none"
        /\ got[Core] \notin Signals /\ Goto(Core, "ready")
        /\ UNCHANGED <<got, gathered, stage, shown, outcome>>
    BY <1>8 DEF Inspect, PoolInv
  <2> QED BY <2>1, CoreMoves DEF ShownStageIsReal
<1>9. CASE (Inspect \/ Localised) /\ Delivers
  <2>1. /\ gathered = Cardinality(Tasks) /\ got[Core] \notin Signals
        /\ UNCHANGED <<got, gathered>>
    BY <1>9 DEF Inspect, Localised, PoolInv
  <2>2. \A t \in Tasks : at[t] = "over"
    BY <2>1, AllOver
  <2> QED BY <1>9, <2>1, <2>2, CoreOver DEF Delivers
<1>10. CASE Propagates
  <2>1. /\ gathered = Cardinality(Tasks) /\ got[Core] \in Signals /\ Goto(Core, "over")
        /\ outcome' = got[Core] /\ UNCHANGED <<got, gathered, stage, shown>>
    BY <1>10 DEF Propagates, PoolInv, worker
  <2>2. \A t \in Tasks : at[t] = "over"
    BY <2>1, AllOver
  <2>3. outcome' \notin {"none", "result"}
    BY <2>1 DEF Signals
  <2> QED BY <2>1, <2>2, <2>3, CoreOver DEF ShownStageIsReal
<1>11. CASE Cancel \/ UNCHANGED vars
  <2>1. UNCHANGED <<at, got, stage, gathered, shown, outcome>>
    BY <1>11 DEF Cancel, vars, worker
  <2> QED BY <2>1 DEF PoolInv, ShownStageIsReal
<1> QED
  BY <1>1, <1>2, <1>3, <1>4, <1>5, <1>6, <1>7, <1>8, <1>9, <1>10, <1>11
  DEF Next, CoreStep, Localised

-----------------------------------------------------------------------------
(* The failure counters.                                                   *)

Reads == {"read", "write"}
Fresh == {"queued", "ready", "asked", "skipped"}

\* A step of a worker that leaves the counter and the counted failures alone.
LEMMA WorkerKeepsLoss ==
  ASSUME TypeOK, PoolInv, LossInv, NEW t \in Tasks, at[t] \notin {"over", "skipped"},
         NEW s, Goto(t, s), \A u \in Threads \ {t} : got'[u] = got[u],
         s \in Reads => got'[t] = "failed", s \in Fresh => got'[t] = "none",
         (got'[t] = "failed" /\ s \notin Reads) <=> (got[t] = "failed" /\ at[t] \notin Reads),
         UNCHANGED <<lost, stage>>,
         \A u \in Tasks \ {t} : held'[u] = held[u],
         s = "write" => held'[t] <= Cardinality(Counted)
  PROVE  LossInv'
<1>1. \A u \in Tasks : u \in Threads
  BY DEF Threads
<1>2. at'[t] = s /\ \A u \in Tasks \ {t} : at'[u] = at[u] /\ got'[u] = got[u]
  BY <1>1 DEF Goto, TypeOK
<1>3. Counted' = Counted
  BY <1>2 DEF Counted, Reads
<1>4. stage' = "analyze"
  BY ActiveWorker
<1> QED BY <1>2, <1>3, <1>4 DEF LossInv, Reads, Fresh

\* A step of the core that leaves the workers' counter alone.
LEMMA CoreKeepsLoss ==
  ASSUME LossInv,
         \A t \in Tasks : /\ got'[t] = got[t]
                          /\ at'[t] = at[t] \/ (at[t] = "queued" /\ at'[t] = "skipped"),
         held' = held, lost'["worker"] = lost["worker"],
         stage' # "analyze" => /\ lost'["summarizeParse"] = Garbled(Sums)
                              /\ lost'["extractParse"] = Garbled(Tasks \ Sums)
  PROVE  LossInv'
<1>1. Counted' = Counted
  BY DEF Counted
<1>2. /\ {t \in Sums : got'[t] = "garbled"} = {t \in Sums : got[t] = "garbled"}
      /\ {t \in Tasks \ Sums : got'[t] = "garbled"} = {t \in Tasks \ Sums : got[t] = "garbled"}
  BY TasksAreFinite
<1>3. Garbled(Sums)' = Garbled(Sums) /\ Garbled(Tasks \ Sums)' = Garbled(Tasks \ Sums)
  BY <1>2 DEF Garbled
<1> QED BY <1>1, <1>3 DEF LossInv

LEMMA WorkerReturnsLoss ==
  ASSUME TypeOK, PoolInv, LossInv, NEW t \in Tasks, at[t] \in {"ready", "asked"},
         NEW how \in Ends, Returns(t, how)
  PROVE  LossInv'
<1>1. t \in Threads /\ t # Core
  BY TasksAreFinite DEF Threads
<1>2. Goto(t, IF how = "failed" THEN "read" ELSE "tick") /\ got'[t] = how /\ got[t] = "none"
  BY <1>1 DEF Returns, TypeOK, LossInv
<1>3. \A u \in Threads \ {t} : got'[u] = got[u]
  BY <1>1 DEF Returns, TypeOK
<1> QED
  BY <1>1, <1>2, <1>3, WorkerKeepsLoss DEF Returns, worker, Reads, Fresh

LEMMA CoreReturnsLoss ==
  ASSUME TypeOK, PoolInv, LossInv, at[Core] \in {"ready", "asked"}, NEW how, Returns(Core, how)
  PROVE  LossInv'
<1>1. Core \in Threads /\ \A u \in Tasks : u \in Threads /\ u # Core
  BY TasksAreFinite DEF Threads
<1>2. \A u \in Tasks : at'[u] = at[u] /\ got'[u] = got[u]
  BY <1>1 DEF Returns, Goto, TypeOK
<1>3. UNCHANGED <<held, lost, stage>>
  BY DEF Returns, worker
<1>4. stage # "analyze" => lost["summarizeParse"] = Garbled(Sums) /\ lost["extractParse"] = Garbled(Tasks \ Sums)
  BY DEF LossInv
<1> QED BY <1>2, <1>3, <1>4, CoreKeepsLoss

\* An attempt begins or is given up: the thread goes on with its call.
LEMMA AttemptLoss ==
  ASSUME TypeOK, PoolInv, LossInv, NEW c \in Threads, at[c] \in {"ready", "asked"},
         NEW s \in {"ready", "asked"}, Goto(c, s), UNCHANGED <<got, held, lost, stage>>
  PROVE  LossInv'
<1>1. CASE c \in Tasks
  <2>1. got[c] = "none"
    BY <1>1 DEF LossInv
  <2> QED BY <1>1, <2>1, WorkerKeepsLoss DEF Reads, Fresh
<1>2. CASE c = Core
  <2>1. \A u \in Tasks : u \in Threads /\ u # Core
    BY TasksAreFinite DEF Threads
  <2>2. \A u \in Tasks : at'[u] = at[u]
    BY <1>2, <2>1 DEF Goto, TypeOK
  <2>3. stage # "analyze" => lost["summarizeParse"] = Garbled(Sums) /\ lost["extractParse"] = Garbled(Tasks \ Sums)
    BY DEF LossInv
  <2> QED BY <2>2, <2>3, CoreKeepsLoss
<1> QED BY <1>1, <1>2 DEF Threads

LEMMA AttemptsLoss ==
  ASSUME TypeOK, PoolInv, LossInv, NEW c \in Threads, Attempt(c) \/ CallEnds(c)
  PROVE  LossInv'
<1>1. at[c] \in {"ready", "asked"}
  BY DEF Attempt, CallEnds, Answers, Fails, Refused, Killed
<1>2. CASE \E how \in Ends : Returns(c, how)
  BY <1>1, <1>2, WorkerReturnsLoss, CoreReturnsLoss DEF Threads
<1>3. CASE ~\E how \in Ends : Returns(c, how)
  <2>1. \E s \in {"ready", "asked"} : Goto(c, s) /\ UNCHANGED <<got, held, lost, stage>>
    BY <1>3 DEF Attempt, CallEnds, Answers, Fails, Refused, Killed, Ends, Signals, worker
  <2> QED BY <1>1, <2>1, AttemptLoss
<1> QED BY <1>2, <1>3

\* A write adds its own failure to the counted ones, whatever it had read.
LEMMA WriteLoss ==
  ASSUME TypeOK, PoolInv, LossInv, NEW t \in Tasks, WriteCount(t)
  PROVE  LossInv'
<1>0. t \in Threads /\ \A u \in Tasks : u \in Threads
  BY DEF Threads
<1>1. at'[t] = "tick" /\ \A u \in Tasks \ {t} : at'[u] = at[u]
  BY <1>0 DEF WriteCount, Goto, TypeOK
<1>2. /\ got[t] = "failed" /\ at[t] = "write" /\ UNCHANGED <<got, held, stage>>
      /\ lost'["worker"] = held[t] + 1
  BY DEF WriteCount, LossInv, TypeOK, Kinds
<1>3. Counted' = Counted \cup {t} /\ t \notin Counted
  BY <1>1, <1>2 DEF Counted
<1>4. Counted \in SUBSET Tasks
  BY DEF Counted
<1>5. /\ Cardinality(Counted') = Cardinality(Counted) + 1 /\ Cardinality(Counted) \in Nat
  BY <1>3, <1>4, CountsTasks, FS_AddElement
<1>6. held[t] \in Nat /\ held[t] <= Cardinality(Counted) /\ \A u \in Tasks : held[u] \in Nat
  BY <1>2 DEF LossInv, TypeOK
<1>7. stage' = "analyze"
  BY <1>2, ActiveWorker
<1>8. \A u \in Tasks : at'[u] = "write" => held'[u] <= Cardinality(Counted')
  BY <1>1, <1>2, <1>5, <1>6 DEF LossInv
<1>9. /\ \A u \in Tasks : at'[u] \in {"read", "write"} => got'[u] = "failed"
      /\ \A u \in Tasks : at'[u] \in {"queued", "ready", "asked", "skipped"} => got'[u] = "none"
  BY <1>1, <1>2 DEF LossInv
<1>10. lost'["worker"] > 0 /\ Counted' # {} /\ lost'["worker"] <= Cardinality(Counted')
  BY <1>2, <1>3, <1>5, <1>6
<1> QED BY <1>7, <1>8, <1>9, <1>10 DEF LossInv

LEMMA LossStep ==
  ASSUME TypeOK, PoolInv, LossInv, [Next]_vars
  PROVE  LossInv'
<1>0. Core \in Threads /\ \A u \in Tasks : u \in Threads /\ u # Core
  BY TasksAreFinite DEF Threads
<1>a. stage # "analyze" => lost["summarizeParse"] = Garbled(Sums) /\ lost["extractParse"] = Garbled(Tasks \ Sums)
  BY DEF LossInv
<1>1. ASSUME NEW t \in Tasks, WorkerStep(t) PROVE LossInv'
  <2>1. CASE Attempt(t)
    BY <2>1, <1>0, AttemptsLoss
  <2>2. CASE Start(t)
    <3>1. at[t] = "queued" /\ got[t] = "none" /\ Goto(t, "ready") /\ UNCHANGED <<got, held, lost, stage>>
      BY <2>2 DEF Start, LossInv, worker
    <3> QED BY <3>1, WorkerKeepsLoss DEF Reads, Fresh
  <2>3. CASE ReadCount(t)
    <3>1. /\ at[t] = "read" /\ got[t] = "failed" /\ Goto(t, "write") /\ UNCHANGED <<got, lost, stage>>
          /\ held'[t] = lost["worker"] /\ \A u \in Tasks \ {t} : held'[u] = held[u]
      BY <2>3 DEF ReadCount, LossInv, TypeOK
    <3>2. held'[t] <= Cardinality(Counted)
      BY <3>1 DEF LossInv
    <3> QED BY <3>1, <3>2, WorkerKeepsLoss DEF Reads, Fresh
  <2>4. CASE WriteCount(t)
    BY <2>4, WriteLoss
  <2>5. CASE Tick(t)
    <3>1. /\ at[t] = "tick" /\ Goto(t, "tell") /\ UNCHANGED <<got, lost, stage>>
          /\ \A u \in Tasks \ {t} : held'[u] = held[u]
      BY <2>5 DEF Tick, TypeOK
    <3> QED BY <3>1, WorkerKeepsLoss DEF Reads, Fresh
  <2>6. CASE Tell(t)
    <3>1. /\ at[t] = "tell" /\ Goto(t, "over") /\ UNCHANGED <<got, lost, stage>>
          /\ \A u \in Tasks \ {t} : held'[u] = held[u]
      BY <2>6 DEF Tell, TypeOK
    <3> QED BY <3>1, WorkerKeepsLoss DEF Reads, Fresh
  <2> QED BY <1>1, <2>1, <2>2, <2>3, <2>4, <2>5, <2>6 DEF WorkerStep
<1>2. ASSUME NEW c \in Threads, CallEnds(c) PROVE LossInv'
  BY <1>2, AttemptsLoss
<1>3. CASE Gather
  <2>1. UNCHANGED <<held, lost, stage>>
    BY <1>3 DEF Gather, Takes, worker
  <2>2. \A t \in Tasks : /\ got'[t] = got[t]
                         /\ at'[t] = at[t] \/ (at[t] = "queued" /\ at'[t] = "skipped")
    BY <1>3, <1>0 DEF Gather, Takes, TypeOK
  <2> QED BY <2>1, <2>2, <1>a, CoreKeepsLoss
<1>4. CASE Unwind \/ Propagates \/ Inspect
  <2>1. (Goto(Core, "over") \/ Goto(Core, "ready")) /\ UNCHANGED <<got, held, lost>>
    BY <1>4 DEF Unwind, Propagates, Inspect, Delivers, worker
  <2>2. \A t \in Tasks : at'[t] = at[t]
    BY <2>1, <1>0 DEF Goto, TypeOK
  <2>3. stage' # "analyze" => stage # "analyze"
    BY <1>4 DEF Unwind, Propagates, Inspect, PoolInv, worker
  <2> QED BY <2>1, <2>2, <2>3, <1>a, CoreKeepsLoss
<1>5. CASE Assemble
  <2>1. /\ lost'["worker"] = lost["worker"]
        /\ lost'["summarizeParse"] = Garbled(Sums)
        /\ lost'["extractParse"] = Garbled(Tasks \ Sums)
    BY <1>5 DEF Assemble, TypeOK, Kinds
  <2>2. \E s : Goto(Core, s)
    BY <1>5 DEF Assemble, EntersChecks, Enters
  <2>3. UNCHANGED <<got, held>> /\ \A t \in Tasks : at'[t] = at[t]
    BY <1>5, <2>2, <1>0 DEF Assemble, Goto, TypeOK
  <2> QED BY <2>1, <2>3, CoreKeepsLoss
<1>6. CASE Attempt(Core)
  BY <1>6, <1>0, AttemptsLoss
<1>7. CASE Reduced \/ Criticised \/ Localised
  <2>1. UNCHANGED <<got, held>> /\ stage # "analyze"
    BY <1>7 DEF Reduced, Criticised, Localised
  <2>2. \E s : Goto(Core, s)
    BY <1>7 DEF Reduced, Criticised, Localised, EntersChecks, Enters, Delivers
  <2>3. \A t \in Tasks : at'[t] = at[t]
    BY <2>2, <1>0 DEF Goto, TypeOK
  <2>4. \A k \in {"worker", "summarizeParse", "extractParse"} : lost'[k] = lost[k]
    BY <1>7 DEF Reduced, Criticised, Localised, Counts, TypeOK, Kinds
  <2> QED BY <2>1, <2>3, <2>4, <1>a, CoreKeepsLoss
<1>8. CASE Cancel \/ UNCHANGED vars
  <2>1. UNCHANGED <<at, got, held, lost, stage>>
    BY <1>8 DEF Cancel, vars, worker
  <2> QED BY <2>1, <1>a, CoreKeepsLoss
<1> QED
  BY <1>1, <1>2, <1>3, <1>4, <1>5, <1>6, <1>7, <1>8 DEF Next, CoreStep

-----------------------------------------------------------------------------
(* The theorems.                                                           *)

LEMMA InitInv == Init => CoreInv
<1> SUFFICES ASSUME Init PROVE CoreInv
  OBVIOUS
<1>0. Core \in Threads /\ \A t \in Tasks : t \in Threads /\ t # Core /\ t \in Nat /\ t # 0
  BY TasksAreFinite DEF Threads, Core
<1>1. TypeOK
  <2>1. /\ at \in [Threads -> {"queued", "gather"}] /\ got \in [Threads -> {"none"}]
        /\ tries \in [Threads -> {0}] /\ held \in [Tasks -> {0}] /\ lost \in [Kinds -> {0}]
        /\ stage = "analyze" /\ content = FALSE /\ cancelled = FALSE /\ outcome = "none"
        /\ shown = [stage |-> "analyze", done |-> 0] /\ ticks = 0
    BY DEF Init
  <2>2. gathered \in 0..Cardinality(Tasks) /\ 0 \in 0..Retries
    BY TasksAreFinite, CountsAssumption DEF Init
  <2>3. /\ tries \in [Threads -> 0..Retries] /\ held \in [Tasks -> Nat] /\ lost \in [Kinds -> Nat]
    BY <2>1, <2>2
  <2>4. /\ at \in [Threads -> {"queued", "ready", "asked", "read", "write", "tick", "tell", "skipped",
                               "gather", "unwind", "back", "inspect", "over"}]
        /\ got \in [Threads -> Answer \cup Signals \cup {"none", "failed"}]
    BY <2>1
  <2> QED BY <2>1, <2>2, <2>3, <2>4 DEF TypeOK
<1>2. at[Core] = "gather" /\ \A t \in Tasks : at[t] = "queued" /\ got[t] = "none" /\ ~(t <= gathered)
  <2>1. \A t \in Tasks : t >= 1
    BY TasksAreFinite
  <2> QED BY <1>0, <2>1 DEF Init
<1>3. PoolInv /\ ShownStageIsReal
  BY <1>0, <1>2 DEF Init, PoolInv, ShownStageIsReal, WorkerSteps, CoreSteps, Signals
<1>4. LossInv
  <2>1. Counted = {} /\ lost["worker"] = 0
    BY <1>2 DEF Counted, Init, Kinds
  <2>2. Cardinality(Counted) = 0
    BY <2>1, FS_EmptySet
  <2> QED BY <1>2, <2>1, <2>2 DEF LossInv, Init
<1> QED BY <1>1, <1>3, <1>4 DEF CoreInv

LEMMA StepInv == CoreInv /\ [Next]_vars => CoreInv'
BY TypeStep, PoolStep, LossStep DEF CoreInv

THEOREM CoreInvariant == Spec => []CoreInv
BY InitInv, StepInv, PTL DEF Spec

\* Types, for any number of windows, workers and retries.
THEOREM CoreTypeCorrect == Spec => []TypeOK
<1>1. CoreInv => TypeOK
  BY DEF CoreInv
<1> QED BY <1>1, CoreInvariant, PTL

\* An expired login or a cancel is never delivered as a result: every task's
\* result was taken, so none was a signal, and the core itself met none
\* (_run_parallel and the except _PROPAGATE of run_meeting_core).
THEOREM SignalsAreTold == Spec => []SignalsReachUser
<1>1. CoreInv => SignalsReachUser
  <2> SUFFICES ASSUME CoreInv, outcome = "result", NEW c \in Threads PROVE got[c] \notin Signals
    BY DEF SignalsReachUser
  <2>1. CASE c = Core
    BY <2>1 DEF CoreInv, PoolInv
  <2>2. CASE c \in Tasks
    BY <2>2, TasksAreFinite DEF CoreInv, PoolInv
  <2> QED BY <2>1, <2>2 DEF Threads
<1> QED BY <1>1, CoreInvariant, PTL

\* Leaving the pool waits for its workers, so no call is left when the core
\* returns or raises.
THEOREM NoCallIsLeft == Spec => []NoCallOutlivesCore
<1>1. CoreInv => NoCallOutlivesCore
  <2> SUFFICES ASSUME CoreInv, outcome # "none", NEW c \in Threads PROVE at[c] \in {"over", "skipped"}
    BY DEF NoCallOutlivesCore
  <2>1. at[Core] = "over"
    BY DEF CoreInv, PoolInv
  <2> QED BY <2>1 DEF CoreInv, PoolInv, Threads
<1> QED BY <1>1, CoreInvariant, PTL

\* However the workers interleave their reads and writes of the counter, it
\* tells a loss from none and never counts too many.
THEOREM LossesAreTraced == Spec => []LossIsTraced
<1>1. CoreInv => LossIsTraced
  <2> SUFFICES ASSUME CoreInv, outcome = "result" PROVE LossIsTraced
    BY DEF LossIsTraced
  <2>1. stage # "analyze" /\ gathered = Cardinality(Tasks)
    BY DEF CoreInv, PoolInv
  <2>2. \A t \in Tasks : at[t] = "over"
    BY <2>1, AllOver DEF CoreInv
  <2>3. Counted = {t \in Tasks : got[t] = "failed"}
    BY <2>2 DEF Counted
  <2>4. /\ lost["worker"] > 0 <=> \E t \in Tasks : got[t] = "failed"
        /\ lost["worker"] <= Cardinality({t \in Tasks : got[t] = "failed"})
    BY <2>3 DEF CoreInv, LossInv
  <2>5. ASSUME NEW S \in SUBSET Tasks
        PROVE  Garbled(S) > 0 <=> \E t \in S : got[t] = "garbled"
    <3>1. {t \in S : got[t] = "garbled"} \in SUBSET Tasks
      OBVIOUS
    <3> QED BY <3>1, CountsTasks DEF Garbled
  <2>6. Garbled(Sums) > 0 <=> \E t \in Sums : got[t] = "garbled"
    BY <2>5, TasksAreFinite
  <2>7. Garbled(Tasks \ Sums) > 0 <=> \E t \in Tasks \ Sums : got[t] = "garbled"
    BY <2>5
  <2> QED BY <2>1, <2>4, <2>6, <2>7 DEF LossIsTraced, CoreInv, LossInv
<1> QED BY <1>1, CoreInvariant, PTL

\* No report of a worker is shown after the core has gone on.
THEOREM StageOnScreen == Spec => []ShownStageIsReal
<1>1. CoreInv => ShownStageIsReal
  BY DEF CoreInv
<1> QED BY <1>1, CoreInvariant, PTL

-----------------------------------------------------------------------------
(* The text.  Some facts about sequences first.                             *)

\* What induction on numbers needs: a set of numbers has a least one.
LEMMA LeastOf ==
  ASSUME NEW T \in SUBSET Nat, T # {}
  PROVE  \E m \in T : \A k \in T : m <= k
<1>1. \E m \in T : \A k \in T : <<k, m>> \notin OpToRel(<, Nat)
  BY WFMin, NatLessThanWellFounded, Zenon
<1>2. PICK m \in T : \A k \in T : <<k, m>> \notin OpToRel(<, Nat)
  BY <1>1
<1>3. \A k \in T : ~(k < m)
  BY <1>2, Zenon DEF OpToRel
<1> QED BY <1>3

\* A set of places of a sequence is finite.
LEMMA SmallSets ==
  ASSUME NEW n \in Nat, NEW S \in SUBSET (1..n)
  PROVE  IsFiniteSet(S) /\ Cardinality(S) \in Nat
<1>1. IsFiniteSet(1..n)
  <2>1. 1 \in Int /\ n \in Int
    OBVIOUS
  <2> QED BY <2>1, FS_Interval
<1> QED BY <1>1, FS_Subset, FS_CardinalityType

\* The places of a set have a first, a second and so on, and each is one of them.
LEMMA PlacesInOrder ==
  ASSUME NEW n \in Nat, NEW S \in SUBSET (1..n)
  PROVE  /\ \A k \in 1..Cardinality(S) : Nth(S, k) \in S
         /\ \A p \in S : \E k \in 1..Cardinality(S) : Nth(S, k) = p
         /\ \A j, k \in 1..Cardinality(S) : j < k => Nth(S, j) < Nth(S, k)
<1> DEFINE Under(p) == {q \in S : q < p}
           r == [p \in S |-> Cardinality(Under(p))]
           c == Cardinality(S)
<1>1. IsFiniteSet(S) /\ c \in Nat
  BY SmallSets
<1>2. ASSUME NEW p \in S
      PROVE  IsFiniteSet(Under(p)) /\ Cardinality(Under(p)) \in 0..(c - 1)
  <2>1. Under(p) \in SUBSET S /\ Under(p) # S
    OBVIOUS
  <2>2. IsFiniteSet(Under(p)) /\ Cardinality(Under(p)) \in Nat
    BY <1>1, <2>1, FS_Subset, FS_CardinalityType
  <2>3. Cardinality(Under(p)) <= c /\ Cardinality(Under(p)) # c
    BY <1>1, <2>1, FS_Subset
  <2> HIDE DEF Under, c
  <2> QED BY <1>1, <2>2, <2>3
<1>3. ASSUME NEW p \in S, NEW q \in S, p < q
      PROVE  r[p] < r[q]
  <2>0. \A x \in S : x \in Int /\ (x < p => x < q)
    BY <1>3
  <2>1. Under(p) \in SUBSET Under(q) /\ p \in Under(q) /\ p \notin Under(p)
    <3>1. Under(p) \in SUBSET Under(q)
      BY <2>0
    <3>2. p \in Under(q) /\ p \notin Under(p)
      BY <1>3, <2>0
    <3> QED BY <3>1, <3>2
  <2>2. Cardinality(Under(p)) <= Cardinality(Under(q)) /\ Cardinality(Under(p)) # Cardinality(Under(q))
    BY <1>2, <2>1, FS_Subset
  <2>3. r[p] = Cardinality(Under(p)) /\ r[q] = Cardinality(Under(q))
    OBVIOUS
  <2>4. Cardinality(Under(p)) \in 0..(c - 1) /\ Cardinality(Under(q)) \in 0..(c - 1)
    BY <1>2
  <2> HIDE DEF Under, r, c
  <2> QED BY <1>1, <2>2, <2>3, <2>4
<1>4. r \in [S -> 0..(c - 1)]
  <2> HIDE DEF Under, c
  <2> QED BY <1>2
<1>5. \A p, q \in S : r[p] = r[q] => p = q
  <2> HIDE DEF r, c
  <2>1. S \subseteq Int
    OBVIOUS
  <2> QED BY <1>1, <1>3, <1>4, <2>1
<1>6. \A k \in 1..c : \E p \in S : r[p] = k - 1
  <2> HIDE DEF r, c
  <2>1. r \in Injection(S, 0..(c - 1))
    BY <1>4, <1>5 DEF Injection, IsInjective
  <2>2. IsFiniteSet(0..(c - 1)) /\ Cardinality(0..(c - 1)) = c
    <3>1. 0 \in Int /\ c - 1 \in Int
      BY <1>1
    <3>2. IsFiniteSet(0..(c - 1)) /\ Cardinality(0..(c - 1)) = IF 0 > c - 1 THEN 0 ELSE c - 1 - 0 + 1
      BY <3>1, FS_Interval
    <3> QED BY <1>1, <3>2
  <2>3. r \in Surjection(S, 0..(c - 1))
    <3>1. Cardinality(S) = Cardinality(0..(c - 1))
      BY <2>2 DEF c
    <3> QED BY <2>1, <2>2, <3>1, FS_Injection
  <2> QED BY <1>1, <2>3 DEF Surjection
<1>7. \A k \in 1..c : Nth(S, k) \in S /\ r[Nth(S, k)] = k - 1
  <2> SUFFICES ASSUME NEW k \in 1..c
               PROVE  Nth(S, k) \in S /\ r[Nth(S, k)] = k - 1
    OBVIOUS
  <2>1. \E p \in S : Cardinality({q \in S : q < p}) = k - 1
    BY <1>6
  <2>2. Nth(S, k) \in S /\ Cardinality({q \in S : q < Nth(S, k)}) = k - 1
    BY <2>1 DEF Nth
  <2> QED BY <2>2
<1> HIDE DEF r, Under
<1>8. \A p \in S : \E k \in 1..c : Nth(S, k) = p
  <2> SUFFICES ASSUME NEW p \in S
               PROVE  \E k \in 1..c : Nth(S, k) = p
    OBVIOUS
  <2>1. r[p] + 1 \in 1..c /\ (r[p] + 1) - 1 = r[p]
    BY <1>1, <1>4
  <2>2. Nth(S, r[p] + 1) = p
    BY <1>5, <1>7, <2>1
  <2> QED BY <2>1, <2>2
<1>9. \A j, k \in 1..c : j < k => Nth(S, j) < Nth(S, k)
  <2> SUFFICES ASSUME NEW j \in 1..c, NEW k \in 1..c, j < k
               PROVE  Nth(S, j) < Nth(S, k)
    OBVIOUS
  <2>1. Nth(S, j) \in S /\ Nth(S, k) \in S /\ r[Nth(S, j)] = j - 1 /\ r[Nth(S, k)] = k - 1
    BY <1>7
  <2>2. S \subseteq Int /\ j \in Int /\ k \in Int
    BY <1>1
  <2> DEFINE a == Nth(S, j)
             b == Nth(S, k)
  <2> HIDE DEF a, b
  <2>3. a \in S /\ b \in S /\ a \in Int /\ b \in Int /\ r[a] = j - 1 /\ r[b] = k - 1
    BY <2>1, <2>2 DEF a, b
  <2>4. a # b /\ ~(b < a)
    BY <1>3, <2>2, <2>3
  <2>5. a < b
    BY <2>3, <2>4
  <2> QED BY <2>5 DEF a, b
<1> QED BY <1>7, <1>8, <1>9

\* Entries at some places of a sequence: those and no others.
LEMMA OnlyEntries ==
  ASSUME NEW A, NEW s \in Seq(A), NEW P \in SUBSET DOMAIN s
  PROVE  /\ Only(s, P) \in Seq(A)
         /\ DOMAIN Only(s, P) = 1..Cardinality(P)
         /\ \A k \in DOMAIN Only(s, P) : \E p \in P : Only(s, P)[k] = s[p]
         /\ \A p \in P : \E k \in DOMAIN Only(s, P) : Only(s, P)[k] = s[p]
<1>1. Len(s) \in Nat /\ P \in SUBSET (1..Len(s))
  OBVIOUS
<1>2. Cardinality(P) \in Nat
  BY <1>1, SmallSets
<1>3. /\ \A k \in 1..Cardinality(P) : Nth(P, k) \in P
      /\ \A p \in P : \E k \in 1..Cardinality(P) : Nth(P, k) = p
  BY <1>1, PlacesInOrder
<1>4. \A p \in P : s[p] \in A
  OBVIOUS
<1> QED BY <1>2, <1>3, <1>4 DEF Only

\* Each of its entries comes from a place of its own.
LEMMA OnlyPlaces ==
  ASSUME NEW A, NEW s \in Seq(A), NEW P \in SUBSET DOMAIN s
  PROVE  \E from \in [DOMAIN Only(s, P) -> P] :
           /\ \A k \in DOMAIN Only(s, P) : Only(s, P)[k] = s[from[k]]
           /\ \A j, k \in DOMAIN Only(s, P) : from[j] = from[k] => j = k
<1>1. Len(s) \in Nat /\ P \in SUBSET (1..Len(s))
  OBVIOUS
<1>2. Cardinality(P) \in Nat
  BY <1>1, SmallSets
<1>3. /\ \A k \in 1..Cardinality(P) : Nth(P, k) \in P
      /\ \A j, k \in 1..Cardinality(P) : j < k => Nth(P, j) < Nth(P, k)
  BY <1>1, PlacesInOrder
<1>4. \A j, k \in 1..Cardinality(P) : Nth(P, j) = Nth(P, k) => j = k
  <2>1. \A k \in 1..Cardinality(P) : Nth(P, k) \in Int
    BY <1>1, <1>3
  <2>2. \A j, k \in 1..Cardinality(P) : j = k \/ j < k \/ k < j
    BY <1>2
  <2> QED BY <1>3, <2>1, <2>2
<1> DEFINE from == [k \in 1..Cardinality(P) |-> Nth(P, k)]
<1>5. DOMAIN Only(s, P) = 1..Cardinality(P) /\ \A k \in 1..Cardinality(P) : Only(s, P)[k] = s[from[k]]
  BY DEF Only
<1>6. from \in [1..Cardinality(P) -> P]
  BY <1>3
<1>7. \A j, k \in 1..Cardinality(P) : from[j] = from[k] => j = k
  BY <1>4
<1> HIDE DEF from
<1> QED BY <1>5, <1>6, <1>7

-----------------------------------------------------------------------------
\* FlattenSeq is what its recursion says.
LEMMA FlattenUnfolds ==
  ASSUME NEW A, NEW s \in Seq(Seq(A)), s # <<>>
  PROVE  \E f : /\ f = [i \in 1..Len(s) |-> IF i = 1 THEN s[i] ELSE f[i - 1] \o s[i]]
                /\ FlattenSeq(s) = f[Len(s)]
<1> DEFINE Unfolds(f, n) == f = [i \in 1..n |-> IF i = 1 THEN s[i] ELSE f[i - 1] \o s[i]]
           T == {n \in Nat : ~\E f : Unfolds(f, n)}
<1>1. T = {}
  <2> SUFFICES ASSUME T # {}
               PROVE  FALSE
    OBVIOUS
  <2>1. PICK n \in T : \A m \in T : n <= m
    <3>1. T \in SUBSET Nat
      OBVIOUS
    <3> HIDE DEF T
    <3> QED BY <3>1, LeastOf
  <2>2. n # 0
    <3>1. Unfolds([i \in 1..0 |-> i], 0)
      OBVIOUS
    <3> QED BY <3>1
  <2>3. n - 1 \in Nat /\ n - 1 \notin T
    <3>1. n \in Nat
      OBVIOUS
    <3> HIDE DEF T
    <3> QED BY <2>1, <2>2, <3>1
  <2>4. PICK f : Unfolds(f, n - 1)
    BY <2>3
  <2> DEFINE g == [i \in 1..n |-> IF i = 1 THEN s[i] ELSE f[i - 1] \o s[i]]
  <2>5. \A i \in 1..(n - 1) : g[i] = f[i]
    <3>1. \A i \in 1..(n - 1) : f[i] = IF i = 1 THEN s[i] ELSE f[i - 1] \o s[i]
      BY <2>4, Zenon
    <3>2. \A i \in 1..(n - 1) : i \in 1..n
      BY <2>2
    <3> QED BY <3>1, <3>2
  <2>6. \A i \in 1..n : i # 1 => i - 1 \in 1..(n - 1)
    BY <2>2
  <2>7. g = [i \in 1..n |-> IF i = 1 THEN s[i] ELSE g[i - 1] \o s[i]]
    BY <2>5, <2>6
  <2> HIDE DEF g
  <2>8. Unfolds(g, n)
    BY <2>7
  <2> QED BY <2>1, <2>8
<1>2. Len(s) \in Nat /\ Len(s) # 0
  OBVIOUS
<1>3. PICK f : Unfolds(f, Len(s))
  BY <1>1, <1>2
<1> DEFINE h == CHOOSE f1 : f1 = [i \in 1..Len(s) |-> IF i = 1 THEN s[i] ELSE f1[i - 1] \o s[i]]
<1>4. h = [i \in 1..Len(s) |-> IF i = 1 THEN s[i] ELSE h[i - 1] \o s[i]]
  BY <1>3
<1>5. FlattenSeq(s) = h[Len(s)]
  BY <1>2 DEF FlattenSeq
<1> QED BY <1>4, <1>5

LEMMA ConcatEntries ==
  ASSUME NEW A, NEW a \in Seq(A), NEW c \in Seq(A)
  PROVE  /\ a \o c \in Seq(A) /\ Len(a \o c) = Len(a) + Len(c)
         /\ \A p \in 1..Len(a) : (a \o c)[p] = a[p]
         /\ \A j \in 1..Len(c) : (a \o c)[Len(a) + j] = c[j]
OBVIOUS

\* Two sequences of sequences with parts of the same lengths.
SideBySide(s, t) == Len(t) = Len(s) /\ \A k \in 1..Len(s) : Len(t[k]) = Len(s[k])

LEMMA BesideItself ==
  ASSUME NEW A, NEW s \in Seq(Seq(A))
  PROVE  SideBySide(s, s)
BY DEF SideBySide

\* Entries at one place of the two flattened sequences come from one place of
\* the two, and every entry has a place in the flattened sequence.
InStep(s, t, fs, ft) ==
  /\ Len(ft) = Len(fs)
  /\ \A p \in 1..Len(fs) : \E k \in 1..Len(s) : \E j \in 1..Len(s[k]) :
       fs[p] = s[k][j] /\ ft[p] = t[k][j]

KeepsAll(s, fs) ==
  \A k \in 1..Len(s) : \A j \in 1..Len(s[k]) : \E p \in 1..Len(fs) : fs[p] = s[k][j]

\* Two sequences side by side stay so when they are flattened.
LEMMA FlattenTogether ==
  ASSUME NEW A, NEW B, NEW s \in Seq(Seq(A)), NEW t \in Seq(Seq(B)), SideBySide(s, t)
  PROVE  /\ FlattenSeq(s) \in Seq(A)
         /\ InStep(s, t, FlattenSeq(s), FlattenSeq(t))
         /\ KeepsAll(s, FlattenSeq(s))
<1> USE DEF SideBySide, InStep, KeepsAll
<1>1. CASE s = <<>>
  BY <1>1 DEF FlattenSeq
<1>2. CASE s # <<>>
  <2>0. t # <<>> /\ Len(s) \in Nat /\ Len(s) # 0
    BY <1>2
  <2>1. PICK f : /\ f = [i \in 1..Len(s) |-> IF i = 1 THEN s[i] ELSE f[i - 1] \o s[i]]
                 /\ FlattenSeq(s) = f[Len(s)]
    BY <1>2, FlattenUnfolds
  <2>2. PICK g : /\ g = [i \in 1..Len(t) |-> IF i = 1 THEN t[i] ELSE g[i - 1] \o t[i]]
                 /\ FlattenSeq(t) = g[Len(t)]
    BY <2>0, FlattenUnfolds
  <2>3. \A i \in 1..Len(s) : /\ f[i] = IF i = 1 THEN s[i] ELSE f[i - 1] \o s[i]
                             /\ g[i] = IF i = 1 THEN t[i] ELSE g[i - 1] \o t[i]
    <3>1. \A i \in 1..Len(s) : f[i] = IF i = 1 THEN s[i] ELSE f[i - 1] \o s[i]
      BY <2>1, Zenon
    <3>2. \A i \in 1..Len(t) : g[i] = IF i = 1 THEN t[i] ELSE g[i - 1] \o t[i]
      BY <2>2, Zenon
    <3> QED BY <3>1, <3>2
  <2> DEFINE Sides(i) == f[i] \in Seq(A) /\ g[i] \in Seq(B) /\ Len(g[i]) = Len(f[i])
             From(i) == \A p \in 1..Len(f[i]) : \E k \in 1..i : \E j \in 1..Len(s[k]) :
                          f[i][p] = s[k][j] /\ g[i][p] = t[k][j]
             Onto(i) == \A k \in 1..i : \A j \in 1..Len(s[k]) :
                          \E p \in 1..Len(f[i]) : f[i][p] = s[k][j]
             T == {i \in 1..Len(s) : ~(Sides(i) /\ From(i) /\ Onto(i))}
  <2>4. T = {}
    <3> SUFFICES ASSUME T # {}
                 PROVE  FALSE
      OBVIOUS
    <3>1. T \in SUBSET Nat
      OBVIOUS
    <3>2. PICK i \in T : \A m \in T : i <= m
      <4> HIDE DEF T
      <4> QED BY <3>1, LeastOf
    <3>3. i \in 1..Len(s) /\ ~(Sides(i) /\ From(i) /\ Onto(i))
      OBVIOUS
    <3>4. s[i] \in Seq(A) /\ t[i] \in Seq(B) /\ Len(t[i]) = Len(s[i])
      BY <3>3
    <3>5. CASE i = 1
      <4>1. f[i] = s[i] /\ g[i] = t[i] /\ 1..i = {i}
        BY <2>3, <3>3, <3>5
      <4> QED BY <3>3, <3>4, <4>1
    <3>6. CASE i # 1
      <4>1. i - 1 \in 1..Len(s) /\ i - 1 \notin T /\ i \in Nat
        <5>1. i \in Nat /\ i - 1 \in 1..Len(s)
          BY <2>0, <3>3, <3>6
        <5> HIDE DEF T
        <5> QED BY <3>2, <5>1
      <4>2. Sides(i - 1) /\ From(i - 1) /\ Onto(i - 1)
        BY <4>1
      <4>3. f[i] = f[i - 1] \o s[i] /\ g[i] = g[i - 1] \o t[i]
        BY <2>3, <3>3, <3>6
      <4> HIDE DEF T
      <4> DEFINE a == f[i - 1]
                 b == g[i - 1]
      <4>4. /\ f[i] \in Seq(A) /\ g[i] \in Seq(B)
            /\ Len(f[i]) = Len(a) + Len(s[i]) /\ Len(g[i]) = Len(f[i])
            /\ \A p \in 1..Len(a) : f[i][p] = a[p] /\ g[i][p] = b[p]
            /\ \A j \in 1..Len(s[i]) : f[i][Len(a) + j] = s[i][j] /\ g[i][Len(a) + j] = t[i][j]
        <5>1. a \in Seq(A) /\ b \in Seq(B) /\ Len(b) = Len(a)
          BY <4>2
        <5>2. f[i] = a \o s[i] /\ g[i] = b \o t[i]
          BY <4>3
        <5> DEFINE c == s[i]
                   d == t[i]
        <5>3. c \in Seq(A) /\ d \in Seq(B) /\ Len(d) = Len(c)
          BY <3>4
        <5>4. f[i] = a \o c /\ g[i] = b \o d
          BY <5>2
        <5> HIDE DEF a, b, c, d
        <5>8. a \in Seq(A) /\ c \in Seq(A)
          BY <5>1, <5>3
        <5>9. b \in Seq(B) /\ d \in Seq(B)
          BY <5>1, <5>3
        <5>5. /\ a \o c \in Seq(A) /\ Len(a \o c) = Len(a) + Len(c)
              /\ \A p \in 1..Len(a) : (a \o c)[p] = a[p]
              /\ \A j \in 1..Len(c) : (a \o c)[Len(a) + j] = c[j]
          BY ONLY <5>8, ConcatEntries
        <5>7. /\ b \o d \in Seq(B) /\ Len(b \o d) = Len(b) + Len(d)
              /\ \A p \in 1..Len(b) : (b \o d)[p] = b[p]
              /\ \A j \in 1..Len(d) : (b \o d)[Len(b) + j] = d[j]
          BY ONLY <5>9, ConcatEntries
        <5>6. /\ f[i] \in Seq(A) /\ g[i] \in Seq(B)
              /\ Len(f[i]) = Len(a) + Len(c) /\ Len(g[i]) = Len(f[i])
              /\ \A p \in 1..Len(a) : f[i][p] = a[p] /\ g[i][p] = b[p]
              /\ \A j \in 1..Len(c) : f[i][Len(a) + j] = c[j] /\ g[i][Len(a) + j] = d[j]
          BY <5>1, <5>3, <5>4, <5>5, <5>7
        <5> QED BY <5>6 DEF c, d
      <4>5. Len(a) \in Nat /\ Len(s[i]) \in Nat /\ Len(f[i]) \in Nat /\ i \in Nat /\ i - 1 \in Nat
        <5> HIDE DEF From, Onto
        <5>1. a \in Seq(A) /\ f[i] \in Seq(A)
          BY <4>2, <4>4
        <5> QED BY <3>4, <4>1, <5>1
      <4>6. From(i)
        <5> SUFFICES ASSUME NEW p \in 1..Len(f[i])
                     PROVE  \E k \in 1..i : \E j \in 1..Len(s[k]) : f[i][p] = s[k][j] /\ g[i][p] = t[k][j]
          OBVIOUS
        <5>1. CASE p <= Len(a)
          <6>1. p \in 1..Len(a)
            BY <4>5, <5>1
          <6>2. PICK k \in 1..(i - 1) : \E j \in 1..Len(s[k]) : a[p] = s[k][j] /\ b[p] = t[k][j]
            BY <4>2, <6>1
          <6>3. k \in 1..i
            BY <4>5
          <6> QED BY <4>4, <6>1, <6>2, <6>3
        <5>2. CASE ~(p <= Len(a))
          <6>1. p - Len(a) \in 1..Len(s[i]) /\ Len(a) + (p - Len(a)) = p
            <7> DEFINE l == Len(a)
                       m == Len(s[i])
                       n == Len(f[i])
            <7>1. l \in Nat /\ m \in Nat /\ n \in Nat /\ n = l + m /\ p \in 1..n /\ ~(p <= l)
              BY <4>4, <4>5, <5>2
            <7> HIDE DEF l, m, n
            <7>2. p - l \in 1..m /\ l + (p - l) = p
              BY <7>1
            <7> QED BY <7>2 DEF l, m
          <6>2. i \in 1..i
            BY <4>1
          <6> QED BY <4>4, <6>1, <6>2
        <5> QED BY <5>1, <5>2
      <4>7. Onto(i)
        <5> SUFFICES ASSUME NEW k \in 1..i, NEW j \in 1..Len(s[k])
                     PROVE  \E p \in 1..Len(f[i]) : f[i][p] = s[k][j]
          OBVIOUS
        <5>1. CASE k = i
          <6>0. \A l, m, n \in Nat : \A q \in 1..m : n = l + m => l + q \in 1..n
            OBVIOUS
          <6>1. Len(a) + j \in 1..Len(f[i])
            BY <4>4, <4>5, <5>1, <6>0
          <6> QED BY <4>4, <5>1, <6>1
        <5>2. CASE k # i
          <6>1. k \in 1..(i - 1)
            BY <4>5, <5>2
          <6>2. PICK p \in 1..Len(a) : a[p] = s[k][j]
            BY <4>2, <6>1
          <6>0. \A l, m, n \in Nat : \A q \in 1..l : n = l + m => q \in 1..n
            OBVIOUS
          <6>3. p \in 1..Len(f[i])
            BY <4>4, <4>5, <6>0
          <6> QED BY <4>4, <6>2, <6>3
        <5> QED BY <5>1, <5>2
      <4> QED BY <3>3, <4>4, <4>6, <4>7
    <3> QED BY <3>5, <3>6
  <2>5. Sides(Len(s)) /\ From(Len(s)) /\ Onto(Len(s))
    <3>1. Len(s) \in 1..Len(s)
      BY <2>0
    <3> HIDE DEF Sides, From, Onto
    <3> QED BY <2>4, <3>1
  <2>6. FlattenSeq(s) = f[Len(s)] /\ FlattenSeq(t) = g[Len(s)]
    BY <2>1, <2>2
  <2> HIDE DEF T
  <2> QED BY <2>5, <2>6
<1> QED BY <1>1, <1>2

LEMMA FlattenFits ==
  ASSUME NEW A, NEW s \in Seq(Seq(A))
  PROVE  FlattenSeq(s) \in Seq(A) /\ KeepsAll(s, FlattenSeq(s))
BY BesideItself, FlattenTogether

\* A set of numbers that has with each the smaller ones is the numbers below its size.
LEMMA InitialNumbers ==
  ASSUME NEW n \in Nat, NEW S \in SUBSET (0..n), 0 \in S,
         \A k \in S : \A j \in 0..k : j \in S
  PROVE  Cardinality(S) \in 1..(n + 1) /\ S = 0..(Cardinality(S) - 1)
<1> DEFINE T == Nat \ S
<1>1. T \in SUBSET Nat /\ n + 1 \in T
  OBVIOUS
<1>2. PICK m \in T : \A k \in T : m <= k
  <2> HIDE DEF T
  <2> QED BY <1>1, LeastOf
<1>3. m \in 1..(n + 1)
  BY <1>1, <1>2
<1>4. S = 0..(m - 1)
  <2>1. \A k \in Nat : k < m => k \in S
    BY <1>2
  <2>2. \A k \in S : k < m
    <3> SUFFICES ASSUME NEW k \in S, ~(k < m)
                 PROVE  FALSE
      OBVIOUS
    <3>1. m \in 0..k
      BY <1>3
    <3> QED BY <1>2, <3>1
  <2>3. \A k \in 0..(m - 1) : k \in Nat /\ k < m
    BY <1>3
  <2>4. \A k \in S : k \in 0..(m - 1)
    BY <1>3, <2>2
  <2> QED BY <2>1, <2>3, <2>4
<1>5. Cardinality(0..(m - 1)) = m
  <2>1. 0 \in Int /\ m - 1 \in Int
    BY <1>3
  <2>2. Cardinality(0..(m - 1)) = IF 0 > m - 1 THEN 0 ELSE m - 1 - 0 + 1
    BY <2>1, FS_Interval
  <2> QED BY <1>3, <2>2
<1> QED BY <1>3, <1>4, <1>5

\* Multiples grow with their factor.
LEMMA Multiples ==
  ASSUME NEW d \in Nat \ {0}
  PROVE  /\ \A k \in Int : k * d \in Int /\ (k + 1) * d = k * d + d
         /\ \A j, k \in Int : j <= k => j * d <= k * d
         /\ 0 * d = 0
         /\ \A x \in Nat \ {0} : \E q \in Nat : q * d < x /\ x <= q * d + d /\ q < x
<1>1. \A k \in Int : k * d \in Int /\ (k + 1) * d = k * d + d
  OBVIOUS
<1>2. ASSUME NEW j \in Int, NEW k \in Int, j <= k
      PROVE  j * d <= k * d
  <2>1. k - j \in Nat /\ k * d = j * d + (k - j) * d
    BY <1>2
  <2>2. (k - j) * d \in Nat
    BY <2>1
  <2> QED BY <2>1, <2>2
<1>3. 0 * d = 0
  OBVIOUS
<1>4. ASSUME NEW x \in Nat \ {0}
      PROVE  \E q \in Nat : q * d < x /\ x <= q * d + d /\ q < x
  <2> DEFINE q == (x - 1) \div d
  <2>1. q \in Nat /\ q * d <= x - 1 /\ x - 1 < q * d + d
    BY SMT
  <2> HIDE DEF q
  <2>2. q <= q * d
    <3>1. d - 1 \in Nat /\ q * d = q + q * (d - 1)
      BY <2>1
    <3>2. q * (d - 1) \in Nat
      BY <2>1, <3>1
    <3> QED BY <2>1, <3>1, <3>2
  <2>3. q * d \in Int /\ x \in Int
    BY <2>1
  <2> QED BY <2>1, <2>2, <2>3
<1> QED BY <1>1, <1>2, <1>3, <1>4

-----------------------------------------------------------------------------
(* Windows.                                                                *)

\* Each window shows entries, every entry is in one, two that follow each other together.
Covers(windows, ids) ==
  /\ \A k \in DOMAIN windows : windows[k] # <<>> /\ ToSet(windows[k]) \subseteq ToSet(ids)
  /\ \A j \in 1..Len(ids) : \E k \in DOMAIN windows : ids[j] \in ToSet(windows[k])
  /\ WindowOverlap > 0 /\ WindowSegments # 1 =>
       \A j \in 1..(Len(ids) - 1) : \E k \in DOMAIN windows : {ids[j], ids[j + 1]} \subseteq ToSet(windows[k])

\* One window for all.
LEMMA OneWindow ==
  ASSUME NEW A, NEW ids \in Seq(A), ids # <<>>
  PROVE  <<ids>> \in Seq(Seq(A)) /\ Covers(<<ids>>, ids)
<1>1. \A j \in 1..Len(ids) : ids[j] \in ToSet(ids)
  BY DEF ToSet
<1>2. DOMAIN <<ids>> = {1} /\ <<ids>>[1] = ids
  OBVIOUS
<1>3. \A j \in 1..(Len(ids) - 1) : j \in 1..Len(ids) /\ j + 1 \in 1..Len(ids)
  OBVIOUS
<1> QED BY <1>1, <1>2, <1>3 DEF Covers

\* Windows of a given size and overlap leave out no line between them.
LEMMA SplitCovers ==
  ASSUME NEW A, NEW ids \in Seq(A), ids # <<>>
  PROVE  SplitWindows(ids) \in Seq(Seq(A)) /\ Covers(SplitWindows(ids), ids)
<1> DEFINE n == Len(ids)
           W == WindowSegments
           step == Most(1, W - Most(0, WindowOverlap))
           starts == {k \in 0..n : k = 0 \/ (k - 1) * step + W < n}
           c == Cardinality(starts)
           lo(k) == (k - 1) * step + 1
           hi(k) == Least((k - 1) * step + W, n)
           win == [k \in 1..c |-> SubSeq(ids, lo(k), hi(k))]
<1>1. CASE W <= 0 \/ n <= W
  <2>1. SplitWindows(ids) = <<ids>>
    BY <1>1 DEF SplitWindows
  <2> QED BY <2>1, OneWindow
<1>2. CASE ~(W <= 0 \/ n <= W)
  <2>1. SplitWindows(ids) = win
    BY <1>2 DEF SplitWindows
  <2>2. n \in Nat /\ W \in Nat /\ W > 0 /\ n > W
    BY <1>2, TextAssumption
  <2>3. /\ step \in Nat \ {0} /\ step <= W
        /\ WindowOverlap > 0 /\ W # 1 => step < W
    BY <2>2, TextAssumption DEF Most
  <2> HIDE DEF n, step
  <2>4. /\ \A k \in Int : k * step \in Int /\ (k + 1) * step = k * step + step
        /\ \A j, k \in Int : j <= k => j * step <= k * step
        /\ 0 * step = 0
        /\ \A x \in Nat \ {0} : \E q \in Nat : q * step < x /\ x <= q * step + step /\ q < x
    BY <2>3, Multiples
  <2>5. c \in 1..(n + 1) /\ starts = 0..(c - 1)
    <3>1. ASSUME NEW k \in starts, NEW j \in 0..k
          PROVE  j \in starts
      <4>1. CASE j = 0
        BY <2>2, <4>1
      <4>2. CASE j # 0
        <5>1. k \in 1..n /\ (k - 1) * step + W < n /\ j \in 1..n /\ j - 1 <= k - 1 /\ j - 1 \in Int /\ k - 1 \in Int
          BY <2>2, <4>2
        <5>2. (j - 1) * step <= (k - 1) * step /\ (j - 1) * step \in Int /\ (k - 1) * step \in Int
          BY <2>4, <5>1
        <5>3. (j - 1) * step + W < n
          BY <2>2, <5>1, <5>2
        <5> QED BY <2>2, <5>1, <5>3
      <4> QED BY <4>1, <4>2
    <3>2. starts \in SUBSET (0..n) /\ 0 \in starts
      BY <2>2
    <3> HIDE DEF starts
    <3> QED BY <2>2, <3>1, <3>2, InitialNumbers
  <2>6. c <= n => (c - 1) * step + W >= n
    <3>1. c \notin starts
      <4> HIDE DEF c, starts
      <4> QED BY <2>2, <2>5
    <3>2. ASSUME c <= n
          PROVE  (c - 1) * step + W >= n
      <4>1. c \in 0..n /\ c - 1 \in Int
        BY <2>2, <2>5, <3>2
      <4>2. ~((c - 1) * step + W < n)
        BY <3>1, <4>1
      <4>3. (c - 1) * step \in Int
        BY <2>4, <4>1
      <4> QED BY <2>2, <4>2, <4>3
    <3> QED BY <3>2
  <2>7. ASSUME NEW k \in 1..c
        PROVE  lo(k) \in 1..n /\ hi(k) \in lo(k)..n
    <3>1. k - 1 \in starts /\ k - 1 \in Nat /\ k - 1 \in Int /\ k - 1 - 1 \in Int
      <4> HIDE DEF c, starts
      <4> QED BY <2>5
    <3>2. (k - 1) * step \in Int /\ 0 <= (k - 1) * step
      BY <2>4, <3>1
    <3>3. (k - 1) * step < n
      <4>1. CASE k - 1 = 0
        BY <2>2, <2>4, <4>1
      <4>2. CASE k - 1 # 0
        <5>1. (k - 1 - 1) * step + W < n
          BY <3>1, <4>2
        <5>2. (k - 1) * step = (k - 1 - 1) * step + step /\ (k - 1 - 1) * step \in Int
          <6>1. (k - 1 - 1) + 1 = k - 1
            BY <3>1
          <6> QED BY <2>4, <3>1, <6>1
        <5> QED BY <2>2, <2>3, <5>1, <5>2
      <4> QED BY <4>1, <4>2
    <3> DEFINE m == (k - 1) * step
    <3>4. m \in Int /\ 0 <= m /\ m < n
      BY <3>2, <3>3
    <3> HIDE DEF m
    <3>5. m + 1 \in 1..n /\ Least(m + W, n) \in (m + 1)..n
      BY <2>2, <3>4 DEF Least
    <3> QED BY <3>5 DEF m
  <2>8. ASSUME NEW k \in 1..c
        PROVE  /\ win[k] \in Seq(A) /\ win[k] # <<>> /\ ToSet(win[k]) \subseteq ToSet(ids)
               /\ \A j \in lo(k)..hi(k) : ids[j] \in ToSet(win[k])
    <3> DEFINE a == lo(k)
               b == hi(k)
    <3>1. a \in 1..n /\ b \in a..n /\ win[k] = SubSeq(ids, a, b)
      BY <2>7, <2>8
    <3> HIDE DEF a, b, win
    <3>2. a \in Int /\ b \in Int /\ \A i \in a..b : i \in 1..n /\ ids[i] \in A
      BY <3>1 DEF n
    <3>3. /\ SubSeq(ids, a, b) \in Seq(A)
          /\ Len(SubSeq(ids, a, b)) = IF a <= b THEN b - a + 1 ELSE 0
          /\ \A i \in 1..(b - a + 1) : SubSeq(ids, a, b)[i] = ids[a + i - 1]
      BY <3>2, SubSeqProperties
    <3>4. Len(win[k]) = b - a + 1 /\ b - a + 1 \in Nat \ {0} /\ win[k] \in Seq(A)
      BY <3>1, <3>2, <3>3
    <3>5. ToSet(win[k]) \subseteq ToSet(ids)
      <4>1. \A i \in 1..(b - a + 1) : a + i - 1 \in 1..n
        BY <2>2, <3>1, <3>2
      <4>2. DOMAIN win[k] = 1..(b - a + 1) /\ DOMAIN ids = 1..n
        BY <3>4 DEF n
      <4> QED BY <3>1, <3>3, <4>1, <4>2 DEF ToSet
    <3>6. ASSUME NEW j \in a..b
          PROVE  ids[j] \in ToSet(win[k])
      <4>1. j - a + 1 \in 1..(b - a + 1) /\ a + (j - a + 1) - 1 = j
        BY <3>2
      <4>2. DOMAIN win[k] = 1..(b - a + 1)
        BY <3>4
      <4>3. win[k][j - a + 1] = ids[j]
        BY <3>1, <3>3, <4>1
      <4> QED BY <4>1, <4>2, <4>3 DEF ToSet
    <3> QED BY <3>4, <3>5, <3>6 DEF a, b
  \* Which window an entry is in, and how far that reaches.
  <2>9. ASSUME NEW j \in 1..n
        PROVE  \E k \in 1..c : lo(k) <= j /\ (hi(k) = n \/ j - 1 + W - step < hi(k))
    <3>1. PICK q \in Nat : q * step < j /\ j <= q * step + step /\ q < j
      <4>1. j \in Nat \ {0}
        BY <2>2
      <4> QED BY <2>4, <4>1
    <3>2. CASE q <= c - 1
      <4>1. q + 1 \in 1..c /\ q + 1 - 1 = q
        BY <2>5, <3>2
      <4> DEFINE m == q * step
      <4>2. m \in Int /\ m < j /\ j <= m + step
        BY <2>4, <3>1
      <4>3. lo(q + 1) = m + 1 /\ hi(q + 1) = Least(m + W, n)
        BY <4>1
      <4> HIDE DEF m, lo, hi
      <4>4. m + 1 <= j /\ (Least(m + W, n) = n \/ j - 1 + W - step < Least(m + W, n))
        BY <2>2, <2>3, <4>2 DEF Least
      <4> QED BY <4>1, <4>3, <4>4
    <3>3. CASE ~(q <= c - 1)
      <4>1. c <= n /\ c \in 1..c /\ c - 1 \in Int /\ c - 1 <= q /\ q \in Int
        BY <2>2, <2>5, <3>1, <3>3
      <4> DEFINE m == (c - 1) * step
      <4>2. m \in Int /\ m <= q * step /\ q * step \in Int /\ m + W >= n
        BY <2>4, <2>6, <4>1
      <4>3. lo(c) = m + 1 /\ hi(c) = Least(m + W, n)
        OBVIOUS
      <4> HIDE DEF m, lo, hi
      <4>4. m + 1 <= j /\ Least(m + W, n) = n
        BY <2>2, <3>1, <4>2 DEF Least
      <4> QED BY <4>1, <4>3, <4>4
    <3> QED BY <3>2, <3>3
  <2>10. ASSUME NEW j \in 1..n
         PROVE  \E k \in 1..c : /\ ids[j] \in ToSet(win[k])
                                /\ WindowOverlap > 0 /\ W # 1 /\ j < n => ids[j + 1] \in ToSet(win[k])
    <3>1. PICK k \in 1..c : lo(k) <= j /\ (hi(k) = n \/ j - 1 + W - step < hi(k))
      BY <2>9
    <3>2. lo(k) \in 1..n /\ hi(k) \in lo(k)..n
      BY <2>7
    <3> DEFINE a == lo(k)
               b == hi(k)
    <3> HIDE DEF win, lo, hi
    <3>3. j \in a..b
      BY <2>2, <2>3, <3>1, <3>2
    <3>4. WindowOverlap > 0 /\ W # 1 /\ j < n => j + 1 \in a..b
      BY <2>2, <2>3, <3>1, <3>2
    <3> QED BY <2>8, <3>3, <3>4
  <2>11. win \in Seq(Seq(A)) /\ DOMAIN win = 1..c
    <3>1. c \in Nat
      BY <2>2, <2>5
    <3>2. \A k \in 1..c : SubSeq(ids, lo(k), hi(k)) \in Seq(A)
      BY <2>8
    <3> HIDE DEF c, lo, hi
    <3> QED BY <3>1, <3>2
  <2>12. Covers(win, ids)
    <3> HIDE DEF win, lo, hi, c, W
    <3>1. \A j \in 1..(n - 1) : j \in 1..n /\ j < n
      BY <2>2
    <3>2. \A k \in DOMAIN win : win[k] # <<>> /\ ToSet(win[k]) \subseteq ToSet(ids)
      BY <2>8, <2>11
    <3>3. \A j \in 1..n : \E k \in DOMAIN win : ids[j] \in ToSet(win[k])
      BY <2>10, <2>11
    <3>4. WindowOverlap > 0 /\ W # 1 =>
            \A j \in 1..(n - 1) : \E k \in DOMAIN win : {ids[j], ids[j + 1]} \subseteq ToSet(win[k])
      BY <2>10, <2>11, <3>1
    <3> QED BY <3>2, <3>3, <3>4 DEF Covers, n, W
  <2> HIDE DEF win
  <2> QED BY <2>1, <2>11, <2>12
<1> QED BY <1>1, <1>2

-----------------------------------------------------------------------------
(* What the agents are shown.                                              *)

LEMMA KeptLines ==
  ASSUME meeting \in Meetings
  PROVE  /\ Kept \in Seq(Nat) /\ ToSet(Kept) = KeptIds
         /\ IsFiniteSet(ExcludedIds)
         /\ \A j \in 1..Len(Kept) : Kept[j] \in Nat
<1>1. Len(Lines) \in Nat
  BY TextAssumption DEF Lines
<1>2. KeptIds \in SUBSET (1..Len(Lines)) /\ ExcludedIds \in SUBSET (1..Len(Lines))
  BY DEF KeptIds, ExcludedIds
<1>3. /\ Cardinality(KeptIds) \in Nat /\ IsFiniteSet(ExcludedIds)
      /\ \A k \in 1..Cardinality(KeptIds) : Nth(KeptIds, k) \in KeptIds
      /\ \A p \in KeptIds : \E k \in 1..Cardinality(KeptIds) : Nth(KeptIds, k) = p
  BY <1>1, <1>2, SmallSets, PlacesInOrder
<1>4. KeptIds \subseteq Nat
  BY <1>1, <1>2
<1>5. Kept \in Seq(Nat) /\ DOMAIN Kept = 1..Cardinality(KeptIds)
  <2> DEFINE c == Cardinality(KeptIds)
  <2>1. c \in Nat /\ \A k \in 1..c : Nth(KeptIds, k) \in Nat
    BY <1>3, <1>4
  <2>2. Kept = [k \in 1..c |-> Nth(KeptIds, k)]
    BY DEF Kept
  <2> HIDE DEF c
  <2>3. Kept \in Seq(Nat) /\ DOMAIN Kept = 1..c
    BY <2>1, <2>2
  <2> QED BY <2>3 DEF c
<1>6. ToSet(Kept) = KeptIds
  <2>1. \A k \in 1..Cardinality(KeptIds) : Kept[k] = Nth(KeptIds, k)
    BY DEF Kept
  <2> QED BY <1>3, <1>5, <2>1 DEF ToSet
<1> QED BY <1>3, <1>5, <1>6

LEMMA WindowsCover ==
  ASSUME meeting \in Meetings, Kept # <<>>
  PROVE  Windows \in Seq(Seq(Nat)) /\ Covers(Windows, Kept)
BY KeptLines, SplitCovers, OneWindow DEF Windows

LEMMA NoWindows == Kept = <<>> => Windows = <<>>
BY DEF Windows

\* The windows show the kept lines and no others.
LEMMA SeenIsKept ==
  ASSUME meeting \in Meetings
  PROVE  UNION {ToSet(Windows[k]) : k \in DOMAIN Windows} = KeptIds
<1>1. CASE Kept = <<>>
  <2>1. KeptIds = {}
    BY <1>1, KeptLines DEF ToSet
  <2> QED BY <1>1, <2>1, NoWindows
<1>2. CASE Kept # <<>>
  <2>1. \A k \in DOMAIN Windows : ToSet(Windows[k]) \subseteq KeptIds
    BY <1>2, WindowsCover, KeptLines DEF Covers
  <2>2. \A j \in 1..Len(Kept) : \E k \in DOMAIN Windows : Kept[j] \in ToSet(Windows[k])
    BY <1>2, WindowsCover DEF Covers
  <2>3. \A i \in KeptIds : \E j \in 1..Len(Kept) : Kept[j] = i
    BY KeptLines DEF ToSet
  <2> QED BY <2>1, <2>2, <2>3
<1> QED BY <1>1, <1>2

\* What the reader is told of the lines that were left out.
LEMMA GateTells ==
  ASSUME meeting \in Meetings
  PROVE  /\ GateSummary.count = Cardinality(ExcludedIds)
         /\ GateSummary.listed \subseteq ExcludedIds
         /\ GateSummary.listed = ExcludedIds \/ GateSummary.truncated
<1>1. GateListMax \in Int /\ IsFiniteSet(ExcludedIds) /\ Cardinality(ExcludedIds) \in Nat
  BY TextAssumption, KeptLines, FS_CardinalityType
<1>2. ASSUME NEW i \in ExcludedIds, ~(Cardinality(ExcludedIds) > GateListMax)
      PROVE  Cardinality({j \in ExcludedIds : j < i}) < GateListMax
  <2> DEFINE S == {j \in ExcludedIds : j < i}
  <2>1. S \in SUBSET ExcludedIds /\ S # ExcludedIds
    <3>1. i \in Int
      BY TextAssumption DEF ExcludedIds, Lines
    <3> QED BY <1>2, <3>1
  <2>2. Cardinality(S) <= Cardinality(ExcludedIds) /\ Cardinality(S) # Cardinality(ExcludedIds)
    BY <1>1, <2>1, FS_Subset
  <2>3. Cardinality(S) \in Nat
    BY <1>1, <2>1, FS_Subset, FS_CardinalityType
  <2> HIDE DEF S
  <2>4. Cardinality(S) < GateListMax
    BY <1>1, <1>2, <2>2, <2>3
  <2> QED BY <2>4 DEF S
<1> QED BY <1>2 DEF GateSummary

LEMMA UnseenIsExcluded ==
  ASSUME meeting \in Meetings
  PROVE  Shown \ KeptIds = ExcludedIds
BY DEF Shown, KeptIds, ExcludedIds, Excluded

-----------------------------------------------------------------------------
(* What the agents may have written.                                       *)

Text == [name : {"point", "task", "other", "missed"}, korean : BOOLEAN]
Item == [text : Text, ev : SUBSET Int]
AgendaBlock == [no : Int, tag : Nat \X Nat, items : Seq(Item)]
IndexRow == [no : Int, tag : Nat \X Nat]
Minutes == [agenda : Seq(AgendaBlock), index : Seq(IndexRow)]
Action == [text : Text, ev : SUBSET Int, flagged : BOOLEAN]
Found == [text : Text \cup {None}, ev : SUBSET Int, flagged : BOOLEAN]

LEMMA CitesLines ==
  ASSUME meeting \in Meetings, NEW w \in Seq(Nat), NEW e \in Cites(w)
  PROVE  e \in SUBSET Int
<1>1. Len(Lines) \in Nat
  BY TextAssumption DEF Lines
<1>2. \A k \in DOMAIN w : w[k] \in Int
  OBVIOUS
<1>3. ToSet(w) \in SUBSET Int
  BY <1>2 DEF ToSet
<1>4. {Ghost} \in SUBSET Int
  BY DEF Ghost
<1> QED BY <1>1, <1>3, <1>4 DEF Cites

\* Whatever numbers the agent gives.
LEMMA NumberedFits ==
  ASSUME meeting \in Meetings, NEW k \in Nat, NEW n,
         n.nos \in Seq(Int), n.rows \in Seq([of : DOMAIN n.nos, no : Int]),
         NEW items, \A j \in DOMAIN n.nos : items[j] \in Seq(Item)
  PROVE  Numbered(k, n, items) \in Minutes
<1> DEFINE block(j) == Block(n.nos[j], <<k, j>>, items[j])
           row(r) == [no |-> n.rows[r].no, tag |-> <<k, n.rows[r].of>>]
<1>1. /\ Len(n.nos) \in Nat /\ DOMAIN n.nos = 1..Len(n.nos)
      /\ Len(n.rows) \in Nat /\ DOMAIN n.rows = 1..Len(n.rows)
  OBVIOUS
<1>2. \A j \in 1..Len(n.nos) : block(j) \in AgendaBlock
  <2>1. \A j \in 1..Len(n.nos) : n.nos[j] \in Int /\ <<k, j>> \in Nat \X Nat /\ items[j] \in Seq(Item)
    BY <1>1
  <2> QED BY <2>1 DEF Block, AgendaBlock
<1>3. \A r \in 1..Len(n.rows) : row(r) \in IndexRow
  <2>1. \A r \in 1..Len(n.rows) : n.rows[r] \in [of : DOMAIN n.nos, no : Int]
    BY ElementOfSeq
  <2>2. \A r \in 1..Len(n.rows) : n.rows[r].no \in Int /\ n.rows[r].of \in 1..Len(n.nos)
    BY <1>1, <2>1
  <2>3. \A r \in 1..Len(n.rows) : <<k, n.rows[r].of>> \in Nat \X Nat
    BY <1>1, <2>2
  <2> QED BY <2>2, <2>3 DEF IndexRow
<1> DEFINE blocks == [j \in 1..Len(n.nos) |-> block(j)]
           rows == [r \in 1..Len(n.rows) |-> row(r)]
<1>4. Numbered(k, n, items) = [agenda |-> blocks, index |-> rows]
  BY <1>1 DEF Numbered
<1>5. blocks \in Seq(AgendaBlock) /\ rows \in Seq(IndexRow)
  <2> HIDE DEF block, row
  <2> QED BY <1>1, <1>2, <1>3
<1> HIDE DEF blocks, rows
<1> QED BY <1>4, <1>5 DEF Minutes

LEMMA SummariesFit ==
  ASSUME meeting \in Meetings, NEW k \in DOMAIN Windows, NEW a \in SummaryAnswers(k), a # None
  PROVE  a \in Minutes
<1>0. Kept # <<>>
  BY NoWindows
<1> DEFINE w == Windows[k]
<1>1. k \in Nat /\ w \in Seq(Nat) /\ w # <<>>
  BY <1>0, WindowsCover DEF Covers
<1> DEFINE plain == [nos |-> <<1>>, rows |-> <<[of |-> 1, no |-> 1]>>]
           point(t, e) == <<[text |-> t, ev |-> e]>>
           korean == [name |-> "point", korean |-> TRUE]
           points(n) == [j \in DOMAIN n.nos |-> point(korean, IF j = 1 THEN ToSet(w) ELSE {Head(w)})]
<1>2. \/ a = NoSummary
      \/ \E t \in Said, e \in Cites(w) : a = Numbered(k, plain, <<point(t, e)>>)
      \/ \E n \in meeting.numberings : a = Numbered(k, n, points(n))
  <2>1. SummaryAnswers(k) = {None, NoSummary}
                              \cup {Numbered(k, plain, <<point(t, e)>>) : t \in Said, e \in Cites(w)}
                              \cup {Numbered(k, n, points(n)) : n \in meeting.numberings}
    BY DEF SummaryAnswers
  <2> HIDE DEF plain, point, points, w
  <2> QED BY <2>1
<1>3. Said \subseteq Text /\ korean \in Said
  <2>1. \A x \in BOOLEAN : [name |-> "point", korean |-> x] \in Text
    BY DEF Text
  <2> QED BY <2>1 DEF Said
<1>4. Head(w) \in Int /\ ToSet(w) \in SUBSET Int
  <2>1. ToSet(w) \in Cites(w)
    BY DEF Cites
  <2>2. w \in Seq(Nat)
    BY <1>1
  <2> HIDE DEF w
  <2>3. ToSet(w) \in SUBSET Int
    BY <2>1, <2>2, CitesLines
  <2> QED BY <1>1, <2>3
<1> HIDE DEF w
<1>p. ASSUME NEW t \in Text, NEW e \in SUBSET Int
      PROVE  point(t, e) \in Seq(Item)
  <2>1. [text |-> t, ev |-> e] \in Item
    BY DEF Item
  <2> QED BY <2>1
<1>5. CASE a = NoSummary
  BY <1>5 DEF NoSummary, Minutes
<1>6. ASSUME NEW t \in Said, NEW e \in Cites(w), a = Numbered(k, plain, <<point(t, e)>>)
      PROVE  a \in Minutes
  <2>1. e \in SUBSET Int
    BY <1>1, CitesLines
  <2>2. point(t, e) \in Seq(Item)
    BY <1>3, <1>p, <2>1
  <2>3. plain.nos \in Seq(Int) /\ plain.rows \in Seq([of : DOMAIN plain.nos, no : Int]) /\ DOMAIN plain.nos = 1..1
    OBVIOUS
  <2> DEFINE items == <<point(t, e)>>
  <2>4. \A j \in 1..1 : items[j] \in Seq(Item)
    <3> HIDE DEF point
    <3> QED BY <2>2
  <2> HIDE DEF plain, items
  <2>5. Numbered(k, plain, items) \in Minutes
    BY <1>1, <2>3, <2>4, NumberedFits
  <2> QED BY <1>6, <2>5 DEF items
<1>7. ASSUME NEW n \in meeting.numberings, a = Numbered(k, n, points(n))
      PROVE  a \in Minutes
  <2>1. n.nos \in Seq(Int) /\ n.rows \in Seq([of : DOMAIN n.nos, no : Int])
    BY TextAssumption
  <2>2. \A j \in DOMAIN n.nos : points(n)[j] \in Seq(Item)
    <3> SUFFICES ASSUME NEW j \in DOMAIN n.nos PROVE points(n)[j] \in Seq(Item)
      OBVIOUS
    <3> DEFINE e == IF j = 1 THEN ToSet(w) ELSE {Head(w)}
    <3>1. points(n)[j] = point(korean, e)
      OBVIOUS
    <3>2. e \in SUBSET Int /\ korean \in Text
      BY <1>3, <1>4
    <3> HIDE DEF points, point, korean, e
    <3> QED BY <1>p, <3>1, <3>2
  <2> HIDE DEF points
  <2> QED BY <1>1, <1>7, <2>1, <2>2, NumberedFits
<1> QED BY <1>2, <1>5, <1>6, <1>7

LEMMA ExtractsFit ==
  ASSUME meeting \in Meetings, NEW k \in DOMAIN Windows, NEW a \in ExtractAnswers(k), a # None
  PROVE  a \in Seq(Found)
<1>0. Kept # <<>>
  BY NoWindows
<1>1. Windows[k] \in Seq(Nat)
  BY <1>0, WindowsCover
<1>2. Asked \subseteq Text \cup {None}
  <2>1. [name |-> "task", korean |-> TRUE] \in Text /\ [name |-> "other", korean |-> FALSE] \in Text
    BY DEF Text
  <2> QED BY <2>1 DEF Asked
<1>3. CASE a = <<>>
  BY <1>3
<1>4. ASSUME NEW t \in Asked, NEW e \in Cites(Windows[k]), a = <<[text |-> t, ev |-> e, flagged |-> FALSE]>>
      PROVE  a \in Seq(Found)
  <2>1. e \in SUBSET Int
    BY <1>1, CitesLines
  <2>2. [text |-> t, ev |-> e, flagged |-> FALSE] \in Found
    BY <1>2, <2>1 DEF Found
  <2> QED BY <1>4, <2>2
<1> QED BY <1>3, <1>4 DEF ExtractAnswers

-----------------------------------------------------------------------------
(* What becomes of the actions.                                            *)

LEMMA AnsweredEntries ==
  ASSUME NEW A, NEW s \in Seq(A \cup {None})
  PROVE  /\ Answered(s) \in Seq(A)
         /\ \A k \in DOMAIN s : s[k] # None => \E j \in DOMAIN Answered(s) : Answered(s)[j] = s[k]
<1> DEFINE P == {k \in DOMAIN s : s[k] # None}
<1>1. P \in SUBSET DOMAIN s /\ Answered(s) = Only(s, P)
  BY DEF Answered
<1>2. /\ Answered(s) \in Seq(A \cup {None})
      /\ \A j \in DOMAIN Answered(s) : \E p \in P : Answered(s)[j] = s[p]
      /\ \A p \in P : \E j \in DOMAIN Answered(s) : Answered(s)[j] = s[p]
  <2> HIDE DEF P
  <2> QED BY <1>1, OnlyEntries
<1>3. \A j \in DOMAIN Answered(s) : Answered(s)[j] # None
  BY <1>2
<1>4. Answered(s) \in Seq(A)
  BY <1>2, <1>3
<1> QED BY <1>2, <1>4

LEMMA NamedEntries ==
  ASSUME NEW s \in Seq(Found)
  PROVE  /\ Named(s) \in Seq(Action)
         /\ \A k \in DOMAIN s : s[k].text # None => \E j \in DOMAIN Named(s) : Named(s)[j] = s[k]
<1> DEFINE P == {k \in DOMAIN s : s[k].text # None}
<1>1. P \in SUBSET DOMAIN s /\ Named(s) = Only(s, P)
  BY DEF Named
<1>2. /\ Named(s) \in Seq(Found)
      /\ \A j \in DOMAIN Named(s) : \E p \in P : Named(s)[j] = s[p]
      /\ \A p \in P : \E j \in DOMAIN Named(s) : Named(s)[j] = s[p]
  <2> HIDE DEF P
  <2> QED BY <1>1, OnlyEntries
<1>3. \A j \in DOMAIN Named(s) : Named(s)[j] \in Action
  <2> SUFFICES ASSUME NEW j \in DOMAIN Named(s)
               PROVE  Named(s)[j] \in Action
    OBVIOUS
  <2>1. Named(s)[j] \in Found /\ Named(s)[j].text # None
    BY <1>2
  <2> QED BY <2>1 DEF Found, Action
<1>4. Named(s) \in Seq(Action)
  BY <1>2, <1>3
<1> QED BY <1>2, <1>4

\* Of the actions of one text the first one is there.
LEMMA FirstOfText ==
  ASSUME NEW s \in Seq(Action), NEW k \in DOMAIN s
  PROVE  \E p \in Firsts(s) : s[p].text = s[k].text
<1> DEFINE T == {j \in DOMAIN s : s[j].text = s[k].text}
<1>1. T \in SUBSET Nat /\ T # {}
  OBVIOUS
<1>2. PICK p \in T : \A j \in T : p <= j
  <2> HIDE DEF T
  <2> QED BY <1>1, LeastOf
<1>3. \A j \in 1..(p - 1) : j \in DOMAIN s /\ ~(p <= j)
  OBVIOUS
<1>4. \A j \in 1..(p - 1) : s[j].text # s[p].text
  BY <1>2, <1>3
<1> QED BY <1>4 DEF Firsts

\* An action that some window found is among the merged ones with its lines.
LEMMA MergedEntries ==
  ASSUME NEW s \in Seq(Seq(Found))
  PROVE  /\ MergeActions(s) \in Seq(Action)
         /\ \A k \in DOMAIN s : \A j \in DOMAIN s[k] : s[k][j].text # None =>
              \E x \in DOMAIN MergeActions(s) :
                 MergeActions(s)[x].text = s[k][j].text /\ s[k][j].ev \subseteq MergeActions(s)[x].ev
<1> DEFINE flat == FlattenSeq(s)
           all == Named(flat)
           evidence(t) == UNION {all[k].ev : k \in {j \in DOMAIN all : all[j].text = t}}
           whole == [k \in DOMAIN all |-> [all[k] EXCEPT !.ev = evidence(all[k].text)]]
<1>1. /\ flat \in Seq(Found)
      /\ \A k \in 1..Len(s) : \A j \in 1..Len(s[k]) : \E p \in 1..Len(flat) : flat[p] = s[k][j]
  <2>1. FlattenSeq(s) \in Seq(Found) /\ KeepsAll(s, FlattenSeq(s))
    BY FlattenFits
  <2> QED BY <2>1 DEF KeepsAll
<1> HIDE DEF flat
<1>2. /\ all \in Seq(Action)
      /\ \A p \in DOMAIN flat : flat[p].text # None => \E k \in DOMAIN all : all[k] = flat[p]
  BY <1>1, NamedEntries
<1> HIDE DEF all
<1>3. ASSUME NEW k \in DOMAIN all
      PROVE  /\ whole[k] \in Action /\ whole[k].text = all[k].text
             /\ \A j \in DOMAIN all : all[j].text = all[k].text => all[j].ev \subseteq whole[k].ev
  <2>1. all[k] \in Action /\ \A j \in DOMAIN all : all[j] \in Action
    BY <1>2
  <2>2. \A j \in DOMAIN all : all[j].ev \in SUBSET Int
    BY <2>1 DEF Action
  <2>3. evidence(all[k].text) \in SUBSET Int
    BY <2>2
  <2>4. \A j \in DOMAIN all : all[j].text = all[k].text => all[j].ev \subseteq evidence(all[k].text)
    OBVIOUS
  <2> DEFINE e == evidence(all[k].text)
  <2>5. whole[k] = [all[k] EXCEPT !.ev = e]
    OBVIOUS
  <2> HIDE DEF evidence, whole, e
  <2>6. whole[k] \in Action /\ whole[k].text = all[k].text /\ whole[k].ev = e
    BY <2>1, <2>3, <2>5 DEF Action, e
  <2> QED BY <2>4, <2>6 DEF e
<1>4. whole \in Seq(Action) /\ DOMAIN whole = DOMAIN all
  <2>1. Len(all) \in Nat /\ DOMAIN all = 1..Len(all)
    BY <1>2
  <2>2. DOMAIN whole = DOMAIN all
    OBVIOUS
  <2>3. whole = [k \in 1..Len(all) |-> whole[k]]
    BY <2>1
  <2> HIDE DEF whole
  <2> QED BY <1>3, <2>1, <2>2, <2>3
<1>5. MergeActions(s) = Only(whole, Firsts(all))
  BY DEF MergeActions, all, flat
<1> HIDE DEF whole, evidence
<1>6. Firsts(all) \in SUBSET DOMAIN whole
  BY <1>4 DEF Firsts
<1>7. /\ MergeActions(s) \in Seq(Action)
      /\ \A p \in Firsts(all) : \E x \in DOMAIN MergeActions(s) : MergeActions(s)[x] = whole[p]
  BY <1>4, <1>5, <1>6, OnlyEntries
<1>8. ASSUME NEW k \in DOMAIN s, NEW j \in DOMAIN s[k], s[k][j].text # None
      PROVE  \E x \in DOMAIN MergeActions(s) :
                MergeActions(s)[x].text = s[k][j].text /\ s[k][j].ev \subseteq MergeActions(s)[x].ev
  <2>1. k \in 1..Len(s) /\ j \in 1..Len(s[k])
    OBVIOUS
  <2>2. PICK q \in 1..Len(flat) : flat[q] = s[k][j]
    BY <1>1, <2>1
  <2>3. PICK i \in DOMAIN all : all[i] = s[k][j]
    BY <1>1, <1>2, <1>8, <2>2
  <2>4. PICK p \in Firsts(all) : all[p].text = all[i].text
    BY <1>2, FirstOfText
  <2>5. p \in DOMAIN all
    BY DEF Firsts
  <2>6. whole[p].text = all[i].text /\ all[i].ev \subseteq whole[p].ev
    BY <1>3, <2>4, <2>5
  <2> QED BY <1>7, <2>3, <2>6
<1> QED BY <1>7, <1>8

-----------------------------------------------------------------------------
\* The action is among these with its lines.
Kin(a, acts) ==
  \E x \in DOMAIN acts : acts[x].text.name = a.text.name /\ a.ev \subseteq acts[x].ev

\* The critic loses no action it did not drop.
LEMMA JudgedEntries ==
  ASSUME actions \in Seq(Action), NEW verdict \in [DOMAIN actions -> Verdicts],
         NEW missing \in Seq(Action)
  PROVE  /\ Judged(verdict) \o missing \in Seq(Action)
         /\ \A a : Kin(a, actions) =>
              \/ a.text.name \in {actions[k].text.name : k \in {j \in DOMAIN actions : verdict[j] = "drop"}}
              \/ Kin(a, Judged(verdict) \o missing)
<1> DEFINE acts == [k \in DOMAIN actions |-> [actions[k] EXCEPT !.flagged = @ \/ verdict[k] = "flag"]]
           P == {k \in DOMAIN actions : verdict[k] # "drop"}
<1>1. \A k \in DOMAIN actions : acts[k] \in Action /\ acts[k].text = actions[k].text /\ acts[k].ev = actions[k].ev
  <2> SUFFICES ASSUME NEW k \in DOMAIN actions
               PROVE  acts[k] \in Action /\ acts[k].text = actions[k].text /\ acts[k].ev = actions[k].ev
    OBVIOUS
  <2>1. actions[k] \in Action
    OBVIOUS
  <2> DEFINE f == actions[k].flagged \/ verdict[k] = "flag"
  <2>2. acts[k] = [actions[k] EXCEPT !.flagged = f]
    OBVIOUS
  <2>3. f \in BOOLEAN
    OBVIOUS
  <2> HIDE DEF f, acts
  <2> QED BY <2>1, <2>2, <2>3 DEF Action
<1>2. acts \in Seq(Action) /\ DOMAIN acts = DOMAIN actions
  <2>1. Len(actions) \in Nat /\ DOMAIN actions = 1..Len(actions) /\ DOMAIN acts = DOMAIN actions
    OBVIOUS
  <2>2. acts = [k \in 1..Len(actions) |-> acts[k]]
    BY <2>1
  <2> HIDE DEF acts
  <2> QED BY <1>1, <2>1, <2>2
<1>3. Judged(verdict) = Only(acts, P)
  BY DEF Judged
<1> HIDE DEF acts
<1>4. P \in SUBSET DOMAIN acts
  BY <1>2
<1> DEFINE J == Judged(verdict)
<1>5. /\ J \in Seq(Action)
      /\ \A p \in P : \E x \in DOMAIN J : J[x] = acts[p]
  <2> HIDE DEF P
  <2> QED BY <1>2, <1>3, <1>4, OnlyEntries
<1> HIDE DEF J
<1>6. /\ J \o missing \in Seq(Action)
      /\ \A x \in DOMAIN J : x \in DOMAIN (J \o missing) /\ (J \o missing)[x] = J[x]
  BY <1>5
<1>7. ASSUME NEW a, NEW x \in DOMAIN actions, actions[x].text.name = a.text.name,
             a.ev \subseteq actions[x].ev, x \in P
      PROVE  Kin(a, J \o missing)
  <2>1. PICK y \in DOMAIN J : J[y] = acts[x]
    BY <1>5, <1>7
  <2>2. y \in DOMAIN (J \o missing) /\ (J \o missing)[y] = acts[x]
    BY <1>6, <2>1
  <2>3. acts[x].text.name = a.text.name /\ a.ev \subseteq acts[x].ev
    BY <1>1, <1>7
  <2> QED BY <2>2, <2>3 DEF Kin
<1>8. \A a : Kin(a, actions) =>
        \/ a.text.name \in {actions[k].text.name : k \in {j \in DOMAIN actions : verdict[j] = "drop"}}
        \/ Kin(a, J \o missing)
  <2> SUFFICES ASSUME NEW a, Kin(a, actions)
               PROVE  \/ a.text.name \in {actions[k].text.name : k \in {j \in DOMAIN actions : verdict[j] = "drop"}}
                      \/ Kin(a, J \o missing)
    OBVIOUS
  <2>1. PICK x \in DOMAIN actions : actions[x].text.name = a.text.name /\ a.ev \subseteq actions[x].ev
    BY DEF Kin
  <2>2. CASE x \in P
    BY <1>7, <2>1, <2>2
  <2>3. CASE x \notin P
    BY <2>1, <2>3
  <2> QED BY <2>2, <2>3
<1> QED BY <1>6, <1>8 DEF J

\* The output language keeps the names and the lines, and flags what is not Korean.
LEMMA KoreanEntries ==
  ASSUME actions \in Seq(Action), NEW fixed \in SUBSET BadActions,
         NEW acts, acts = [k \in DOMAIN actions |->
                IF k \in fixed THEN [actions[k] EXCEPT !.text.korean = TRUE]
                ELSE [actions[k] EXCEPT !.flagged = @ \/ k \in BadActions]]
  PROVE  /\ acts \in Seq(Action)
         /\ \A k \in DOMAIN acts : acts[k].text.korean \/ acts[k].flagged
         /\ \A a : Kin(a, actions) => Kin(a, acts)
<1>1. ASSUME NEW k \in DOMAIN actions
      PROVE  /\ acts[k] \in Action
             /\ acts[k].text.name = actions[k].text.name /\ acts[k].ev = actions[k].ev
             /\ acts[k].text.korean \/ acts[k].flagged
  <2>1. actions[k] \in Action
    OBVIOUS
  <2>2. CASE k \in fixed
    <3>1. acts[k] = [actions[k] EXCEPT !.text.korean = TRUE]
      BY <2>2
    <3>2. actions[k].text \in Text /\ [actions[k].text EXCEPT !.korean = TRUE] \in Text
      BY <2>1 DEF Action, Text
    <3>3. [actions[k].text EXCEPT !.korean = TRUE].korean /\ [actions[k].text EXCEPT !.korean = TRUE].name = actions[k].text.name
      BY <3>2 DEF Text
    <3>4. acts[k] = [actions[k] EXCEPT !.text = [actions[k].text EXCEPT !.korean = TRUE]]
      BY <3>1
    <3> DEFINE t == [actions[k].text EXCEPT !.korean = TRUE]
    <3>5. t \in Text /\ t.korean /\ t.name = actions[k].text.name /\ acts[k] = [actions[k] EXCEPT !.text = t]
      BY <3>2, <3>3, <3>4
    <3> HIDE DEF t
    <3> QED BY <2>1, <3>5 DEF Action
  <2>3. CASE k \notin fixed
    <3> DEFINE f == actions[k].flagged \/ k \in BadActions
    <3>1. acts[k] = [actions[k] EXCEPT !.flagged = f]
      BY <2>3
    <3>2. f \in BOOLEAN /\ (f \/ actions[k].text.korean)
      BY DEF BadActions
    <3> HIDE DEF f
    <3> QED BY <2>1, <3>1, <3>2 DEF Action
  <2> QED BY <2>2, <2>3
<1>2. acts \in Seq(Action) /\ DOMAIN acts = DOMAIN actions
  <2>1. Len(actions) \in Nat /\ DOMAIN actions = 1..Len(actions) /\ DOMAIN acts = DOMAIN actions
    OBVIOUS
  <2>2. acts = [k \in 1..Len(actions) |-> acts[k]]
    BY <2>1
  <2>3. \A k \in 1..Len(actions) : acts[k] \in Action
    BY <1>1, <2>1
  <2>4. acts \in Seq(Action)
    BY ONLY <2>1, <2>2, <2>3
  <2> QED BY <2>1, <2>4
<1>3. ASSUME NEW a, NEW x \in DOMAIN actions, actions[x].text.name = a.text.name,
             a.ev \subseteq actions[x].ev
      PROVE  Kin(a, acts)
  <2>1. x \in DOMAIN acts /\ acts[x].text.name = a.text.name /\ a.ev \subseteq acts[x].ev
    BY <1>1, <1>2, <1>3
  <2> QED BY <2>1 DEF Kin
<1>4. \A k \in DOMAIN acts : acts[k].text.korean \/ acts[k].flagged
  BY <1>1, <1>2
<1>5. \A a : Kin(a, actions) => Kin(a, acts)
  BY <1>3 DEF Kin
<1> QED BY <1>2, <1>4, <1>5

\* Grounding keeps every action, and flags one without a good line.
LEMMA GroundedActions ==
  ASSUME NEW items \in Seq(Action),
         \A k \in DOMAIN items : items[k].text.korean \/ items[k].flagged
  PROVE  /\ \A a \in ToSet(GroundActions(items)) :
              /\ a.ev \subseteq KeptIds
              /\ (a.ev \subseteq LowConf \/ ~a.text.korean) => a.flagged
         /\ \A a : Kin(a, items) =>
              \E x \in ToSet(GroundActions(items)) :
                 x.text.name = a.text.name /\ a.ev \cap KeptIds \subseteq x.ev
<1> DEFINE G == GroundActions(items)
<1>1. DOMAIN G = DOMAIN items
  BY DEF GroundActions
<1>2. ASSUME NEW k \in DOMAIN items
      PROVE  /\ G[k].text = items[k].text /\ G[k].ev = items[k].ev \cap KeptIds
             /\ G[k].flagged <=> (items[k].flagged \/ G[k].ev \subseteq LowConf)
  <2> DEFINE e == items[k].ev \cap KeptIds
             f == items[k].flagged \/ e \subseteq LowConf
  <2>1. items[k] \in Action
    OBVIOUS
  <2>2. G[k] = [items[k] EXCEPT !.ev = e, !.flagged = f]
    BY DEF GroundActions
  <2> HIDE DEF e, f, G
  <2>3. G[k].text = items[k].text /\ G[k].ev = e /\ G[k].flagged = f
    BY <2>1, <2>2 DEF Action
  <2> QED BY <2>3 DEF e, f
<1>3. ToSet(G) = {G[k] : k \in DOMAIN items}
  BY <1>1 DEF ToSet
<1> HIDE DEF G
<1>4. \A a \in ToSet(G) : /\ a.ev \subseteq KeptIds
                          /\ (a.ev \subseteq LowConf \/ ~a.text.korean) => a.flagged
  BY <1>2, <1>3
<1>5. \A a : Kin(a, items) => \E x \in ToSet(G) : x.text.name = a.text.name /\ a.ev \cap KeptIds \subseteq x.ev
  <2> SUFFICES ASSUME NEW a, NEW k \in DOMAIN items,
                      items[k].text.name = a.text.name, a.ev \subseteq items[k].ev
               PROVE  \E x \in ToSet(G) : x.text.name = a.text.name /\ a.ev \cap KeptIds \subseteq x.ev
    BY DEF Kin
  <2>1. G[k] \in ToSet(G) /\ G[k].text.name = a.text.name /\ a.ev \cap KeptIds \subseteq G[k].ev
    BY <1>2, <1>3
  <2> QED BY <2>1
<1> QED BY <1>4, <1>5 DEF G

-----------------------------------------------------------------------------
(* What becomes of the summary.                                            *)

\* RowsKeyed place by place.
RowsNamed(s) ==
  \A r \in DOMAIN s.index : \E b \in DOMAIN s.agenda :
    /\ s.agenda[b].tag = s.index[r].tag
    /\ \A c \in DOMAIN s.agenda : s.agenda[c].no = s.index[r].no <=> c = b

LEMMA NamedIsKeyed ==
  ASSUME NEW s
  PROVE  RowsNamed(s) <=> RowsKeyed(s)
<1> DEFINE same(r) == {c \in DOMAIN s.agenda : s.agenda[c].no = r.no}
<1>1. \A r : \A b \in DOMAIN s.agenda :
        (\A c \in DOMAIN s.agenda : s.agenda[c].no = r.no <=> c = b) <=> same(r) = {b}
  OBVIOUS
<1>2. RowsKeyed(s) <=> \A r \in ToSet(s.index) : \E b \in DOMAIN s.agenda :
                          s.agenda[b].tag = r.tag /\ same(r) = {b}
  BY DEF RowsKeyed
<1>3. ToSet(s.index) = {s.index[r] : r \in DOMAIN s.index}
  BY DEF ToSet
<1> DEFINE leads(r) == \E b \in DOMAIN s.agenda :
                         /\ s.agenda[b].tag = r.tag
                         /\ \A c \in DOMAIN s.agenda : s.agenda[c].no = r.no <=> c = b
<1>4. \A r : leads(r) <=> \E b \in DOMAIN s.agenda : s.agenda[b].tag = r.tag /\ same(r) = {b}
  <2> HIDE DEF same
  <2> QED BY <1>1
<1>5. RowsNamed(s) <=> \A k \in DOMAIN s.index : leads(s.index[k])
  BY DEF RowsNamed
<1> HIDE DEF same, leads
<1> QED BY <1>2, <1>3, <1>4, <1>5

AllKorean(s) ==
  \A b \in DOMAIN s.agenda : \A k \in DOMAIN s.agenda[b].items : s.agenda[b].items[k].text.korean

EvenParts(answers) == \A p \in ToSet(answers) : RowForRow(p)

\* Entries that can be given a number.
Numberable(S) ==
  \A r \in S : \A k \in Int : /\ [r EXCEPT !.no = k] \in S
                              /\ [r EXCEPT !.no = k].no = k /\ [r EXCEPT !.no = k].tag = r.tag

LEMMA RenumberFits ==
  ASSUME NEW S, NEW s \in Seq(S), Numberable(S)
  PROVE  /\ Renumber(s) \in Seq(S) /\ Len(Renumber(s)) = Len(s)
         /\ \A k \in 1..Len(s) : Renumber(s)[k].no = k /\ Renumber(s)[k].tag = s[k].tag
<1>1. Len(s) \in Nat /\ DOMAIN s = 1..Len(s) /\ \A k \in 1..Len(s) : s[k] \in S /\ k \in Int
  OBVIOUS
<1> DEFINE t == [k \in 1..Len(s) |-> [s[k] EXCEPT !.no = k]]
<1>2. Renumber(s) = t
  BY <1>1 DEF Renumber
<1>3. \A k \in 1..Len(s) : t[k] \in S /\ t[k].no = k /\ t[k].tag = s[k].tag
  BY <1>1 DEF Numberable
<1>4. t = [k \in 1..Len(s) |-> t[k]]
  OBVIOUS
<1> HIDE DEF t
<1>5. t \in Seq(S) /\ Len(t) = Len(s)
  BY <1>1, <1>3, <1>4
<1> QED BY <1>2, <1>3, <1>5

LEMMA BlocksRenumbered ==
  ASSUME NEW s \in Seq(AgendaBlock)
  PROVE  /\ Renumber(s) \in Seq(AgendaBlock) /\ Len(Renumber(s)) = Len(s)
         /\ \A k \in 1..Len(s) : Renumber(s)[k].no = k /\ Renumber(s)[k].tag = s[k].tag
<1>1. Numberable(AgendaBlock)
  BY DEF Numberable, AgendaBlock
<1> QED BY <1>1, RenumberFits

LEMMA RowsRenumbered ==
  ASSUME NEW s \in Seq(IndexRow)
  PROVE  /\ Renumber(s) \in Seq(IndexRow) /\ Len(Renumber(s)) = Len(s)
         /\ \A k \in 1..Len(s) : Renumber(s)[k].no = k /\ Renumber(s)[k].tag = s[k].tag
<1>1. Numberable(IndexRow)
  BY DEF Numberable, IndexRow
<1> QED BY <1>1, RenumberFits

\* Concatenated parts are a summary; if every part came with a row for each
\* block, the rows of the whole lead to their blocks.
LEMMA ConcatFits ==
  ASSUME NEW answers \in Seq(Minutes)
  PROVE  /\ ConcatSummaries(answers) \in Minutes
         /\ EvenParts(answers) => RowsNamed(ConcatSummaries(answers))
<1> DEFINE as == [k \in DOMAIN answers |-> answers[k].agenda]
           is == [k \in DOMAIN answers |-> answers[k].index]
           A == FlattenSeq(as)
           I == FlattenSeq(is)
<1>1. Len(answers) \in Nat /\ DOMAIN answers = 1..Len(answers)
  OBVIOUS
<1>2. \A k \in DOMAIN answers : answers[k] \in Minutes
  OBVIOUS
<1>3. as \in Seq(Seq(AgendaBlock)) /\ is \in Seq(Seq(IndexRow)) /\ Len(as) = Len(answers) /\ Len(is) = Len(answers)
  <2>1. \A k \in 1..Len(answers) : answers[k].agenda \in Seq(AgendaBlock) /\ answers[k].index \in Seq(IndexRow)
    BY <1>1, <1>2 DEF Minutes
  <2>2. as = [k \in 1..Len(answers) |-> answers[k].agenda] /\ is = [k \in 1..Len(answers) |-> answers[k].index]
    BY <1>1
  <2> HIDE DEF as, is
  <2> QED BY <1>1, <2>1, <2>2
<1>4. ConcatSummaries(answers) = [agenda |-> Renumber(A), index |-> Renumber(I)]
  BY DEF ConcatSummaries
<1>5. \A k \in 1..Len(answers) : as[k] = answers[k].agenda /\ is[k] = answers[k].index
  BY <1>1
<1> HIDE DEF as, is
<1>6. A \in Seq(AgendaBlock)
  BY <1>3, FlattenFits
<1>7. I \in Seq(IndexRow)
  BY <1>3, FlattenFits
<1>8. ASSUME EvenParts(answers)
      PROVE  Len(I) = Len(A) /\ \A p \in 1..Len(A) : I[p].tag = A[p].tag
  <2>1. ASSUME NEW k \in 1..Len(as)
        PROVE  /\ Len(is[k]) = Len(as[k])
               /\ \A j \in 1..Len(as[k]) : is[k][j].tag = as[k][j].tag
    <3>1. k \in 1..Len(answers) /\ answers[k] \in ToSet(answers)
      BY <1>1, <1>3 DEF ToSet
    <3>2. RowForRow(answers[k])
      BY <1>8, <3>1 DEF EvenParts
    <3>3. answers[k].index \in Seq(IndexRow)
      BY <1>1, <1>2, <3>1 DEF Minutes
    <3>4. /\ Len(answers[k].index) = Len(answers[k].agenda)
          /\ \A j \in 1..Len(answers[k].agenda) : answers[k].index[j].tag = answers[k].agenda[j].tag
      BY <3>2, <3>3 DEF RowForRow
    <3> QED BY <1>5, <3>1, <3>4
  <2>2. SideBySide(as, is)
    BY <1>3, <2>1 DEF SideBySide
  <2>3. /\ Len(I) = Len(A)
        /\ \A p \in 1..Len(A) : \E k \in 1..Len(as) : \E j \in 1..Len(as[k]) :
             A[p] = as[k][j] /\ I[p] = is[k][j]
    <3>1. InStep(as, is, FlattenSeq(as), FlattenSeq(is))
      BY <1>3, <2>2, FlattenTogether
    <3> QED BY <3>1 DEF InStep
  <2> QED BY <2>1, <2>3
<1> HIDE DEF A, I
<1>9. /\ Renumber(A) \in Seq(AgendaBlock) /\ Len(Renumber(A)) = Len(A)
      /\ \A k \in 1..Len(A) : Renumber(A)[k].no = k /\ Renumber(A)[k].tag = A[k].tag
  BY <1>6, BlocksRenumbered
<1>10. /\ Renumber(I) \in Seq(IndexRow) /\ Len(Renumber(I)) = Len(I)
       /\ \A k \in 1..Len(I) : Renumber(I)[k].no = k /\ Renumber(I)[k].tag = I[k].tag
  BY <1>7, RowsRenumbered
<1> DEFINE ra == Renumber(A)
           ri == Renumber(I)
<1>11. ConcatSummaries(answers) \in Minutes
  BY <1>4, <1>9, <1>10 DEF Minutes
<1>12. ASSUME EvenParts(answers)
       PROVE  RowsNamed([agenda |-> ra, index |-> ri])
  <2>1. DOMAIN ra = 1..Len(A) /\ DOMAIN ri = 1..Len(A)
    BY <1>8, <1>9, <1>10, <1>12
  <2>2. \A r \in DOMAIN ri : r \in DOMAIN ra /\ ra[r].no = ri[r].no /\ ra[r].tag = ri[r].tag
    BY <1>8, <1>9, <1>10, <1>12, <2>1
  <2>3. \A r, c \in DOMAIN ra : ra[c].no = ra[r].no <=> c = r
    BY <1>9, <2>1
  <2> HIDE DEF ra, ri
  <2> QED BY <2>2, <2>3 DEF RowsNamed
<1> QED BY <1>4, <1>11, <1>12

\* So are the blocks of a reduce that works.
LEMMA BlocksFit ==
  ASSUME meeting \in Meetings, NEW answers \in Seq(Minutes), NEW n \in meeting.numberings
  PROVE  InBlocks(answers, n) \in Minutes
<1> DEFINE parted(s) == [k \in DOMAIN s |-> s[k].items]
           items(s) == FlattenSeq(parted(s))
           mine(j, k) == Least(k, Len(n.nos)) = j
           dealt(j) == [k \in DOMAIN answers |-> IF mine(j, k) THEN items(answers[k].agenda) ELSE <<>>]
           all == [j \in DOMAIN n.nos |-> FlattenSeq(dealt(j))]
<1>1. ASSUME NEW s \in Seq(AgendaBlock)
      PROVE  items(s) \in Seq(Item)
  <2>1. \A k \in 1..Len(s) : s[k].items \in Seq(Item)
    <3>1. \A k \in 1..Len(s) : s[k] \in AgendaBlock
      OBVIOUS
    <3> QED BY <3>1 DEF AgendaBlock
  <2>2. Len(s) \in Nat /\ parted(s) = [k \in 1..Len(s) |-> s[k].items]
    OBVIOUS
  <2> DEFINE q == parted(s)
  <2> HIDE DEF q
  <2>3. q \in Seq(Seq(Item))
    BY <2>1, <2>2 DEF q
  <2>5. FlattenSeq(q) \in Seq(Item)
    BY <2>3, FlattenFits
  <2> QED BY <2>5 DEF q
<1>2. InBlocks(answers, n) = Numbered(0, n, all)
  BY DEF InBlocks
<1> HIDE DEF items, mine
<1>3. ASSUME NEW j \in DOMAIN n.nos
      PROVE  FlattenSeq(dealt(j)) \in Seq(Item)
  <2> DEFINE q == dealt(j)
  <2>1. \A k \in 1..Len(answers) : answers[k].agenda \in Seq(AgendaBlock)
    <3>1. \A k \in 1..Len(answers) : answers[k] \in Minutes
      BY ElementOfSeq
    <3> QED BY <3>1 DEF Minutes
  <2>2. \A k \in 1..Len(answers) :
          (IF mine(j, k) THEN items(answers[k].agenda) ELSE <<>>) \in Seq(Item)
    BY <1>1, <2>1
  <2>3. /\ Len(answers) \in Nat
        /\ q = [k \in 1..Len(answers) |-> IF mine(j, k) THEN items(answers[k].agenda) ELSE <<>>]
    OBVIOUS
  <2> HIDE DEF q
  <2>4. q \in Seq(Seq(Item))
    BY <2>2, <2>3
  <2>5. FlattenSeq(q) \in Seq(Item)
    BY <2>4, FlattenFits
  <2> QED BY <2>5 DEF q
<1> HIDE DEF dealt
<1>4. \A j \in DOMAIN n.nos : all[j] \in Seq(Item)
  BY <1>3
<1> HIDE DEF all
<1>5. n.nos \in Seq(Int) /\ n.rows \in Seq([of : DOMAIN n.nos, no : Int])
  BY TextAssumption
<1> QED BY <1>2, <1>4, <1>5, NumberedFits

\* A summary whose blocks get other items is a summary, and its rows lead
\* where they led.
LEMMA OtherItems ==
  ASSUME NEW s \in Minutes, NEW F, \A b \in DOMAIN s.agenda : F[b] \in Seq(Item),
         NEW w, w = WithItems(s, F)
  PROVE  /\ w \in Minutes /\ (RowsNamed(s) => RowsNamed(w))
         /\ DOMAIN w.agenda = DOMAIN s.agenda
         /\ \A b \in DOMAIN s.agenda : w.agenda[b].items = F[b]
<1> DEFINE blocks == [b \in DOMAIN s.agenda |-> [s.agenda[b] EXCEPT !.items = F[b]]]
<1>1. s.agenda \in Seq(AgendaBlock) /\ s.index \in Seq(IndexRow)
  BY DEF Minutes
<1>2. ASSUME NEW b \in DOMAIN s.agenda
      PROVE  /\ blocks[b] \in AgendaBlock /\ blocks[b].items = F[b]
             /\ blocks[b].no = s.agenda[b].no /\ blocks[b].tag = s.agenda[b].tag
  <2>1. s.agenda[b] \in AgendaBlock /\ F[b] \in Seq(Item)
    BY <1>1
  <2>2. blocks[b] = [s.agenda[b] EXCEPT !.items = F[b]]
    OBVIOUS
  <2> HIDE DEF blocks
  <2> QED BY <2>1, <2>2 DEF AgendaBlock
<1>3. blocks \in Seq(AgendaBlock) /\ DOMAIN blocks = DOMAIN s.agenda
  <2>1. Len(s.agenda) \in Nat /\ DOMAIN s.agenda = 1..Len(s.agenda)
    BY <1>1
  <2>2. blocks = [b \in 1..Len(s.agenda) |-> blocks[b]]
    BY <2>1
  <2> HIDE DEF blocks
  <2>3. \A b \in 1..Len(s.agenda) : blocks[b] \in AgendaBlock
    BY <1>2, <2>1
  <2>4. blocks \in Seq(AgendaBlock) /\ DOMAIN blocks = 1..Len(s.agenda)
    BY ONLY <2>1, <2>2, <2>3
  <2> QED BY <2>1, <2>4
<1> HIDE DEF blocks
<1>4. w = [agenda |-> blocks, index |-> s.index]
  <2>1. w = [s EXCEPT !.agenda = blocks]
    BY DEF blocks, WithItems
  <2> QED BY <2>1 DEF Minutes
<1>5. w \in Minutes
  <2>1. s.index \in Seq(IndexRow) /\ blocks \in Seq(AgendaBlock)
    BY <1>1, <1>3
  <2>2. [agenda |-> blocks, index |-> s.index] \in [agenda : Seq(AgendaBlock), index : Seq(IndexRow)]
    BY ONLY <2>1
  <2> QED BY ONLY <1>4, <2>2 DEF Minutes
<1>6. w.agenda = blocks /\ w.index = s.index
  BY <1>4
<1>7. RowsNamed(s) => RowsNamed(w)
  BY <1>2, <1>3, <1>6 DEF RowsNamed
<1> QED BY <1>2, <1>3, <1>5, <1>6, <1>7

\* What is dropped goes, the rest stays as it was.
LEMMA WithoutFits ==
  ASSUME NEW s \in Minutes, NEW places, s # None
  PROVE  /\ Without(s, places) \in Minutes
         /\ RowsNamed(s) => RowsNamed(Without(s, places))
         /\ DOMAIN Without(s, places).agenda = DOMAIN s.agenda
         /\ \A b \in DOMAIN s.agenda : \A k \in DOMAIN Without(s, places).agenda[b].items :
              \E p \in DOMAIN s.agenda[b].items :
                 <<b, p>> \notin places /\ Without(s, places).agenda[b].items[k] = s.agenda[b].items[p]
<1> DEFINE left(b) == {k \in DOMAIN s.agenda[b].items : <<b, k>> \notin places}
           F == [b \in DOMAIN s.agenda |-> Only(s.agenda[b].items, left(b))]
           w == Without(s, places)
<1>1. w = WithItems(s, F)
  BY DEF Without
<1>2. ASSUME NEW b \in DOMAIN s.agenda
      PROVE  /\ F[b] \in Seq(Item)
             /\ \A k \in DOMAIN F[b] : \E p \in left(b) : F[b][k] = s.agenda[b].items[p]
  <2>1. s.agenda[b] \in AgendaBlock
    BY DEF Minutes
  <2>2. s.agenda[b].items \in Seq(Item)
    BY <2>1 DEF AgendaBlock
  <2>3. F[b] = Only(s.agenda[b].items, left(b)) /\ left(b) \in SUBSET DOMAIN s.agenda[b].items
    OBVIOUS
  <2> HIDE DEF F, left
  <2> QED BY <2>2, <2>3, OnlyEntries
<1> HIDE DEF F, w
<1>3. /\ w \in Minutes /\ (RowsNamed(s) => RowsNamed(w))
      /\ DOMAIN w.agenda = DOMAIN s.agenda
      /\ \A b \in DOMAIN s.agenda : w.agenda[b].items = F[b]
  BY <1>1, <1>2, OtherItems
<1>4. \A b \in DOMAIN s.agenda : \A k \in DOMAIN w.agenda[b].items :
        \E p \in left(b) : w.agenda[b].items[k] = s.agenda[b].items[p]
  BY <1>2, <1>3
<1> QED BY <1>3, <1>4 DEF w

\* Some items are rewritten in Korean, the others stay.
LEMMA MendedFits ==
  ASSUME NEW fixed, summary \in Minutes
  PROVE  /\ Mended(fixed) \in Minutes
         /\ RowsNamed(summary) => RowsNamed(Mended(fixed))
         /\ DOMAIN Mended(fixed).agenda = DOMAIN summary.agenda
         /\ \A b \in DOMAIN summary.agenda :
              /\ DOMAIN Mended(fixed).agenda[b].items = DOMAIN summary.agenda[b].items
              /\ \A k \in DOMAIN summary.agenda[b].items :
                   \/ Mended(fixed).agenda[b].items[k].text.korean
                   \/ /\ <<b, k>> \notin fixed
                      /\ Mended(fixed).agenda[b].items[k] = summary.agenda[b].items[k]
<1> DEFINE new(b) == [k \in DOMAIN summary.agenda[b].items |->
                        IF <<b, k>> \in fixed THEN [summary.agenda[b].items[k] EXCEPT !.text.korean = TRUE]
                        ELSE summary.agenda[b].items[k]]
           F == [b \in DOMAIN summary.agenda |-> new(b)]
           w == Mended(fixed)
<1>1. w = WithItems(summary, F)
  BY DEF Mended
<1>2. ASSUME NEW b \in DOMAIN summary.agenda
      PROVE  /\ F[b] \in Seq(Item) /\ DOMAIN F[b] = DOMAIN summary.agenda[b].items
             /\ \A k \in DOMAIN summary.agenda[b].items :
                  \/ F[b][k].text.korean
                  \/ <<b, k>> \notin fixed /\ F[b][k] = summary.agenda[b].items[k]
  <2> DEFINE items == summary.agenda[b].items
             f == new(b)
  <2>1. items \in Seq(Item)
    <3>1. summary.agenda[b] \in AgendaBlock
      BY DEF Minutes
    <3> QED BY <3>1 DEF AgendaBlock
  <2>2. ASSUME NEW k \in DOMAIN items
        PROVE  f[k] \in Item /\ (f[k].text.korean \/ (<<b, k>> \notin fixed /\ f[k] = items[k]))
    <3>1. items[k] \in Item
      BY <2>1, <2>2
    <3> DEFINE i == items[k]
               t == [i.text EXCEPT !.korean = TRUE]
    <3>2. t \in Text /\ t.korean
      BY <3>1 DEF Item, Text
    <3>3. [i EXCEPT !.text.korean = TRUE] = [i EXCEPT !.text = t]
      OBVIOUS
    <3>4. f[k] = IF <<b, k>> \in fixed THEN [i EXCEPT !.text = t] ELSE i
      BY <3>3
    <3>5. i \in Item /\ i = items[k]
      BY <3>1
    <3> HIDE DEF t, f, items, i
    <3>6. [i EXCEPT !.text = t] \in Item /\ [i EXCEPT !.text = t].text = t
      BY <3>2, <3>5 DEF Item
    <3> QED BY <3>2, <3>4, <3>5, <3>6
  <2>3. f \in Seq(Item) /\ DOMAIN f = DOMAIN items
    <3>1. Len(items) \in Nat /\ DOMAIN items = 1..Len(items) /\ DOMAIN f = DOMAIN items
      BY <2>1
    <3>2. f = [k \in 1..Len(items) |-> f[k]]
      BY <3>1
    <3> HIDE DEF f, items
    <3>3. \A k \in 1..Len(items) : f[k] \in Item
      BY <2>2, <3>1
    <3> QED BY <3>1, <3>2, <3>3
  <2>4. F[b] = f
    OBVIOUS
  <2> HIDE DEF F, f
  <2> QED BY <2>2, <2>3, <2>4 DEF items
<1> HIDE DEF F, w
<1>3. /\ w \in Minutes /\ (RowsNamed(summary) => RowsNamed(w))
      /\ DOMAIN w.agenda = DOMAIN summary.agenda
      /\ \A b \in DOMAIN summary.agenda : w.agenda[b].items = F[b]
  BY <1>1, <1>2, OtherItems
<1>4. \A b \in DOMAIN summary.agenda :
        /\ DOMAIN w.agenda[b].items = DOMAIN summary.agenda[b].items
        /\ \A k \in DOMAIN summary.agenda[b].items :
             \/ w.agenda[b].items[k].text.korean
             \/ <<b, k>> \notin fixed /\ w.agenda[b].items[k] = summary.agenda[b].items[k]
  BY <1>2, <1>3
<1> QED BY <1>3, <1>4 DEF w

\* What the output language leaves of the summary is Korean.
LEMMA EnforcedFits ==
  ASSUME NEW fixed, summary \in Minutes, summary # None, Mended(fixed) # None
  PROVE  LET w == Without(Mended(fixed), Stubborn(fixed))
         IN  w \in Minutes /\ AllKorean(w) /\ (RowsNamed(summary) => RowsNamed(w))
<1> DEFINE m == Mended(fixed)
           w == Without(m, Stubborn(fixed))
<1>1. /\ m \in Minutes /\ (RowsNamed(summary) => RowsNamed(m))
      /\ DOMAIN m.agenda = DOMAIN summary.agenda
      /\ \A b \in DOMAIN summary.agenda :
           /\ DOMAIN m.agenda[b].items = DOMAIN summary.agenda[b].items
           /\ \A k \in DOMAIN summary.agenda[b].items :
                \/ m.agenda[b].items[k].text.korean
                \/ <<b, k>> \notin fixed /\ m.agenda[b].items[k] = summary.agenda[b].items[k]
  BY MendedFits
<1>2. /\ w \in Minutes /\ (RowsNamed(m) => RowsNamed(w))
      /\ DOMAIN w.agenda = DOMAIN m.agenda
      /\ \A b \in DOMAIN m.agenda : \A k \in DOMAIN w.agenda[b].items :
           \E p \in DOMAIN m.agenda[b].items :
              <<b, p>> \notin Stubborn(fixed) /\ w.agenda[b].items[k] = m.agenda[b].items[p]
  BY <1>1, WithoutFits
<1>3. ASSUME NEW b \in DOMAIN summary.agenda, NEW p \in DOMAIN summary.agenda[b].items,
             ~m.agenda[b].items[p].text.korean
      PROVE  <<b, p>> \in Stubborn(fixed)
  <2>1. <<b, p>> \notin fixed /\ m.agenda[b].items[p] = summary.agenda[b].items[p]
    BY <1>1, <1>3
  <2>2. <<b, p>> \in Places(summary)
    BY DEF Places
  <2>3. <<b, p>> \in BadPlaces \ fixed
    BY <1>3, <2>1, <2>2 DEF BadPlaces
  <2> QED BY <2>2, <2>3 DEF Stubborn
<1> HIDE DEF m, w
<1>4. AllKorean(w)
  BY <1>1, <1>2, <1>3 DEF AllKorean
<1> QED BY <1>1, <1>2, <1>4 DEF w, m

\* Rests on a line that was given to the agents and is not doubted.
RestsOnLines(it) == it.ev \subseteq KeptIds /\ it.ev \ LowConf # {}

\* Items that are left of a block.
LEMMA GroundedItems ==
  ASSUME NEW items \in Seq(Item)
  PROVE  /\ Grounded(items) \in Seq(Item)
         /\ \A k \in DOMAIN Grounded(items) : RestsOnLines(Grounded(items)[k]) /\
              \E p \in DOMAIN items : Grounded(items)[k].text = items[p].text
<1> DEFINE valid == [k \in DOMAIN items |-> [items[k] EXCEPT !.ev = @ \cap KeptIds]]
           P == {k \in DOMAIN valid : ~(valid[k].ev \subseteq LowConf)}
<1>1. ASSUME NEW k \in DOMAIN items
      PROVE  valid[k] \in Item /\ valid[k].text = items[k].text /\ valid[k].ev \subseteq KeptIds
  <2>1. items[k] \in Item
    OBVIOUS
  <2> DEFINE e == items[k].ev \cap KeptIds
  <2>2. valid[k] = [items[k] EXCEPT !.ev = e]
    OBVIOUS
  <2>3. e \in SUBSET Int /\ e \subseteq KeptIds
    BY <2>1 DEF Item
  <2> HIDE DEF valid, e
  <2> QED BY <2>1, <2>2, <2>3 DEF Item
<1>2. valid \in Seq(Item) /\ DOMAIN valid = DOMAIN items
  <2>1. Len(items) \in Nat /\ DOMAIN items = 1..Len(items) /\ DOMAIN valid = DOMAIN items
    OBVIOUS
  <2>2. valid = [k \in 1..Len(items) |-> valid[k]]
    BY <2>1
  <2> HIDE DEF valid
  <2>3. \A k \in 1..Len(items) : valid[k] \in Item
    BY <1>1, <2>1
  <2>4. valid \in Seq(Item)
    BY ONLY <2>1, <2>2, <2>3
  <2> QED BY <2>1, <2>4
<1>3. Grounded(items) = Only(valid, P)
  BY DEF Grounded
<1>4. \A p \in P : p \in DOMAIN items /\ RestsOnLines(valid[p]) /\ valid[p].text = items[p].text
  <2>1. \A p \in P : p \in DOMAIN items /\ ~(valid[p].ev \subseteq LowConf)
    OBVIOUS
  <2> HIDE DEF valid, P
  <2> QED BY <1>1, <2>1 DEF RestsOnLines
<1>5. P \in SUBSET DOMAIN valid
  OBVIOUS
<1> HIDE DEF valid, P
<1>6. /\ Only(valid, P) \in Seq(Item)
      /\ \A k \in DOMAIN Only(valid, P) : \E p \in P : Only(valid, P)[k] = valid[p]
  BY <1>2, <1>5, OnlyEntries
<1> QED BY <1>3, <1>4, <1>6

\* The blocks that are left are blocks of the summary, with their number and tag.
BlockLeft(s, b) == [s.agenda[b] EXCEPT !.items = Grounded(@)]

LEMMA BlocksLeftFit ==
  ASSUME NEW s \in Minutes
  PROVE  /\ \A x \in DOMAIN BlocksLeft(s) : \E b \in DOMAIN s.agenda :
              BlocksLeft(s)[x] = BlockLeft(s, b) /\ BlockLeft(s, b).items # <<>>
         /\ \E from \in [DOMAIN BlocksLeft(s) -> DOMAIN s.agenda] :
              /\ \A x \in DOMAIN BlocksLeft(s) : BlocksLeft(s)[x] = BlockLeft(s, from[x])
              /\ \A x, y \in DOMAIN BlocksLeft(s) : from[x] = from[y] => x = y
         /\ \A b \in DOMAIN s.agenda :
              /\ BlockLeft(s, b).no = s.agenda[b].no /\ BlockLeft(s, b).tag = s.agenda[b].tag
              /\ BlockLeft(s, b).items = Grounded(s.agenda[b].items)
              /\ s.agenda[b].items \in Seq(Item)
<1> DEFINE blocks == [b \in DOMAIN s.agenda |-> [s.agenda[b] EXCEPT !.items = Grounded(@)]]
           P == {b \in DOMAIN blocks : blocks[b].items # <<>>}
<1>1. ASSUME NEW b \in DOMAIN s.agenda
      PROVE  /\ BlockLeft(s, b) \in AgendaBlock
             /\ BlockLeft(s, b).no = s.agenda[b].no /\ BlockLeft(s, b).tag = s.agenda[b].tag
             /\ BlockLeft(s, b).items = Grounded(s.agenda[b].items)
             /\ s.agenda[b].items \in Seq(Item)
  <2>1. s.agenda[b] \in AgendaBlock
    BY DEF Minutes
  <2>2. s.agenda[b].items \in Seq(Item)
    BY <2>1 DEF AgendaBlock
  <2> DEFINE g == Grounded(s.agenda[b].items)
  <2>3. g \in Seq(Item)
    BY <2>2, GroundedItems
  <2>4. BlockLeft(s, b) = [s.agenda[b] EXCEPT !.items = g]
    BY DEF BlockLeft
  <2> HIDE DEF g
  <2>5. /\ BlockLeft(s, b) \in AgendaBlock /\ BlockLeft(s, b).items = g
        /\ BlockLeft(s, b).no = s.agenda[b].no /\ BlockLeft(s, b).tag = s.agenda[b].tag
    BY <2>1, <2>3, <2>4 DEF AgendaBlock
  <2> QED BY <2>2, <2>5 DEF g
<1>2. \A b \in DOMAIN s.agenda : blocks[b] = BlockLeft(s, b)
  BY DEF BlockLeft
<1>3. BlocksLeft(s) = Only(blocks, P)
  BY DEF BlocksLeft
<1>4. blocks \in Seq(AgendaBlock) /\ DOMAIN blocks = DOMAIN s.agenda
  <2>1. s.agenda \in Seq(AgendaBlock)
    BY DEF Minutes
  <2>2. Len(s.agenda) \in Nat /\ DOMAIN s.agenda = 1..Len(s.agenda) /\ DOMAIN blocks = DOMAIN s.agenda
    BY <2>1
  <2>3. blocks = [b \in 1..Len(s.agenda) |-> blocks[b]]
    BY <2>2
  <2> HIDE DEF blocks
  <2>4. \A b \in 1..Len(s.agenda) : blocks[b] \in AgendaBlock
    BY <1>1, <1>2, <2>2
  <2>5. blocks \in Seq(AgendaBlock)
    BY ONLY <2>2, <2>3, <2>4
  <2> QED BY <2>2, <2>5
<1>5. P \in SUBSET DOMAIN blocks /\ \A b \in P : blocks[b].items # <<>>
  OBVIOUS
<1> HIDE DEF blocks, P
<1>6. \A x \in DOMAIN Only(blocks, P) : \E b \in P : Only(blocks, P)[x] = blocks[b]
  BY <1>4, <1>5, OnlyEntries
<1>7. \A x \in DOMAIN BlocksLeft(s) : \E b \in DOMAIN s.agenda :
         BlocksLeft(s)[x] = BlockLeft(s, b) /\ BlockLeft(s, b).items # <<>>
  BY <1>2, <1>3, <1>4, <1>5, <1>6
<1>8. \E from \in [DOMAIN BlocksLeft(s) -> DOMAIN s.agenda] :
         /\ \A x \in DOMAIN BlocksLeft(s) : BlocksLeft(s)[x] = BlockLeft(s, from[x])
         /\ \A x, y \in DOMAIN BlocksLeft(s) : from[x] = from[y] => x = y
  <2>1. PICK from \in [DOMAIN Only(blocks, P) -> P] :
           /\ \A x \in DOMAIN Only(blocks, P) : Only(blocks, P)[x] = blocks[from[x]]
           /\ \A x, y \in DOMAIN Only(blocks, P) : from[x] = from[y] => x = y
    BY <1>4, <1>5, OnlyPlaces
  <2>2. from \in [DOMAIN BlocksLeft(s) -> DOMAIN s.agenda]
    BY <1>3, <1>4, <1>5, <2>1
  <2>3. \A x \in DOMAIN BlocksLeft(s) : BlocksLeft(s)[x] = BlockLeft(s, from[x])
    BY <1>2, <1>3, <2>1, <2>2
  <2> QED BY <1>3, <2>1, <2>2, <2>3
<1> QED BY <1>1, <1>7, <1>8

\* What grounding leaves of Korean minutes rests on lines.
LEMMA GroundedFits ==
  ASSUME NEW s \in Minutes, AllKorean(s)
  PROVE  \A b \in ToSet(GroundSummary(s).agenda) :
           b.items # <<>> /\ \A it \in ToSet(b.items) :
             it.text.korean /\ it.ev \subseteq KeptIds /\ it.ev \ LowConf # {}
<1> SUFFICES ASSUME NEW x \in DOMAIN BlocksLeft(s)
             PROVE  /\ BlocksLeft(s)[x].items # <<>>
                    /\ \A k \in DOMAIN BlocksLeft(s)[x].items :
                         /\ BlocksLeft(s)[x].items[k].text.korean
                         /\ RestsOnLines(BlocksLeft(s)[x].items[k])
  BY DEF ToSet, GroundSummary, RestsOnLines
<1>1. PICK b \in DOMAIN s.agenda :
         BlocksLeft(s)[x] = BlockLeft(s, b) /\ BlockLeft(s, b).items # <<>>
  BY BlocksLeftFit
<1>2. BlockLeft(s, b).items = Grounded(s.agenda[b].items) /\ s.agenda[b].items \in Seq(Item)
  BY BlocksLeftFit
<1>3. \A k \in DOMAIN Grounded(s.agenda[b].items) :
         RestsOnLines(Grounded(s.agenda[b].items)[k]) /\
         \E p \in DOMAIN s.agenda[b].items : Grounded(s.agenda[b].items)[k].text = s.agenda[b].items[p].text
  BY <1>2, GroundedItems
<1>4. \A p \in DOMAIN s.agenda[b].items : s.agenda[b].items[p].text.korean
  BY DEF AllKorean
<1> QED BY <1>1, <1>2, <1>3, <1>4

\* Rows that led to their block still do when blocks without items are gone.
LEMMA RowsLead ==
  ASSUME NEW s \in Minutes, RowsNamed(s)
  PROVE  RowsNamed(GroundSummary(s))
<1> DEFINE L == BlocksLeft(s)
           R == RowsOf(s.index, L)
           P == {k \in DOMAIN s.index : \E b \in DOMAIN L : L[b].no = s.index[k].no}
<1>1. \A k \in DOMAIN R : \E p \in P : R[k] = s.index[p]
  <2>1. s.index \in Seq(IndexRow)
    BY DEF Minutes
  <2>2. R = Only(s.index, P) /\ P \in SUBSET DOMAIN s.index
    BY DEF RowsOf
  <2> HIDE DEF P, R
  <2> QED BY <2>1, <2>2, OnlyEntries
<1>2. PICK from \in [DOMAIN L -> DOMAIN s.agenda] :
         /\ \A x \in DOMAIN L : L[x].no = s.agenda[from[x]].no /\ L[x].tag = s.agenda[from[x]].tag
         /\ \A x, y \in DOMAIN L : from[x] = from[y] => x = y
  BY BlocksLeftFit
<1> HIDE DEF L, R
<1>3. ASSUME NEW p \in P
      PROVE  \E x \in DOMAIN L :
               /\ L[x].tag = s.index[p].tag
               /\ \A y \in DOMAIN L : L[y].no = s.index[p].no <=> y = x
  <2>1. PICK x \in DOMAIN L : L[x].no = s.index[p].no
    OBVIOUS
  <2>2. PICK b \in DOMAIN s.agenda :
          /\ s.agenda[b].tag = s.index[p].tag
          /\ \A c \in DOMAIN s.agenda : s.agenda[c].no = s.index[p].no <=> c = b
    BY DEF RowsNamed
  <2>3. from[x] = b /\ L[x].tag = s.index[p].tag
    BY <1>2, <2>1, <2>2
  <2>4. ASSUME NEW y \in DOMAIN L, L[y].no = s.index[p].no
        PROVE  y = x
    <3>1. from[y] = b
      BY <1>2, <2>2, <2>4
    <3> QED BY <1>2, <2>3, <3>1
  <2> QED BY <2>1, <2>3, <2>4
<1>4. GroundSummary(s) = [agenda |-> L, index |-> R]
  BY DEF GroundSummary, L, R
<1>5. ASSUME NEW k \in DOMAIN R
      PROVE  \E x \in DOMAIN L :
               L[x].tag = R[k].tag /\ \A y \in DOMAIN L : L[y].no = R[k].no <=> y = x
  BY <1>1, <1>3
<1> QED BY <1>4, <1>5 DEF RowsNamed

-----------------------------------------------------------------------------
(* The inductive invariant.                                                *)

TextStages == {"analyze", "critic", "localize", "ground", "done"}

Wanted ==
  {a \in UNION {ToSet(extracts[k]) : k \in {j \in DOMAIN extracts : extracts[j] # None}} : a.text # None}

AnswersFit ==
  /\ meeting \in Meetings /\ pc \in TextStages
  /\ parts \in Seq(Minutes \cup {None})
  /\ extracts \in Seq(Seq(Found) \cup {None})
  /\ Kept = <<>> => extracts = <<>>

\* The rows led to their blocks when the summary was put together.
Joined ==
  IF raw = None THEN EvenParts(Answered(parts)) ELSE RowsNamed(raw)

SummaryFits ==
  summary # None => summary \in Minutes /\ (Joined => RowsNamed(summary))

ActionsFit ==
  /\ actions \in Seq(Action)
  /\ \A a \in Wanted : a.text.name \in cut \/ Kin(a, actions)

AllFlagged == \A k \in DOMAIN actions : actions[k].text.korean \/ actions[k].flagged

TextInv ==
  /\ AnswersFit
  /\ pc \in {"critic", "localize", "ground"} => Kept # <<>> /\ SummaryFits /\ ActionsFit
  /\ pc \in {"analyze", "critic"} => cut = {}
  /\ pc = "ground" => (summary # None => AllKorean(summary)) /\ AllFlagged
  /\ MinutesAreGrounded /\ ActionsSurvive /\ RowsNameTheirBlock /\ UnseenIsTold

LEMMA TextStarts == TextInit => TextInv
BY DEF TextInit, TextInv, AnswersFit, TextStages, Finished,
       MinutesAreGrounded, ActionsSurvive, RowsNameTheirBlock, UnseenIsTold

\* A step that does not finish, and what it must keep.
LEMMA GoesOn ==
  ASSUME pc' \in TextStages \ {"done"}
  PROVE  (MinutesAreGrounded /\ ActionsSurvive /\ RowsNameTheirBlock /\ UnseenIsTold)'
BY DEF Finished, MinutesAreGrounded, ActionsSurvive, RowsNameTheirBlock, UnseenIsTold, TextStages

LEMMA MissingFits ==
  ASSUME meeting \in Meetings, Kept # <<>>, NEW m \in Missing
  PROVE  m \in Seq(Action)
<1>1. Kept \in Seq(Nat)
  BY KeptLines
<1>2. Head(Kept) \in Int /\ Ghost \in Int
  BY <1>1 DEF Ghost
<1>3. [name |-> "missed", korean |-> TRUE] \in Text
  BY DEF Text
<1>4. ASSUME NEW e \in {{Ghost}, {Head(Kept)}}
      PROVE  [text |-> [name |-> "missed", korean |-> TRUE], ev |-> e, flagged |-> FALSE] \in Action
  <2>1. e \in SUBSET Int
    BY <1>2
  <2> QED BY <1>3, <2>1 DEF Action
<1>5. CASE m = <<>>
  BY <1>5
<1>6. CASE m # <<>>
  <2>1. PICK e \in {{Ghost}, {Head(Kept)}} :
           m = <<[text |-> [name |-> "missed", korean |-> TRUE], ev |-> e, flagged |-> FALSE]>>
    BY <1>6 DEF Missing
  <2>2. PICK x \in Action : m = <<x>>
    BY <1>4, <2>1
  <2> QED BY ONLY <2>2
<1> QED BY <1>5, <1>6

LEMMA SummarizeKeeps ==
  ASSUME TextInv, Summarize
  PROVE  TextInv'
<1>1. /\ meeting' = meeting /\ pc' = pc /\ extracts' = extracts /\ cut' = cut /\ pc = "analyze"
      /\ Kept' = Kept
  BY DEF Summarize, Kept, KeptIds, Lines, Excluded, Nth
<1>2. PICK a \in SummaryAnswers(Len(parts) + 1) : parts' = Append(parts, a)
  BY DEF Summarize
<1>3. Len(parts) + 1 \in DOMAIN Windows
  <2>1. Windows \in Seq(Seq(Nat))
    BY WindowsCover, NoWindows DEF TextInv, AnswersFit
  <2>2. Len(parts) \in Nat /\ Len(parts) < Len(Windows)
    BY DEF TextInv, AnswersFit, Summarize
  <2> QED BY <2>1, <2>2
<1>4. a \in Minutes \cup {None}
  BY <1>3, SummariesFit DEF TextInv, AnswersFit
<1>5. AnswersFit'
  BY <1>1, <1>2, <1>4 DEF TextInv, AnswersFit
<1>6. pc' \in TextStages \ {"done"}
  BY <1>1 DEF TextStages
<1> QED BY <1>1, <1>5, <1>6, GoesOn DEF TextInv

LEMMA ExtractKeeps ==
  ASSUME TextInv, Extract
  PROVE  TextInv'
<1>1. /\ meeting' = meeting /\ pc' = pc /\ parts' = parts /\ cut' = cut /\ pc = "analyze"
      /\ Kept' = Kept
  BY DEF Extract, Kept, KeptIds, Lines, Excluded, Nth
<1>2. PICK a \in ExtractAnswers(Len(extracts) + 1) : extracts' = Append(extracts, a)
  BY DEF Extract
<1>3. Len(extracts) + 1 \in DOMAIN Windows
  <2>1. Windows \in Seq(Seq(Nat))
    BY WindowsCover, NoWindows DEF TextInv, AnswersFit
  <2>2. Len(extracts) \in Nat /\ Len(extracts) < Len(Windows)
    BY DEF TextInv, AnswersFit, Extract
  <2> QED BY <2>1, <2>2
<1>4. a \in Seq(Found) \cup {None} /\ Kept # <<>>
  BY <1>3, ExtractsFit, NoWindows DEF TextInv, AnswersFit
<1>5. AnswersFit'
  BY <1>1, <1>2, <1>4 DEF TextInv, AnswersFit
<1>6. pc' \in TextStages \ {"done"}
  BY <1>1 DEF TextStages
<1> QED BY <1>1, <1>5, <1>6, GoesOn DEF TextInv

\* What follows the answers leaves them alone.
LEMMA AnswersStay ==
  ASSUME AnswersFit, UNCHANGED <<meeting, parts, extracts>>, pc' \in TextStages
  PROVE  /\ AnswersFit' /\ Kept' = Kept /\ Wanted' = Wanted /\ Answered(parts') = Answered(parts)
BY DEF AnswersFit, Kept, KeptIds, Lines, Wanted

LEMMA JoinStays ==
  ASSUME UNCHANGED <<parts, raw>>
  PROVE  Joined' = Joined
BY DEF Joined

\* How the summary is put together.
LEMMA ReducedFits ==
  ASSUME meeting \in Meetings, Answered(parts) \in Seq(Minutes), Reduce
  PROVE  SummaryFits'
<1> DEFINE answers == Answered(parts)
<1>0. answers' = answers
  BY DEF Reduce
<1>1. \/ summary' = None
      \/ Len(answers) = 1 /\ summary' = answers[1] /\ raw' = answers[1]
      \/ summary' \in {InBlocks(answers, n) : n \in meeting.numberings} /\ raw' = summary'
      \/ summary' = ConcatSummaries(answers) /\ raw' = None
  BY DEF Reduce
<1> HIDE DEF answers
<1>2. ASSUME summary' \in Minutes, raw' = summary'
      PROVE  SummaryFits'
  BY <1>2 DEF SummaryFits, Joined
<1>3. CASE Len(answers) = 1 /\ summary' = answers[1] /\ raw' = answers[1]
  <2>1. answers \in Seq(Minutes) /\ 1 \in 1..Len(answers)
    BY <1>3 DEF answers
  <2>2. answers[1] \in Minutes
    BY <2>1, ElementOfSeq
  <2> QED BY <1>2, <1>3, <2>2
<1>4. CASE summary' \in {InBlocks(answers, n) : n \in meeting.numberings} /\ raw' = summary'
  <2>1. PICK n \in meeting.numberings : summary' = InBlocks(answers, n)
    BY <1>4
  <2>2. InBlocks(answers, n) \in Minutes
    BY BlocksFit DEF answers
  <2> QED BY <1>2, <1>4, <2>1, <2>2
<1>5. CASE summary' = ConcatSummaries(answers) /\ raw' = None
  <2>1. /\ ConcatSummaries(answers) \in Minutes
        /\ EvenParts(answers) => RowsNamed(ConcatSummaries(answers))
    BY ConcatFits DEF answers
  <2>2. Joined' => EvenParts(answers')
    BY <1>5 DEF Joined, answers
  <2>3. (Joined => RowsNamed(summary))'
    BY <1>0, <1>5, <2>1, <2>2
  <2> QED BY <1>5, <2>1, <2>3 DEF SummaryFits
<1>6. CASE summary' = None
  BY <1>6 DEF SummaryFits
<1> QED BY <1>1, <1>3, <1>4, <1>5, <1>6

LEMMA ReduceKeeps ==
  ASSUME TextInv, Reduce
  PROVE  TextInv'
<1>1. /\ UNCHANGED <<meeting, parts, extracts>> /\ cut' = {} /\ pc' = "critic" /\ Kept # <<>>
      /\ actions' = MergeActions(Answered(extracts))
  BY DEF Reduce, TextInv
<1>2. pc' \in TextStages /\ pc' \in TextStages \ {"done"}
  BY <1>1 DEF TextStages
<1>3. AnswersFit' /\ Kept' = Kept /\ Wanted' = Wanted /\ Answered(parts') = Answered(parts)
  BY <1>1, <1>2, AnswersStay DEF TextInv
<1>4. SummaryFits'
  <2>1. Answered(parts) \in Seq(Minutes)
    BY AnsweredEntries DEF TextInv, AnswersFit
  <2> QED BY <2>1, ReducedFits DEF TextInv, AnswersFit
<1>5. ActionsFit'
  <2> DEFINE s == Answered(extracts)
             acts == MergeActions(s)
  <2>1. /\ s \in Seq(Seq(Found))
        /\ \A k \in DOMAIN extracts : extracts[k] # None => \E j \in DOMAIN s : s[j] = extracts[k]
    BY AnsweredEntries DEF TextInv, AnswersFit
  <2> HIDE DEF s
  <2>2. /\ acts \in Seq(Action)
        /\ \A k \in DOMAIN s : \A j \in DOMAIN s[k] : s[k][j].text # None =>
             \E x \in DOMAIN acts : acts[x].text = s[k][j].text /\ s[k][j].ev \subseteq acts[x].ev
    BY <2>1, MergedEntries
  <2>3. actions' = acts
    BY <1>1 DEF s
  <2> HIDE DEF acts
  <2>4. ASSUME NEW a \in Wanted
        PROVE  Kin(a, acts)
    <3>1. PICK k \in DOMAIN extracts : extracts[k] # None /\ a \in ToSet(extracts[k])
      BY DEF Wanted
    <3>2. PICK i \in DOMAIN s : s[i] = extracts[k]
      BY <2>1, <3>1
    <3>3. PICK j \in DOMAIN s[i] : s[i][j] = a
      BY <3>1, <3>2 DEF ToSet
    <3>4. a.text # None
      BY DEF Wanted
    <3> QED BY <2>2, <3>3, <3>4 DEF Kin
  <2> QED BY <1>3, <2>2, <2>3, <2>4 DEF ActionsFit
<1> QED BY <1>1, <1>2, <1>3, <1>4, <1>5, GoesOn DEF TextInv

LEMMA CriticizeKeeps ==
  ASSUME TextInv, Criticize
  PROVE  TextInv'
<1>1. PICK dropped \in SUBSET Places(summary), missing \in Missing, verdict \in [DOMAIN actions -> Verdicts] :
        /\ summary' = Without(summary, dropped)
        /\ actions' = Judged(verdict) \o missing
        /\ cut' = {actions[k].text.name : k \in {j \in DOMAIN actions : verdict[j] = "drop"}}
  BY DEF Criticize
<1>2. UNCHANGED <<meeting, parts, extracts, raw>> /\ pc = "critic" /\ pc' = "localize"
  BY DEF Criticize
<1>3. pc' \in TextStages /\ pc' \in TextStages \ {"done"}
  BY <1>2 DEF TextStages
<1>4. AnswersFit' /\ Kept' = Kept /\ Wanted' = Wanted /\ Answered(parts') = Answered(parts)
  BY <1>2, <1>3, AnswersStay DEF TextInv
<1>5. SummaryFits /\ ActionsFit /\ Kept # <<>> /\ cut = {} /\ meeting \in Meetings
  BY <1>2 DEF TextInv, AnswersFit
<1>6. SummaryFits'
  <2>1. CASE summary = None
    <3>1. summary' = None
      BY <1>1, <2>1 DEF Without
    <3> QED BY <3>1 DEF SummaryFits
  <2>2. CASE summary # None
    <3>1. summary \in Minutes /\ (Joined => RowsNamed(summary))
      BY <1>5, <2>2 DEF SummaryFits
    <3>2. summary' \in Minutes /\ (RowsNamed(summary) => RowsNamed(summary'))
      BY <1>1, <2>2, <3>1, WithoutFits
    <3>3. Joined' = Joined
      BY <1>2, JoinStays
    <3> QED BY <3>1, <3>2, <3>3 DEF SummaryFits
  <2> QED BY <2>1, <2>2
<1>7. ActionsFit'
  <2>1. missing \in Seq(Action)
    BY <1>5, MissingFits
  <2> DEFINE acts == Judged(verdict) \o missing
             gone == {actions[k].text.name : k \in {j \in DOMAIN actions : verdict[j] = "drop"}}
  <2>2. acts \in Seq(Action) /\ \A a : Kin(a, actions) => a.text.name \in gone \/ Kin(a, acts)
    BY <1>5, <2>1, JudgedEntries DEF ActionsFit
  <2>3. actions' = acts /\ cut' = gone
    BY <1>1
  <2> HIDE DEF acts, gone
  <2>4. \A a \in Wanted : a.text.name \in gone \/ Kin(a, acts)
    BY <1>5, <2>2 DEF ActionsFit
  <2> QED BY <1>4, <2>2, <2>3, <2>4 DEF ActionsFit
<1> QED BY <1>2, <1>3, <1>4, <1>5, <1>6, <1>7, GoesOn DEF TextInv

LEMMA NotCriticizedKeeps ==
  ASSUME TextInv, NotCriticized
  PROVE  TextInv'
<1>1. /\ UNCHANGED <<meeting, parts, extracts, summary, actions, raw, cut>>
      /\ pc = "critic" /\ pc' = "localize"
  BY DEF NotCriticized
<1>2. pc' \in TextStages /\ pc' \in TextStages \ {"done"}
  BY <1>1 DEF TextStages
<1>3. AnswersFit' /\ Kept' = Kept /\ Wanted' = Wanted /\ Answered(parts') = Answered(parts)
  BY <1>1, <1>2, AnswersStay DEF TextInv
<1>4. SummaryFits /\ ActionsFit /\ Kept # <<>>
  BY <1>1 DEF TextInv
<1>5. SummaryFits' /\ ActionsFit'
  <2>1. Joined' = Joined
    BY <1>1, JoinStays
  <2> QED BY <1>1, <1>3, <1>4, <2>1 DEF SummaryFits, ActionsFit
<1> QED BY <1>1, <1>2, <1>3, <1>4, <1>5, GoesOn DEF TextInv

LEMMA EnforceKeeps ==
  ASSUME TextInv, EnforceKorean
  PROVE  TextInv'
<1>1. PICK fixedItems \in Translated(BadPlaces), fixedActions \in Translated(BadActions) :
        /\ summary' = IF summary = None THEN None ELSE Without(Mended(fixedItems), Stubborn(fixedItems))
        /\ actions' = [k \in DOMAIN actions |->
              IF k \in fixedActions THEN [actions[k] EXCEPT !.text.korean = TRUE]
              ELSE [actions[k] EXCEPT !.flagged = @ \/ k \in BadActions]]
  BY DEF EnforceKorean
<1>2. UNCHANGED <<meeting, parts, extracts, raw, cut>> /\ pc = "localize" /\ pc' = "ground"
  BY DEF EnforceKorean
<1>3. pc' \in TextStages /\ pc' \in TextStages \ {"done"}
  BY <1>2 DEF TextStages
<1>4. AnswersFit' /\ Kept' = Kept /\ Wanted' = Wanted /\ Answered(parts') = Answered(parts)
  BY <1>2, <1>3, AnswersStay DEF TextInv
<1>5. SummaryFits /\ ActionsFit /\ Kept # <<>>
  BY <1>2 DEF TextInv
<1>6. SummaryFits' /\ (summary' # None => AllKorean(summary'))
  <2> DEFINE m == Mended(fixedItems)
             w == Without(m, Stubborn(fixedItems))
  <2>1. CASE summary = None \/ m = None
    <3>1. summary' = None
      BY <1>1, <2>1 DEF Without
    <3> QED BY <3>1 DEF SummaryFits
  <2>2. CASE summary # None /\ m # None
    <3>1. summary \in Minutes /\ (Joined => RowsNamed(summary))
      BY <1>5, <2>2 DEF SummaryFits
    <3>2. w \in Minutes /\ AllKorean(w) /\ (RowsNamed(summary) => RowsNamed(w))
      BY <2>2, <3>1, EnforcedFits
    <3>3. summary' = w /\ Joined' = Joined
      BY <1>1, <1>2, <2>2, JoinStays
    <3> HIDE DEF w, m
    <3> QED BY <3>1, <3>2, <3>3 DEF SummaryFits
  <2> QED BY <2>1, <2>2
<1>7. ActionsFit' /\ AllFlagged'
  <2> DEFINE acts == [k \in DOMAIN actions |->
              IF k \in fixedActions THEN [actions[k] EXCEPT !.text.korean = TRUE]
              ELSE [actions[k] EXCEPT !.flagged = @ \/ k \in BadActions]]
  <2>1. actions' = acts
    BY <1>1
  <2>2. fixedActions \in SUBSET BadActions /\ actions \in Seq(Action)
    BY <1>5 DEF Translated, ActionsFit
  <2>3. /\ acts \in Seq(Action)
        /\ \A k \in DOMAIN acts : acts[k].text.korean \/ acts[k].flagged
        /\ \A a : Kin(a, actions) => Kin(a, acts)
    BY <2>2, KoreanEntries
  <2> HIDE DEF acts
  <2>4. \A a \in Wanted : a.text.name \in cut \/ Kin(a, acts)
    BY <1>5, <2>3 DEF ActionsFit
  <2> QED BY <1>2, <1>4, <2>1, <2>3, <2>4 DEF ActionsFit, AllFlagged
<1> QED BY <1>2, <1>3, <1>4, <1>5, <1>6, <1>7, GoesOn DEF TextInv

\* What the gate tells is the same whichever way the work ends.
LEMMA GateIsTrue ==
  ASSUME meeting \in Meetings, meeting' = meeting, NEW s, NEW a, out' = Contract(s, a)
  PROVE  UnseenIsTold'
<1>1. UNION {ToSet(Windows[k]) : k \in DOMAIN Windows} = KeptIds
  BY SeenIsKept
<1>2. Shown \ KeptIds = ExcludedIds
  BY UnseenIsExcluded
<1>3. /\ GateSummary.count = Cardinality(ExcludedIds)
      /\ GateSummary.listed \subseteq ExcludedIds
      /\ GateSummary.listed = ExcludedIds \/ GateSummary.truncated
  BY GateTells
<1>4. WindowOverlap > 0 /\ WindowSegments # 1 => \A j \in 1..(Len(Kept) - 1) :
         \E k \in DOMAIN Windows : {Kept[j], Kept[j + 1]} \subseteq ToSet(Windows[k])
  <2>1. CASE Kept = <<>>
    BY <2>1
  <2>2. CASE Kept # <<>>
    BY <2>2, WindowsCover DEF Covers
  <2> QED BY <2>1, <2>2
<1>5. /\ Windows' = Windows /\ Shown' = Shown /\ Kept' = Kept
  BY DEF Windows, Shown, Kept, KeptIds, Lines, LongForm
<1>6. out'.gate = GateSummary
  BY DEF Contract
<1>7. /\ out'.gate.count = Cardinality(Shown \ UNION {ToSet(Windows[k]) : k \in DOMAIN Windows})
      /\ out'.gate.listed \subseteq Shown \ UNION {ToSet(Windows[k]) : k \in DOMAIN Windows}
      /\ \/ out'.gate.listed = Shown \ UNION {ToSet(Windows[k]) : k \in DOMAIN Windows}
         \/ out'.gate.truncated
  BY <1>1, <1>2, <1>3, <1>6
<1> QED BY <1>4, <1>5, <1>7 DEF UnseenIsTold

LEMMA NoSegmentsKeeps ==
  ASSUME TextInv, NoSegments
  PROVE  TextInv'
<1>1. /\ UNCHANGED <<meeting, parts, extracts, summary, actions, raw, cut>> /\ Kept = <<>>
      /\ pc' = "done" /\ out' = Contract(NoSummary, <<>>)
  BY DEF NoSegments
<1>2. AnswersFit' /\ Kept' = Kept
  BY <1>1, AnswersStay DEF TextInv, TextStages
<1>3. UnseenIsTold'
  BY <1>1, GateIsTrue DEF TextInv, AnswersFit
<1>4. ActionsSurvive'
  <2>1. extracts' = <<>>
    BY <1>1 DEF TextInv, AnswersFit
  <2> QED BY <2>1 DEF ActionsSurvive
<1>5. out'.agenda = <<>> /\ out'.index = <<>> /\ out'.actions = <<>>
  BY <1>1 DEF Contract, NoSummary
<1>6. MinutesAreGrounded' /\ RowsNameTheirBlock'
  BY <1>5 DEF MinutesAreGrounded, RowsNameTheirBlock, RowsKeyed, ToSet
<1> QED BY <1>1, <1>2, <1>3, <1>4, <1>6 DEF TextInv

LEMMA FinalizeKeeps ==
  ASSUME TextInv, Finalize
  PROVE  TextInv'
<1> DEFINE s == IF summary = None THEN NoSummary ELSE GroundSummary(summary)
           acts == GroundActions(actions)
<1>1. /\ UNCHANGED <<meeting, parts, extracts, summary, actions, raw, cut>> /\ pc = "ground"
      /\ pc' = "done" /\ out' = Contract(s, acts)
  BY DEF Finalize
<1>2. AnswersFit' /\ Kept' = Kept /\ Answered(parts') = Answered(parts)
  BY <1>1, AnswersStay DEF TextInv, TextStages
<1>3. SummaryFits /\ ActionsFit /\ AllFlagged /\ (summary # None => AllKorean(summary))
  BY <1>1 DEF TextInv
<1>4. UnseenIsTold'
  BY <1>1, GateIsTrue DEF TextInv, AnswersFit
<1>5. out'.agenda = s.agenda /\ out'.index = s.index /\ out'.actions = acts
  BY <1>1 DEF Contract
<1>6. KeptIds' = KeptIds /\ LowConf' = LowConf
  BY <1>1 DEF KeptIds, LowConf, Lines
<1>7. \A a \in ToSet(acts) : /\ a.ev \subseteq KeptIds
                             /\ (a.ev \subseteq LowConf \/ ~a.text.korean) => a.flagged
  BY <1>3, GroundedActions DEF ActionsFit, AllFlagged
<1>13. \A a : Kin(a, actions) =>
         \E x \in ToSet(acts) : x.text.name = a.text.name /\ a.ev \cap KeptIds \subseteq x.ev
  BY <1>3, GroundedActions DEF ActionsFit, AllFlagged
<1> HIDE DEF s, acts
<1>8. \A b \in ToSet(s.agenda) : b.items # <<>> /\ \A it \in ToSet(b.items) :
         it.text.korean /\ it.ev \subseteq KeptIds /\ it.ev \ LowConf # {}
  <2>1. CASE summary = None
    BY <2>1 DEF s, NoSummary, ToSet
  <2>2. CASE summary # None
    BY <1>3, <2>2, GroundedFits DEF s, SummaryFits
  <2> QED BY <2>1, <2>2
<1>9. Joined => RowsKeyed(s)
  <2>1. CASE summary = None
    BY <2>1 DEF s, NoSummary, RowsKeyed, ToSet
  <2>2. CASE summary # None
    <3>1. s = GroundSummary(summary) /\ summary \in Minutes /\ (Joined => RowsNamed(summary))
      BY <1>3, <2>2 DEF s, SummaryFits
    <3> QED BY <3>1, RowsLead, NamedIsKeyed
  <2> QED BY <2>1, <2>2
<1>10. MinutesAreGrounded'
  <2>1. ASSUME NEW b \in ToSet(out'.agenda)
        PROVE  b.items # <<>> /\ \A it \in ToSet(b.items) :
                 it.text.korean /\ it.ev \subseteq KeptIds' /\ it.ev \ LowConf' # {}
    BY <1>5, <1>6, <1>8
  <2>2. ASSUME NEW a \in ToSet(out'.actions)
        PROVE  /\ a.ev \subseteq KeptIds'
               /\ (a.ev \subseteq LowConf' \/ ~a.text.korean) => a.flagged
    <3>1. a \in ToSet(acts)
      BY <1>5
    <3>2. a.ev \subseteq KeptIds /\ ((a.ev \subseteq LowConf \/ ~a.text.korean) => a.flagged)
      BY <1>7, <3>1
    <3> QED BY <1>6, <3>2
  <2>3. (\A b \in ToSet(out.agenda) : b.items # <<>> /\ \A it \in ToSet(b.items) :
             it.text.korean /\ it.ev \subseteq KeptIds /\ it.ev \ LowConf # {})'
    BY ONLY <2>1
  <2>4. (\A a \in ToSet(out.actions) :
             /\ a.ev \subseteq KeptIds
             /\ (a.ev \subseteq LowConf \/ ~a.text.korean) => a.flagged)'
    BY ONLY <2>2
  <2> QED BY ONLY <2>3, <2>4 DEF MinutesAreGrounded
<1>11. RowsNameTheirBlock'
  <2>1. RowsKeyed(out') <=> RowsKeyed(s)
    BY <1>5 DEF RowsKeyed
  <2>2. (IF raw = None THEN \A p \in ToSet(Answered(parts)) : RowForRow(p) ELSE RowsKeyed(raw)) <=> Joined
    BY NamedIsKeyed DEF Joined, EvenParts
  <2> QED BY <1>1, <1>2, <1>9, <2>1, <2>2 DEF RowsNameTheirBlock
<1>12. ActionsSurvive'
  <2>1. ASSUME NEW k \in DOMAIN extracts, extracts[k] # None, NEW a \in ToSet(extracts[k]), a.text # None
        PROVE  \/ a.text.name \in cut
               \/ \E x \in ToSet(acts) : x.text.name = a.text.name /\ (a.ev \cap KeptIds) \subseteq x.ev
    <3>1. a \in Wanted
      BY <2>1 DEF Wanted
    <3> QED BY <1>3, <1>13, <3>1 DEF ActionsFit
  <2> QED BY <1>1, <1>5, <1>6, <2>1 DEF ActionsSurvive
<1> QED BY <1>1, <1>2, <1>4, <1>10, <1>11, <1>12 DEF TextInv

-----------------------------------------------------------------------------
\* The invariant is inductive: one case per action.
LEMMA TextInvHolds == TextSpec => []TextInv
<1>1. TextInv /\ [TextNext]_textVars => TextInv'
  <2> SUFFICES ASSUME TextInv, [TextNext]_textVars
               PROVE  TextInv'
    OBVIOUS
  <2>1. CASE Summarize
    BY <2>1, SummarizeKeeps
  <2>2. CASE Extract
    BY <2>2, ExtractKeeps
  <2>3. CASE Reduce
    BY <2>3, ReduceKeeps
  <2>4. CASE Criticize
    BY <2>4, CriticizeKeeps
  <2>5. CASE NotCriticized
    BY <2>5, NotCriticizedKeeps
  <2>6. CASE EnforceKorean
    BY <2>6, EnforceKeeps
  <2>7. CASE Finalize
    BY <2>7, FinalizeKeeps
  <2>8. CASE NoSegments
    BY <2>8, NoSegmentsKeeps
  <2>9. CASE UNCHANGED textVars
    <3>1. /\ UNCHANGED <<meeting, pc, parts, extracts, summary, actions, raw, cut, out>>
          /\ pc' \in TextStages
      BY <2>9 DEF textVars, TextInv, AnswersFit
    <3>2. AnswersFit' /\ Kept' = Kept /\ Wanted' = Wanted /\ Answered(parts') = Answered(parts)
      BY <3>1, AnswersStay DEF TextInv
    <3>3. /\ KeptIds' = KeptIds /\ LowConf' = LowConf /\ Windows' = Windows /\ Shown' = Shown
      BY <3>1 DEF Windows, Shown, Kept, KeptIds, LowConf, Lines, LongForm
    <3>4. /\ SummaryFits' = SummaryFits /\ ActionsFit' = ActionsFit /\ AllFlagged' = AllFlagged
          /\ AllKorean(summary') = AllKorean(summary)
      BY <3>1, <3>2, JoinStays DEF SummaryFits, ActionsFit, AllFlagged
    <3>5. MinutesAreGrounded' = MinutesAreGrounded
      BY <3>1, <3>3 DEF MinutesAreGrounded, Finished
    <3>6. ActionsSurvive' = ActionsSurvive
      BY <3>1, <3>3 DEF ActionsSurvive, Finished
    <3>7. RowsNameTheirBlock' = RowsNameTheirBlock
      BY <3>1, <3>2 DEF RowsNameTheirBlock, Finished
    <3>8. UnseenIsTold' = UnseenIsTold
      BY <3>1, <3>2, <3>3 DEF UnseenIsTold, Finished
    <3> QED BY <3>1, <3>2, <3>4, <3>5, <3>6, <3>7, <3>8 DEF TextInv
  <2> QED BY <2>1, <2>2, <2>3, <2>4, <2>5, <2>6, <2>7, <2>8, <2>9 DEF TextNext
<1> QED BY TextStarts, <1>1, PTL DEF TextSpec

\* A line with text was shown to some agent or is told as left out, for every
\* transcript, gate and size of window (partition and split_windows,
\* build_gate_summary).
THEOREM UnseenLinesAreTold == TextSpec => []UnseenIsTold
<1>1. TextInv => UnseenIsTold
  BY DEF TextInv
<1> QED BY TextInvHolds, <1>1, PTL

\* Whatever numbers the agents give, rows of the index lead to the blocks they
\* were written for in the minutes, after the critic, the translation and any
\* blocks grounding drops, if they did in the one answer that numbered them, or
\* if each of the parts that were concatenated, however many, had one row for
\* each block in their order (_concat_summaries, ground_summary).
THEOREM RowsLeadToTheirBlock == TextSpec => []RowsNameTheirBlock
<1>1. TextInv => RowsNameTheirBlock
  BY DEF TextInv
<1> QED BY TextInvHolds, <1>1, PTL

\* What an extraction of any window found is in the minutes with its lines,
\* unless the critic dropped it (_merge_action_payloads, _ground_actions).
THEOREM ActionsAreKept == TextSpec => []ActionsSurvive
<1>1. TextInv => ActionsSurvive
  BY DEF TextInv
<1> QED BY TextInvHolds, <1>1, PTL

\* Items are Korean and rest on lines the gate trusts, and an action that does
\* not is put before a person (_enforce_korean, ground_summary,
\* _ground_actions).
THEOREM MinutesRestOnLines == TextSpec => []MinutesAreGrounded
<1>1. TextInv => MinutesAreGrounded
  BY DEF TextInv
<1> QED BY TextInvHolds, <1>1, PTL
=============================================================================
