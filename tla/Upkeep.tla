-------------------------------- MODULE Upkeep --------------------------------
(***************************************************************************)
(* What the server does beside its requests (app.py lifespan,              *)
(* maintenance.py): one loop removes what has expired - staged uploads,    *)
(* backups of summaries, entries of finished jobs, diagnostic events - and *)
(* another takes snapshots of the database.  Every part may fail, every    *)
(* file may refuse to be removed, and the server may stop at any step.     *)
(***************************************************************************)
EXTENDS MeetingStore, Integers, Sequences, SequencesExt

CONSTANTS
  Keeps,      \* values of WEB_DB_BACKUP_KEEP
  MaxRows,    \* WEB_USER_EVENT_MAX_ROWS
  MaxEvents,  \* bound: rows of user_events
  MaxFiles    \* bound: snapshots left behind

ASSUME UpkeepAssumption ==
  Keeps \subseteq Int /\ {MaxRows, MaxEvents, MaxFiles} \subseteq Nat /\ MaxRows >= 1

VARIABLES
  side,     \* what this behaviour is about: "meeting" or "upkeep"
  env,      \* of the server, which is up or not
  turn,     \* the step of the cleanup loop
  events,   \* rows of user_events that are past their age and that are not
  snap,     \* the step of the snapshot loop
  snaps,    \* the snapshots by name, which is by age, the oldest first
  taken     \* history: a snapshot was completed once

upkeep == <<side, env, turn, events, snap, snaps, taken>>

\* The process is replaced as a whole, with WEB_CLEANUP_ENABLED,
\* WEB_DB_BACKUP_ENABLED and WEB_DB_BACKUP_KEEP of its own.
Envs == [up : {TRUE}, disk : BOOLEAN, backups : BOOLEAN, keep : Keeps]

Down == [up |-> FALSE, disk |-> FALSE, backups |-> FALSE, keep |-> 1]

\* The turns of one round; two are left out when the disk is not to be cleaned.
Round == <<"staging", "backups", "jobs", "events", "sleep">>

First(e) == IF e.disk THEN "staging" ELSE "jobs"

After(part) == Round[CHOOSE i \in 2..Len(Round) : Round[i - 1] = part]

UpkeepInit ==
  /\ Init /\ side \in {"meeting", "upkeep"}
  /\ env = Down /\ turn = "off" /\ events = [old |-> 0, young |-> 0]
  /\ snap = "off" /\ snaps = <<>> /\ taken = FALSE

-----------------------------------------------------------------------------
\* lifespan: the loops begin with a round.
StartServer(e) ==
  /\ ~env.up /\ env' = e
  /\ turn' = First(e) /\ snap' = IF e.backups THEN "begin" ELSE "off"
  /\ UNCHANGED <<side, events, snaps, taken>>

StopServer ==
  /\ env.up /\ env' = Down
  /\ turn' = "off" /\ snap' = "off" /\ Len(snaps) <= MaxFiles
  /\ UNCHANGED <<side, events, snaps, taken>>

\* record_user_event; a row that cannot be written is left out.
Record ==
  /\ env.up /\ events.old + events.young < MaxEvents
  /\ events' = [events EXCEPT !.young = @ + 1]
  /\ UNCHANGED <<side, env, turn, snap, snaps, taken>>

Age ==
  /\ events.young > 0
  /\ events' = [old |-> events.old + 1, young |-> events.young - 1]
  /\ UNCHANGED <<side, env, turn, snap, snaps, taken>>

\* prune_user_events: by age, then by number.
Pruned == [old |-> 0, young |-> IF events.young < MaxRows THEN events.young ELSE MaxRows]

\* Variant: a part that fails ends the loop.
PartOrEnd(part, works) ==
  /\ turn = part
  /\ turn' = IF works THEN After(part) ELSE "off"
  /\ events' = IF works /\ part = "events" THEN Pruned ELSE events
  /\ UNCHANGED <<side, env, snap, snaps, taken>>

\* run_cleanup_once and the rest of _cleanup_loop: what fails is put off.  What
\* the other turns remove is in CleanupStaging of DriveSync, Prune of
\* MeetingStore and Purge of AiJobs.
Part(part, works) ==
  /\ turn = part /\ turn' = After(part)
  /\ events' = IF works /\ part = "events" THEN Pruned ELSE events
  /\ UNCHANGED <<side, env, snap, snaps, taken>>

Wake ==
  /\ turn = "sleep" /\ turn' = First(env)
  /\ UNCHANGED <<side, env, events, snap, snaps, taken>>

-----------------------------------------------------------------------------
(* run_db_backup: a snapshot is "part" until it is complete; the newest    *)
(* that is complete is "newest", the others are "whole".                   *)

Take(step, files) ==
  /\ snap' = step /\ snaps' = files
  /\ UNCHANGED <<side, env, turn, events>>

\* Its name is a time; the directory may be out of reach.
BeginSnapshot(works) ==
  /\ snap = "begin"
  /\ IF works THEN Take("copy", Append(snaps, "part")) ELSE Take("sleep", snaps)
  /\ UNCHANGED taken

Finish ==
  /\ snap = "copy"
  /\ Take("prune", [i \in DOMAIN snaps |->
                     IF i = Len(snaps) THEN "newest" ELSE IF snaps[i] = "newest" THEN "whole" ELSE snaps[i]])
  /\ taken' = TRUE

\* Variant: the old ones are removed however the copy ended.
FailAndPrune(removed) ==
  /\ snap = "copy"
  /\ IF removed THEN Take("prune", Front(snaps)) ELSE Len(snaps) <= MaxFiles /\ Take("prune", snaps)
  /\ UNCHANGED taken

\* A copy that fails is removed, or is left when that fails too.
Fail(removed) ==
  /\ snap = "copy"
  /\ IF removed THEN Take("sleep", Front(snaps)) ELSE Len(snaps) <= MaxFiles /\ Take("sleep", snaps)
  /\ UNCHANGED taken

Keep == IF env.keep > 1 THEN env.keep ELSE 1

\* numbers counts S up.
CountsUp(numbers, S) ==
  /\ {numbers[n] : n \in DOMAIN numbers} = S
  /\ \A m, n \in DOMAIN numbers : m < n => numbers[m] < numbers[n]

\* _prune_old_db_backups: all but the last Keep, as far as they can be removed.
PruneSnapshots(stay) ==
  LET stays == {i \in DOMAIN snaps : i > Len(snaps) - Keep \/ i \in stay} IN
  /\ snap = "prune"
  /\ stay \subseteq 1..(Len(snaps) - Keep) /\ Cardinality(stay) + Keep <= MaxFiles
  /\ \E numbers \in [1..Cardinality(stays) -> stays] :
       CountsUp(numbers, stays) /\ Take("sleep", [n \in 1..Cardinality(stays) |-> snaps[numbers[n]]])
  /\ UNCHANGED taken

WakeSnapshot == snap = "sleep" /\ Take("begin", snaps) /\ UNCHANGED taken

CleanupStep ==
  \/ \E part \in {"staging", "backups", "jobs", "events"}, works \in BOOLEAN : Part(part, works)
  \/ Wake

SnapshotStep ==
  \/ \E works \in BOOLEAN : BeginSnapshot(works) \/ Fail(works)
  \/ Finish
  \/ \E stay \in SUBSET (1..Len(snaps)) : PruneSnapshots(stay)
  \/ WakeSnapshot

UpkeepNext ==
  \/ \E e \in Envs : StartServer(e)
  \/ StopServer
  \/ Record \/ Age
  \/ CleanupStep \/ SnapshotStep

-----------------------------------------------------------------------------
\* The meeting and the upkeep touch no state of each other here.
AllNext ==
  \/ side = "meeting" /\ Next /\ UNCHANGED upkeep
  \/ side = "upkeep" /\ UpkeepNext /\ UNCHANGED vars

\* The cleanup loop runs while the server does, and the events cannot always
\* fail to be removed.
AllSpec ==
  /\ UpkeepInit /\ [][AllNext]_<<vars, upkeep>>
  /\ WF_upkeep(CleanupStep) /\ SF_upkeep(Part("events", TRUE))

-----------------------------------------------------------------------------
\* "무백업 prune 사고 재발 방지" (run_db_backup): once a snapshot was completed,
\* the newest complete one is there, whatever WEB_DB_BACKUP_KEEP says, whichever
\* copy fails, whatever cannot be removed and whenever the server stops.
NewestSnapshotKept == taken => \E i \in DOMAIN snaps : snaps[i] = "newest"

\* While the server stays up the diagnostic events come back to their bounds:
\* theirs is the last turn of the round, and it comes although any turn before
\* it may fail in any round, and also when the disk is not to be cleaned.
UpkeepGoesOn == []<>(~env.up \/ (events.old = 0 /\ events.young <= MaxRows))
=============================================================================
