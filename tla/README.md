# A TLA+ model of LB_Note

LB_Note turns the recording of a meeting into minutes. A FastAPI server
(`src/src/web/app.py`) takes a recording, transcribes it on the GPU, corrects the
words by a glossary, has a coding agent's CLI write a summary and action items,
keeps the meeting in SQLite and shares it through Google Drive and Calendar,
Jira, mail and Slack. It runs as one process with many threads: request handlers,
one thread per job, and loops that sweep, watch, purge and take snapshots. A
Slack bot is a second process and a client of the first. Most of what can go
wrong is between two of those threads.

This directory holds TLA+ modules for the parts whose threads share state and for
the algorithms the minutes depend on, TLC configurations that check them on small
instances, and theorems that TLAPS checks for every instance. Paths below are
relative to the repository (`src/src/web/app.py` is written `web/app.py`).

## 1. The system

| Component | State it keeps | Operations | What makes it correct |
|---|---|---|---|
| AI jobs (`web/app.py`, `web/service.py`) | `_jobs`, `_job_owner`, `_job_cancels`, `_job_meta`, `_job_finished_at`, two semaphores, `_inflight`; all in memory | submit, regenerate, poll, cancel, worker thread, stall watchdog, purge | a verdict told to the user is kept; slots are never leaked; tables empty out |
| Maintenance (`web/maintenance.py`, `web/app.py`) | snapshots of the database, diagnostic events | cleanup loop with four parts, snapshot loop with rotation | the newest snapshot stays; no part stops the others |
| Claude credential health (`web/app.py`, `web/auth.py`) | `_claude_cred_health`, `_cred_verify_last`, the credential table | sweep, verify, register, delete, failing job, summary-availability, sealing at a start | the cached verdict becomes that of the stored credential; secrets stay readable |
| Meeting store (`web/store.py`, `postprocess/web_contract.py`) | row, ETag, backups, the original | POST, PATCH, applied and undone summaries, revert, delete, Jira write-back, reference writes, expiry | accepted edits survive, an ETag names a content, the original stays |
| Recordings and Drive (`web/app.py`, `web/audio_store.py`, `web/google_drive.py`, `web/google_docs.py`) | staged file, file of the meeting, files on Drive, `gdriveRef`, `_drive_sync_inflight` | upload, bind, sync job, email, play, delete, cleanup | there is always a copy; one sync at a time; a player gets its bytes |
| Users (`web/auth.py`, `web/app.py`, `tools/bulk_create_users.py`) | table of users, environment of a start | seed, prune, profile, password, console, script | the gate opens to owners; choices outlive starts; an administrator remains |
| Google link (`web/google_oauth.py`, `web/google_calendar.py`, `web/auth.py`, `web/app.py`) | token with its mark, stored client, `gcalRef` | consent, callback, verify, calendar sync, disconnect, restart with another key | the page shows Google's last word; one event per meeting |
| Meeting core (`postprocess/orchestrator.py`, `language_gate.py`, `meeting_profile.py`, `stages/`) and LLM backend (`postprocess/backends/agent_cli.py`, `cancellation.py`, `progress.py`) | results of the windows, `_FAILURES`, `done_count`, the cancel event; the minutes in the making | gate, windows in a pool, merge, critic, localise, grounding; attempts, deadline, kill | what is lost is named; a cancel or an expired login is never swallowed; minutes rest on lines |
| Glossary and cleaning (`postprocess/glossary.py`, `homophone.py`, `validate.py`, `web/glossary_service.py`) and the command line (`postprocess/pipeline.py`, `handoff.py`, `extract_handoff.py`) | layered entries; work-orders and output files | edit, submit, correct, clean, gate; emit, fill, collect | entries apply as layered; numbers and terms survive; files of one output agree |
| STT pipeline (`pipeline.py`, `chunker.py`, `preprocess.py`, `backends/energy_vad.py`, `backends/cohere.py`, `repetition.py`) | regions, chunks, texts and the map of times of one run | cut silence, detect, group, decode in batches, decode again, merge, remap | chunks fit the model and cover the speech; each word ends once, at its time |
| Slack bot (`slack_bot/`), requirements and notices (`web/store.py`) | conversations with a time to live; two tables | dialogue; reset, requirement, notice, broadcast | what the bot said is what is so |
| Mail and Slack rendering, scoring, denoising, observability, GPU status | none shared | pure functions, signal processing, read-only probes | |

How they interact. A job thread waits for an STT slot, transcribes, waits for an
LLM slot and calls the meeting core; the core reports progress into `_job_meta`
and reads the job's cancel event; the job's end marks the owner's credential as
invalid if the CLI said so. The dictionary that corrects a job's words is merged
when it is submitted. The client fetches the result and POSTs the meeting, which
binds its staged recording and starts a Drive sync. Email and Drive sync both
write `gdriveRef` through the store; Jira, calendar and the regenerate endpoints
write the row too. The bot calls the server as the account "admin", for which a
start and the console answer. The hard behaviours are races between a thread
that read something before a long call and another that changed it, ways out of
a slot that a finished job's thread has yet to take, calls served after their
caller gave up, and partial failures of remote calls and of files. Jobs and
verdicts are lost at a restart; rows and files are not.

`PROJECT.json` lists every hazard of this kind at its line, and the property
that watches it or the reason why none does.

## 2. The modules

The components share no state in the code except through the effects named in
each header, so each is checked on its own, which keeps the instances small enough
to be exhaustive. Where a run covers a component and its neighbour (`Upkeep`,
`Twins`, `Handoff`, `BotCommands`) and the two touch no state of each other, a
constant variable `side` (in `Handoff`, which of the two has begun) chooses what
a behaviour is about, so that TLC visits the sum of the two graphs and not their
product.

### AiJobs, JobVerdicts

One step of `AiJobs` is what the code does between two releases of `_jobs_lock`
or two blocking calls. `at[j]` is the place of job `j`'s thread in
`_run_ai_job`: `Acquire`, `SeesCancel`, `Enter`, `Run` and `Release` follow the
two semaphore blocks, once for each slot. `Cancel`, `StallScan` and `Purge` are
the endpoint and the two loops. `jobs` is the status the poll shows; "stalled" is
the error code only the watchdog writes, and `fate` is how the thread's current
block ended, which the code keeps in the exception it raises. `pings` are slots
that a verification of a credential holds.

`JobVerdicts` is what the job table promises: a recording is open until it is
delivered or refused, for good. `KeepsPromise` is the refinement. Its mapping
does not read the status shown (a worker may overwrite it) but whether the thread
can still deliver: `Doomed` and `Delivered`.

### CredHealth

`cache[u]` is the verdict of user `u`. A thread evaluates in the code's steps:
read the type, read the credential, recheck why there is none, ping, write.
`Right` compares the cached verdict, and the answer of summary-availability, with
the stored credential. `seal` is the sequence of keys a secret is sealed under;
`Migrated` is what a start does to the rows.

### MeetingStore, Upkeep

One meeting and its rivals: browser tabs with and without If-Match, an exporter,
and the server's own writes. A handler is one step, except where it keeps what
it read outside the lock: `BeginMerge`/`ApplyMerged` of a regenerated summary and
`BeginFiling`/`FileIssue`/`WriteBack` of the Jira export. `seen[c]` is the copy a
tab holds, with its ETag. Edits are numbers, so that "the edit is still there" can
be asked of any later content. `NextEtag` is `_next_etag` with a clock that may
stand still or be set back.

`Upkeep` is the server beside its requests. `turn` goes round the four parts of
`_cleanup_loop`, each of which works or fails; `snap` is the place of the snapshot
loop and `snaps` what lies in the backup directory, oldest first: a file is
"part", "whole" or "newest". `env` changes only with the process.

### DriveSync, Playback, Twins

`DriveSync` is one meeting, its recording and its Drive copy. Every call of the
Drive API is a step, and `Fault` or `Restart` may come at each of them. `run[t]`
is what a sync job or an email has read and made so far.

`Playback` adds a player: `Ask` (token and owner), `ReadRow`, `FindFile`,
`Answer` (the size, for the headers) and `Body` (the open file) or `FindOnDrive` and
`Relay`, with any step of the sync between two of them. `Granted` is the rule of
the two kinds of token, `ParseRange` the three forms of a byte range.

`Twins` instantiates `DriveSync` a second time for another meeting of the same
owner, with the Drive, its root folder and the process in common.

### Accounts

A step is one hold of `UserStore`'s lock: a handler reads its caller, then its
target, counts the administrators and writes, each in a step of its own (`req[c]`).
`phase` and `todo` are how far a start has come in seeding and pruning; `Restart`
may come at any step, with any environment. `by` remembers who chose a password.

### GoogleLink

The row with the refresh token and its mark, the stored client, the key both are
sealed under, and Google itself as the code sees it: which tokens are alive, of
which account, which events are there. A handler asks between two holds of the
lock, so that its answer may belong to a token that is no longer stored. `Use` is
every caller that asks with the stored token and writes nothing of the answer: Drive
sync, mail, the player, the deletion of Drive files. The history variable `said` is
Google's last answer about the stored token to anyone, `noted` the last one to
google_verify or the calendar, which write it into the mark.

### MeetingCore

One run of `run_meeting_core`. Every window has a task per configured backend,
`Start` gives the tasks to the pool in order, `MaxParallel` at a time. A CLI call
is `Attempt` (the cancel check), then one of `Answers`, `Fails`, `Refused` (an
expired login) and `Killed`. A worker whose call failed reads and then writes the
failure counter (`ReadCount`, `WriteCount`: `_count_failure` has no lock), then
counts its window and reports it (`Tick`, `Tell`). The core takes results in
order (`Gather`), leaves the pool early when one is a signal (`Unwind` waits for
those that run), and goes through merge, critic and localise, each a call of its
own. Of an answer only its kind is kept: parsed, garbled, failed, or a signal.

### CoreText

What `MeetingCore` leaves out: the texts. `Excluded` and `Doubtful` are the
language gate, which decides by what it measures of a line; `SplitWindows` cuts;
the agents answer anything from a small set (with citations of lines that do not
exist, in a language that is not Korean, and with any numbers of blocks and rows
that the meeting's `numberings` allow, in order or not, repeated or missing); and
`MergeActions`, `ConcatSummaries`, the critic's verdicts, the output language and
`Grounded` make the contract `out` that the web shows. The three sections of a
block, which the code treats alike, are one sequence. Blocks and rows carry the
number their agent gave, and a tag that says for which block a row was written; the
history variable `raw` is the summary as the one agent that wrote it numbered it,
and None when the answers of several windows were concatenated.

### Wording, Handoff

`Wording` is the way of a line from the recogniser to the agents: the layered
entries and two requests that edit them, the dictionary a job takes in two reads,
`Correct` (one pass of `CorrectedAt`, the longest entry first, with the rules for
short keys and particles), `Homophone`, and the gate `ContentPreserved` that publishes an
agent's answer or the original. A text is a sequence of characters because the
properties are about which of them survive. `Handoff` is the command line's way:
work-orders, an agent that fills them, commands that may stop between two files.

### Transcription

One run of `run_pipeline` with VAD segmentation. Time runs in frames of the
detector. `audio` says what each unit of the recording holds: silence, a word
said only there, or the filler, a word said again and again. `kept` are the units
left after silence was cut out, so `Remap` is both `offset_map` and `remap_time`.
`GroupRegion` is one turn of the loop of `vad_segment_chunks`, with the hard split
of a long region (`Pieces`); `DecodeBatch` is one batch of `transcribe_arrays`,
whose rows may be more than its inputs when the model cuts an input itself
(`Rows`, `ModelLimit`), and whose inputs may drift into Latin letters. `Zipped` is
the zip at its end; `Align` is the assertion behind it and the choice of chunks to
decode again. Merge, times and collapse are the operators of `Finish`. Words
carry the unit they were said in, so that "the text lies within its times" can be
asked of the result.

### SlackBot, BotCommands

`SlackBot` has the dialogue for requirements: bolt's threads, the one entry per
Slack thread with its owner, state and age, and the calls of the server between
two accesses of it. `asked` is what the bot last told a user. `BotCommands` adds
the commands: a reset, a requirement by slash command, the notice and its
broadcast. A call is a record that outlives its command: the bot gives it up after
ten seconds, and the server may serve it later.

### Checking and proof modules

`MCTexts` and `MCWording` give the larger constants of `CoreText` and `Handoff`.
`MCCore` and `MCSpeech` put them beside `MeetingCore` and `Transcription`: one run
has the behaviours of both, each about one side (`side`), the other side at rest.
Eight modules EXTEND the modules they prove about and TLAPS: `AiJobsProofs`
(AiJobs, JobVerdicts), `MeetingStoreProofs` (MeetingStore, Upkeep),
`DriveSyncProofs` (DriveSync, Playback, Twins), `CredentialProofs` (CredHealth,
GoogleLink), `MeetingCoreProofs` (MeetingCore, CoreText), `TranscriptionProofs`
(Transcription, Wording, Handoff), `AccountsProofs` and `BotCommandsProofs`
(SlackBot, BotCommands). Modules that share a proof module share no name: hence
`HealthInit` of CredHealth, `TextInit` of CoreText, `WordInit` of Wording. No
module here declares a RECURSIVE operator. Operators marked "Variant", "Mutant" or
"A mutant" are plausible bugs, kept beside the definition they would replace;
nothing else uses them.

## 3. What is checked

| Run | Instance | Shows |
|---|---|---|
| `ai_jobs` (AiJobs) | two recordings, two STT slots, one LLM slot, an engine that may hang | `SlotsAccounted`, `PurgeSparesOpenJobs`, `TablesReclaimed`; AiJobs implements JobVerdicts (`KeepsPromise`); with `WEB_STT_STALL_MARK_ERROR` on, the watchdog closes what hangs (`EveryJobSettles`) |
| `meetings` (Upkeep) | two tabs, one with If-Match, one exporting; two generations, two edits; or the two loops with two settings of snapshots to keep, two events, three files | `EtagNamesContent`, `AcceptedEditsSurvive`, `OriginalOutlives`, `NewestSnapshotKept`, `UpkeepGoesOn` |
| `cred_health` (CredHealth) | one user, one worker, the sweeper, two keys, three registrations, two restarts, a failed call | `SecretsStayReadable`; once things stop changing every health becomes right and stays so (`VerdictsHeal`) |
| `drive_sync` (Twins) | two syncs and an email, or a player of three bytes, or a second meeting; one fault; deletion with Drive assets | `OneLiveSync`, `RecordingKept`, `PlaysWhileItMoves`, `DeletionSparesOthers` |
| `drive_sync_email` (DriveSync) | violation | finding 1 |
| `meeting_core` (MCCore) | two windows with both backends (four tasks), two workers, one retry, all stages on; or every transcript of two lines out of eight kinds or of three out of three, windows of two that overlap by one, nine ways to number blocks and rows | `SignalsReachUser`, `NoCallOutlivesCore`, `LossIsTraced`, `CoreEnds`; `MinutesAreGrounded`, `ActionsSurvive`, `RowsNameTheirBlock`, `UnseenIsTold` |
| `core_text_join` (MCTexts) | violation | finding 3 |
| `transcription` (MCSpeech) | every recording of nine units, target of five, overlap of two, two drifting inputs; or six raw lines, four entries in two layers over a file, three edits by two requests; or two recordings, two items, three commands | `SpeechIsCovered`, `TextWithinItsTimes`, `LostOnlyIntoItsLike`, `OncePerWord`; `SteadyEntriesApply`, `LinesSurvive`, `OutputsAgree`, `MarksSurvive` |
| `accounts` (Accounts) | two users, two clients, any environment at each start, the script | `GateNeedsOwnPassword`, `AdminRemains`, `ChoicesOutliveStarts` |
| `google_link` (GoogleLink) | two handlers, two Google accounts, two keys, two tokens, three events | `ShowsLastCheck`, `OneEventPerMeeting` |
| `google_link_unmarked` (GoogleLink) | violation | finding 2 |
| `slack_bot` (BotCommands) | two users in one thread, three threads of the bot; or two calls; or two notices | `AskedIsExpected`, `LockoutIsTold`, `BroadcastIsOrdered` |

Each property of a passing run has a mutant: a plausible bug in one definition (a variant kept
beside it in the module) under which TLC finds the property violated. Type
invariants are not among the runs' properties; those of the modules with a proof
are theorems.

Several properties make an exception by a history variable, and the exception is
what the code really does: `AdminRemains` excepts an administrator who goes
although the guard did not look (`raced`), `ShowsLastCheck` a handler that was
not alone (`mixed`), `OneEventPerMeeting` syncs that overlap and calls that are
lost (`crossed`), `PlaysWhileItMoves` a request that the removal of the file falls
into (`moved`), `AskedIsExpected` a user with two handlers at a time (`muddled`),
`AcceptedEditsSurvive` the Jira write-back. Section 5 says what happens then.

### Bounds

- AiJobs has none but the sets of jobs and slots. Two recordings are the fewest
  that can wait for each other at a slot, which is where cancels, stalls and
  expiries meet a thread that holds or wants one; with one LLM slot the second
  phase is contended, with two STT slots a hung engine leaves the other job a
  way. Regenerate jobs are left to the proofs, which hold for any number. The run has
  `MarkStallAsError` on; by default it is off (`web/app.py:1037`), and then a job
  whose engine hangs stays open: `EveryJobSettles` says nothing of that setting.
- `MaxEvents` and `MaxFiles` bound Upkeep: three files are a partial snapshot, an
  old one and the newest; `Keeps` has 0, which the code must not take literally.
- `MaxGens`, `MaxEdits`, `MaxTime`, `MaxEtag` and `MaxIssues` bound MeetingStore.
  Two generations and two edits suffice for a merge that meets an edit made after
  its preview; a clock with two values suffices for a shared tick and for one that
  is set back; two ETag values let a stale one meet a newer content.
- `MaxCreds`, `MaxRestarts`, `MaxFaults` bound CredHealth: three registrations
  give an old, a re-registered and a later credential; two restarts take a key
  away and bring it back. The table has no relation between users except the
  order in which the sweep visits them.
- `MaxSyncs` and `MaxFaults` bound DriveSync: two syncs let one end while the next
  starts; one fault can stop any of them at any call. Each of the twins has one
  sync. Three bytes give every form of a range an inside and an end.
- MeetingCore has four tasks so that two of them may fail at the same time and
  two summaries must be merged; one retry lets a cancel fall between attempts.
- CoreText: three lines in windows of two make two full windows that overlap by
  one; both backends together are taken with at most two lines, in one window,
  because the answers of two windows in both would multiply. `AllNumberings` are
  one block whose row has its number, another one or is missing, and two blocks
  with numbers in order, reversed, crossed or the same, with the rows in their
  order, the other way round or one missing; they are taken with every transcript
  of one or two lines and with one of three, the other transcripts of three take
  two of them. `GateListMax` is one, so that a list is cut.
- Wording: an entry's target is another's source, a source contains another, a
  key is as short as the rules for short keys care about, and a digit stands
  before the syllable it may have been heard for. `MaxTerms` is one, the cap
  itself. `MaxItems` and `MaxCommands` bound Handoff: two items can be duplicates,
  three commands are two that collect and one between them.
- `Length`, `MaxFills` and `MaxDrifts` bound Transcription. Nine frames are the
  fewest in which a long region makes three overlapping pieces, an open span is
  flushed by one, and two regions with their pads fit one chunk. Two units with
  the filler are enough for a repetition that is collapsed and for a seam whose
  repeated word is one said twice. Two inputs that drift are enough to be more
  than half of the chunks, when nothing is decoded again. A recording has some
  silence: the detector's threshold is relative to its quietest tenth. The other
  constants are the settings, scaled down. `ModelLimit` is the target, as
  `run_pipeline` and `config.py` ensure, so that no input has a surplus row in the
  run: those meet only the hypothesis of `TextsKeepTheirTimes` (section 4).
- Accounts has no counters; `WEB_AUTH_PRUNE` has its default, on, and the theorems
  hold for any. Two users are the fewest of whom one can be the last
  administrator, and two clients the fewest that can pass the guard together.
- `MaxTokens` and `MaxEvents` bound GoogleLink: an old and a new token; a third
  event shows a duplicate after the first was removed.
- `MaxCalls`, `MaxNotices` and `MaxBusy` bound BotCommands: a second reset that
  overlaps the first, a second notice that replaces the first. Three threads let
  the dialogue of one user be delivered twice while another takes it over.

Symmetry is used for the clients of Accounts, for requests, accounts and keys of
GoogleLink and for users and threads of the bot; these runs have no liveness
property.

### Fairness

- AiJobs: the threads run on (weak fairness of each job's bookkeeping), a
  semaphore is eventually given to a waiting thread (strong fairness of `Acquire`:
  `threading.Semaphore` wakes its waiters), calls end unless the job is in
  `Hangs`, and the watchdog and purge loops go on. An STT call that hangs is not
  assumed to end; an LLM call has the CLI's deadline (`AGENT_CLI_TIMEOUT`).
- Upkeep: the cleanup loop goes on while the server is up, and removing events
  does not fail every time it is tried (strong fairness of that part's success).
  Every other part may fail for ever.
- CredHealth: the sweep's loop goes on, and what has begun goes on.
- MeetingCore: threads run on; an attempt ends, by itself or at its deadline
  (`_run_cancellable` polls once a second). Nothing is assumed of the user's
  cancel.
- The others have no fairness; they are checked for safety only. TLC may stop
  where all threads, calls or edits may be over, so deadlock is checked only in
  AiJobs, CredHealth, MeetingStore with Upkeep and the bot, which never stop.

## 4. What is proved

The theorems have no assumptions but those the modules name (sets of jobs that
are disjoint, slots that are not zero, bounds that are natural numbers), except
`LinesAlwaysSurvive`, which states its own, and hold for every value of the
constants. `PlayableUnlessMailed` is about the behaviours of `DriveSync` without
its emails. Where a run checks a composition, the theorems
of the part that existed before are about the part's own `Spec` (`MeetingStore`,
`DriveSync`) and those of the parts beside it about the composition:
`SnapshotsKeepTheNewest` about `Upkeep`, `PlaysOnWhileItMoves` and `OthersAreSpared`
about `Twins`. `MeetingsBesideUpkeep` carries the meeting's theorems over to
`Upkeep`, `CommandsKeepTheDialogue` the dialogue's to `BotCommands`.

- `SlotsAreAccounted`, `TypeCorrect` (AiJobsProofs). `SlotsInv` is inductive: the
  cardinality of the holders of a slot is followed through every action that
  moves one thread into or out of the set.
- `ShownVerdictsAreReal`, `ResultsHaveOwners`, `VerdictsAreKept`,
  `ResultsAreFinal`, `PurgeSparesOpen`, `Implements` (AiJobsProofs).
  `VerdictInv` adds to the types what control says of each thread (`ControlOf`)
  and of a recording (`RecordingOf`): a status shown as cancelled or stalled comes
  with the event set before the last check that reads it. That a doomed recording
  stays doomed is a separate stability lemma; the verdict theorem and the
  refinement rest on it.
- `MeetingTypeCorrect`, `EtagsNameContents`, `BackupsBelong`, `OriginalKept`,
  `StoredKeysNameIssues`, `EditsSurvive` (MeetingStoreProofs). `EtagNamesContent`
  alone is not inductive: `CopyInv` says of every copy, also the ones requests
  hold outside the lock, that it is of a saved meeting with a smaller ETag, or is
  the row. `ItemsInv` says that items, wherever they are stored, backed up or
  held, carry edits and keys that exist.
- `SnapshotsKeepTheNewest`, `MeetingsBesideUpkeep` (MeetingStoreProofs). In
  `SnapshotInv` the copy under way is the last of the list, and only a complete
  one starts the pruning; `PruneSnapshots` keeps the last files by counting up
  (`CountsUp`), so that the theorem holds for any setting, also zero or negative.
- `DriveTypeCorrect`, `OneJobPerMeeting`, `RecordingIsKept` (DriveSyncProofs).
  `RecordingKept` needs `DriveInv == TypeOK /\ DocInv /\ UnsavedInv /\ CustodyInv`:
  nothing but the deletion removes an audio file from Drive (a template sync
  deletes a document by its id, so ids of documents must never name an audio
  file), nothing runs before the meeting is saved, and an audio id that the row or
  a thread holds comes from an upload, so a thread that prunes has its upload.
- `PlaysOnWhileItMoves`, `PlayableUnlessMailed` (DriveSyncProofs). Without an email `DriveInv` can be
  strengthened to `MovingInv`: what the row names, or a job has read or uploaded, is
  on Drive, and the file goes only after the row names the copy. So `Playable`,
  which the run `drive_sync_email` finds violated, holds until an email is sent
  (`PlayableUnlessMailed`): no other step breaks it. `PlayerInv` says
  of every step of the player that the recording is where the step will look for
  it, unless the file went in between (`moved`).
- `OthersAreSpared` (DriveSyncProofs). Both meetings run the same code, so the
  invariant is an operator `Cares` of one meeting's state, stated and followed
  once for each: an id keeps the kind of file and the folder it was made with
  (`Shape`), and every id a meeting holds is of a file in its own folder. Deletion
  removes what it holds and its folder, hence nothing of the other's.
- `CoreTypeCorrect`, `SignalsAreTold`, `NoCallIsLeft`, `LossesAreTraced`,
  `StageOnScreen` (MeetingCoreProofs). `PoolInv` says that results taken belong to
  workers that are done, and that the core goes on only with all of them;
  `LossInv` that the counter lies between "some" and "all" of the failures whose
  workers have written it, and that a value read earlier is no larger than that.
- `UnseenLinesAreTold`, `RowsLeadToTheirBlock`, `ActionsAreKept`, `MinutesRestOnLines`
  (MeetingCoreProofs), for transcripts, windows, answers and merges of any length.
  First the lemmas about the operators: the cut windows together show exactly the
  kept lines, and neighbours stand in one window when windows overlap (windows of
  one line are the exception the property states); a flattened list holds its
  parts side by side, so that the rows of parts with one row per block, in order,
  meet their blocks again; what grounding leaves of the blocks are different blocks
  (`OnlyPlaces`), so that a number which was one block's is still one block's;
  an action that is merged, translated or grounded keeps its text and its kept
  lines (`Kin`). `TextInv` then carries through the stages what the next one
  needs: rows lead to their blocks if they did when the summary was put together
  (`Joined`), whatever the numbers are, until blocks are dropped with their rows,
  and nothing Korean turns foreign after the language pass. The prover has no
  induction over data, so these lemmas take a least counterexample (`LeastOf`).
- `ChunksAlwaysFit`, `SpeechIsAlwaysCovered` (TranscriptionProofs). Two lemmas
  carry the second: the joined runs of the detector are more than `MinSilence`
  apart (`RunsApart`), so pads no longer than that keep their order
  (`PaddedInOrder`), and the pieces of a hard split leave no frame out
  (`PiecesFitAndCover`, from `Quotient` and `RoundedUp`). `CoverInv` says that the
  loop holds every region it has reached, and that the open span neither starts
  nor ends after one it has not: without the second part an extended span could
  shrink.
- `TextsKeepTheirTimes` (TranscriptionProofs), under the hypothesis that no chunk
  is longer than the model takes in one piece, or that inputs are decoded one by
  one. `run_pipeline` refuses a longer `target_sec` and `config.py` lowers its own
  to the limit; without the hypothesis TLC finds a word outside its segment, for
  then an input has several rows and the zip hands later texts to other chunks.
  `PlacedInv` follows the text: the cut of silence keeps the order of the units
  (`InOrderIs`), a chunk lies in the signal and a piece in its chunk
  (`SubdividedWithin`), there is one text for each input, said in it
  (`BatchPlaces`), and what replaces a text or is cut off at a seam leaves words
  of the same chunk (`FlattenFits`, `MergedFits`).
- `WordsAreOnlyMerged` (TranscriptionProofs), under the same hypothesis, for the
  same reason. `HeardInv` says which words a text has: those of the speech of its
  input (`HeardAll`), and of its chunk once the texts are the chunks'. The pieces of
  a chunk that is decoded again cover its speech (`SubdividedCovers`: the clipped
  regions stay apart, so the loop holds each, and equal parts leave nothing out),
  so the text that replaces another has the words too. What a seam drops stands
  at the end of the merged text before it (`SeamRepeats`, `MergedHolds`), and with
  `SpeechIsCovered` every voiced frame has a chunk to be heard in.
- `WordsComeOnce` (TranscriptionProofs), when in addition the overlap of a hard
  split has no more words than the merge compares (`overlap_sec` of two seconds
  against `SEAM_DEDUP_MAX_WORDS` of twelve; with `DedupMax = 1` and an overlap of
  two TLC finds a word twice). `ApartInv`: of two spans, what is said in the first
  is said before the second, but for the overlap of neighbours of a hard split.
  Pads of two regions may meet, but only where nothing is said (`PaddedQuiet`,
  since `SegPad <= MinSilence`). `OnceInv`: until a text drifts each is what is
  heard of its chunk (`BatchHeard`) and nothing is decoded again (`KoreanStays`).
  What two pieces share ends the first text and starts the second
  (`SharedOrder`, `SeamShares`); the merged text before still ends with it, so the
  merge finds at least that much (`SeamFound`), and by a least counterexample no
  word is left twice (`MergedOnce`).
- `SteadyEntriesAreUsed` (TranscriptionProofs). Between the two reads of a
  dictionary the stored entries may change; `ReadInv` says that those of the user
  that are still called steady are the ones the job began with.
- `LinesAlwaysSurvive` (TranscriptionProofs), for every alphabet, dictionary, line
  and answer under `Written`: blanks separate words and are no signs, entries and
  targets are not empty and have neither blanks nor digits, and no target begins
  with "tam". `MCWording` assumes `Written` of its constants, so TLC evaluates it. The
  pass over a line is followed place by place (`IsPass`): at each place it skips,
  copies or writes an entry, so a digit is copied with what is around it and the
  numbers of a line are those of its text but for a "5" the fix of "5tam" rewrote
  (`NumberSurvives`, `FiveWasThere`). A word stands between blanks, an entry cannot
  reach over one, and what stands beside a blank counts as an edge: the pass does
  in a line what it does in each word alone (`WordStep`, `LineCorrected`). What the
  gate accepts has the numbers and targets of the text, and what it refuses is
  replaced by the text (`GateKeeps`). Two invariants bring that to what is
  published: `WordsInv` follows the entries from a request through the two reads to
  the job's line, `PublishedInv` a recording through work-order, slots and task to
  the file. They were checked by TLC before they were proved.
- `FilesOfOneCommand`, `AgentsMarksStay` (TranscriptionProofs). `FilesInv` follows
  the command that writes: the files before its next one are its own, and an
  output it has begun is `torn` until its last file. `MarksInv` says that what is
  written is the collation of a work-order of the agent's items; that a collation
  of any number of items lists each with its lines and its mark, and calls
  reviewed exactly what has no line, is `CollationKeeps`, from `CheckedIsListed` and
  `MergedKeeps` by a least counterexample.
- `GateOpensToOwners`, `StartKeepsChoices`, `StartEndsAsListed`, `AdminStays`
  (AccountsProofs). A request carries what it read, so `Typed` says what its kind
  may write. `Booting` relates a start to its environment: the listed users whose
  turn has come are settled, and those who are left are unlisted; it survives a
  stop because the next start begins anew. `AdminStays` adds `Counted`: a request
  that is about to take an administrator away has seen another one, and `raced`
  says whether the administrators are still those it saw.
- `CallsAreFollowed`, `LockoutsAreTold` (BotCommandsProofs). A call outlives the
  command that made it, so the invariant follows both: a call has one thread
  (`Distinct`), a thread waits for a call nothing was said of (`Waiting`), what it
  is about to say and what was said is so of the call (`Grounded`, `Said`), and a
  password in force that nobody chose is of a reset that was served (`Owned`).

- `BroadcastsAreOrdered`, `DialogueIsFollowed`, `ConversationsAreExpected`,
  `CommandsKeepTheDialogue` (BotCommandsProofs). `NoticeInv` keeps with a command
  what was so at some time since it was given (`live`, `chief`): what it reads and
  is told is among it. `DialogueInv` says what the handler of a user, at each of
  its steps, knows of the entry of the thread (`Knows`), whatever others do there;
  a user with two handlers at a time is in `muddled` and excepted.
- `LinkTypeCorrect`, `PageShowsLastCheck`, `MeetingHasOneEvent` (CredentialProofs).
  In `MarkInv` a handler that was alone knows that its token is the stored one and
  what google_verify or the calendar was last told of it; in `EventInv` there is one sync unless two crossed,
  and the event it works on is in the calendar of its token's account.
- `SecretsAreReadable` (CredentialProofs). `SealInv`: a secret is plain or under
  one key, and not plain while the process has a key.
- `VerdictsStayRight` (CredentialProofs), for any users and threads: a cached health
  that is right is spoiled by no late answer, sweep, verify or job while its
  credential is left alone (`RightStaysRight`, which no run checks: it is stated
  beside its proof). Right alone is not kept: a ping of the credential before may be under way,
  a PUT or a DELETE may have its write still to come (then `VerdictsHeal`, by the next
  sweep, which TLC checks). `Healed` adds what every thread must have read
  (`Agrees`): a ping holds the stored credential, a job too unless it is dead, a
  verdict to be written is so. `WorkInv` numbers the registrations, so that a PUT
  of the user is a change of the credential, and gives a thread that writes a
  verdict. Assumed is only that None is no verdict (`NoneAssumption`). What the
  theorem sets aside are faults of the call and restarts, which may lose a verdict.

Only model-checked are the liveness properties (`EveryJobSettles`,
`TablesReclaimed`, `UpkeepGoesOn`, `VerdictsHeal`, `CoreEnds`): fairness and ENABLED
are out of reach of TLAPS here. The hypotheses of `LinesAlwaysSurvive` are needed
and narrower than what the glossary accepts: a longer entry with a blank in it can
take a word from the entry of that word alone, an entry with a digit may rewrite a
number that was heard, and a target that begins with "tam" loses one (section 5).

## 5. Findings

1. An email that read the meeting before a sync saved its `audioId` writes its
   older `gdriveRef` over it, and the pruned recording cannot be played
   (`web/app.py:2939`; the run `drive_sync_email`).
2. Drive sync and mail see Google refuse the stored token and leave no mark
   (`web/app.py:2854`, 3007), although `google_status` says that the calls of the
   calendar, of Drive and of mail do (`web/auth.py:789-790`): the settings page goes
   on showing a working connection. Nor do the player (2500) and the deletion of
   Drive files (2340) mark it (the run `google_link_unmarked`). `ShowsLastCheck` is
   what does hold: the page shows what google_verify and the calendar were told.
3. `_concat_summaries`, the fallback of a failed reduce, numbers blocks and index
   rows each by position (`postprocess/orchestrator.py:192`), although `_coerce_no`
   keeps the agents' numbers because they join the two
   (`postprocess/summarize_schema.py:34-35`). Rows that led to their blocks lead to
   others when they stand in another order or one of them is missing (the run
   `core_text_join`). `RowsNameTheirBlock` is what does hold: each part has one row
   per block in their order, or the summary was not concatenated.

Others met while modelling, without a run of their own.

Meetings and recordings:

- A revert restores the original summary and leaves the notice of the regenerated
  one (`web/store.py:404` against the docstring at 275-277).
- Two exports that overlap make two Jira issues for an item (`web/app.py:3684`
  against 3678-3680), and so does a create call that times out and is repeated
  (3714).
- A repeated POST finds its staging token consumed and stores the meeting without
  `audioRef` (`web/app.py:2181`).
- A deletion between the two transactions of a save leaves the snapshot of the
  original without its meeting (`web/app.py:2187`).
- Two meetings of one title and minute share a Drive folder; deleting one deletes
  the other's recording (`web/app.py:302`).
- A player's request that reads the row before a sync saves `audioId` and looks
  for the file after the prune answers 404 although the recording can be played
  (`web/app.py:2551-2555`); if the file goes between `is_file` and `stat` it
  answers 500, and between `stat` and `open` the body breaks off.

Jobs, credentials, accounts:

- A queued job closed as cancelled can become processing again for as long as its
  thread needs to see the event (`web/app.py:1361`); a purge of a hung job lets the
  queue's answer forget the slot it still holds (`_queue_snapshot_locked`).
- A sweep's ping of the old credential overwrites the verdict of a
  re-registration until the next sweep (`web/app.py:733` against 738-739); a
  credential that cannot be decrypted is answered as not configured (883).
- Two administrators can remove each other (`web/app.py:3846`, against the promise
  at 3822 and 3999), and the script can demote the last one. A change of password
  whose check passed before a reset undoes it (3862). A display name given by the
  console counts as seeded and is lost at the next start if the user is listed.
- A verdict about a replaced Google token marks the new one. Calendar events are made again also on 403,
  where the docs name 404 and 410; switching accounts and back duplicates them.
- Partial snapshot files that a crash leaves count towards those to keep, and a
  clock set back makes the newest one the first to go (`web/maintenance.py:74`).

Text:

- When the model cuts a chunk by itself, `transcribe_arrays` drops the surplus
  rows before `_assert_chunk_alignment` can count them (`backends/cohere.py:261`).
- The number of finished windows can fall by one on the screen, because
  `_task_done` counts under its lock and reports outside it
  (`postprocess/orchestrator.py:471`).
- The cap of the glossary is checked outside the lock that writes
  (`web/auth.py:1069-1076`), and the layers are read in two statements, so a job's
  dictionary may mix two versions. The signal "flag" of the cleaning, promised in
  `postprocess/schema.py`, is dropped. One "오탐" excuses every "5" of a line.
- The fix of "5탐" runs on what the glossary wrote (`postprocess/pipeline.py:58-59`):
  an entry whose target begins with 탐 makes a "5" before it disappear, and the
  gate, which compares with the text after the fix, does not see it.
- A semantic flag is lost when an item without a line is merged with one that has
  a line (`postprocess/extract_handoff.py:186`); with overwriting off, a command
  stopped after its first file is skipped for ever (`postprocess/pipeline.py:169`).

Bot:

- A mention inside a thread that is delivered twice closes a requirement at once or
  saves it twice; `clear` does not ask who owns the conversation.
- A requirement whose answer was lost is told as failed and is stored; a reset
  served after it was given up replaces the password of the retry.
- A read timeout raises `TimeoutError`, which `lbnote_client.py:85` does not
  catch, so the statement at 61-62 does not hold.

## 6. What is not modelled

Prompts, audio signals and numeric scores; of the STT pipeline the fixed
segmentation, the Silero detector, enhancers (which keep the length of the
signal) and words a decoder makes up; PATCH's validation of fields; progress
texts, queue estimates and admin listings; token signing and the settings that
are single rows; Jira's epics, watchers and lookups; import and suggestions of
glossary entries; rendering of mails and documents; the path without the core
(`CORE_ENABLED` off), and profiles of a meeting other than its length, which only
change prompts. A restart of the server loses the jobs, and nothing recovers them,
so AiJobs has no restart; for the same reason a restart loses results that were
not saved. A stop between deleting a row and its recording leaves a file that no
cleanup looks for. DriveSync has no liveness run: the graph of its instance is too
large for TLC's check of temporal formulas. `PROJECT.json` gives the reason for
each component.

## 7. Plan

A composition of AiJobs with MeetingCore through the LLM slot and the cancel
event, and of a repeated POST with the recording it bound before.
