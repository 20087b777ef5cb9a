------------------------------- MODULE DriveSync -------------------------------
(***************************************************************************)
(* The recording of one meeting and its copy on the owner's Google Drive:  *)
(* the staged upload, the file of the meeting (web/audio_store.py), the    *)
(* drive-sync jobs and the document an email makes (web/app.py), and the   *)
(* deletion of the meeting.                                                *)
(*                                                                         *)
(* A step is one transaction of the meeting store, one hold of _jobs_lock, *)
(* one call of the Drive API or one change of the file system.  A failed   *)
(* call ends its job or its email with everything made so far left behind. *)
(* The credential is read with the meeting just before it, and all         *)
(* recordings have one format.                                             *)
(***************************************************************************)
EXTENDS Naturals, FiniteSets

CONSTANTS
  MaxSyncs,     \* bound: sync jobs that are ever started
  Emails,       \* requests to send the minutes by email
  DriveSlots,   \* WEB_DRIVE_CONCURRENCY
  AssetsToo,    \* WEB_DRIVE_DELETE_ON_MEETING_DELETE
  Title,        \* name of the meeting's folder: its title and its minute
  MaxFaults     \* bound: failed calls of Google and restarts together

ASSUME BoundsAssumption == MaxSyncs \in Nat /\ MaxFaults \in Nat
ASSUME SlotsAssumption == DriveSlots \in Nat \ {0}
ASSUME EmailsAssumption == Emails \cap Nat = {}
ASSUME AssetsAssumption == AssetsToo \in BOOLEAN
ASSUME TitleAssumption == Title \notin {"root", "doc", "audio"}

Syncs == 1..MaxSyncs
Threads == Syncs \cup Emails

\* A file or folder of the owner's Drive; ids are positive and never used again.
\* The kind of a meeting's folder is its name.
Nil == 0
File == [id : Nat \ {0}, kind : {"root", Title, "doc", "audio"}, parent : Nat]

\* gdriveRef, and the row of the meeting: recorded says that it has an audioRef.
NoRef == [doc |-> Nil, audio |-> Nil, folder |-> Nil]
Ref == [doc : Nat, audio : Nat, folder : Nat]
NoRow == [stored |-> FALSE, recorded |-> FALSE, ref |-> NoRef]
Row == [stored : BOOLEAN, recorded : BOOLEAN, ref : Ref]

\* A thread: its next step, whether the row it has read has an audioRef, the
\* root folder of the credential it was given, and the gdriveRef it is putting
\* together, which starts as the one of the row.
Work == [at : {"idle", "queued", "read", "root", "find", "make", "doc", "audio", "save",
               "prune", "release", "export", "sent", "over"},
         recorded : BOOLEAN, root : Nat, ref : Ref]

VARIABLES
  post,      \* the upload and POST of the meeting
  kept,      \* audio/{meetingId}/source.* is there
  row,       \* the meeting in the store
  root,      \* google_credentials.root_folder_id
  drive,     \* the files this app has made on Drive
  made,      \* how many ids Drive has given out
  inflight,  \* _drive_sync_inflight of the meeting, Nil if it has none
  run,       \* the work of each thread
  del,       \* the DELETE of the meeting
  wipe,      \* the gdriveRef that the background deletion has yet to delete
  faults

files == <<root, drive, made>>
vars == <<post, kept, row, files, inflight, run, del, wipe, faults>>

Thread(at) == [at |-> at, recorded |-> FALSE, root |-> Nil, ref |-> NoRef]

Init ==
  /\ post = "none" /\ kept = FALSE /\ row = NoRow
  /\ root = Nil /\ drive = {} /\ made = 0
  /\ inflight = Nil /\ run = [t \in Threads |-> Thread("idle")]
  /\ del = "none" /\ wipe = NoRef
  /\ faults = 0

-----------------------------------------------------------------------------
Live(id) == \E f \in drive : f.id = id

\* files.create.
Create(kind, parent) ==
  /\ made' = made + 1
  /\ drive' = drive \cup {[id |-> made + 1, kind |-> kind, parent |-> parent]}

At(t, s) == run[t].at = s
Goto(t, s) == run' = [run EXCEPT ![t].at = s]
Ends(t, s) == run' = [run EXCEPT ![t] = Thread(s)]

\* An exception: a job ends with status error, an email with an HTTP error.
Fails(t) == Ends(t, IF t \in Syncs THEN "release" ELSE "over")

\* _jobs[j].status is queued or processing.
Open(j) == run[j].at \in {"queued", "read", "root", "find", "make", "doc", "audio", "save", "prune"}

-----------------------------------------------------------------------------
(* The recording, before it belongs to a stored meeting.                   *)

\* save_staging_stream, complete.
Upload ==
  /\ post = "none" /\ post' = "staged"
  /\ UNCHANGED <<kept, row, files, inflight, run, del, wipe, faults>>

\* cleanup_staging: the upload was left unused for a day.
CleanupStaging ==
  /\ post = "staged" /\ post' = "expired"
  /\ UNCHANGED <<kept, row, files, inflight, run, del, wipe, faults>>

\* Variant: an audioRef is recorded although the upload has expired.
BindExpired ==
  /\ \/ post = "staged" /\ post' = "bound" /\ kept' = TRUE
     \/ post = "expired" /\ post' = "bound" /\ UNCHANGED kept
  /\ UNCHANGED <<row, files, inflight, run, del, wipe, faults>>

\* create_meeting, up to bind_staging.
Bind ==
  /\ \/ post = "staged" /\ post' = "bound" /\ kept' = TRUE
     \/ post = "expired" /\ post' = "unbound" /\ UNCHANGED kept
  /\ UNCHANGED <<row, files, inflight, run, del, wipe, faults>>

\* store.create.
Save ==
  /\ post \in {"bound", "unbound"} /\ post' = "saved"
  /\ row' = [stored |-> TRUE, recorded |-> (post = "bound"), ref |-> NoRef]
  /\ UNCHANGED <<kept, files, inflight, run, del, wipe, faults>>

-----------------------------------------------------------------------------
(* Starting threads.                                                       *)

\* _start_drive_sync: an open job of the meeting answers for a new one.
Deduped == inflight # Nil /\ Open(inflight)

\* Otherwise the next job takes the entry.
Takes(j) ==
  /\ ~Deduped
  /\ At(j, "idle") /\ \A k \in 1..(j-1) : ~At(k, "idle")
  /\ inflight' = j

\* rt is the root folder in the credential that the caller holds.
Queued(rt) == [Thread("queued") EXCEPT !.root = rt]

\* drive_sync.
RequestSync(j) ==
  /\ row.stored
  /\ Takes(j)
  /\ run' = [run EXCEPT ![j] = Queued(root)]
  /\ UNCHANGED <<post, kept, row, files, del, wipe, faults>>

\* send_meeting_email, up to _ensure_drive_doc: a document that is on record is used.
SendEmail(e) ==
  /\ At(e, "idle") /\ row.stored
  /\ run' = [run EXCEPT ![e] = [at |-> IF row.ref.doc = Nil THEN "root" ELSE "export",
                                recorded |-> row.recorded, root |-> root, ref |-> row.ref]]
  /\ UNCHANGED <<post, kept, row, files, inflight, del, wipe, faults>>

-----------------------------------------------------------------------------
(* The steps of a sync job and, where they are the same code, of an email. *)

\* with _drive_semaphore: the job holds a slot until it has released inflight.
Begin(j) ==
  /\ At(j, "queued")
  /\ Cardinality({k \in Syncs : run[k].at \notin {"idle", "queued", "over"}}) < DriveSlots
  /\ Goto(j, "read")
  /\ UNCHANGED <<post, kept, row, files, inflight, del, wipe, faults>>

Read(j) ==
  /\ At(j, "read")
  /\ \/ ~row.stored /\ Fails(j)
     \/ row.stored /\ run' = [run EXCEPT ![j].at = "root", ![j].recorded = row.recorded,
                                                ![j].ref = row.ref]
  /\ UNCHANGED <<post, kept, row, files, inflight, del, wipe, faults>>

\* ensure_root_folder, set_google_root_folder.
EnsureRoot(t) ==
  /\ At(t, "root")
  /\ \/ Live(run[t].root) /\ Goto(t, "find") /\ UNCHANGED files
     \/ /\ ~Live(run[t].root)
        /\ Create("root", Nil) /\ root' = made + 1
        /\ run' = [run EXCEPT ![t].at = "find", ![t].root = made + 1]
  /\ UNCHANGED <<post, kept, row, inflight, del, wipe, faults>>

\* Variant: any folder under the root will do.
FindAnyFolder(t) ==
  /\ At(t, "find")
  /\ LET named == {f \in drive : f.kind \notin {"root", "doc", "audio"} /\ f.parent = run[t].root} IN
       \/ Live(run[t].ref.folder) /\ Goto(t, "doc")
       \/ /\ ~Live(run[t].ref.folder)
          /\ \E f \in named : run' = [run EXCEPT ![t].at = "doc", ![t].ref.folder = f.id]
       \/ ~Live(run[t].ref.folder) /\ named = {} /\ Goto(t, "make")
  /\ UNCHANGED <<post, kept, row, files, inflight, del, wipe, faults>>

\* ensure_subfolder: the folder on record, else one of that name under the root.
FindFolder(t) ==
  /\ At(t, "find")
  /\ LET named == {f \in drive : f.kind = Title /\ f.parent = run[t].root} IN
       \/ Live(run[t].ref.folder) /\ Goto(t, "doc")
       \/ /\ ~Live(run[t].ref.folder)
          /\ \E f \in named : run' = [run EXCEPT ![t].at = "doc", ![t].ref.folder = f.id]
       \/ ~Live(run[t].ref.folder) /\ named = {} /\ Goto(t, "make")
  /\ UNCHANGED <<post, kept, row, files, inflight, del, wipe, faults>>

MakeFolder(t) ==
  /\ At(t, "make")
  /\ Create(Title, run[t].root)
  /\ run' = [run EXCEPT ![t].at = "doc", ![t].ref.folder = made + 1]
  /\ UNCHANGED <<post, kept, row, root, inflight, del, wipe, faults>>

\* The document to write over: a job passes the one on record, an email none.
Previous(t) == IF t \in Syncs THEN run[t].ref.doc ELSE Nil

\* upsert_doc: the document on record is updated, a new one needs its folder.
UpsertDoc(t) ==
  /\ \/ Live(Previous(t)) /\ Goto(t, "audio") /\ UNCHANGED files
     \/ /\ ~Live(Previous(t)) /\ Live(run[t].ref.folder)
        /\ Create("doc", run[t].ref.folder) /\ UNCHANGED root
        /\ run' = [run EXCEPT ![t].at = "audio", ![t].ref.doc = made + 1]
     \/ ~Live(Previous(t)) /\ ~Live(run[t].ref.folder) /\ Fails(t) /\ UNCHANGED files

\* apply_template: a copy of the template takes the place of the document on record.
ApplyTemplate(t) ==
  /\ Live(run[t].ref.folder)
  /\ made' = made + 1
  /\ drive' = {f \in drive : f.id # Previous(t)}
                \cup {[id |-> made + 1, kind |-> "doc", parent |-> run[t].ref.folder]}
  /\ run' = [run EXCEPT ![t].at = "audio", ![t].ref.doc = made + 1]
  /\ UNCHANGED root

\* _build_meeting_doc: a failing template falls back to upsert_doc.
BuildDoc(t) ==
  /\ At(t, "doc")
  /\ UpsertDoc(t) \/ ApplyTemplate(t)
  /\ UNCHANGED <<post, kept, row, inflight, del, wipe, faults>>

\* upsert_audio: no upload if the row has no recording, its file is gone, or
\* Drive has it.  An email leaves the recording to the sync.
UploadAudio(t) ==
  /\ At(t, "audio")
  /\ LET wanted == t \in Syncs /\ run[t].recorded /\ kept /\ run[t].ref.audio = Nil IN
       \/ ~wanted /\ Goto(t, "save") /\ UNCHANGED files
       \/ /\ wanted /\ Live(run[t].ref.folder)
          /\ Create("audio", run[t].ref.folder) /\ UNCHANGED root
          /\ run' = [run EXCEPT ![t].at = "save", ![t].ref.audio = made + 1]
       \/ wanted /\ ~Live(run[t].ref.folder) /\ Fails(t) /\ UNCHANGED files
  /\ UNCHANGED <<post, kept, row, inflight, del, wipe, faults>>

\* Variant: the recording that was uploaded is left out.
SaveRefDocOnly(t) ==
  /\ At(t, "save")
  /\ row' = IF row.stored THEN [row EXCEPT !.ref = [run[t].ref EXCEPT !.audio = row.ref.audio]] ELSE row
  /\ Goto(t, IF t \in Syncs THEN "prune" ELSE "export")
  /\ UNCHANGED <<post, kept, files, inflight, del, wipe, faults>>

\* update_if_match without a precondition: nothing happens to a meeting that is gone.
SaveRef(t) ==
  /\ At(t, "save")
  /\ row' = IF row.stored THEN [row EXCEPT !.ref = run[t].ref] ELSE row
  /\ Goto(t, IF t \in Syncs THEN "prune" ELSE "export")
  /\ UNCHANGED <<post, kept, files, inflight, del, wipe, faults>>

\* delete_meeting_audio after the upload; the job is done.
PruneLocal(j) ==
  /\ At(j, "prune")
  /\ kept' = (kept /\ run[j].ref.audio = Nil)
  /\ Ends(j, "release")
  /\ UNCHANGED <<post, row, files, inflight, del, wipe, faults>>

\* Variant: a job that ends removes whatever entry there is.
ReleaseAny(j) ==
  /\ At(j, "release")
  /\ inflight' = Nil
  /\ Ends(j, "over")
  /\ UNCHANGED <<post, kept, row, files, del, wipe, faults>>

\* finally: the entry is removed by the job it names; the slot is free.
Release(j) ==
  /\ At(j, "release")
  /\ inflight' = IF inflight = j THEN Nil ELSE inflight
  /\ Ends(j, "over")
  /\ UNCHANGED <<post, kept, row, files, del, wipe, faults>>

\* export_doc and send_message.
ExportAndSend(e) ==
  /\ At(e, "export")
  /\ \/ Live(run[e].ref.doc) /\ Goto(e, "sent")
     \/ ~Live(run[e].ref.doc) /\ Fails(e)
  /\ UNCHANGED <<post, kept, row, files, inflight, del, wipe, faults>>

\* The mail is sent: _start_drive_sync with the credential read before it.
SyncAfterEmail(e) ==
  /\ At(e, "sent")
  /\ \/ Deduped /\ Ends(e, "over") /\ UNCHANGED inflight
     \/ \E j \in Syncs :
          Takes(j) /\ run' = [run EXCEPT ![e] = Thread("over"), ![j] = Queued(run[e].root)]
  /\ UNCHANGED <<post, kept, row, files, del, wipe, faults>>

\* A call of Google fails: expired token, network, quota.
Fault(t) ==
  /\ run[t].at \in {"read", "root", "find", "make", "doc", "audio", "export"}
  /\ faults < MaxFaults /\ faults' = faults + 1
  /\ Fails(t)
  /\ UNCHANGED <<post, kept, row, files, inflight, del, wipe>>

-----------------------------------------------------------------------------
(* delete_meeting.                                                         *)

\* The meeting is read, and its gdriveRef handed to _delete_google_assets_async.
AskDelete ==
  /\ del = "none" /\ row.stored
  /\ del' = "asked"
  /\ wipe' = IF AssetsToo THEN row.ref ELSE NoRef
  /\ UNCHANGED <<post, kept, row, files, inflight, run, faults>>

DeleteRow ==
  /\ del = "asked" /\ del' = "gone"
  /\ row' = NoRow
  /\ UNCHANGED <<post, kept, files, inflight, run, wipe, faults>>

\* delete_meeting_audio.
DeleteLocal ==
  /\ del = "gone" /\ del' = "over"
  /\ kept' = FALSE
  /\ UNCHANGED <<post, row, files, inflight, run, wipe, faults>>

\* The folder with its files, or the single files of a meeting without its own.
WipeDrive ==
  /\ wipe # NoRef /\ wipe' = NoRef
  /\ drive' = IF wipe.folder \notin {Nil, root}
              THEN {f \in drive : wipe.folder \notin {f.id, f.parent}}
              ELSE {f \in drive : f.id \notin {wipe.doc, wipe.audio}}
  /\ UNCHANGED <<post, kept, row, root, made, inflight, run, del, faults>>

\* The process is stopped and started again; files, store and Drive remain.
Restart ==
  /\ faults < MaxFaults /\ faults' = faults + 1
  /\ post' = IF post \in {"bound", "unbound"} THEN "lost" ELSE post
  /\ del' = IF del = "none" THEN "none" ELSE "over"
  /\ wipe' = NoRef
  /\ inflight' = Nil
  /\ run' = [t \in Threads |-> Thread(IF At(t, "idle") THEN "idle" ELSE "over")]
  /\ UNCHANGED <<kept, row, files>>

Step(t) ==
  \/ EnsureRoot(t) \/ FindFolder(t) \/ MakeFolder(t)
  \/ BuildDoc(t) \/ UploadAudio(t) \/ SaveRef(t)

SyncStep(j) == Begin(j) \/ Read(j) \/ Step(j) \/ PruneLocal(j) \/ Release(j)

Next ==
  \/ Upload \/ CleanupStaging \/ Bind \/ Save
  \/ \E j \in Syncs : RequestSync(j) \/ SyncStep(j)
  \/ \E e \in Emails : SendEmail(e) \/ Step(e) \/ ExportAndSend(e) \/ SyncAfterEmail(e)
  \/ \E t \in Threads : Fault(t)
  \/ AskDelete \/ DeleteRow \/ DeleteLocal \/ WipeDrive
  \/ Restart

Spec == Init /\ [][Next]_vars

\* All that happens to a meeting nobody mails, but restarts.
Unmailed ==
  \/ Upload \/ CleanupStaging \/ Bind \/ Save
  \/ \E j \in Syncs : RequestSync(j) \/ SyncStep(j) \/ Fault(j)
  \/ AskDelete \/ DeleteRow \/ DeleteLocal \/ WipeDrive

\* get_meeting_audio: the file of the meeting, else the Drive file on record.
Streams == kept \/ Live(row.ref.audio)

-----------------------------------------------------------------------------
TypeOK ==
  /\ post \in {"none", "staged", "expired", "bound", "unbound", "saved", "lost"}
  /\ kept \in BOOLEAN /\ row \in Row /\ (row.stored \/ row = NoRow)
  /\ root \in Nat /\ made \in Nat /\ drive \subseteq File
  /\ inflight \in Syncs \cup {Nil} /\ run \in [Threads -> Work]
  /\ del \in {"none", "asked", "gone", "over"} /\ wipe \in Ref
  /\ faults \in 0..MaxFaults

\* "중복 폴더/Doc 레이스 방지" (_start_drive_sync): a queued or processing job is
\* the one that answers the next request, so a meeting never has two, also
\* while a finished job has yet to remove its entry.
OneLiveSync == \A j \in Syncs : Open(j) => inflight = j

\* The local recording is dropped only when Drive has it: unless its deletion
\* was asked for, a meeting with an audioRef has its recording in one place at
\* least, whatever fails and whenever the process stops.
RecordingKept ==
  row.recorded /\ del = "none" => kept \/ \E f \in drive : f.kind = "audio"

\* "audioRef 메타는 meeting.data 에 남아 재생 프록시가 Drive 에서 스트리밍한다"
\* (_run_drive_sync_job): the recording of a stored meeting can be played, from
\* its file or from the Drive file on record.
Playable ==
  row.recorded /\ del = "none" => Streams

=============================================================================
