---------------------------- MODULE DriveSyncProofs ----------------------------
(***************************************************************************)
(* Theorems about the recording and its copy on Drive, for any number of   *)
(* sync jobs, emails, slots and faults, and either value of AssetsToo: one *)
(* meeting (DriveSync), the player beside its sync (Playback), and two     *)
(* meetings on one Drive (Twins).                                          *)
(***************************************************************************)
EXTENDS Twins, TLAPS

Steps == {"idle", "queued", "read", "root", "find", "make", "doc", "audio", "save",
          "prune", "release", "export", "sent", "over"}

LEMMA ThreadType ==
  ASSUME NEW s \in Steps
  PROVE  Thread(s) \in Work /\ \A r \in Nat : [Thread(s) EXCEPT !.root = r] \in Work
  BY DEF Thread, Work, Ref, NoRef, Nil, Steps

LEMMA WorkFields ==
  ASSUME NEW w \in Work
  PROVE  /\ w.at \in Steps /\ w.recorded \in BOOLEAN /\ w.root \in Nat /\ w.ref \in Ref
         /\ w.ref.doc \in Nat /\ w.ref.folder \in Nat /\ w.ref.audio \in Nat
<1>1. w.at \in Steps /\ w.recorded \in BOOLEAN /\ w.root \in Nat /\ w.ref \in Ref
  BY DEF Work, Steps
<1> QED BY <1>1 DEF Ref

\* A thread's part of a step: one id is put into its gdriveRef.
LEMMA AtUpdate ==
  ASSUME NEW w \in Work, NEW s \in Steps, NEW n \in Nat
  PROVE  [w EXCEPT !.at = s] \in Work /\ [w EXCEPT !.at = s, !.root = n] \in Work
  BY DEF Work, Steps

LEMMA RefUpdate ==
  ASSUME NEW w \in Work, NEW s \in Steps, NEW n \in Nat
  PROVE  /\ [w EXCEPT !.at = s, !.ref.doc = n] \in Work
         /\ [w EXCEPT !.at = s, !.ref.audio = n] \in Work
         /\ [w EXCEPT !.at = s, !.ref.folder = n] \in Work
<1>1. w.ref \in Ref
  BY WorkFields
<1>2. /\ [w.ref EXCEPT !.doc = n] \in Ref
      /\ [w.ref EXCEPT !.audio = n] \in Ref
      /\ [w.ref EXCEPT !.folder = n] \in Ref
  BY <1>1 DEF Ref
<1> QED BY <1>2 DEF Work, Steps

LEMMA NoRowType == NoRow \in Row /\ NoRef \in Ref
  BY DEF NoRow, NoRef, Row, Ref, Nil

LEMMA NewFileType ==
  ASSUME made \in Nat, NEW k \in {"root", Title, "doc", "audio"}, NEW p \in Nat
  PROVE  [id |-> made + 1, kind |-> k, parent |-> p] \in File
  BY DEF File

\* Types are inductive by themselves.
LEMMA TypeStep == TypeOK /\ [Next]_vars => TypeOK'
<1> SUFFICES ASSUME TypeOK, [Next]_vars PROVE TypeOK'
  OBVIOUS
<1> USE DEF TypeOK
<1>a. \A t \in Threads : run[t] \in Work /\ run[t].at \in Steps /\ run[t].recorded \in BOOLEAN
                         /\ run[t].root \in Nat /\ run[t].ref \in Ref
                         /\ run[t].ref.doc \in Nat /\ run[t].ref.folder \in Nat
                         /\ run[t].ref.audio \in Nat
  BY WorkFields
<1>b. row.ref \in Ref /\ row.recorded \in BOOLEAN /\ row.stored \in BOOLEAN
      /\ row.ref.doc \in Nat
  BY DEF Row, Ref
<1>c. \A j \in Syncs : j \in Threads
  BY DEF Threads
<1>d. \A e \in Emails : e \in Threads
  BY DEF Threads
<1>e. ASSUME NEW t \in Threads, NEW s \in Steps
      PROVE  (Goto(t, s) \/ Ends(t, s)) => run' \in [Threads -> Work]
  <2>1. CASE Goto(t, s)
    BY <2>1, AtUpdate DEF Goto
  <2>2. CASE Ends(t, s)
    BY <2>2, ThreadType DEF Ends
  <2> QED BY <2>1, <2>2
<1>f. \A t \in Threads : Fails(t) => run' \in [Threads -> Work]
  BY <1>e DEF Steps, Fails
<1>g. Nil \in Nat /\ made + 1 \in Nat
  BY DEF Nil
<1>1. CASE Upload \/ CleanupStaging \/ Bind
  BY <1>1 DEF Upload, CleanupStaging, Bind, files
<1>2. CASE Save
  BY <1>2, NoRowType DEF Save, Row, NoRow, files
<1>3. ASSUME NEW j \in Syncs, RequestSync(j) PROVE TypeOK'
  BY <1>3, <1>c, ThreadType DEF Steps, RequestSync, Takes, Queued, files
<1>4. ASSUME NEW j \in Syncs, Begin(j) PROVE TypeOK'
  BY <1>4, <1>c, <1>e DEF Steps, Begin, files
<1>5. ASSUME NEW j \in Syncs, Read(j) PROVE TypeOK'
  <2>1. CASE Fails(j)
    BY <2>1, <1>5, <1>c, <1>f DEF Steps, Read, files
  <2>2. CASE run' = [run EXCEPT ![j].at = "root", ![j].recorded = row.recorded, ![j].ref = row.ref]
    <3>1. run' \in [Threads -> Work]
      BY <2>2, <1>a, <1>b, <1>c DEF Work
    <3> QED BY <3>1, <1>5 DEF Read, files
  <2> QED BY <2>1, <2>2, <1>5 DEF Read
<1>6. ASSUME NEW t \in Threads, Step(t) PROVE TypeOK'
  <2>1. CASE EnsureRoot(t)
    <3>1. CASE Goto(t, "find") /\ UNCHANGED files
      BY <3>1, <2>1, <1>e DEF Steps, EnsureRoot, files
    <3>2. CASE /\ Create("root", Nil) /\ root' = made + 1
               /\ run' = [run EXCEPT ![t].at = "find", ![t].root = made + 1]
      <4>1. run' \in [Threads -> Work]
        BY <3>2, <1>g, AtUpdate DEF Steps
      <4>2. drive' \subseteq File
        BY <3>2, <1>g, NewFileType DEF Create
      <4> QED BY <4>1, <4>2, <3>2, <2>1, <1>g DEF EnsureRoot, Create
    <3> QED BY <3>1, <3>2, <2>1 DEF EnsureRoot
  <2>2. CASE FindFolder(t)
    <3>1. CASE Goto(t, "doc") \/ Goto(t, "make")
      BY <3>1, <2>2, <1>e DEF Steps, FindFolder, files
    <3>2. ASSUME NEW f \in drive, run' = [run EXCEPT ![t].at = "doc", ![t].ref.folder = f.id]
          PROVE  TypeOK'
      <4>1. f.id \in Nat
        BY DEF File
      <4>2. run' \in [Threads -> Work]
        BY <3>2, <4>1, <1>a, RefUpdate DEF Steps
      <4> QED BY <4>2, <2>2 DEF FindFolder, files
    <3> QED BY <3>1, <3>2, <2>2 DEF FindFolder
  <2>3. CASE MakeFolder(t)
    <3>1. run' \in [Threads -> Work]
      BY <2>3, <1>a, <1>g, RefUpdate DEF MakeFolder, Steps
    <3>2. drive' \subseteq File
      BY <2>3, <1>a, NewFileType DEF MakeFolder, Create
    <3> QED BY <3>1, <3>2, <2>3, <1>g DEF MakeFolder, Create
  <2>4. CASE BuildDoc(t)
    <3>1. CASE Goto(t, "audio") /\ UNCHANGED files
      BY <3>1, <2>4, <1>e DEF Steps, BuildDoc, files
    <3>2. CASE Fails(t) /\ UNCHANGED files
      BY <3>2, <2>4, <1>f DEF Steps, BuildDoc, files
    <3>3. CASE /\ run' = [run EXCEPT ![t].at = "audio", ![t].ref.doc = made + 1]
               /\ UNCHANGED root /\ made' = made + 1
               /\ drive' \subseteq drive \cup {[id |-> made + 1, kind |-> "doc", parent |-> run[t].ref.folder]}
      <4>1. run' \in [Threads -> Work]
        BY <3>3, <1>a, <1>g, RefUpdate DEF Steps
      <4>2. drive' \subseteq File
        BY <3>3, <1>a, NewFileType
      <4> QED BY <4>1, <4>2, <3>3, <2>4, <1>g DEF BuildDoc
    <3>4. CASE ApplyTemplate(t)
      BY <3>3, <3>4 DEF ApplyTemplate
    <3> QED BY <3>1, <3>2, <3>3, <3>4, <2>4 DEF BuildDoc, UpsertDoc, Create
  <2>5. CASE UploadAudio(t)
    <3>1. CASE Goto(t, "save") /\ UNCHANGED files
      BY <3>1, <2>5, <1>e DEF Steps, UploadAudio, files
    <3>2. CASE Fails(t) /\ UNCHANGED files
      BY <3>2, <2>5, <1>f DEF Steps, UploadAudio, files
    <3>3. CASE /\ Create("audio", run[t].ref.folder) /\ UNCHANGED root
               /\ run' = [run EXCEPT ![t].at = "save", ![t].ref.audio = made + 1]
      <4>1. run' \in [Threads -> Work]
        BY <3>3, <1>a, <1>g, RefUpdate DEF Steps
      <4>2. drive' \subseteq File
        BY <3>3, <1>a, NewFileType DEF Create
      <4> QED BY <4>1, <4>2, <3>3, <2>5, <1>g DEF UploadAudio, Create
    <3> QED BY <3>1, <3>2, <3>3, <2>5 DEF UploadAudio
  <2>6. CASE SaveRef(t)
    <3>1. row' \in Row /\ (row'.stored \/ row' = NoRow)
      BY <2>6, <1>a DEF SaveRef, Row
    <3>2. run' \in [Threads -> Work]
      BY <2>6, <1>e DEF Steps, SaveRef
    <3> QED BY <3>1, <3>2, <2>6 DEF SaveRef, files
  <2> QED BY <1>6, <2>1, <2>2, <2>3, <2>4, <2>5, <2>6 DEF Step
<1>7. ASSUME NEW j \in Syncs, PruneLocal(j) PROVE TypeOK'
  BY <1>7, <1>c, <1>e DEF Steps, PruneLocal, files
<1>8. ASSUME NEW j \in Syncs, Release(j) PROVE TypeOK'
  BY <1>8, <1>c, <1>e DEF Steps, Release, files
<1>9. ASSUME NEW e \in Emails, SendEmail(e) PROVE TypeOK'
  BY <1>9, <1>b, <1>d DEF SendEmail, Work, files
<1>10. ASSUME NEW e \in Emails, ExportAndSend(e) PROVE TypeOK'
  BY <1>10, <1>d, <1>e, <1>f DEF Steps, ExportAndSend, files
<1>11. ASSUME NEW e \in Emails, SyncAfterEmail(e) PROVE TypeOK'
  <2>1. CASE Deduped /\ Ends(e, "over") /\ UNCHANGED inflight
    BY <2>1, <1>11, <1>d, <1>e DEF Steps, SyncAfterEmail, files
  <2>2. ASSUME NEW j \in Syncs, Takes(j),
               run' = [run EXCEPT ![e] = Thread("over"), ![j] = Queued(run[e].root)]
        PROVE  TypeOK'
    <3>1. Thread("over") \in Work /\ Queued(run[e].root) \in Work
      BY <1>a, <1>d, ThreadType DEF Steps, Queued
    <3>2. run' \in [Threads -> Work]
      BY <3>1, <2>2, <1>c, <1>d
    <3> QED BY <3>2, <2>2, <1>11 DEF SyncAfterEmail, Takes, files
  <2> QED BY <2>1, <2>2, <1>11 DEF SyncAfterEmail
<1>12. ASSUME NEW t \in Threads, Fault(t) PROVE TypeOK'
  BY <1>12, <1>f, BoundsAssumption DEF Fault, files
<1>13. CASE AskDelete
  BY <1>13, <1>b, NoRowType DEF AskDelete, files
<1>14. CASE DeleteRow \/ DeleteLocal
  BY <1>14, NoRowType DEF DeleteRow, DeleteLocal, files
<1>15. CASE WipeDrive
  BY <1>15, NoRowType DEF WipeDrive
<1>16. CASE Restart
  <2>1. run' \in [Threads -> Work]
    BY <1>16, ThreadType DEF Restart, Steps
  <2> QED BY <2>1, <1>16, NoRowType, BoundsAssumption DEF Restart, files
<1>17. CASE UNCHANGED vars
  BY <1>17 DEF vars, files
<1> QED
  BY <1>1, <1>2, <1>3, <1>4, <1>5, <1>6, <1>7, <1>8, <1>9, <1>10, <1>11, <1>12, <1>13, <1>14,
     <1>15, <1>16, <1>17, <1>c, <1>d
  DEF Next, SyncStep

LEMMA TypeInit == Init => TypeOK
<1> SUFFICES ASSUME Init PROVE TypeOK
  OBVIOUS
<1>1. run \in [Threads -> Work]
  <2>1. Thread("idle") \in Work
    BY ThreadType DEF Steps
  <2> QED BY <2>1 DEF Init
<1>2. row \in Row /\ wipe \in Ref
  BY NoRowType DEF Init
<1>3. root \in Nat /\ made \in Nat /\ drive \subseteq File /\ inflight \in Syncs \cup {Nil}
      /\ faults \in 0..MaxFaults
  BY BoundsAssumption DEF Init, Nil
<1>4. kept \in BOOLEAN /\ (row.stored \/ row = NoRow)
  BY DEF Init
<1>5. post \in {"none", "staged", "expired", "bound", "unbound", "saved", "lost"}
      /\ del \in {"none", "asked", "gone", "over"}
  BY DEF Init
<1> QED BY <1>1, <1>2, <1>3, <1>4, <1>5 DEF TypeOK

\* The store, the Drive files, the job table's entry and every thread's work
\* keep their types in every reachable state.
THEOREM DriveTypeCorrect == Spec => []TypeOK
  BY TypeInit, TypeStep, PTL DEF Spec

-----------------------------------------------------------------------------
(* One live job.                                                           *)

\* A thread that changes itself only, and was running before.
Moves(t) ==
  \E w : run' = [run EXCEPT ![t] = w]

LEMMA StepMoves ==
  ASSUME NEW t, Step(t)
  PROVE  Moves(t) /\ run[t].at \in {"root", "find", "make", "doc", "audio", "save"}
         /\ inflight' = inflight
  BY DEF Step, Moves, EnsureRoot, FindFolder, MakeFolder, BuildDoc, UpsertDoc, ApplyTemplate,
         UploadAudio, SaveRef, At, Goto, Ends, Fails

\* No job is opened and the entry stays.
LEMMA EntryStays ==
  ASSUME TypeOK, OneLiveSync, inflight' = inflight, NEW t \in Threads, Moves(t),
         t \in Syncs /\ Open(t)' => Open(t)
  PROVE  OneLiveSync'
<1>1. ASSUME NEW j \in Syncs, Open(j)' PROVE Open(j)
  BY <1>1 DEF Moves, Open, TypeOK, Threads
<1> QED BY <1>1 DEF OneLiveSync

\* The entry is taken only when it names no open job, which by the invariant
\* means that there is none.
LEMMA NoneOpen == OneLiveSync /\ ~Deduped => \A j \in Syncs : ~Open(j)
  BY DEF OneLiveSync, Deduped, Syncs, Nil

LEMMA EntryStep == TypeOK /\ OneLiveSync /\ [Next]_vars => OneLiveSync'
<1> SUFFICES ASSUME TypeOK, OneLiveSync, [Next]_vars PROVE OneLiveSync'
  OBVIOUS
<1>c. Syncs \subseteq Threads /\ Emails \subseteq Threads /\ \A e \in Emails : e \notin Syncs
  BY EmailsAssumption, BoundsAssumption DEF Threads, Syncs
<1>r. run \in [Threads -> Work]
  BY DEF TypeOK
<1>1. ASSUME UNCHANGED <<inflight, run>> PROVE OneLiveSync'
  BY <1>1 DEF OneLiveSync, Open
<1>2. CASE Upload \/ CleanupStaging \/ Bind \/ Save \/ AskDelete \/ DeleteRow \/ DeleteLocal
           \/ WipeDrive \/ UNCHANGED vars
  BY <1>1, <1>2 DEF Upload, CleanupStaging, Bind, Save, AskDelete, DeleteRow, DeleteLocal, WipeDrive,
     vars
<1>3. ASSUME NEW j \in Syncs, RequestSync(j) PROVE OneLiveSync'
  <2>1. \A k \in Syncs : ~Open(k)
    BY <1>3, NoneOpen DEF RequestSync, Takes
  <2>2. \A k \in Syncs : k # j => ~Open(k)'
    BY <2>1, <1>3, <1>c, <1>r DEF RequestSync, Open
  <2> QED BY <2>2, <1>3 DEF RequestSync, Takes, OneLiveSync
<1>4. ASSUME NEW j \in Syncs, Begin(j) \/ Read(j) \/ PruneLocal(j) PROVE OneLiveSync'
  <2>1. Moves(j) /\ Open(j) /\ inflight' = inflight
    BY <1>4 DEF Begin, Read, PruneLocal, Moves, Open, At, Goto, Ends, Fails
  <2> QED BY <2>1, <1>c, EntryStays
<1>5. ASSUME NEW t \in Threads, Step(t) PROVE OneLiveSync'
  BY <1>5, StepMoves, EntryStays DEF Open
<1>6. ASSUME NEW j \in Syncs, Release(j) PROVE OneLiveSync'
  <2>1. ASSUME NEW k \in Syncs, Open(k)' PROVE Open(k) /\ k # j
    BY <2>1, <1>6, <1>c, <1>r DEF Release, Ends, Thread, Open
  <2> QED BY <2>1, <1>6 DEF OneLiveSync, Release
<1>7. ASSUME NEW e \in Emails, SendEmail(e) \/ ExportAndSend(e) PROVE OneLiveSync'
  <2>1. Moves(e) /\ inflight' = inflight
    BY <1>7 DEF SendEmail, ExportAndSend, Moves, Goto, Ends, Fails
  <2> QED BY <2>1, <1>c, EntryStays
<1>8. ASSUME NEW e \in Emails, SyncAfterEmail(e) PROVE OneLiveSync'
  <2>1. CASE Ends(e, "over") /\ UNCHANGED inflight
    BY <2>1, <1>c, EntryStays DEF Ends, Moves
  <2>2. ASSUME NEW j \in Syncs, Takes(j),
               run' = [run EXCEPT ![e] = Thread("over"), ![j] = Queued(run[e].root)]
        PROVE  OneLiveSync'
    <3>1. \A k \in Syncs : ~Open(k)
      BY <2>2, NoneOpen DEF Takes
    <3>2. \A k \in Syncs : k # j => ~Open(k)'
      BY <3>1, <2>2, <1>c, <1>r DEF Open
    <3> QED BY <3>2, <2>2 DEF Takes, OneLiveSync
  <2> QED BY <2>1, <2>2, <1>8 DEF SyncAfterEmail
<1>9. ASSUME NEW t \in Threads, Fault(t) PROVE OneLiveSync'
  <2>1. Moves(t) /\ inflight' = inflight
    BY <1>9 DEF Fault, Fails, Ends, Moves
  <2>2. ~Open(t)'
    BY <1>9, <1>r DEF Fault, Fails, Ends, Thread, Open
  <2> QED BY <2>1, <2>2, EntryStays
<1>10. CASE Restart
  <2>1. \A j \in Syncs : ~Open(j)'
    BY <1>10, <1>c DEF Restart, Open, Thread
  <2> QED BY <2>1 DEF OneLiveSync
<1> QED
  BY <1>2, <1>3, <1>4, <1>5, <1>6, <1>7, <1>8, <1>9, <1>10, <1>c DEF Next, SyncStep

LEMMA EntryInit == Init => OneLiveSync
  BY DEF Init, OneLiveSync, Open, Thread, Threads

\* A meeting never has two open sync jobs, for any number of requests and for
\* any interleaving of a finished job's release with the next request.
THEOREM OneJobPerMeeting == Spec => []OneLiveSync
<1>1. TypeOK /\ OneLiveSync /\ [Next]_vars => (TypeOK /\ OneLiveSync)'
  BY TypeStep, EntryStep
<1> QED BY <1>1, TypeInit, EntryInit, PTL DEF Spec

-----------------------------------------------------------------------------
(* The recording is kept.                                                  *)

HasAudio == \E f \in drive : f.kind = "audio"

\* An id under which Drive has a document, if anything.
DocId(n) == n <= made /\ \A f \in drive : f.id = n => f.kind = "doc"

\* What is on record as a document is one, so replacing it deletes no recording.
DocInv ==
  /\ \A f \in drive : f.id <= made
  /\ DocId(row.ref.doc)
  /\ \A t \in Threads : DocId(run[t].ref.doc)

\* Until the meeting is saved nobody can have read it.
UnsavedInv ==
  post # "saved" =>
    /\ row = NoRow
    /\ \A t \in Threads : run[t].at \in {"idle", "over"} /\ run[t].ref = NoRef

\* An audio id that anyone holds comes from an upload.
CustodyInv ==
  del = "none" =>
    /\ wipe = NoRef
    /\ row.ref.audio # Nil => HasAudio
    /\ \A t \in Threads : run[t].ref.audio # Nil => HasAudio
    /\ post = "bound" => kept
    /\ row.recorded => kept \/ HasAudio

DriveInv == TypeOK /\ DocInv /\ UnsavedInv /\ CustodyInv

-----------------------------------------------------------------------------
(* What a step does to Drive, and where the ids it writes come from.       *)

\* New files have new ids, and no recording is deleted.
DriveKept ==
  /\ made' \in Nat /\ made <= made'
  /\ \A f \in drive' : f \in drive \/ (made < f.id /\ f.id <= made')
  /\ \A f \in drive : f.kind = "audio" => f \in drive'

DriveUsed ==
  /\ \A t \in Threads :
       /\ run[t].ref.doc' \in {run[t].ref.doc, row.ref.doc, Nil} \/ DocId(run[t].ref.doc)'
       /\ run[t].ref.audio' \in {run[t].ref.audio, row.ref.audio, Nil} \/ HasAudio'
  /\ \/ row.ref' \in {row.ref, NoRef}
     \/ \E t \in Threads : row.ref' = run[t].ref

Sources == DriveKept /\ DriveUsed

LEMMA CreateKeeps ==
  ASSUME TypeOK, DocInv, NEW k \in {"root", Title, "doc", "audio"}, NEW p \in Nat, Create(k, p)
  PROVE  DriveKept /\ (k = "doc" => DocId(made)') /\ (k = "audio" => HasAudio')
<1>1. made \in Nat /\ \A f \in drive : f.id \in Nat /\ f.id <= made
  BY DEF TypeOK, DocInv, File
<1>2. [id |-> made + 1, kind |-> k, parent |-> p] \in drive'
  BY DEF Create
<1>3. drive' = drive \cup {[id |-> made + 1, kind |-> k, parent |-> p]} /\ made' = made + 1
  BY DEF Create
<1>4. \A f \in drive' : f \in drive \/ (f.id = made + 1 /\ f.kind = k)
  BY <1>3
<1>5. DriveKept
  BY <1>1, <1>3, <1>4 DEF DriveKept
<1>6. k = "doc" => DocId(made)'
  <2>1. \A f \in drive' : f.id = made' => f.kind = k
    BY <1>1, <1>3, <1>4
  <2> QED BY <2>1, <1>1, <1>3 DEF DocId
<1>7. k = "audio" => HasAudio'
  BY <1>2 DEF HasAudio
<1> QED BY <1>5, <1>6, <1>7

LEMMA SameDrive == TypeOK /\ UNCHANGED <<drive, made>> => DriveKept
  BY DEF TypeOK, DriveKept

\* A thread whose gdriveRef is as it was, the row's, or empty.
LEMMA PlainMove ==
  ASSUME TypeOK, NEW t \in Threads, NEW w, run' = [run EXCEPT ![t] = w],
         w.ref \in {run[t].ref, row.ref, NoRef}, row' = row, UNCHANGED <<drive, made>>
  PROVE  Sources
<1>1. \A u \in Threads : run'[u].ref \in {run[u].ref, row.ref, NoRef}
  BY DEF TypeOK
<1>2. DriveUsed
  BY <1>1 DEF DriveUsed, NoRef
<1> QED BY <1>2, SameDrive DEF Sources

LEMMA StepSources ==
  ASSUME TypeOK, DocInv, NEW t \in Threads, Step(t)
  PROVE  Sources
<1> DEFINE Id == made + 1
<1>r. run \in [Threads -> Work] /\ run[t] \in Work
  BY DEF TypeOK
<1>n. run[t].root \in Nat /\ run[t].ref \in Ref /\ run[t].ref.folder \in Nat /\ made \in Nat
  BY <1>r, WorkFields DEF TypeOK
<1>f. ASSUME Fails(t) \/ (\E s : Goto(t, s)), row' = row, UNCHANGED files
      PROVE  Sources
  <2>1. CASE Fails(t)
    BY <2>1, <1>f, PlainMove DEF Fails, Ends, Thread, files
  <2>2. ASSUME NEW s, Goto(t, s) PROVE Sources
    <3>1. [run[t] EXCEPT !.at = s].ref = run[t].ref
      BY <1>r DEF Work
    <3>2. run' = [run EXCEPT ![t] = [run[t] EXCEPT !.at = s]]
      BY <2>2 DEF Goto
    <3> QED BY <3>1, <3>2, <1>f, PlainMove DEF files
  <2> QED BY <2>1, <2>2, <1>f
<1>1. CASE EnsureRoot(t)
  <2>1. CASE Goto(t, "find") /\ UNCHANGED files
    BY <2>1, <1>1, <1>f DEF EnsureRoot
  <2>2. CASE Create("root", Nil) /\ run' = [run EXCEPT ![t].at = "find", ![t].root = Id]
    <3>1. DriveKept
      BY <2>2, CreateKeeps DEF Nil
    <3>2. \A u \in Threads : run'[u].ref = run[u].ref
      BY <2>2, <1>r DEF Work
    <3> QED BY <3>1, <3>2, <1>1 DEF EnsureRoot, Sources, DriveUsed
  <2> QED BY <2>1, <2>2, <1>1 DEF EnsureRoot
<1>2. CASE FindFolder(t) \/ MakeFolder(t)
  <2>1. CASE (Goto(t, "doc") \/ Goto(t, "make")) /\ UNCHANGED files
    BY <2>1, <1>2, <1>f DEF FindFolder, MakeFolder
  <2>2. ASSUME NEW id, run' = [run EXCEPT ![t].at = "doc", ![t].ref.folder = id]
        PROVE  Sources
    <3>1. \A u \in Threads : run'[u].ref.doc = run[u].ref.doc /\ run'[u].ref.audio = run[u].ref.audio
      BY <2>2, <1>r, <1>n DEF Work, Ref
    <3>2. row' = row
      BY <1>2 DEF FindFolder, MakeFolder
    <3>3. DriveKept
      BY <1>2, <1>n, CreateKeeps, SameDrive DEF FindFolder, MakeFolder, files
    <3> QED BY <3>1, <3>2, <3>3 DEF Sources, DriveUsed
  <2> QED BY <2>1, <2>2, <1>2 DEF FindFolder, MakeFolder
<1>3. CASE BuildDoc(t)
  <2>1. CASE (Goto(t, "audio") \/ Fails(t)) /\ UNCHANGED files
    BY <2>1, <1>3, <1>f DEF BuildDoc
  <2>2. CASE /\ DriveKept /\ DocId(made)' /\ made' = Id
             /\ run' = [run EXCEPT ![t].at = "audio", ![t].ref.doc = Id]
    <3>1. \A u \in Threads : /\ run'[u].ref.audio = run[u].ref.audio
                             /\ run'[u].ref.doc = run[u].ref.doc \/ run'[u].ref.doc = Id
      BY <2>2, <1>r, <1>n DEF Work, Ref
    <3>2. row' = row
      BY <1>3 DEF BuildDoc
    <3>4. \A u \in Threads : DocId(run[u].ref.doc)' \/ run'[u].ref.doc = run[u].ref.doc
      BY <3>1, <2>2
    <3> QED BY <3>1, <3>2, <3>4, <2>2 DEF Sources, DriveUsed
  <2>3. CASE /\ Create("doc", run[t].ref.folder)
             /\ run' = [run EXCEPT ![t].at = "audio", ![t].ref.doc = Id]
    BY <2>2, <2>3, <1>n, CreateKeeps DEF Create
  <2>4. CASE ApplyTemplate(t)
    <3>1. \A f \in drive : f.id \in Nat /\ f.id <= made
      BY DEF TypeOK, DocInv, File
    <3>2. \A f \in drive : f.id = Previous(t) => f.kind = "doc"
      BY <3>1 DEF DocInv, DocId, Previous, Nil, TypeOK, File
    <3>3. drive' = {f \in drive : f.id # Previous(t)}
                     \cup {[id |-> made + 1, kind |-> "doc", parent |-> run[t].ref.folder]}
          /\ made' = made + 1
      BY <2>4 DEF ApplyTemplate
    <3>4. \A f \in drive' : f \in drive \/ (f.id = made + 1 /\ f.kind = "doc")
      BY <3>3
    <3>5. \A f \in drive : f.kind = "audio" => f \in drive'
      BY <3>2, <3>3
    <3>6. DriveKept
      BY <3>1, <3>3, <3>4, <3>5, <1>n DEF DriveKept
    <3>7. DocId(made)'
      <4>1. \A f \in drive' : f.id = made' => f.kind = "doc"
        BY <3>1, <3>3, <3>4, <1>n
      <4> QED BY <4>1, <3>3, <1>n DEF DocId
    <3> QED BY <2>2, <2>4, <3>3, <3>6, <3>7 DEF ApplyTemplate
  <2> QED BY <2>1, <2>3, <2>4, <1>3 DEF BuildDoc, UpsertDoc
<1>4. CASE UploadAudio(t)
  <2>1. CASE (Goto(t, "save") \/ Fails(t)) /\ UNCHANGED files
    BY <2>1, <1>4, <1>f DEF UploadAudio
  <2>2. CASE /\ Create("audio", run[t].ref.folder)
             /\ run' = [run EXCEPT ![t].at = "save", ![t].ref.audio = Id]
    <3>1. \A u \in Threads : run'[u].ref.doc = run[u].ref.doc
      BY <2>2, <1>r, <1>n DEF Work, Ref
    <3>2. DriveKept /\ HasAudio'
      BY <2>2, <1>n, CreateKeeps
    <3>3. row' = row
      BY <1>4 DEF UploadAudio
    <3> QED BY <3>1, <3>2, <3>3 DEF Sources, DriveUsed
  <2> QED BY <2>1, <2>2, <1>4 DEF UploadAudio
<1>5. CASE SaveRef(t)
  <2>1. \A u \in Threads : run'[u].ref = run[u].ref
    BY <1>5, <1>r DEF SaveRef, Goto, Work
  <2>2. row'.ref = row.ref \/ row'.ref = run[t].ref
    BY <1>5 DEF SaveRef, TypeOK, Row
  <2>3. DriveKept
    BY <1>5, SameDrive DEF SaveRef, files
  <2> QED BY <2>1, <2>2, <2>3 DEF Sources, DriveUsed
<1> QED BY <1>1, <1>2, <1>3, <1>4, <1>5 DEF Step

LEMMA AllSources ==
  ASSUME TypeOK, DocInv, [Next]_vars, ~WipeDrive
  PROVE  Sources
<1>c. Syncs \subseteq Threads /\ Emails \subseteq Threads
  BY DEF Threads
<1>r. run \in [Threads -> Work]
  BY DEF TypeOK
<1>s. UNCHANGED files => DriveKept
  BY SameDrive DEF files
<1>1. CASE Upload \/ CleanupStaging \/ Bind \/ Save \/ AskDelete \/ DeleteRow \/ DeleteLocal
           \/ UNCHANGED vars
  <2>1. run' = run /\ UNCHANGED files /\ row.ref' \in {row.ref, NoRef}
    BY <1>1 DEF Upload, CleanupStaging, Bind, Save, AskDelete, DeleteRow, DeleteLocal, vars, NoRow
  <2> QED BY <2>1, <1>s DEF Sources, DriveUsed
<1>2. ASSUME NEW j \in Syncs, RequestSync(j) PROVE Sources
  BY <1>2, <1>c, PlainMove DEF RequestSync, Queued, Thread, files
<1>3. ASSUME NEW j \in Syncs, Begin(j) \/ Read(j) \/ PruneLocal(j) \/ Release(j) PROVE Sources
  <2>1. \E w : run' = [run EXCEPT ![j] = w] /\ w.ref \in {run[j].ref, row.ref, NoRef}
    BY <1>3, <1>c, <1>r DEF Begin, Read, PruneLocal, Release, Goto, Ends, Fails, Thread, Work
  <2>2. row' = row /\ UNCHANGED files
    BY <1>3 DEF Begin, Read, PruneLocal, Release
  <2> QED BY <2>1, <2>2, <1>c, PlainMove DEF files
<1>4. ASSUME NEW e \in Emails, SendEmail(e) \/ ExportAndSend(e) PROVE Sources
  <2>1. \E w : run' = [run EXCEPT ![e] = w] /\ w.ref \in {run[e].ref, row.ref, NoRef}
    BY <1>4, <1>c, <1>r DEF SendEmail, ExportAndSend, Goto, Ends, Fails, Thread, Work
  <2>2. row' = row /\ UNCHANGED files
    BY <1>4 DEF SendEmail, ExportAndSend
  <2> QED BY <2>1, <2>2, <1>c, PlainMove DEF files
<1>5. ASSUME NEW e \in Emails, SyncAfterEmail(e) PROVE Sources
  <2>1. CASE Ends(e, "over")
    BY <2>1, <1>5, <1>c, PlainMove DEF SyncAfterEmail, Ends, Thread, files
  <2>2. ASSUME NEW j \in Syncs,
               run' = [run EXCEPT ![e] = Thread("over"), ![j] = Queued(run[e].root)]
        PROVE  Sources
    <3>1. \A u \in Threads : run'[u].ref \in {run[u].ref, NoRef}
      BY <2>2, <1>c, <1>r DEF Thread, Queued
    <3>2. row' = row /\ UNCHANGED files
      BY <1>5 DEF SyncAfterEmail
    <3> QED BY <3>1, <3>2, <1>s DEF Sources, DriveUsed, NoRef
  <2> QED BY <2>1, <2>2, <1>5 DEF SyncAfterEmail
<1>6. ASSUME NEW t \in Threads, Fault(t) PROVE Sources
  BY <1>6, PlainMove DEF Fault, Fails, Ends, Thread, files
<1>7. CASE Restart
  <2>1. \A u \in Threads : run'[u].ref = NoRef
    BY <1>7 DEF Restart, Thread
  <2> QED BY <2>1, <1>7, <1>s DEF Restart, Sources, DriveUsed, NoRef
<1> QED
  BY <1>1, <1>2, <1>3, <1>4, <1>5, <1>6, <1>7, <1>c, StepSources DEF Next, SyncStep

-----------------------------------------------------------------------------
(* The invariant.                                                          *)

LEMMA DocStep ==
  ASSUME TypeOK, DocInv, [Next]_vars PROVE DocInv'
<1>t. TypeOK'
  BY TypeStep
<1>n. /\ made \in Nat /\ made' \in Nat
      /\ \A f \in drive : f.id \in Nat \ {0} /\ f.id <= made
      /\ \A f \in drive' : f.id \in Nat \ {0}
      /\ row.ref.doc \in Nat /\ \A t \in Threads : run[t].ref.doc \in Nat
  BY <1>t, WorkFields DEF TypeOK, DocInv, File, Row, Ref
<1>1. CASE WipeDrive
  <2>1. drive' \subseteq drive /\ UNCHANGED <<made, row, run>>
    BY <1>1 DEF WipeDrive
  <2> QED BY <2>1 DEF DocInv, DocId
<1>2. CASE ~WipeDrive
  <2>1. Sources
    BY <1>2, AllSources
  <2>2. /\ made <= made'
        /\ \A f \in drive' : f \in drive \/ (made < f.id /\ f.id <= made')
    BY <2>1 DEF Sources, DriveKept
  <2>3. \A f \in drive' : f.id <= made'
    BY <2>2, <1>n
  <2>4. ASSUME NEW n \in Nat, DocId(n)
        PROVE  n <= made' /\ \A f \in drive' : f.id = n => f.kind = "doc"
    BY <2>2, <2>4, <1>n DEF DocId
  <2>5. Nil \in Nat /\ DocId(Nil)
    BY <1>n DEF DocId, Nil
  <2>6. DocId(row.ref.doc) /\ \A t \in Threads : DocId(run[t].ref.doc)
    BY DEF DocInv
  <2>7. \A t \in Threads : DocId(run[t].ref.doc)'
    <3> SUFFICES ASSUME NEW t \in Threads PROVE DocId(run[t].ref.doc)'
      OBVIOUS
    <3>1. CASE run[t].ref.doc' \in {run[t].ref.doc, row.ref.doc, Nil}
      <4>1. run[t].ref.doc' <= made' /\ \A f \in drive' : f.id = run[t].ref.doc' => f.kind = "doc"
        BY <3>1, <2>4, <2>5, <2>6, <1>n
      <4> QED BY <4>1 DEF DocId
    <3> QED BY <3>1, <2>1 DEF Sources, DriveUsed
  <2>8. DocId(row.ref.doc)'
    <3>1. row.ref.doc' \in {row.ref.doc, Nil} \/ \E t \in Threads : row.ref.doc' = run[t].ref.doc
      BY <2>1 DEF Sources, DriveUsed, NoRef
    <3>2. row.ref.doc' <= made' /\ \A f \in drive' : f.id = row.ref.doc' => f.kind = "doc"
      BY <3>1, <2>4, <2>5, <2>6, <1>n
    <3> QED BY <3>2 DEF DocId
  <2> QED BY <2>3, <2>7, <2>8 DEF DocInv
<1> QED BY <1>1, <1>2

LEMMA ThreadsKeepPost ==
  ASSUME NEW t, Step(t) \/ SyncStep(t) \/ SendEmail(t) \/ ExportAndSend(t)
                \/ SyncAfterEmail(t) \/ Fault(t)
  PROVE  post' = post
<1>1. CASE Step(t)
  BY <1>1 DEF Step, EnsureRoot, FindFolder, MakeFolder, BuildDoc, UploadAudio, SaveRef
<1>2. CASE SyncStep(t)
  BY <1>1, <1>2 DEF SyncStep, Begin, Read, PruneLocal, Release
<1>3. CASE SendEmail(t) \/ ExportAndSend(t) \/ SyncAfterEmail(t) \/ Fault(t)
  BY <1>3 DEF SendEmail, ExportAndSend, SyncAfterEmail, Fault
<1> QED BY <1>1, <1>2, <1>3

LEMMA UnsavedStep ==
  ASSUME TypeOK, UnsavedInv, [Next]_vars PROVE UnsavedInv'
<1>c. Syncs \subseteq Threads /\ Emails \subseteq Threads
  BY DEF Threads
<1> SUFFICES ASSUME post' # "saved"
             PROVE  row' = NoRow /\ \A t \in Threads : run'[t].at \in {"idle", "over"}
                                                      /\ run'[t].ref = NoRef
  BY DEF UnsavedInv
<1>1. post # "saved"
  <2>1. CASE post' = post
    BY <2>1
  <2>2. CASE Upload \/ CleanupStaging \/ Bind \/ Save \/ Restart
    BY <2>2 DEF Upload, CleanupStaging, Bind, Save, Restart
  <2>3. ASSUME NEW j \in Syncs, RequestSync(j) PROVE post' = post
    BY <2>3 DEF RequestSync
  <2>4. CASE AskDelete \/ DeleteRow \/ DeleteLocal \/ WipeDrive \/ UNCHANGED vars
    BY <2>4 DEF AskDelete, DeleteRow, DeleteLocal, WipeDrive, vars
  <2> QED BY <2>1, <2>2, <2>3, <2>4, ThreadsKeepPost DEF Next
<1>2. row = NoRow /\ ~row.stored
      /\ \A t \in Threads : run[t].at \in {"idle", "over"} /\ run[t].ref = NoRef
  BY <1>1 DEF UnsavedInv, NoRow
<1>3. ASSUME NEW t \in Threads
      PROVE  ~Step(t) /\ ~Fault(t) /\ run[t].at \notin {"queued", "read", "prune", "release", "export", "sent"}
  BY <1>2, <1>3, StepMoves DEF Fault
<1>4. ASSUME NEW j \in Syncs PROVE ~RequestSync(j) /\ ~SyncStep(j)
  BY <1>2, <1>3, <1>c DEF RequestSync, SyncStep, Begin, Read, PruneLocal, Release, At
<1>5. ASSUME NEW e \in Emails PROVE ~SendEmail(e) /\ ~ExportAndSend(e) /\ ~SyncAfterEmail(e)
  BY <1>2, <1>3, <1>c DEF SendEmail, ExportAndSend, SyncAfterEmail, At
<1>6. CASE Upload \/ CleanupStaging \/ Bind \/ AskDelete \/ DeleteLocal \/ DeleteRow \/ WipeDrive
           \/ UNCHANGED vars
  BY <1>6, <1>2 DEF Upload, CleanupStaging, Bind, AskDelete, DeleteLocal, DeleteRow, WipeDrive, vars
<1>7. CASE Restart
  BY <1>7, <1>2 DEF Restart, Thread
<1> QED BY <1>3, <1>4, <1>5, <1>6, <1>7, <1>c DEF Next, Save

\* The steps that change the file of the meeting, its audioRef or the deletion.
LEMMA LocalStep ==
  ASSUME TypeOK, [Next]_vars
  PROVE  /\ \/ kept' = kept \/ (Bind /\ kept') \/ DeleteLocal
            \/ \E j \in Syncs : PruneLocal(j)
         /\ Save \/ row'.recorded = row.recorded \/ ~row'.recorded
         /\ post' = "bound" => Bind \/ post = "bound"
         /\ del' = "none" => del = "none" /\ (wipe' = wipe \/ wipe' = NoRef)
<1>1. ASSUME NEW t \in Threads, Step(t)
      PROVE  kept' = kept /\ row'.recorded = row.recorded /\ UNCHANGED <<post, del, wipe>>
  BY <1>1 DEF Step, EnsureRoot, FindFolder, MakeFolder, BuildDoc, UploadAudio, SaveRef, TypeOK, Row
<1>2. ASSUME NEW j \in Syncs, RequestSync(j) \/ Begin(j) \/ Read(j) \/ Release(j)
      PROVE  kept' = kept /\ row'.recorded = row.recorded /\ UNCHANGED <<post, del, wipe>>
  BY <1>2 DEF RequestSync, Begin, Read, Release
<1>3. ASSUME NEW e \in Emails, SendEmail(e) \/ ExportAndSend(e) \/ SyncAfterEmail(e)
      PROVE  kept' = kept /\ row'.recorded = row.recorded /\ UNCHANGED <<post, del, wipe>>
  BY <1>3 DEF SendEmail, ExportAndSend, SyncAfterEmail
<1>4. ASSUME NEW t \in Threads, Fault(t)
      PROVE  kept' = kept /\ row'.recorded = row.recorded /\ UNCHANGED <<post, del, wipe>>
  BY <1>4 DEF Fault
<1>5. CASE Upload \/ CleanupStaging \/ Bind \/ Save \/ AskDelete \/ DeleteLocal \/ DeleteRow
           \/ WipeDrive \/ UNCHANGED vars
  BY <1>5 DEF Upload, CleanupStaging, Bind, Save, AskDelete, DeleteLocal, DeleteRow, WipeDrive, vars,
     NoRow
<1>6. CASE Restart
  BY <1>6 DEF Restart
<1>7. ASSUME NEW j \in Syncs, PruneLocal(j)
      PROVE  row'.recorded = row.recorded /\ UNCHANGED <<post, del, wipe>>
  BY <1>7 DEF PruneLocal
<1> QED BY <1>1, <1>2, <1>3, <1>4, <1>5, <1>6, <1>7 DEF Next, SyncStep, Threads

LEMMA CustodyStep ==
  ASSUME DriveInv, [Next]_vars PROVE CustodyInv'
<1> SUFFICES ASSUME del' = "none"
             PROVE  /\ wipe' = NoRef
                    /\ row.ref.audio' # Nil => HasAudio'
                    /\ \A t \in Threads : run[t].ref.audio' # Nil => HasAudio'
                    /\ post' = "bound" => kept'
                    /\ row'.recorded => kept' \/ HasAudio'
  BY DEF CustodyInv
<1> USE DEF DriveInv
<1>1. del = "none" /\ wipe = NoRef /\ wipe' = NoRef
  BY LocalStep DEF CustodyInv
<1>2. Sources
  <2>1. ~WipeDrive
    BY <1>1 DEF WipeDrive
  <2> QED BY <2>1, AllSources
<1>3. HasAudio => HasAudio'
  BY <1>2 DEF Sources, DriveKept, HasAudio
<1>4. /\ row.ref.audio # Nil => HasAudio
      /\ \A t \in Threads : run[t].ref.audio # Nil => HasAudio
      /\ post = "bound" => kept
      /\ row.recorded => kept \/ HasAudio
  BY <1>1 DEF CustodyInv
<1>5. \A t \in Threads : run[t].ref.audio' # Nil => HasAudio'
  BY <1>2, <1>3, <1>4 DEF Sources, DriveUsed
<1>6. row.ref.audio' # Nil => HasAudio'
  <2>1. row.ref.audio' \in {row.ref.audio, Nil} \/ \E t \in Threads : row.ref.audio' = run[t].ref.audio
    BY <1>2 DEF Sources, DriveUsed, NoRef
  <2> QED BY <2>1, <1>3, <1>4
<1>7. ASSUME NEW j \in Syncs, PruneLocal(j)
      PROVE  post # "bound" /\ (kept => kept' \/ HasAudio)
  <2>1. j \in Threads /\ run[j].at = "prune"
    BY <1>7 DEF PruneLocal, At, Threads
  <2>2. post = "saved"
    BY <2>1 DEF UnsavedInv
  <2> QED BY <2>1, <2>2, <1>4, <1>7 DEF PruneLocal
<1>8. ~DeleteLocal
  BY <1>1 DEF DeleteLocal
<1>9. post' = "bound" => kept'
  <2>1. CASE Bind
    BY <2>1, <1>4 DEF Bind
  <2>2. CASE ~Bind /\ post = "bound" /\ post' = "bound"
    BY <2>2, <1>4, <1>7, <1>8, LocalStep
  <2> QED BY <2>1, <2>2, LocalStep
<1>10. row'.recorded => kept' \/ HasAudio'
  <2>1. CASE Save
    BY <2>1, <1>4 DEF Save
  <2>2. CASE row'.recorded = row.recorded
    BY <2>2, <1>3, <1>4, <1>7, <1>8, LocalStep
  <2> QED BY <2>1, <2>2, LocalStep
<1> QED BY <1>1, <1>5, <1>6, <1>9, <1>10

LEMMA DriveInit == Init => DriveInv
<1> SUFFICES ASSUME Init PROVE DriveInv
  OBVIOUS
<1>1. \A t \in Threads : run[t].at = "idle" /\ run[t].ref = NoRef
  BY DEF Init, Thread
<1> QED
  BY <1>1, TypeInit
  DEF Init, DriveInv, DocInv, DocId, UnsavedInv, CustodyInv, NoRow, NoRef, Nil

LEMMA DriveInvStep == DriveInv /\ [Next]_vars => DriveInv'
  BY TypeStep, DocStep, UnsavedStep, CustodyStep DEF DriveInv

\* Until its deletion is asked for, the recording of a saved meeting is in its
\* file or on Drive, whatever call fails, whenever the process stops, and
\* however syncs, emails and restarts interleave.
THEOREM RecordingIsKept == Spec => []RecordingKept
<1>1. DriveInv => RecordingKept
  BY DEF DriveInv, CustodyInv, RecordingKept, HasAudio
<1> QED BY <1>1, DriveInit, DriveInvStep, PTL DEF Spec

-----------------------------------------------------------------------------
(* The range that is sent is the range that is asked for.                  *)

LEMMA RangesAgree ==
  ASSUME NEW r \in RangeHeader
  PROVE  (IF r.form = "none" THEN Bytes ELSE ParseRange(r)) = Asked(r)
<1>1. /\ Size \in Nat /\ Size > 0 /\ r.first \in Nat /\ r.last \in Nat
      /\ r.form \in {"none", "bad", "suffix", "open", "span"}
  BY SizeAssumption DEF RangeHeader
<1>2. CASE r.form = "none"
  BY <1>2 DEF Asked
<1>3. CASE r.form = "bad"
  BY <1>3 DEF Asked, ParseRange
<1>4. CASE r.form = "suffix"
  BY <1>1, <1>4 DEF Asked, ParseRange, Bytes
<1>5. CASE r.form = "open"
  BY <1>1, <1>5 DEF Asked, ParseRange, Bytes
<1>6. CASE r.form = "span"
  BY <1>1, <1>6 DEF Asked, ParseRange, Bytes
<1> QED BY <1>1, <1>2, <1>3, <1>4, <1>5, <1>6

-----------------------------------------------------------------------------
(* Where the recording is while no email interferes: what the row names,   *)
(* and what a job has read or uploaded, is on Drive; the one open job has  *)
(* what the row names; and the file goes only after the row names a copy.  *)

Recording(n) == \E f \in drive : f.id = n /\ f.kind = "audio"

Holding == {"root", "find", "make", "doc", "audio", "save", "prune"}

MoveInv ==
  del = "none" =>
    /\ row.ref.audio # Nil => Recording(row.ref.audio)
    /\ \A j \in Syncs : run[j].at \in Holding =>
         /\ run[j].ref.audio # Nil => Recording(run[j].ref.audio)
         /\ row.ref.audio # Nil => run[j].ref.audio = row.ref.audio
         /\ row.stored /\ run[j].at = "prune" => run[j].ref.audio = row.ref.audio
    /\ row.recorded => kept \/ row.ref.audio # Nil

MovingInv == DriveInv /\ OneLiveSync /\ MoveInv

LEMMA UnmailedIsNext == Unmailed => Next
BY DEF Unmailed, Next, Threads

\* Before its deletion is asked for no recording goes from Drive.
LEMMA RecordingStays ==
  ASSUME DriveInv, Next, del' = "none"
  PROVE  /\ del = "none" /\ ~WipeDrive /\ DriveKept
         /\ \A n : Recording(n) => Recording(n)'
<1>1. del = "none" /\ wipe = NoRef
  BY LocalStep DEF DriveInv, CustodyInv
<1>2. ~WipeDrive
  BY <1>1 DEF WipeDrive
<1>3. DriveKept
  BY <1>2, AllSources DEF DriveInv, Sources
<1> QED BY <1>1, <1>2, <1>3 DEF DriveKept, Recording

\* No job is open but the one that takes a step.
LEMMA OthersIdle ==
  ASSUME OneLiveSync, NEW j \in Syncs, Open(j), NEW k \in Syncs, k # j
  PROVE  run[k].at \notin Holding
BY DEF OneLiveSync, Open, Holding

\* A job whose work changes and whose row does not.
LEMMA JobMoves ==
  ASSUME MovingInv, Next, del' = "none", NEW j \in Syncs, NEW w \in Work, run' = [run EXCEPT ![j] = w],
         UNCHANGED <<row, kept>>,
         w.at \in Holding =>
           /\ w.ref.audio # Nil => Recording(w.ref.audio)'
           /\ row.ref.audio # Nil => w.ref.audio = row.ref.audio
           /\ row.stored /\ w.at = "prune" => w.ref.audio = row.ref.audio
  PROVE  MoveInv'
<1>1. del = "none" /\ \A n : Recording(n) => Recording(n)'
  BY RecordingStays DEF MovingInv
<1>2. \A k \in Syncs : run'[k] = IF k = j THEN w ELSE run[k]
  BY DEF MovingInv, DriveInv, TypeOK, Threads
<1>3. /\ row.ref.audio # Nil => Recording(row.ref.audio)
      /\ \A k \in Syncs : run[k].at \in Holding =>
           /\ run[k].ref.audio # Nil => Recording(run[k].ref.audio)
           /\ row.ref.audio # Nil => run[k].ref.audio = row.ref.audio
           /\ row.stored /\ run[k].at = "prune" => run[k].ref.audio = row.ref.audio
      /\ row.recorded => kept \/ row.ref.audio # Nil
  BY <1>1 DEF MovingInv, MoveInv
<1> QED BY <1>1, <1>2, <1>3 DEF MoveInv

LEMMA JobFields ==
  ASSUME TypeOK, NEW j \in Syncs
  PROVE  /\ run \in [Threads -> Work] /\ j \in Threads /\ run[j] \in Work /\ run[j].ref \in Ref
         /\ run[j].at \in Steps /\ row \in Row /\ row.ref \in Ref /\ row.recorded \in BOOLEAN
         /\ row.stored \/ row = NoRow
BY WorkFields DEF TypeOK, Threads, Row

\* Goto and Ends leave a job what it holds or nothing.
LEMMA JobGoes ==
  ASSUME MovingInv, Next, del' = "none", NEW j \in Syncs, UNCHANGED <<row, kept>>,
         \/ Fails(j) \/ Ends(j, "over") \/ Ends(j, "release")
         \/ \E s \in Steps : Goto(j, s) /\ (s \in Holding => run[j].at \in Holding) /\ s # "prune"
  PROVE  MoveInv'
<1>1. /\ run \in [Threads -> Work] /\ j \in Threads /\ run[j] \in Work
  BY JobFields DEF MovingInv, DriveInv
<1>2. CASE \E s \in {"release", "over"} : Ends(j, s)
  BY <1>2, ThreadType, JobMoves DEF Ends, Thread, Steps, Holding
<1>3. ASSUME NEW s \in Steps, Goto(j, s), s \in Holding => run[j].at \in Holding, s # "prune"
      PROVE  MoveInv'
  <2> DEFINE w == [run[j] EXCEPT !.at = s]
  <2>1. w \in Work /\ w.at = s /\ w.ref = run[j].ref /\ run' = [run EXCEPT ![j] = w]
    BY <1>1, <1>3, AtUpdate DEF Goto, Work
  <2>2. del = "none" /\ \A n : Recording(n) => Recording(n)'
    BY RecordingStays DEF MovingInv
  <2>3. PICK v \in Work : v.at = s /\ v.ref = run[j].ref /\ run' = [run EXCEPT ![j] = v]
    BY <2>1
  <2> QED BY <1>3, <2>2, <2>3, JobMoves DEF MovingInv, MoveInv
<1> QED BY <1>2, <1>3 DEF Fails

\* What a job holds after an id was put into its work.
LEMMA PutRoot ==
  ASSUME TypeOK, NEW j \in Syncs, NEW s \in Steps, NEW n \in Nat,
         run' = [run EXCEPT ![j].at = s, ![j].root = n]
  PROVE  \E w \in Work : w.at = s /\ w.ref.audio = run[j].ref.audio /\ run' = [run EXCEPT ![j] = w]
<1> DEFINE w == [run[j] EXCEPT !.at = s, !.root = n]
<1>1. run \in [Threads -> Work] /\ j \in Threads /\ run[j] \in Work /\ run[j].ref \in Ref
  BY JobFields
<1>2. w \in Work
  BY <1>1, AtUpdate
<1>3. w.at = s /\ w.ref = run[j].ref
  BY <1>1 DEF Work
<1>4. run' = [run EXCEPT ![j] = w]
  BY <1>1
<1> HIDE DEF w
<1>5. w.ref.audio = run[j].ref.audio
  BY <1>1, <1>3 DEF Ref
<1> QED BY <1>2, <1>3, <1>4, <1>5

LEMMA PutFolder ==
  ASSUME TypeOK, NEW j \in Syncs, NEW s \in Steps, NEW n \in Nat,
         run' = [run EXCEPT ![j].at = s, ![j].ref.folder = n]
  PROVE  \E w \in Work : w.at = s /\ w.ref.audio = run[j].ref.audio /\ run' = [run EXCEPT ![j] = w]
<1> DEFINE w == [run[j] EXCEPT !.at = s, !.ref.folder = n]
<1>1. run \in [Threads -> Work] /\ j \in Threads /\ run[j] \in Work /\ run[j].ref \in Ref
  BY JobFields
<1>2. w \in Work
  BY <1>1, RefUpdate
<1>3. w.at = s /\ w.ref = [run[j].ref EXCEPT !.folder = n]
  BY <1>1 DEF Work
<1>4. run' = [run EXCEPT ![j] = w]
  BY <1>1
<1> HIDE DEF w
<1>5. w.ref.audio = run[j].ref.audio
  BY <1>1, <1>3 DEF Ref
<1> QED BY <1>2, <1>3, <1>4, <1>5

LEMMA PutDoc ==
  ASSUME TypeOK, NEW j \in Syncs, NEW s \in Steps, NEW n \in Nat,
         run' = [run EXCEPT ![j].at = s, ![j].ref.doc = n]
  PROVE  \E w \in Work : w.at = s /\ w.ref.audio = run[j].ref.audio /\ run' = [run EXCEPT ![j] = w]
<1> DEFINE w == [run[j] EXCEPT !.at = s, !.ref.doc = n]
<1>1. run \in [Threads -> Work] /\ j \in Threads /\ run[j] \in Work /\ run[j].ref \in Ref
  BY JobFields
<1>2. w \in Work
  BY <1>1, RefUpdate
<1>3. w.at = s /\ w.ref = [run[j].ref EXCEPT !.doc = n]
  BY <1>1 DEF Work
<1>4. run' = [run EXCEPT ![j] = w]
  BY <1>1
<1> HIDE DEF w
<1>5. w.ref.audio = run[j].ref.audio
  BY <1>1, <1>3 DEF Ref
<1> QED BY <1>2, <1>3, <1>4, <1>5

\* The steps of a job that EnsureRoot, FindFolder, MakeFolder and BuildDoc are:
\* they put an id into its work that is not the recording's.
LEMMA JobPrepares ==
  ASSUME MovingInv, Next, del' = "none", NEW j \in Syncs, UNCHANGED <<row, kept>>,
         run[j].at \in Holding, NEW w \in Work, run' = [run EXCEPT ![j] = w],
         w.at # "prune", w.ref.audio = run[j].ref.audio
  PROVE  MoveInv'
<1>1. del = "none" /\ \A n : Recording(n) => Recording(n)'
  BY RecordingStays DEF MovingInv
<1> QED BY <1>1, JobMoves DEF MovingInv, MoveInv

LEMMA PrepareMoves ==
  ASSUME MovingInv, Next, del' = "none", NEW j \in Syncs,
         EnsureRoot(j) \/ FindFolder(j) \/ MakeFolder(j) \/ BuildDoc(j)
  PROVE  MoveInv'
<1>2. run[j].at \in Holding /\ UNCHANGED <<row, kept>>
  BY DEF EnsureRoot, FindFolder, MakeFolder, BuildDoc, At, Holding
<1>3. made + 1 \in Nat /\ \A f \in drive : f.id \in Nat
  BY DEF MovingInv, DriveInv, TypeOK, File
<1>4. ASSUME NEW s \in {"find", "doc", "audio"}, NEW n \in Nat,
             \/ run' = [run EXCEPT ![j].at = s, ![j].root = n]
             \/ run' = [run EXCEPT ![j].at = s, ![j].ref.folder = n]
             \/ run' = [run EXCEPT ![j].at = s, ![j].ref.doc = n]
      PROVE  MoveInv'
  <2>1. s \in Steps /\ s # "prune"
    BY <1>4 DEF Steps
  <2>2. PICK w \in Work : w.at = s /\ w.ref.audio = run[j].ref.audio /\ run' = [run EXCEPT ![j] = w]
    BY <1>4, <2>1, PutRoot, PutFolder, PutDoc DEF MovingInv, DriveInv
  <2> QED BY <1>2, <2>1, <2>2, JobPrepares
<1>5. ASSUME NEW s \in {"find", "doc", "make", "audio"}, Goto(j, s) PROVE MoveInv'
  BY <1>2, <1>5, JobGoes DEF Steps, Holding
<1>6. CASE Fails(j)
  BY <1>2, <1>6, JobGoes
<1> QED
  BY <1>3, <1>4, <1>5, <1>6
  DEF EnsureRoot, FindFolder, MakeFolder, BuildDoc, UpsertDoc, ApplyTemplate

LEMMA UploadMoves ==
  ASSUME MovingInv, Next, del' = "none", NEW j \in Syncs, UploadAudio(j)
  PROVE  MoveInv'
<1>1. /\ run \in [Threads -> Work] /\ j \in Threads /\ run[j] \in Work /\ run[j].ref \in Ref
      /\ run[j].at = "audio" /\ UNCHANGED <<row, kept>> /\ made + 1 \in Nat
  BY JobFields DEF MovingInv, DriveInv, UploadAudio, At, TypeOK
<1>s. "save" \in Steps
  BY DEF Steps
<1>2. CASE Goto(j, "save") \/ Fails(j)
  BY <1>1, <1>2, JobGoes DEF Steps, Holding
<1>3. CASE /\ run[j].ref.audio = Nil /\ Create("audio", run[j].ref.folder)
           /\ run' = [run EXCEPT ![j].at = "save", ![j].ref.audio = made + 1]
  <2>1. PICK w \in Work : w.at = "save" /\ w.ref.audio = made + 1 /\ run' = [run EXCEPT ![j] = w]
    <3> DEFINE w == [run[j] EXCEPT !.at = "save", !.ref.audio = made + 1]
    <3>1. w \in Work
      BY <1>1, <1>s, RefUpdate
    <3>2. w.at = "save" /\ w.ref = [run[j].ref EXCEPT !.audio = made + 1]
      BY <1>1 DEF Work
    <3>3. run' = [run EXCEPT ![j] = w]
      BY <1>1, <1>3
    <3> HIDE DEF w
    <3>4. w.ref.audio = made + 1
      BY <1>1, <3>2 DEF Ref
    <3> QED BY <3>1, <3>2, <3>3, <3>4
  <2>2. Recording(w.ref.audio)'
    <3>1. [id |-> made + 1, kind |-> "audio", parent |-> run[j].ref.folder] \in drive'
      BY <1>3 DEF Create
    <3> QED BY <2>1, <3>1 DEF Recording
  <2>3. row.ref.audio = Nil
    BY <1>1, <1>3, RecordingStays DEF MovingInv, MoveInv, Holding
  <2> QED BY <1>1, <2>1, <2>2, <2>3, JobMoves
<1> QED BY <1>2, <1>3 DEF UploadAudio

\* The row takes what the one open job has.
LEMMA SaveMoves ==
  ASSUME MovingInv, Next, del' = "none", NEW j \in Syncs, SaveRef(j)
  PROVE  MoveInv'
<1>1. /\ run \in [Threads -> Work] /\ j \in Threads /\ run[j] \in Work /\ row \in Row
      /\ row.stored \/ row = NoRow
  BY JobFields DEF MovingInv, DriveInv
<1>2. /\ run[j].at = "save" /\ kept' = kept /\ Open(j) /\ run[j].at \in Holding
      /\ row' = IF row.stored THEN [row EXCEPT !.ref = run[j].ref] ELSE row
      /\ Goto(j, "prune")
  BY DEF SaveRef, At, Open, Holding
<1>3. /\ \A k \in Syncs : run'[k] = IF k = j THEN [run[j] EXCEPT !.at = "prune"] ELSE run[k]
      /\ run'[j].ref = run[j].ref
  BY <1>1, <1>2 DEF Goto, Threads, Work
<1>4. \A k \in Syncs : k # j => run'[k].at \notin Holding
  BY <1>2, <1>3, OthersIdle DEF MovingInv
<1>5. del = "none" /\ \A n : Recording(n) => Recording(n)'
  BY RecordingStays DEF MovingInv
<1>6. /\ run[j].ref.audio # Nil => Recording(run[j].ref.audio)
      /\ row.ref.audio # Nil => run[j].ref.audio = row.ref.audio
      /\ row.recorded => kept \/ row.ref.audio # Nil
  BY <1>2, <1>5 DEF MovingInv, MoveInv
<1>7. CASE row.stored
  <2>1. row'.ref = run[j].ref /\ row'.recorded = row.recorded
    BY <1>1, <1>2, <1>7 DEF Row
  <2> QED BY <1>2, <1>3, <1>4, <1>5, <1>6, <2>1 DEF MoveInv
<1>8. CASE ~row.stored
  <2>1. row' = row /\ ~row.recorded /\ row.ref.audio = Nil
    BY <1>1, <1>2, <1>8 DEF NoRow, NoRef
  <2> QED BY <1>2, <1>3, <1>4, <1>5, <1>6, <1>8, <2>1 DEF MoveInv
<1> QED BY <1>7, <1>8

\* The file goes when the row names what the job has uploaded or found.
LEMMA PruneMoves ==
  ASSUME MovingInv, Next, del' = "none", NEW j \in Syncs, PruneLocal(j)
  PROVE  MoveInv'
<1>1. /\ run \in [Threads -> Work] /\ j \in Threads /\ row \in Row
      /\ row.stored \/ row = NoRow
  BY JobFields DEF MovingInv, DriveInv
<1>2. /\ run[j].at = "prune" /\ row' = row /\ run[j].at \in Holding
      /\ kept' = (kept /\ run[j].ref.audio = Nil) /\ run' = [run EXCEPT ![j] = Thread("release")]
  BY DEF PruneLocal, At, Ends, Holding
<1>3. \A k \in Syncs : k # j => run'[k] = run[k]
  BY <1>1, <1>2 DEF Threads
<1>4. run'[j].at \notin Holding
  BY <1>1, <1>2 DEF Thread, Holding
<1>5. del = "none" /\ \A n : Recording(n) => Recording(n)'
  BY RecordingStays DEF MovingInv
<1>6. row.recorded => kept' \/ row.ref.audio # Nil
  <2>1. row.recorded => row.stored
    BY <1>1 DEF NoRow
  <2>2. /\ row.stored => run[j].ref.audio = row.ref.audio
        /\ row.recorded => kept \/ row.ref.audio # Nil
    BY <1>2, <1>5 DEF MovingInv, MoveInv
  <2> QED BY <1>2, <2>1, <2>2
<1> QED BY <1>2, <1>3, <1>4, <1>5, <1>6 DEF MovingInv, MoveInv

\* Before the meeting is saved no job has begun.
LEMMA FirstMoves ==
  ASSUME MovingInv, Next, del' = "none", Upload \/ CleanupStaging \/ Bind \/ Save
  PROVE  MoveInv'
<1>1. del = "none" /\ run' = run /\ post # "saved" /\ \A n : Recording(n) => Recording(n)'
  BY RecordingStays DEF MovingInv, Upload, CleanupStaging, Bind, Save
<1>2. /\ row = NoRow /\ (post = "bound" => kept)
      /\ \A k \in Syncs : run[k].at \notin Holding
  BY <1>1 DEF MovingInv, DriveInv, UnsavedInv, CustodyInv, Holding, Threads
<1>3. row'.ref = NoRef /\ (row'.recorded => kept')
  <2>1. CASE Upload \/ CleanupStaging \/ Bind
    <3>1. row' = NoRow
      BY <1>2, <2>1 DEF Upload, CleanupStaging, Bind
    <3> QED BY <3>1 DEF NoRow
  <2>2. CASE Save
    <3>1. row'.ref = NoRef /\ row'.recorded = (post = "bound") /\ kept' = kept
      BY <2>2 DEF Save
    <3> QED BY <1>2, <3>1
  <2> QED BY <2>1, <2>2
<1> QED BY <1>1, <1>2, <1>3 DEF MoveInv, NoRef

LEMMA ReadMoves ==
  ASSUME MovingInv, Next, del' = "none", NEW j \in Syncs, Read(j)
  PROVE  MoveInv'
<1>1. /\ run \in [Threads -> Work] /\ j \in Threads /\ run[j] \in Work /\ row.ref \in Ref
      /\ row.recorded \in BOOLEAN /\ UNCHANGED <<row, kept>>
  BY JobFields DEF MovingInv, DriveInv, Read
<1>2. CASE Fails(j)
  BY <1>1, <1>2, JobGoes
<1>3. CASE run' = [run EXCEPT ![j].at = "root", ![j].recorded = row.recorded, ![j].ref = row.ref]
  <2>1. PICK w \in Work : w.at = "root" /\ w.ref = row.ref /\ run' = [run EXCEPT ![j] = w]
    <3> DEFINE w == [run[j] EXCEPT !.at = "root", !.recorded = row.recorded, !.ref = row.ref]
    <3>1. w \in Work /\ w.at = "root" /\ w.ref = row.ref
      BY <1>1 DEF Work
    <3>2. run' = [run EXCEPT ![j] = w]
      BY <1>1, <1>3
    <3> QED BY <3>1, <3>2
  <2>2. row.ref.audio # Nil => Recording(row.ref.audio)'
    BY <1>1, RecordingStays DEF MovingInv, MoveInv
  <2> QED BY <1>1, <2>1, <2>2, JobMoves
<1> QED BY <1>2, <1>3 DEF Read

LEMMA SyncMoves ==
  ASSUME MovingInv, Next, del' = "none", NEW j \in Syncs, RequestSync(j) \/ SyncStep(j) \/ Fault(j)
  PROVE  MoveInv'
<1>1. CASE RequestSync(j)
  <2>1. root \in Nat
    BY DEF MovingInv, DriveInv, TypeOK
  <2>2. PICK w \in Work : w.at = "queued" /\ run' = [run EXCEPT ![j] = w]
    BY <1>1, <2>1, ThreadType DEF RequestSync, Queued, Thread, Steps
  <2> QED BY <1>1, <2>2, JobMoves DEF RequestSync, Holding
<1>2. CASE Begin(j)
  BY <1>2, JobGoes DEF Begin, Steps, Holding
<1>3. CASE Release(j)
  BY <1>3, JobGoes DEF Release
<1>4. CASE Fault(j)
  BY <1>4, JobGoes DEF Fault
<1> QED
  BY <1>1, <1>2, <1>3, <1>4, ReadMoves, PrepareMoves, UploadMoves, SaveMoves, PruneMoves
  DEF SyncStep, Step

LEMMA UnmailedMoves ==
  ASSUME MovingInv, Unmailed \/ Restart \/ UNCHANGED vars
  PROVE  MoveInv'
<1> SUFFICES ASSUME del' = "none" PROVE MoveInv'
  BY DEF MoveInv
<1>1. CASE Unmailed
  <2>1. Next
    BY <1>1, UnmailedIsNext
  <2>2. ~AskDelete /\ ~DeleteRow /\ ~DeleteLocal /\ ~WipeDrive
    BY <2>1, RecordingStays DEF MovingInv, AskDelete, DeleteRow, DeleteLocal
  <2> QED BY <1>1, <2>1, <2>2, FirstMoves, SyncMoves DEF Unmailed
<1>2. CASE Restart
  <2>1. Next
    BY <1>2 DEF Next
  <2>2. \A k \in Syncs : run'[k].at \notin Holding
    BY <1>2 DEF Restart, Thread, Holding, Threads
  <2>3. del = "none" /\ \A n : Recording(n) => Recording(n)'
    BY <2>1, RecordingStays DEF MovingInv
  <2>4. UNCHANGED <<row, kept>>
    BY <1>2 DEF Restart
  <2> QED BY <2>2, <2>3, <2>4 DEF MovingInv, MoveInv
<1>3. CASE UNCHANGED vars
  BY <1>3 DEF vars, files, MovingInv, MoveInv, Recording
<1> QED BY <1>1, <1>2, <1>3

LEMMA MovingStep ==
  ASSUME MovingInv, Unmailed \/ Restart \/ UNCHANGED vars
  PROVE  MovingInv'
<1>1. [Next]_vars
  BY UnmailedIsNext DEF Next
<1> QED BY <1>1, DriveInvStep, EntryStep, UnmailedMoves DEF MovingInv, DriveInv

LEMMA MovingInit == Init => MovingInv
<1> SUFFICES ASSUME Init PROVE MoveInv
  BY DriveInit, EntryInit DEF MovingInv
<1>1. row = NoRow /\ \A j \in Syncs : run[j].at = "idle"
  BY DEF Init, Thread, Threads
<1> QED BY <1>1 DEF MoveInv, NoRow, NoRef, Holding

-----------------------------------------------------------------------------
(* The request of the player: whatever it is about to do, the recording is *)
(* where it will look for it.                                              *)

UnderWay == {"row", "file", "size", "body", "ref", "drive"}

Asking == [at : UnderWay \cup Ended, audio : Nat, wanted : SUBSET Bytes, given : SUBSET Bytes,
           owed : BOOLEAN, moved : BOOLEAN]

Expects ==
  /\ row.recorded /\ del = "none"
  /\ req.at = "file" /\ ~req.moved => kept \/ Recording(req.audio)
  /\ req.at \in {"size", "body"} /\ ~req.moved => kept
  /\ req.at \in {"ref", "drive"} /\ ~req.moved => Recording(req.audio)

ReqInv ==
  /\ req \in Asking
  /\ req.at \in UnderWay /\ req.owed => Expects
  /\ req.at = "body" => req.given = req.wanted
  /\ PlaysWhileItMoves

PlayerInv ==
  /\ side \in {"sync", "play", "twins"}
  /\ side # "play" => req = None
  /\ side = "play" => MovingInv /\ (req = None \/ ReqInv)

LEMMA PlayerPlays == PlayerInv => PlaysWhileItMoves
BY DEF PlayerInv, ReqInv, PlaysWhileItMoves, None

LEMMA AskedBytes ==
  ASSUME NEW r \in RangeHeader
  PROVE  Asked(r) \in SUBSET Bytes
BY DEF Asked

LEMMA RecordingLives == \A n : Recording(n) => Live(n)
BY DEF Recording, Live

\* A meeting whose recording is asked for has it in its file or in the Drive
\* file on record.
LEMMA OwedIsThere ==
  ASSUME MovingInv, row.recorded, del = "none"
  PROVE  row.stored /\ (kept \/ Recording(row.ref.audio))
<1>1. row.stored \/ row = NoRow
  BY DEF MovingInv, DriveInv, TypeOK
<1> QED BY <1>1 DEF MovingInv, MoveInv, NoRow

\* Where a request goes.
LEMMA AskingMoves ==
  ASSUME req \in Asking, NEW s \in UnderWay \cup Ended, req' = [req EXCEPT !.at = s]
  PROVE  /\ req' \in Asking /\ req'.at = s
         /\ req'.audio = req.audio /\ req'.wanted = req.wanted /\ req'.given = req.given
         /\ req'.owed = req.owed /\ req'.moved = req.moved
BY DEF Asking

LEMMA AskStep ==
  ASSUME MovingInv, NEW header, NEW query, NEW m, Ask(header, query, m)
  PROVE  ReqInv'
<1>1. req' = [at |-> "row", audio |-> Nil, wanted |-> {}, given |-> {},
              owed |-> row.recorded /\ del = "none", moved |-> FALSE]
      /\ row' = row /\ del' = del
  BY DEF Ask, Request, vars
<1>2. (row.recorded /\ del = "none") \in BOOLEAN
  BY DEF MovingInv, DriveInv, TypeOK, Row
<1> QED BY <1>1, <1>2 DEF ReqInv, Asking, Expects, PlaysWhileItMoves, UnderWay, Nil

LEMMA ReadStep ==
  ASSUME MovingInv, ReqInv, ReadRow
  PROVE  ReqInv'
<1> DEFINE s == IF ~row.stored THEN "missing" ELSE IF row.recorded THEN "file" ELSE "ref"
<1>1. /\ req \in Asking /\ req.at = "row" /\ row' = row /\ del' = del /\ kept' = kept
      /\ \A n : Recording(n) => Recording(n)'
      /\ req' = [req EXCEPT !.at = s, !.audio = row.ref.audio]
  BY DEF ReadRow, AtStep, ReqInv, vars, files, Recording
<1>2. s \in {"missing", "file", "ref"} /\ row.ref.audio \in Nat
  BY DEF MovingInv, DriveInv, TypeOK, Row, Ref
<1>3. req.owed => row.recorded /\ del = "none"
  BY <1>1 DEF ReqInv, Expects, UnderWay
<1>4. req.owed => s = "file" /\ (kept \/ Recording(row.ref.audio))
  BY <1>3, OwedIsThere
<1> HIDE DEF s
<1>5. /\ req' \in Asking /\ req'.at = s /\ req'.audio = row.ref.audio /\ req'.owed = req.owed
  BY <1>1, <1>2 DEF Asking, Ended, UnderWay
<1> QED BY <1>1, <1>2, <1>3, <1>4, <1>5 DEF ReqInv, Expects, PlaysWhileItMoves

\* FindFile, FindOnDrive, Body and the errors: a request that only goes on.
LEMMA GoesOn ==
  ASSUME ReqInv, NEW s \in UnderWay \cup Ended, To(s), req.at \in UnderWay,
         s \in UnderWay => s \in {"size", "ref", "drive"},
         req.owed /\ ~req.moved => /\ s = "size" => kept
                                   /\ s \in {"ref", "drive"} => Recording(req.audio)
                                   /\ s \notin {"missing", "failed", "broken"},
         s \in {"played", "unsatisfiable"} => req.given = req.wanted
  PROVE  ReqInv'
<1>1. /\ req \in Asking /\ req' = [req EXCEPT !.at = s]
      /\ row' = row /\ del' = del /\ kept' = kept /\ \A n : Recording(n) => Recording(n)'
  BY DEF To, ReqInv, vars, files, Recording
<1>2. /\ req' \in Asking /\ req'.at = s
      /\ req'.audio = req.audio /\ req'.wanted = req.wanted /\ req'.given = req.given
      /\ req'.owed = req.owed /\ req'.moved = req.moved
  BY <1>1, AskingMoves
<1>3. req.owed => row.recorded /\ del = "none"
  BY DEF ReqInv, Expects
<1> QED BY <1>1, <1>2, <1>3 DEF ReqInv, Expects, PlaysWhileItMoves, Ended, UnderWay

LEMMA FindStep ==
  ASSUME MovingInv, ReqInv, FindFile \/ FindOnDrive \/ Body
  PROVE  ReqInv'
<1>u. /\ {"size", "ref", "drive"} \subseteq UnderWay /\ {"missing", "played", "broken"} \subseteq Ended
      /\ "missing" \notin UnderWay /\ "played" \notin UnderWay /\ "broken" \notin UnderWay
  BY DEF UnderWay, Ended
<1>0. req.at \in {"file", "ref", "body"} => req.at \in UnderWay
  BY DEF UnderWay
<1>1. CASE FindFile
  <2>1. To(IF kept THEN "size" ELSE "ref") /\ req.at = "file"
    BY <1>1 DEF FindFile, AtStep
  <2>2. req.owed /\ ~req.moved => kept \/ Recording(req.audio)
    BY <1>0, <2>1 DEF ReqInv, Expects
  <2>3. CASE kept
    BY <1>u, <1>0, <2>1, <2>3, GoesOn
  <2>4. CASE ~kept
    BY <1>u, <1>0, <2>1, <2>2, <2>4, GoesOn
  <2> QED BY <2>3, <2>4
<1>2. CASE FindOnDrive
  <2>1. To(IF req.audio = Nil THEN "missing" ELSE "drive") /\ req.at = "ref"
    BY <1>2 DEF FindOnDrive, AtStep
  <2>2. req.owed /\ ~req.moved => Recording(req.audio)
    BY <1>0, <2>1 DEF ReqInv, Expects
  <2>3. CASE req.audio = Nil
    <3>1. ~Recording(Nil)
      BY DEF MovingInv, DriveInv, TypeOK, File, Recording, Nil
    <3> QED BY <1>u, <1>0, <2>1, <2>2, <2>3, <3>1, GoesOn
  <2>4. CASE req.audio # Nil
    BY <1>u, <1>0, <2>1, <2>2, <2>4, GoesOn
  <2> QED BY <2>3, <2>4
<1>3. CASE Body
  <2>1. To(IF kept THEN "played" ELSE "broken") /\ req.at = "body"
    BY <1>3 DEF Body, AtStep
  <2>2. /\ req.owed /\ ~req.moved => kept
        /\ req.given = req.wanted
    BY <1>0, <2>1 DEF ReqInv, Expects
  <2>3. CASE kept
    BY <1>u, <1>0, <2>1, <2>2, <2>3, GoesOn
  <2>4. CASE ~kept
    BY <1>u, <1>0, <2>1, <2>2, <2>4, GoesOn
  <2> QED BY <2>3, <2>4
<1> QED BY <1>1, <1>2, <1>3

\* The bytes that are answered are those asked for, from the file or from Drive.
LEMMA AnswerStep ==
  ASSUME ReqInv, Answer
  PROVE  ReqInv'
<1>0. req \in Asking /\ req.at = "size" /\ req.at \in UnderWay
  BY DEF Answer, AtStep, ReqInv, UnderWay
<1>1. req.owed /\ ~req.moved => kept
  BY <1>0 DEF ReqInv, Expects
<1>2. CASE ~kept /\ To("failed")
  BY <1>0, <1>1, <1>2, GoesOn DEF UnderWay, Ended
<1>3. CASE kept
  <2>1. PICK r \in RangeHeader :
          LET given == IF r.form = "none" THEN Bytes ELSE ParseRange(r) IN
          req' = [req EXCEPT !.at = IF given = {} THEN "unsatisfiable" ELSE "body",
                             !.given = given, !.wanted = Asked(r)]
    BY <1>3 DEF Answer
  <2>2. req' = [req EXCEPT !.at = IF Asked(r) = {} THEN "unsatisfiable" ELSE "body",
                           !.given = Asked(r), !.wanted = Asked(r)]
    BY <2>1, RangesAgree
  <2>3. /\ req' \in Asking /\ req'.at \in {"unsatisfiable", "body"}
        /\ req'.given = req'.wanted /\ req'.owed = req.owed
    BY <1>0, <2>2, AskedBytes DEF Asking, UnderWay, Ended
  <2>4. row' = row /\ del' = del /\ kept' = kept
    BY <1>3 DEF Answer, vars
  <2>5. req.owed => row.recorded /\ del = "none"
    BY <1>0 DEF ReqInv, Expects
  <2> QED BY <1>3, <2>3, <2>4, <2>5 DEF ReqInv, Expects, PlaysWhileItMoves
<1> QED BY <1>2, <1>3 DEF Answer

LEMMA RelayStep ==
  ASSUME ReqInv, Relay
  PROVE  ReqInv'
<1>0. req \in Asking /\ req.at = "drive" /\ req.at \in UnderWay
  BY DEF Relay, AtStep, ReqInv, UnderWay
<1>1. req.owed /\ ~req.moved => Live(req.audio)
  BY <1>0, RecordingLives DEF ReqInv, Expects
<1>2. CASE ~Live(req.audio) /\ To("missing")
  BY <1>0, <1>1, <1>2, GoesOn DEF UnderWay, Ended
<1>3. ASSUME NEW r \in RangeHeader,
             req' = [req EXCEPT !.at = IF Asked(r) = {} THEN "unsatisfiable" ELSE "played",
                                !.given = Asked(r), !.wanted = Asked(r)]
      PROVE  ReqInv'
  <2>1. /\ req' \in Asking /\ req'.at \in {"unsatisfiable", "played"}
        /\ req'.given = req'.wanted
    BY <1>0, <1>3, AskedBytes DEF Asking, UnderWay, Ended
  <2> QED BY <2>1 DEF ReqInv, UnderWay, PlaysWhileItMoves
<1> QED BY <1>2, <1>3 DEF Relay

LEMMA RelayFailsStep ==
  ASSUME ReqInv, RelayFails
  PROVE  ReqInv'
<1>1. req \in Asking /\ req' = [req EXCEPT !.at = "missing", !.owed = FALSE]
  BY DEF RelayFails, ReqInv
<1>2. req' \in Asking /\ req'.at = "missing" /\ ~req'.owed
  BY <1>1 DEF Asking, Ended
<1> QED BY <1>2 DEF ReqInv, UnderWay, PlaysWhileItMoves

\* A call of Drive that fails the player changes nothing of the meeting.
LEMMA RelayFailsMoves ==
  ASSUME MovingInv, RelayFails
  PROVE  MovingInv'
<1>1. /\ faults' \in 0..MaxFaults
      /\ UNCHANGED <<post, kept, row, root, drive, made, inflight, run, del, wipe>>
  BY BoundsAssumption DEF RelayFails, files, MovingInv, DriveInv, TypeOK
<1>2. TypeOK'
  BY <1>1 DEF MovingInv, DriveInv, TypeOK
<1>3. DocInv' /\ UnsavedInv' /\ CustodyInv'
  BY <1>1 DEF MovingInv, DriveInv, DocInv, UnsavedInv, CustodyInv, DocId, HasAudio
<1>4. OneLiveSync' /\ MoveInv'
  BY <1>1 DEF MovingInv, OneLiveSync, Open, MoveInv, Recording
<1> QED BY <1>2, <1>3, <1>4 DEF MovingInv, DriveInv

\* A step of the sync or of the deletion beside a request.
LEMMA BesideStep ==
  ASSUME MovingInv, ReqInv, Unmailed, Witness
  PROVE  ReqInv'
<1>1. CASE req' = req /\ req.at \in Ended
  BY <1>1 DEF ReqInv, Expects, PlaysWhileItMoves, UnderWay, Ended
<1>2. CASE /\ req.at \in UnderWay
           /\ req' = [req EXCEPT !.owed = @ /\ row'.recorded /\ del' = "none",
                                 !.moved = @ \/ (kept /\ ~kept')]
  <2>1. /\ req' \in Asking /\ req'.at = req.at /\ req'.audio = req.audio
        /\ req'.given = req.given /\ req'.wanted = req.wanted
        /\ req'.owed => req.owed /\ row'.recorded /\ del' = "none"
        /\ req'.moved = (req.moved \/ (kept /\ ~kept'))
    BY <1>2 DEF ReqInv, Asking
  <2>2. del' = "none" => \A n : Recording(n) => Recording(n)'
    BY UnmailedIsNext, RecordingStays DEF MovingInv
  <2>3. req'.owed => Expects'
    BY <1>2, <2>1, <2>2 DEF ReqInv, Expects
  <2> QED BY <1>2, <2>1, <2>3 DEF ReqInv, PlaysWhileItMoves, UnderWay
<1>3. req.at \in UnderWay \cup Ended /\ req.at # "none" /\ (req.at \in UnderWay => req.at \notin Ended)
  BY DEF ReqInv, Asking, UnderWay, Ended
<1> QED BY <1>1, <1>2, <1>3 DEF Witness

LEMMA PlayStep ==
  ASSUME PlayerInv, side = "play", Play
  PROVE  PlayerInv'
<1>1. MovingInv /\ (req = None \/ ReqInv)
  BY DEF PlayerInv
<1>2. side' = side
  BY DEF Play, Ask, ReadRow, FindFile, Answer, Body, FindOnDrive, Relay, RelayFails, Close, To
<1>3. MovingInv'
  <2>1. CASE RelayFails
    BY <1>1, <2>1, RelayFailsMoves
  <2>2. CASE ~RelayFails
    <3>1. UNCHANGED vars
      BY <2>2 DEF Play, Ask, ReadRow, FindFile, Answer, Body, FindOnDrive, Relay, Close, To
    <3> QED BY <1>1, <3>1, MovingStep
  <2> QED BY <2>1, <2>2
<1>4. req' = None \/ ReqInv'
  <2>1. ASSUME NEW header, NEW query, NEW m, Ask(header, query, m) PROVE ReqInv'
    BY <1>1, <2>1, AskStep
  <2>2. CASE Close
    BY <2>2 DEF Close
  <2>3. CASE ReadRow \/ FindFile \/ Answer \/ Body \/ FindOnDrive \/ Relay \/ RelayFails
    <3>1. req.at # "none"
      BY <2>3 DEF ReadRow, FindFile, Answer, Body, FindOnDrive, Relay, RelayFails, AtStep
    <3>2. req # None
      BY <3>1 DEF None
    <3> QED
      BY <1>1, <2>3, <3>2, ReadStep, FindStep, AnswerStep, RelayStep, RelayFailsStep
  <2> QED BY <2>1, <2>2, <2>3 DEF Play
<1> QED BY <1>2, <1>3, <1>4 DEF PlayerInv

LEMMA PlayerStep ==
  PlayerInv /\ [TwinsNext]_<<vars, player, second>> => PlayerInv'
<1> SUFFICES ASSUME PlayerInv, [TwinsNext]_<<vars, player, second>> PROVE PlayerInv'
  OBVIOUS
<1>1. CASE side # "play"
  <2>1. UNCHANGED player
    BY <1>1 DEF TwinsNext, PlayNext, Play, Ask, ReadRow, FindFile, Answer, Body, FindOnDrive, Relay,
           RelayFails, Close, AtStep
  <2> QED BY <1>1, <2>1 DEF PlayerInv, player
<1>2. CASE side = "play"
  <2>0. MovingInv /\ (req = None \/ ReqInv)
    BY <1>2 DEF PlayerInv
  <2>1. CASE Unmailed /\ Witness /\ UNCHANGED side
    <3>1. CASE req = None
      <4>1. req' = None
        BY <2>1, <3>1 DEF Witness, None
      <4> QED BY <1>2, <2>0, <2>1, <4>1, MovingStep DEF PlayerInv
    <3>2. CASE ReqInv
      BY <1>2, <2>0, <2>1, <3>2, MovingStep, BesideStep DEF PlayerInv
    <3> QED BY <2>0, <3>1, <3>2
  <2>2. CASE Restart /\ req' = None /\ UNCHANGED side
    BY <1>2, <2>0, <2>2, MovingStep DEF PlayerInv
  <2>3. CASE Play
    BY <1>2, <2>3, PlayStep
  <2>4. CASE UNCHANGED <<vars, player, second>>
    <3>1. MovingInv'
      BY <2>0, <2>4, MovingStep
    <3>2. UNCHANGED <<side, req, row, del, kept, drive>>
      BY <2>4 DEF vars, files, player
    <3>3. req = None \/ ReqInv'
      BY <2>0, <3>2 DEF ReqInv, Expects, PlaysWhileItMoves, Recording
    <3> QED BY <1>2, <3>1, <3>2, <3>3 DEF PlayerInv
  <2> QED BY <1>2, <2>1, <2>2, <2>3, <2>4 DEF TwinsNext, PlayNext
<1> QED BY <1>1, <1>2

\* Whatever sync, failed sync or restart runs beside it, and whatever range it
\* asks for, a request of the player is answered with the bytes it asks for
\* until the deletion of the meeting is asked for or a call of Drive fails; only
\* one that the removal of the file falls into may miss it.
THEOREM PlaysOnWhileItMoves == TwinsSpec => []PlaysWhileItMoves
<1>1. TwinsInit => PlayerInv
  BY MovingInit DEF TwinsInit, PlayInit, PlayerInv
<1> QED BY <1>1, PlayerStep, PlayerPlays, PTL DEF TwinsSpec

\* The promise that a run finds broken is broken by emails only: as long as none
\* is sent, the recording of a stored meeting can be played, from its file or
\* from the Drive file on record, between failed syncs, requests and restarts.
THEOREM PlayableUnlessMailed == Init /\ [][Unmailed \/ Restart]_vars => []Playable
<1>1. MovingInv => Playable
  BY OwedIsThere, RecordingLives DEF Playable, Streams
<1>2. MovingInv /\ [Unmailed \/ Restart]_vars => MovingInv'
  BY MovingStep
<1> QED BY <1>1, <1>2, MovingInit, PTL

-----------------------------------------------------------------------------
(* Two meetings.  What one holds of Drive has the kinds it is held for, so *)
(* it never names a file of the other.  The operators take what they are   *)
(* about as parameters, because both meetings have them.                   *)

Plain == {"root", "doc", "audio"}

IsRoot(d, n) == \E f \in d : f.id = n /\ f.kind = "root"

\* An id that was given out, and names nothing but a k.
Names(d, m, n, k) == n \in Nat /\ n <= m /\ \A f \in d : f.id = n => f.kind = k

Placed(d, T) == \E f, g \in d : f.kind = "audio" /\ f.parent = g.id /\ g.kind = T

\* Drive d after m ids, and the root folder on record.
Shape(d, m, rt) ==
  /\ m \in Nat
  /\ \A f \in d :
       /\ f.id \in Nat /\ 0 < f.id /\ f.id <= m
       /\ f.kind = "root" => f.parent = Nil
       /\ f.kind \notin Plain => IsRoot(d, f.parent)
  /\ \A f, g \in d : f.id = g.id => f.kind = g.kind
  /\ rt = Nil \/ IsRoot(d, rt)

\* The gdriveRef of the meeting with folder T.
Holds(d, m, T, r) ==
  /\ r \in Ref
  /\ Names(d, m, r.doc, "doc") /\ Names(d, m, r.audio, "audio") /\ Names(d, m, r.folder, T)
  /\ r.audio # Nil => r.folder # Nil

Sound(d, m, T, w) ==
  /\ w \in Work /\ Holds(d, m, T, w.ref)
  /\ w.root = Nil \/ IsRoot(d, w.root)
  /\ w.at \in {"find", "make"} => w.root # Nil

\* From Drive d to d1 no root goes, and no id changes its kind.
Stays(d, m, d1, m1) ==
  /\ \A n, k : Names(d, m, n, k) => Names(d1, m1, n, k)
  /\ \A n : IsRoot(d, n) => IsRoot(d1, n)

Entry(n, k, p) == [id |-> n, kind |-> k, parent |-> p]

LEMMA MakeShape ==
  ASSUME NEW d, NEW m, NEW rt, Shape(d, m, rt), NEW k, NEW p,
         k = "root" => p = Nil, k \notin Plain => IsRoot(d, p),
         NEW m1, m1 = m + 1, NEW d1, d1 = d \cup {Entry(m1, k, p)}
  PROVE  /\ Shape(d1, m1, rt) /\ Stays(d, m, d1, m1)
         /\ \A T : Placed(d, T) => Placed(d1, T)
         /\ Names(d1, m1, m1, k)
         /\ k = "root" => IsRoot(d1, m1)
<1> DEFINE e == Entry(m1, k, p)
<1>1. /\ e.id = m1 /\ e.kind = k /\ e.parent = p
      /\ \A f : f \in d1 <=> f \in d \/ f = e
  BY DEF Entry
<1> HIDE DEF e
<1>2. m \in Nat /\ \A f \in d : f.id \in Nat /\ f.id <= m /\ 0 < f.id
  BY DEF Shape
<1>3. \A n : IsRoot(d, n) => IsRoot(d1, n)
  BY <1>1 DEF IsRoot
<1>4. Stays(d, m, d1, m1)
  BY <1>1, <1>2, <1>3 DEF Stays, Names
<1>5. Names(d1, m1, m1, k)
  BY <1>1, <1>2 DEF Names
<1>6. k = "root" => IsRoot(d1, m1)
  BY <1>1 DEF IsRoot
<1>7. \A f, g \in d1 : f.id = g.id => f.kind = g.kind
  BY <1>1, <1>2 DEF Shape
<1>8. \A f \in d1 : /\ f.id \in Nat /\ 0 < f.id /\ f.id <= m1
                    /\ f.kind = "root" => f.parent = Nil
                    /\ f.kind \notin Plain => IsRoot(d1, f.parent)
  BY <1>1, <1>2, <1>3 DEF Shape
<1>9. Shape(d1, m1, rt)
  <2>1. rt = Nil \/ IsRoot(d, rt)
    BY DEF Shape
  <2>2. m1 \in Nat
    BY <1>2
  <2>3. rt = Nil \/ IsRoot(d1, rt)
    BY <1>3, <2>1
  <2> QED BY <1>7, <1>8, <2>2, <2>3 DEF Shape
<1>10. \A T : Placed(d, T) => Placed(d1, T)
  BY <1>1 DEF Placed
<1> QED BY <1>4, <1>5, <1>6, <1>9, <1>10

\* Files that are no roots go; what is left keeps its kind.
LEMMA DropShape ==
  ASSUME NEW d, NEW m, NEW rt, Shape(d, m, rt), NEW d1, d1 \subseteq d,
         \A f \in d : f.kind = "root" => f \in d1
  PROVE  Shape(d1, m, rt) /\ Stays(d, m, d1, m)
<1>1. \A n : IsRoot(d, n) => IsRoot(d1, n)
  BY DEF IsRoot
<1>2. Stays(d, m, d1, m)
  BY <1>1 DEF Stays, Names
<1> QED BY <1>1, <1>2 DEF Shape

\* A document goes.
LEMMA DocGoes ==
  ASSUME NEW d, NEW m, NEW rt, Shape(d, m, rt), NEW n, Names(d, m, n, "doc"),
         NEW d1, d1 = {f \in d : f.id # n}
  PROVE  /\ Shape(d1, m, rt) /\ Stays(d, m, d1, m)
         /\ \A T : T \notin Plain /\ Placed(d, T) => Placed(d1, T)
<1>1. d1 \subseteq d /\ \A f \in d : f.kind # "doc" => f \in d1
  BY DEF Names
<1>2. Shape(d1, m, rt) /\ Stays(d, m, d1, m)
  BY <1>1, DropShape
<1> QED BY <1>1, <1>2 DEF Placed, Plain

\* What WipeDrive leaves.
Wiped(d, rt, w) ==
  IF w.folder \notin {Nil, rt} THEN {f \in d : w.folder \notin {f.id, f.parent}}
  ELSE {f \in d : f.id \notin {w.doc, w.audio}}

\* The deletion of the meeting with folder T takes nothing from another one.
LEMMA WipeSpares ==
  ASSUME NEW d, NEW m, NEW rt, Shape(d, m, rt), NEW T, T \notin Plain, NEW w, Holds(d, m, T, w)
  PROVE  /\ Shape(Wiped(d, rt, w), m, rt) /\ Stays(d, m, Wiped(d, rt, w), m)
         /\ \A U : U \notin Plain /\ U # T /\ Placed(d, U) => Placed(Wiped(d, rt, w), U)
<1> DEFINE d1 == Wiped(d, rt, w)
<1>1. /\ \A f \in d : f.id = w.folder => f.kind = T
      /\ \A f \in d : f.id = w.doc => f.kind = "doc"
      /\ \A f \in d : f.id = w.audio => f.kind = "audio"
      /\ w.audio # Nil => w.folder # Nil
  BY DEF Holds, Names
<1>2. /\ \A f \in d : 0 < f.id
      /\ \A f \in d : f.kind = "root" => f.parent = Nil
      /\ \A f \in d : f.kind \notin Plain => IsRoot(d, f.parent)
  BY DEF Shape
<1>3. w.folder = rt => w.folder = Nil
  <2>1. ~IsRoot(d, w.folder)
    BY <1>1 DEF IsRoot, Plain
  <2> QED BY <2>1 DEF Shape
<1>4. CASE w.folder # Nil
  <2>1. \A f : f \in d1 <=> f \in d /\ f.id # w.folder /\ f.parent # w.folder
    BY <1>3, <1>4 DEF Wiped
  <2>2. \A f \in d : f.kind = "root" => f \in d1
    BY <1>1, <1>2, <1>4, <2>1 DEF Plain
  <2>3. ASSUME NEW U, U \notin Plain, U # T, NEW f \in d, NEW g \in d,
               f.kind = "audio", f.parent = g.id, g.kind = U
        PROVE  f \in d1 /\ g \in d1
    <3>1. g.parent # w.folder
      BY <1>1, <1>2, <2>3 DEF IsRoot, Plain
    <3> QED BY <1>1, <2>1, <2>3, <3>1 DEF Plain
  <2> QED BY <2>1, <2>2, <2>3, DropShape DEF Placed
<1>5. CASE w.folder = Nil
  <2>1. \A f : f \in d1 <=> f \in d /\ f.id # w.doc /\ f.id # Nil
    BY <1>1, <1>5 DEF Wiped
  <2>2. \A f \in d : f.kind # "doc" => f \in d1
    BY <1>1, <1>2, <2>1 DEF Nil
  <2>3. Shape(d1, m, rt) /\ Stays(d, m, d1, m)
    BY <2>1, <2>2, DropShape
  <2> QED BY <2>2, <2>3 DEF Placed, Plain
<1> QED BY <1>4, <1>5

-----------------------------------------------------------------------------
\* What a step of a job makes of its work, and of Drive.

Stands(d, T, rt, rw, w, w1) ==
  \/ \E s \in Steps \ {"find", "make"} : w1 = Thread(s)
  \/ w1 = Queued(rt)
  \/ w1 = [w EXCEPT !.at = "root", !.recorded = rw.recorded, !.ref = rw.ref]
  \/ \E s \in Steps : /\ w1 = [w EXCEPT !.at = s]
                      /\ s \in {"find", "make"} => w.at = "find" \/ \E f \in d : f.id = w.root
  \/ \E f \in d : f.kind = T /\ w1 = [w EXCEPT !.at = "doc", !.ref.folder = f.id]

MakesRoot(d, m, rt, w, d1, m1, rt1, w1) ==
  /\ d1 = d \cup {Entry(m1, "root", Nil)} /\ m1 = m + 1 /\ rt1 = m1
  /\ w1 = [w EXCEPT !.at = "find", !.root = m1]

MakesFolder(d, m, T, w, d1, m1, w1) ==
  /\ w.at = "make"
  /\ d1 = d \cup {Entry(m1, T, w.root)} /\ m1 = m + 1
  /\ w1 = [w EXCEPT !.at = "doc", !.ref.folder = m1]

MakesDoc(d, m, w, d1, m1, w1) ==
  /\ \/ d1 = d \cup {Entry(m1, "doc", w.ref.folder)}
     \/ d1 = {f \in d : f.id # w.ref.doc} \cup {Entry(m1, "doc", w.ref.folder)}
  /\ m1 = m + 1
  /\ w1 = [w EXCEPT !.at = "audio", !.ref.doc = m1]

MakesAudio(d, m, w, d1, m1, w1) ==
  /\ \E f \in d : f.id = w.ref.folder
  /\ d1 = d \cup {Entry(m1, "audio", w.ref.folder)} /\ m1 = m + 1
  /\ w1 = [w EXCEPT !.at = "save", !.ref.audio = m1]

Gets(T, d, m, rt, rw, w, d1, m1, rt1, w1) ==
  \/ d1 = d /\ m1 = m /\ rt1 = rt /\ Stands(d, T, rt, rw, w, w1)
  \/ MakesRoot(d, m, rt, w, d1, m1, rt1, w1)
  \/ rt1 = rt /\ (\/ MakesFolder(d, m, T, w, d1, m1, w1)
                  \/ MakesDoc(d, m, w, d1, m1, w1)
                  \/ MakesAudio(d, m, w, d1, m1, w1))

LEMMA NothingHeld ==
  ASSUME NEW d, NEW m, NEW rt, Shape(d, m, rt), NEW T
  PROVE  Holds(d, m, T, NoRef)
BY NoRowType DEF Holds, Names, Shape, NoRef, Nil

LEMMA HoldsStays ==
  ASSUME NEW d, NEW m, NEW d1, NEW m1, Stays(d, m, d1, m1), NEW T, NEW r, Holds(d, m, T, r)
  PROVE  Holds(d1, m1, T, r)
BY DEF Holds, Stays

LEMMA WorkUpdates ==
  ASSUME NEW w \in Work, NEW s \in Steps, NEW n \in Nat
  PROVE  /\ LET x == [w EXCEPT !.at = s] IN x.at = s /\ x.root = w.root /\ x.ref = w.ref
         /\ LET x == [w EXCEPT !.at = s, !.root = n] IN x.at = s /\ x.root = n /\ x.ref = w.ref
         /\ LET x == [w EXCEPT !.at = s, !.ref.doc = n] IN
              x.at = s /\ x.root = w.root /\ x.ref = [w.ref EXCEPT !.doc = n]
         /\ LET x == [w EXCEPT !.at = s, !.ref.audio = n] IN
              x.at = s /\ x.root = w.root /\ x.ref = [w.ref EXCEPT !.audio = n]
         /\ LET x == [w EXCEPT !.at = s, !.ref.folder = n] IN
              x.at = s /\ x.root = w.root /\ x.ref = [w.ref EXCEPT !.folder = n]
BY DEF Work

\* Nothing is made: the gdriveRef is as it was, the row's or none, or it takes
\* a folder of the meeting's name.
LEMMA StandsSound ==
  ASSUME NEW d, NEW m, NEW rt, Shape(d, m, rt), NEW T, NEW w, Sound(d, m, T, w),
         NEW rw \in Row, Holds(d, m, T, rw.ref), NEW w1, Stands(d, T, rt, rw, w, w1)
  PROVE  Sound(d, m, T, w1) /\ w1.ref.audio \in {w.ref.audio, rw.ref.audio, Nil}
<1>0. /\ w \in Work /\ w.ref \in Ref /\ w.root \in Nat /\ rw.recorded \in BOOLEAN /\ rw.ref \in Ref
      /\ \A f \in d : f.id \in Nat /\ 0 < f.id /\ f.id <= m /\ \A g \in d : f.id = g.id => f.kind = g.kind
  BY WorkFields DEF Sound, Row, Shape
<1>r. rt \in Nat
  BY <1>0 DEF Shape, IsRoot, Nil
<1>1. ASSUME NEW s \in Steps \ {"find", "make"}, w1 = Thread(s)
      PROVE  Sound(d, m, T, w1) /\ w1.ref.audio = Nil
  <2>1. w1 \in Work /\ w1.at = s /\ w1.ref = NoRef /\ w1.root = Nil
    BY <1>1, ThreadType DEF Thread
  <2> QED BY <1>1, <2>1, NothingHeld DEF Sound, NoRef
<1>2. CASE w1 = Queued(rt)
  <2>1. w1 \in Work /\ w1.at = "queued" /\ w1.ref = NoRef /\ w1.root = rt
    BY <1>2, <1>r, ThreadType DEF Queued, Thread, Steps
  <2> QED BY <2>1, NothingHeld DEF Sound, NoRef, Shape
<1>3. CASE w1 = [w EXCEPT !.at = "root", !.recorded = rw.recorded, !.ref = rw.ref]
  <2>1. w1 \in Work /\ w1.at = "root" /\ w1.ref = rw.ref /\ w1.root = w.root
    BY <1>0, <1>3 DEF Work
  <2> QED BY <2>1 DEF Sound
<1>4. ASSUME NEW s \in Steps, w1 = [w EXCEPT !.at = s],
             s \in {"find", "make"} => w.at = "find" \/ \E f \in d : f.id = w.root
      PROVE  Sound(d, m, T, w1) /\ w1.ref.audio = w.ref.audio
  <2>1. w1 \in Work /\ w1.at = s /\ w1.ref = w.ref /\ w1.root = w.root
    BY <1>0, <1>4, AtUpdate, WorkUpdates DEF Nil
  <2>2. s \in {"find", "make"} => w.root # Nil
    BY <1>0, <1>4 DEF Sound, Nil
  <2> QED BY <2>1, <2>2 DEF Sound
<1>5. ASSUME NEW f \in d, f.kind = T, w1 = [w EXCEPT !.at = "doc", !.ref.folder = f.id]
      PROVE  Sound(d, m, T, w1) /\ w1.ref.audio = w.ref.audio
  <2>s. "doc" \in Steps /\ f.id \in Nat
    BY <1>0 DEF Steps
  <2>1. w1 \in Work
    BY <1>0, <1>5, <2>s, RefUpdate
  <2>2. w1.at = "doc" /\ w1.ref = [w.ref EXCEPT !.folder = f.id] /\ w1.root = w.root
    BY <1>0, <1>5, <2>s, WorkUpdates
  <2>3. /\ w1.ref \in Ref /\ w1.ref.doc = w.ref.doc /\ w1.ref.audio = w.ref.audio
        /\ w1.ref.folder = f.id
    BY <1>0, <2>s, <2>2 DEF Ref
  <2>4. Names(d, m, f.id, T) /\ f.id # Nil
    BY <1>0, <1>5 DEF Names, Nil
  <2>5. Holds(d, m, T, w1.ref)
    BY <2>3, <2>4 DEF Sound, Holds
  <2> QED BY <2>1, <2>2, <2>3, <2>5 DEF Sound
<1> QED BY <1>1, <1>2, <1>3, <1>4, <1>5 DEF Stands

\* What all meetings keep of Drive while a job makes a file.
Keeps(d, m, rt, d1, m1, rt1) ==
  /\ Shape(d1, m1, rt1) /\ Stays(d, m, d1, m1)
  /\ \A U : U \notin Plain /\ Placed(d, U) => Placed(d1, U)

LEMMA MadeRoot ==
  ASSUME NEW d, NEW m, NEW rt, Shape(d, m, rt), NEW T, NEW w, Sound(d, m, T, w),
         NEW d1, NEW m1, NEW rt1, NEW w1, MakesRoot(d, m, rt, w, d1, m1, rt1, w1)
  PROVE  Keeps(d, m, rt, d1, m1, rt1) /\ Sound(d1, m1, T, w1) /\ w1.ref.audio = w.ref.audio
<1>1. /\ m \in Nat /\ m1 \in Nat /\ m1 # Nil /\ "find" \in Steps
      /\ w \in Work /\ Holds(d, m, T, w.ref)
  BY DEF Shape, Sound, Steps, Nil, MakesRoot
<1>2. m1 = m + 1 /\ rt1 = m1
  BY DEF MakesRoot
<1>3. Shape(d1, m1, rt) /\ Stays(d, m, d1, m1) /\ IsRoot(d1, m1) /\ \A U : Placed(d, U) => Placed(d1, U)
  BY <1>2, MakeShape DEF MakesRoot, Plain
<1>4. Shape(d1, m1, rt1)
  BY <1>2, <1>3 DEF Shape
<1>5. w1 \in Work /\ w1.at = "find" /\ w1.root = m1 /\ w1.ref = w.ref
  <2>1. w1 = [w EXCEPT !.at = "find", !.root = m1]
    BY DEF MakesRoot
  <2>2. w1 \in Work
    BY <1>1, <2>1, AtUpdate
  <2> QED BY <1>1, <2>1, <2>2 DEF Work
<1>6. Sound(d1, m1, T, w1)
  BY <1>1, <1>2, <1>3, <1>5, HoldsStays DEF Sound
<1> QED BY <1>3, <1>4, <1>5, <1>6 DEF Keeps

\* A gdriveRef with one new id in it.
LEMMA NewHeld ==
  ASSUME NEW d, NEW m, NEW T, NEW r, Holds(d, m, T, r), NEW n \in Nat, n # Nil, NEW x,
         \/ x = [r EXCEPT !.doc = n] /\ Names(d, m, n, "doc")
         \/ x = [r EXCEPT !.folder = n] /\ Names(d, m, n, T)
         \/ x = [r EXCEPT !.audio = n] /\ Names(d, m, n, "audio") /\ r.folder # Nil
  PROVE  Holds(d, m, T, x)
<1>1. r \in Ref
  BY DEF Holds
<1>2. CASE x = [r EXCEPT !.doc = n]
  <2>1. x \in Ref /\ x.doc = n /\ x.audio = r.audio /\ x.folder = r.folder
    BY <1>1, <1>2 DEF Ref
  <2>2. x.doc # r.doc => Names(d, m, n, "doc")
    BY <1>1, <1>2, <2>1 DEF Ref
  <2> QED BY <2>1, <2>2 DEF Holds
<1>3. CASE x = [r EXCEPT !.folder = n]
  <2>1. x \in Ref /\ x.doc = r.doc /\ x.audio = r.audio /\ x.folder = n
    BY <1>1, <1>3 DEF Ref
  <2>2. x.folder # r.folder => Names(d, m, n, T)
    BY <1>1, <1>3, <2>1 DEF Ref
  <2> QED BY <2>1, <2>2 DEF Holds
<1>4. CASE x = [r EXCEPT !.audio = n]
  <2>1. x \in Ref /\ x.doc = r.doc /\ x.audio = n /\ x.folder = r.folder
    BY <1>1, <1>4 DEF Ref
  <2>2. x.audio # r.audio => Names(d, m, n, "audio") /\ r.folder # Nil
    BY <1>1, <1>4, <2>1 DEF Ref
  <2> QED BY <2>1, <2>2 DEF Holds
<1> QED BY <1>2, <1>3, <1>4

LEMMA MadeFolder ==
  ASSUME NEW d, NEW m, NEW rt, Shape(d, m, rt), NEW T, T \notin Plain, NEW w, Sound(d, m, T, w),
         NEW d1, NEW m1, NEW w1, MakesFolder(d, m, T, w, d1, m1, w1)
  PROVE  Keeps(d, m, rt, d1, m1, rt) /\ Sound(d1, m1, T, w1) /\ w1.ref.audio = w.ref.audio
<1>1. /\ m \in Nat /\ m1 \in Nat /\ m1 # Nil /\ "doc" \in Steps
      /\ w \in Work /\ w.ref \in Ref /\ Holds(d, m, T, w.ref) /\ (w.root = Nil \/ IsRoot(d, w.root))
  BY WorkFields DEF Shape, Sound, Steps, Nil, MakesFolder
<1>2. IsRoot(d, w.root) /\ m1 = m + 1 /\ T # "root"
  BY <1>1 DEF MakesFolder, Sound, Plain
<1>3. /\ Shape(d1, m1, rt) /\ Stays(d, m, d1, m1) /\ Names(d1, m1, m1, T)
      /\ \A U : Placed(d, U) => Placed(d1, U)
  BY <1>2, MakeShape DEF MakesFolder
<1>4. w1 \in Work /\ w1.at = "doc" /\ w1.root = w.root /\ w1.ref = [w.ref EXCEPT !.folder = m1]
  <2>1. w1 = [w EXCEPT !.at = "doc", !.ref.folder = m1]
    BY DEF MakesFolder
  <2>2. w1 \in Work
    BY <1>1, <2>1, RefUpdate
  <2> QED BY <1>1, <2>1, <2>2 DEF Work
<1>5. Holds(d1, m1, T, w1.ref)
  <2>1. Holds(d1, m1, T, w.ref)
    BY <1>1, <1>2, <1>3, <1>4, HoldsStays
  <2> QED BY <1>1, <1>2, <1>3, <1>4, <2>1, NewHeld
<1>6. w1.ref.audio = w.ref.audio
  BY <1>1, <1>4 DEF Ref
<1>7. w.root = Nil \/ IsRoot(d1, w.root)
  BY <1>2, <1>3 DEF Stays
<1>8. Sound(d1, m1, T, w1)
  BY <1>4, <1>5, <1>7 DEF Sound
<1> QED BY <1>3, <1>6, <1>8 DEF Keeps

LEMMA MadeDoc ==
  ASSUME NEW d, NEW m, NEW rt, Shape(d, m, rt), NEW T, NEW w, Sound(d, m, T, w),
         NEW d1, NEW m1, NEW w1, MakesDoc(d, m, w, d1, m1, w1)
  PROVE  Keeps(d, m, rt, d1, m1, rt) /\ Sound(d1, m1, T, w1) /\ w1.ref.audio = w.ref.audio
<1>1. /\ m \in Nat /\ m1 \in Nat /\ m1 # Nil /\ "audio" \in Steps
      /\ w \in Work /\ w.ref \in Ref /\ Holds(d, m, T, w.ref) /\ (w.root = Nil \/ IsRoot(d, w.root))
  BY WorkFields DEF Shape, Sound, Steps, Nil, MakesDoc
<1>2. m1 = m + 1 /\ Names(d, m, w.ref.doc, "doc")
  BY <1>1 DEF MakesDoc, Holds, Plain
<1>3. PICK d0 : /\ d0 \in {d, {f \in d : f.id # w.ref.doc}}
                /\ d1 = d0 \cup {Entry(m1, "doc", w.ref.folder)}
  BY DEF MakesDoc
<1>4. /\ Shape(d0, m, rt) /\ Stays(d, m, d0, m)
      /\ \A U : U \notin Plain /\ Placed(d, U) => Placed(d0, U)
  <2>1. CASE d0 = d
    BY <2>1 DEF Stays
  <2>2. CASE d0 = {f \in d : f.id # w.ref.doc}
    BY <1>2, <2>2, DocGoes
  <2> QED BY <1>3, <2>1, <2>2
<1>5. /\ Shape(d1, m1, rt) /\ Stays(d0, m, d1, m1) /\ Names(d1, m1, m1, "doc")
      /\ \A U : Placed(d0, U) => Placed(d1, U)
  <2>1. /\ m1 = m + 1 /\ d1 = d0 \cup {Entry(m1, "doc", w.ref.folder)}
        /\ Shape(d0, m, rt)
    BY <1>2, <1>3, <1>4
  <2> QED BY <2>1, MakeShape DEF Plain
<1>6. Stays(d, m, d1, m1)
  BY <1>4, <1>5 DEF Stays
<1>7. w1 \in Work /\ w1.at = "audio" /\ w1.root = w.root /\ w1.ref = [w.ref EXCEPT !.doc = m1]
  <2>1. w1 = [w EXCEPT !.at = "audio", !.ref.doc = m1]
    BY DEF MakesDoc
  <2>2. w1 \in Work
    BY <1>1, <2>1, RefUpdate
  <2> QED BY <1>1, <2>1, <2>2 DEF Work
<1>8. Holds(d1, m1, T, w1.ref)
  <2>1. Holds(d1, m1, T, w.ref)
    BY <1>1, <1>2, <1>5, <1>6, <1>7, HoldsStays
  <2> QED BY <1>1, <1>2, <1>5, <1>6, <1>7, <2>1, NewHeld
<1>9. w1.ref.audio = w.ref.audio
  BY <1>1, <1>7 DEF Ref
<1>10. w.root = Nil \/ IsRoot(d1, w.root)
  BY <1>1, <1>6 DEF Stays
<1>11. Sound(d1, m1, T, w1)
  BY <1>7, <1>8, <1>10 DEF Sound
<1> QED BY <1>4, <1>5, <1>6, <1>9, <1>11 DEF Keeps

LEMMA MadeAudio ==
  ASSUME NEW d, NEW m, NEW rt, Shape(d, m, rt), NEW T, NEW w, Sound(d, m, T, w),
         NEW d1, NEW m1, NEW w1, MakesAudio(d, m, w, d1, m1, w1)
  PROVE  Keeps(d, m, rt, d1, m1, rt) /\ Sound(d1, m1, T, w1) /\ Placed(d1, T)
<1>1. /\ m \in Nat /\ m1 \in Nat /\ m1 # Nil /\ "save" \in Steps
      /\ w \in Work /\ w.ref \in Ref /\ Holds(d, m, T, w.ref) /\ (w.root = Nil \/ IsRoot(d, w.root))
  BY WorkFields DEF Shape, Sound, Steps, Nil, MakesAudio
<1>2. PICK g \in d : g.id = w.ref.folder
  BY DEF MakesAudio
<1>3. g.kind = T /\ w.ref.folder # Nil /\ m1 = m + 1
  BY <1>1, <1>2 DEF Holds, Names, Shape, MakesAudio, Nil
<1>4. /\ Shape(d1, m1, rt) /\ Stays(d, m, d1, m1) /\ Names(d1, m1, m1, "audio")
      /\ \A U : Placed(d, U) => Placed(d1, U)
  BY <1>3, MakeShape DEF MakesAudio, Plain
<1>5. Placed(d1, T)
  <2>1. Entry(m1, "audio", w.ref.folder) \in d1 /\ g \in d1
    BY DEF MakesAudio
  <2> QED BY <1>2, <1>3, <2>1 DEF Placed, Entry
<1>6. w1 \in Work /\ w1.at = "save" /\ w1.root = w.root /\ w1.ref = [w.ref EXCEPT !.audio = m1]
  <2>1. w1 = [w EXCEPT !.at = "save", !.ref.audio = m1]
    BY DEF MakesAudio
  <2>2. w1 \in Work
    BY <1>1, <2>1, RefUpdate
  <2> QED BY <1>1, <2>1, <2>2 DEF Work
<1>7. Holds(d1, m1, T, w1.ref)
  <2>1. Holds(d1, m1, T, w.ref)
    BY <1>1, <1>3, <1>4, <1>6, HoldsStays
  <2> QED BY <1>1, <1>3, <1>4, <1>6, <2>1, NewHeld
<1>8. w.root = Nil \/ IsRoot(d1, w.root)
  BY <1>1, <1>4 DEF Stays
<1>9. Sound(d1, m1, T, w1)
  BY <1>6, <1>7, <1>8 DEF Sound
<1> QED BY <1>4, <1>5, <1>9 DEF Keeps

LEMMA GetsSound ==
  ASSUME NEW d, NEW m, NEW rt, Shape(d, m, rt), NEW T, T \notin Plain, NEW w, Sound(d, m, T, w),
         NEW rw \in Row, Holds(d, m, T, rw.ref), NEW d1, NEW m1, NEW rt1, NEW w1,
         Gets(T, d, m, rt, rw, w, d1, m1, rt1, w1)
  PROVE  /\ Keeps(d, m, rt, d1, m1, rt1) /\ Sound(d1, m1, T, w1)
         /\ w1.ref.audio \in {w.ref.audio, rw.ref.audio, Nil} \/ Placed(d1, T)
<1>1. CASE d1 = d /\ m1 = m /\ rt1 = rt /\ Stands(d, T, rt, rw, w, w1)
  BY <1>1, StandsSound DEF Keeps, Stays
<1>2. CASE MakesRoot(d, m, rt, w, d1, m1, rt1, w1)
  BY <1>2, MadeRoot
<1>3. CASE rt1 = rt /\ MakesFolder(d, m, T, w, d1, m1, w1)
  BY <1>3, MadeFolder
<1>4. CASE rt1 = rt /\ MakesDoc(d, m, w, d1, m1, w1)
  BY <1>4, MadeDoc
<1>5. CASE rt1 = rt /\ MakesAudio(d, m, w, d1, m1, w1)
  BY <1>5, MadeAudio
<1> QED BY <1>1, <1>2, <1>3, <1>4, <1>5 DEF Gets

-----------------------------------------------------------------------------
\* What a meeting keeps: all it holds has its kind, and until its deletion is
\* asked for the recording is in its file or in its folder.
Cares(d, m, T, D, pst, kpt, rw, rn, dl, wp) ==
  /\ rw \in Row /\ (rw.stored \/ rw = NoRow)
  /\ Holds(d, m, T, rw.ref) /\ Holds(d, m, T, wp)
  /\ rn \in [D -> Work] /\ \A t \in D : Sound(d, m, T, rn[t])
  /\ dl = "none" =>
       /\ wp = NoRef
       /\ rw.ref.audio # Nil => Placed(d, T)
       /\ \A t \in D : rn[t].ref.audio # Nil => Placed(d, T)
       /\ pst = "bound" \/ rw.recorded => kpt \/ Placed(d, T)

\* A meeting beside which another one, or its own deletion, changes Drive.
LEMMA CaresStays ==
  ASSUME NEW d, NEW m, NEW d1, NEW m1, Stays(d, m, d1, m1), NEW T, NEW D,
         NEW pst, NEW kpt, NEW rw, NEW rn, NEW dl, NEW wp,
         Cares(d, m, T, D, pst, kpt, rw, rn, dl, wp),
         dl = "none" /\ Placed(d, T) => Placed(d1, T)
  PROVE  Cares(d1, m1, T, D, pst, kpt, rw, rn, dl, wp)
<1>1. \A t \in D : Sound(d1, m1, T, rn[t])
  <2> SUFFICES ASSUME NEW t \in D PROVE Sound(d1, m1, T, rn[t])
    OBVIOUS
  <2>1. Sound(d, m, T, rn[t])
    BY DEF Cares
  <2>2. Holds(d1, m1, T, rn[t].ref)
    BY <2>1, HoldsStays DEF Sound
  <2> QED BY <2>1, <2>2 DEF Sound, Stays
<1>2. Holds(d1, m1, T, rw.ref) /\ Holds(d1, m1, T, wp)
  BY HoldsStays DEF Cares
<1> QED BY <1>1, <1>2 DEF Cares

\* A job's step: SaveRef may put its gdriveRef into the row, and PruneLocal
\* removes the file when it has uploaded or found the recording.
Works(T, d, m, rt, kpt, rw, rn, j, d1, m1, rt1, kpt1, rw1, rn1, w1) ==
  /\ rn1 = [rn EXCEPT ![j] = w1]
  /\ Gets(T, d, m, rt, rw, rn[j], d1, m1, rt1, w1)
  /\ kpt1 = kpt \/ kpt1 = (kpt /\ rn[j].ref.audio = Nil)
  /\ rw1 = rw \/ (rw.stored /\ rw1 = [rw EXCEPT !.ref = rn[j].ref])

LEMMA CaresJob ==
  ASSUME NEW d, NEW m, NEW rt, Shape(d, m, rt), NEW T, T \notin Plain, NEW D,
         NEW pst, NEW kpt, NEW rw, NEW rn, NEW dl, NEW wp,
         Cares(d, m, T, D, pst, kpt, rw, rn, dl, wp),
         NEW j \in D, NEW d1, NEW m1, NEW rt1, NEW w1, NEW kpt1, NEW rw1, NEW rn1,
         Works(T, d, m, rt, kpt, rw, rn, j, d1, m1, rt1, kpt1, rw1, rn1, w1)
  PROVE  Keeps(d, m, rt, d1, m1, rt1) /\ Cares(d1, m1, T, D, pst, kpt1, rw1, rn1, dl, wp)
<1>1. /\ rw \in Row /\ Holds(d, m, T, rw.ref) /\ Sound(d, m, T, rn[j])
      /\ rn \in [D -> Work] /\ (rw.stored \/ rw = NoRow)
  BY DEF Cares
<1>2. /\ Keeps(d, m, rt, d1, m1, rt1) /\ Sound(d1, m1, T, w1)
      /\ w1.ref.audio \in {rn[j].ref.audio, rw.ref.audio, Nil} \/ Placed(d1, T)
  BY <1>1, GetsSound DEF Works
<1>3. Stays(d, m, d1, m1) /\ (Placed(d, T) => Placed(d1, T))
  BY <1>2 DEF Keeps
<1>4. Cares(d1, m1, T, D, pst, kpt, rw, rn, dl, wp)
  BY <1>3, CaresStays
<1>5. w1 \in Work /\ rn1 \in [D -> Work] /\ \A t \in D : rn1[t] = IF t = j THEN w1 ELSE rn[t]
  BY <1>1, <1>2 DEF Sound, Works
<1>6. /\ Holds(d1, m1, T, rw.ref) /\ Holds(d1, m1, T, rn[j].ref) /\ rn[j].ref \in Ref
      /\ \A t \in D : Sound(d1, m1, T, rn[t])
  BY <1>4 DEF Cares, Sound, Holds
<1>7. /\ rw1 \in Row /\ (rw1.stored \/ rw1 = NoRow) /\ rw1.recorded = rw.recorded
      /\ rw1.ref \in {rw.ref, rn[j].ref}
  BY <1>1, <1>6 DEF Row, Works
<1>8. dl = "none" =>
        /\ wp = NoRef
        /\ \A t \in D : rn[t].ref.audio # Nil => Placed(d1, T)
        /\ rw.ref.audio # Nil => Placed(d1, T)
        /\ pst = "bound" \/ rw.recorded => kpt \/ Placed(d1, T)
  BY <1>4 DEF Cares
<1>9. dl = "none" =>
        /\ rw1.ref.audio # Nil => Placed(d1, T)
        /\ \A t \in D : rn1[t].ref.audio # Nil => Placed(d1, T)
        /\ pst = "bound" \/ rw1.recorded => kpt1 \/ Placed(d1, T)
  <2>1. dl = "none" => (rw1.ref.audio # Nil => Placed(d1, T))
    BY <1>7, <1>8
  <2>2. dl = "none" => \A t \in D : rn1[t].ref.audio # Nil => Placed(d1, T)
    BY <1>2, <1>5, <1>8
  <2>3. dl = "none" /\ rn[j].ref.audio # Nil => Placed(d1, T)
    BY <1>8
  <2>4. rn[j].ref.audio = Nil => (kpt => kpt1)
    BY DEF Works
  <2>5. dl = "none" => (pst = "bound" \/ rw1.recorded => kpt1 \/ Placed(d1, T))
    BY <1>7, <1>8, <2>3, <2>4
  <2> QED BY <2>1, <2>2, <2>5
<1>10. \A t \in D : Sound(d1, m1, T, rn1[t])
  BY <1>2, <1>5, <1>6
<1>11. Holds(d1, m1, T, rw1.ref) /\ Holds(d1, m1, T, wp)
  BY <1>4, <1>6, <1>7 DEF Cares
<1> QED BY <1>2, <1>5, <1>7, <1>8, <1>9, <1>10, <1>11 DEF Cares

\* The other steps of a meeting but WipeDrive: no file is made.
Turns(pst, kpt, rw, rn, dl, wp, pst1, kpt1, rw1, rn1, dl1, wp1) ==
  /\ rn1 = rn \/ (/\ DOMAIN rn1 = DOMAIN rn
                  /\ \A t \in DOMAIN rn : rn1[t] \in {Thread("idle"), Thread("over")})
  /\ wp1 \in {wp, NoRef} \/ (wp1 = rw.ref /\ dl1 # "none")
  /\ dl1 = "none" => dl = "none" /\ (kpt1 = kpt \/ kpt1)
  /\ rw1 \in {rw, NoRow} \/ rw1 = [stored |-> TRUE, recorded |-> (pst = "bound"), ref |-> NoRef]
  /\ pst1 = "bound" => pst = "bound" \/ kpt1

LEMMA CaresTurns ==
  ASSUME NEW d, NEW m, NEW rt, Shape(d, m, rt), NEW T, NEW D,
         NEW pst, NEW kpt, NEW rw, NEW rn, NEW dl, NEW wp,
         Cares(d, m, T, D, pst, kpt, rw, rn, dl, wp),
         NEW pst1, NEW kpt1, NEW rw1, NEW rn1, NEW dl1, NEW wp1,
         Turns(pst, kpt, rw, rn, dl, wp, pst1, kpt1, rw1, rn1, dl1, wp1),
         rn1 \in [D -> Work]
  PROVE  Cares(d, m, T, D, pst1, kpt1, rw1, rn1, dl1, wp1)
<1>0. Holds(d, m, T, NoRef) /\ NoRef.audio = Nil /\ NoRow.ref = NoRef /\ NoRow.recorded = FALSE
  BY NothingHeld DEF NoRef, NoRow
<1>1. /\ rw \in Row /\ (rw.stored \/ rw = NoRow) /\ Holds(d, m, T, rw.ref) /\ Holds(d, m, T, wp)
      /\ rn \in [D -> Work] /\ \A t \in D : Sound(d, m, T, rn[t])
  BY DEF Cares
<1>2. dl = "none" =>
        /\ wp = NoRef
        /\ rw.ref.audio # Nil => Placed(d, T)
        /\ \A t \in D : rn[t].ref.audio # Nil => Placed(d, T)
        /\ pst = "bound" \/ rw.recorded => kpt \/ Placed(d, T)
  BY DEF Cares
<1>3. \A t \in D : Sound(d, m, T, rn1[t]) /\ rn1[t].ref.audio \in {rn[t].ref.audio, Nil}
  <2>1. CASE rn1 = rn
    BY <1>1, <2>1
  <2>2. ASSUME NEW t \in D, rn1[t] \in {Thread("idle"), Thread("over")}
        PROVE  Sound(d, m, T, rn1[t]) /\ rn1[t].ref.audio = Nil
    <3>1. /\ rn1[t] \in Work /\ rn1[t].ref = NoRef /\ rn1[t].root = Nil
          /\ rn1[t].at \notin {"find", "make"}
      BY <2>2, ThreadType DEF Thread, Steps
    <3> QED BY <1>0, <3>1 DEF Sound
  <2> QED BY <1>1, <2>1, <2>2 DEF Turns
<1>4. /\ rw1 \in Row /\ (rw1.stored \/ rw1 = NoRow) /\ rw1.ref \in {rw.ref, NoRef}
      /\ rw1.recorded => rw.recorded \/ pst = "bound"
  <2>1. CASE rw1 \in {rw, NoRow}
    BY <1>0, <1>1, <2>1, NoRowType
  <2>2. CASE rw1 = [stored |-> TRUE, recorded |-> (pst = "bound"), ref |-> NoRef]
    <3>1. rw1 \in Row
      BY <2>2, NoRowType DEF Row
    <3>2. rw1.stored /\ rw1.recorded = (pst = "bound") /\ rw1.ref = NoRef
      BY <2>2
    <3> QED BY <3>1, <3>2
  <2> QED BY <2>1, <2>2 DEF Turns
<1>5. Holds(d, m, T, rw1.ref) /\ Holds(d, m, T, wp1)
  BY <1>0, <1>1, <1>4 DEF Turns
<1>6. dl1 = "none" =>
        /\ wp1 = NoRef
        /\ rw1.ref.audio # Nil => Placed(d, T)
        /\ \A t \in D : rn1[t].ref.audio # Nil => Placed(d, T)
        /\ pst1 = "bound" \/ rw1.recorded => kpt1 \/ Placed(d, T)
  BY <1>0, <1>2, <1>3, <1>4 DEF Turns
<1> QED BY <1>3, <1>4, <1>5, <1>6 DEF Cares

ThisInv == Cares(drive, made, Title, Threads, post, kept, row, run, del, wipe)

ThatInv == Cares(drive, made, OtherTitle, Other!Threads, post2, kept2, row2, run2, del2, wipe2)

TwinInv == Shape(drive, made, root) /\ ThisInv /\ ThatInv

LEMMA OtherNames ==
  /\ Other!Nil = Nil /\ Other!NoRef = NoRef /\ Other!NoRow = NoRow /\ Other!Ref = Ref
  /\ Other!Row = Row /\ Other!Work = Work
  /\ \A s : Other!Thread(s) = Thread(s)
  /\ \A rt : Other!Queued(rt) = Queued(rt)
  /\ \A k, p : Other!Create(k, p) <=> Create(k, p)
BY DEF Other!Nil, Other!NoRef, Other!NoRow, Other!Ref, Other!Row, Other!Work, Other!Thread,
   Other!Queued, Other!Create, Nil, NoRef, NoRow, Ref, Row, Work, Thread, Queued, Create

-----------------------------------------------------------------------------
(* What the first meeting's jobs do. *)

\* Job j takes w1 for its work.
ThisTakes(j, w1) ==
  /\ run' = [run EXCEPT ![j] = w1]
  /\ Gets(Title, drive, made, root, row, run[j], drive', made', root', w1)

LEMMA ThisStands ==
  ASSUME run \in [Threads -> Work], NEW j \in Threads, UNCHANGED files,
         \/ Fails(j) /\ j \in Syncs
         \/ Ends(j, "release") \/ Ends(j, "over")
         \/ run' = [run EXCEPT ![j] = Queued(root)]
         \/ \E s \in Steps : Goto(j, s) /\ (s \in {"find", "make"} => run[j].at = "find" \/ Live(run[j].root))
  PROVE  \E w1 : ThisTakes(j, w1)
<1>1. drive' = drive /\ made' = made /\ root' = root
  BY DEF files
<1>2. ASSUME NEW w1, run' = [run EXCEPT ![j] = w1], Stands(drive, Title, root, row, run[j], w1)
      PROVE  \E w : ThisTakes(j, w)
  BY <1>1, <1>2 DEF ThisTakes, Gets
<1>3. ASSUME NEW s \in Steps \ {"find", "make"}, Ends(j, s) PROVE \E w : ThisTakes(j, w)
  <2>1. run' = [run EXCEPT ![j] = Thread(s)]
    BY <1>3, OtherNames DEF Ends
  <2>2. Stands(drive, Title, root, row, run[j], Thread(s))
    BY DEF Stands
  <2> QED BY <1>2, <2>1, <2>2
<1>4. CASE run' = [run EXCEPT ![j] = Queued(root)]
  <2>1. run' = [run EXCEPT ![j] = Queued(root)]
    BY <1>4, OtherNames
  <2>2. Stands(drive, Title, root, row, run[j], Queued(root))
    BY DEF Stands
  <2> QED BY <1>2, <2>1, <2>2
<1>5. ASSUME NEW s \in Steps, Goto(j, s),
             s \in {"find", "make"} => run[j].at = "find" \/ Live(run[j].root)
      PROVE  \E w : ThisTakes(j, w)
  <2>1. run' = [run EXCEPT ![j] = [run[j] EXCEPT !.at = s]]
    BY <1>5 DEF Goto
  <2>2. Stands(drive, Title, root, row, run[j], [run[j] EXCEPT !.at = s])
    BY <1>5 DEF Stands, Live
  <2> QED BY <1>2, <2>1, <2>2
<1> QED BY <1>3, <1>4, <1>5 DEF Fails, Steps

LEMMA ThisWorks ==
  ASSUME run \in [Threads -> Work], NEW j \in Threads, j \in Syncs,
         RequestSync(j) \/ SyncStep(j) \/ Fault(j)
  PROVE  \E w1 : ThisTakes(j, w1)
<1>1. CASE RequestSync(j) \/ Begin(j) \/ PruneLocal(j) \/ Release(j) \/ Fault(j)
  BY <1>1, ThisStands DEF RequestSync, Begin, PruneLocal, Release,
     Fault, Steps
<1>2. CASE Read(j)
  <2>1. CASE Fails(j)
    BY <1>2, <2>1, ThisStands DEF Read
  <2>2. CASE run' = [run EXCEPT ![j].at = "root", ![j].recorded = row.recorded, ![j].ref = row.ref]
    <3> DEFINE w1 == [run[j] EXCEPT !.at = "root", !.recorded = row.recorded, !.ref = row.ref]
    <3>1. run' = [run EXCEPT ![j] = w1]
      BY <2>2
    <3>2. Stands(drive, Title, root, row, run[j], w1)
      BY DEF Stands
    <3>3. drive' = drive /\ made' = made /\ root' = root
      BY <1>2 DEF Read, files
    <3> QED BY <3>1, <3>2, <3>3 DEF ThisTakes, Gets
  <2> QED BY <1>2, <2>1, <2>2 DEF Read
<1>3. CASE EnsureRoot(j)
  <2>1. CASE Live(run[j].root) /\ Goto(j, "find") /\ UNCHANGED files
    BY <2>1, ThisStands DEF Steps
  <2>2. CASE /\ Create("root", Nil) /\ root' = made + 1
             /\ run' = [run EXCEPT ![j].at = "find", ![j].root = made + 1]
    <3> DEFINE w1 == [run[j] EXCEPT !.at = "find", !.root = made']
    <3>1. made' = made + 1 /\ drive' = drive \cup {Entry(made', "root", Nil)}
      BY <2>2 DEF Create, Entry
    <3>2. run' = [run EXCEPT ![j] = w1]
      BY <2>2, <3>1
    <3>3. MakesRoot(drive, made, root, run[j], drive', made', root', w1)
      BY <2>2, <3>1 DEF MakesRoot
    <3> QED BY <3>2, <3>3 DEF ThisTakes, Gets
  <2> QED BY <1>3, <2>1, <2>2, OtherNames DEF EnsureRoot, Live, Live
<1>4. CASE FindFolder(j)
  <2>1. CASE Goto(j, "doc") \/ Goto(j, "make")
    BY <1>4, <2>1, ThisStands DEF FindFolder, At, Steps
  <2>2. ASSUME NEW f \in drive, f.kind = Title, run' = [run EXCEPT ![j].at = "doc", ![j].ref.folder = f.id]
        PROVE  \E w : ThisTakes(j, w)
    <3> DEFINE w1 == [run[j] EXCEPT !.at = "doc", !.ref.folder = f.id]
    <3>1. run' = [run EXCEPT ![j] = w1]
      BY <2>2
    <3>2. Stands(drive, Title, root, row, run[j], w1)
      BY <2>2 DEF Stands
    <3>3. drive' = drive /\ made' = made /\ root' = root
      BY <1>4 DEF FindFolder, files
    <3> QED BY <3>1, <3>2, <3>3 DEF ThisTakes, Gets
  <2> QED BY <1>4, <2>1, <2>2 DEF FindFolder
<1>5. CASE MakeFolder(j)
  <2> DEFINE w1 == [run[j] EXCEPT !.at = "doc", !.ref.folder = made']
  <2>1. /\ made' = made + 1 /\ drive' = drive \cup {Entry(made', Title, run[j].root)}
        /\ root' = root /\ run[j].at = "make"
        /\ run' = [run EXCEPT ![j].at = "doc", ![j].ref.folder = made + 1]
    BY <1>5, OtherNames DEF MakeFolder, Create, Entry, At
  <2>2. run' = [run EXCEPT ![j] = w1]
    BY <2>1
  <2>3. MakesFolder(drive, made, Title, run[j], drive', made', w1)
    BY <2>1 DEF MakesFolder
  <2> QED BY <2>1, <2>2, <2>3 DEF ThisTakes, Gets
<1>6. CASE BuildDoc(j)
  <2>1. CASE (Goto(j, "audio") \/ Fails(j)) /\ UNCHANGED files
    BY <2>1, ThisStands DEF Steps
  <2>2. CASE /\ \/ Create("doc", run[j].ref.folder)
                \/ /\ made' = made + 1
                   /\ drive' = {f \in drive : f.id # run[j].ref.doc}
                                 \cup {[id |-> made + 1, kind |-> "doc", parent |-> run[j].ref.folder]}
             /\ run' = [run EXCEPT ![j].at = "audio", ![j].ref.doc = made + 1] /\ root' = root
    <3> DEFINE w1 == [run[j] EXCEPT !.at = "audio", !.ref.doc = made']
    <3>1. /\ made' = made + 1
          /\ \/ drive' = drive \cup {Entry(made', "doc", run[j].ref.folder)}
             \/ drive' = {f \in drive : f.id # run[j].ref.doc} \cup {Entry(made', "doc", run[j].ref.folder)}
      BY <2>2, OtherNames DEF Create, Entry
    <3>2. run' = [run EXCEPT ![j] = w1]
      BY <2>2, <3>1
    <3>3. MakesDoc(drive, made, run[j], drive', made', w1)
      BY <3>1 DEF MakesDoc
    <3> QED BY <2>2, <3>2, <3>3 DEF ThisTakes, Gets
  <2> QED BY <1>6, <2>1, <2>2 DEF BuildDoc, UpsertDoc, ApplyTemplate,
              Previous
<1>7. CASE UploadAudio(j)
  <2>1. CASE (Goto(j, "save") \/ Fails(j)) /\ UNCHANGED files
    BY <2>1, ThisStands DEF Steps
  <2>2. CASE /\ Live(run[j].ref.folder) /\ Create("audio", run[j].ref.folder) /\ root' = root
             /\ run' = [run EXCEPT ![j].at = "save", ![j].ref.audio = made + 1]
    <3> DEFINE w1 == [run[j] EXCEPT !.at = "save", !.ref.audio = made']
    <3>1. made' = made + 1 /\ drive' = drive \cup {Entry(made', "audio", run[j].ref.folder)}
      BY <2>2, OtherNames DEF Create, Entry
    <3>2. run' = [run EXCEPT ![j] = w1]
      BY <2>2, <3>1
    <3>3. MakesAudio(drive, made, run[j], drive', made', w1)
      BY <2>2, <3>1 DEF MakesAudio, Live
    <3> QED BY <2>2, <3>2, <3>3 DEF ThisTakes, Gets
  <2> QED BY <1>7, <2>1, <2>2 DEF UploadAudio
<1>8. CASE SaveRef(j)
  <2>1. Goto(j, "prune") /\ UNCHANGED files
    BY <1>8 DEF SaveRef
  <2> QED BY <2>1, ThisStands DEF Steps
<1> QED BY <1>1, <1>2, <1>3, <1>4, <1>5, <1>6, <1>7, <1>8 DEF SyncStep, Step


-----------------------------------------------------------------------------
(* What the second meeting's jobs do. *)

\* Job j takes w1 for its work.
ThatTakes(j, w1) ==
  /\ run2' = [run2 EXCEPT ![j] = w1]
  /\ Gets(OtherTitle, drive, made, root, row2, run2[j], drive', made', root', w1)

LEMMA ThatStands ==
  ASSUME run2 \in [Other!Threads -> Work], NEW j \in Other!Threads, UNCHANGED files,
         \/ Other!Fails(j) /\ j \in Other!Syncs
         \/ Other!Ends(j, "release") \/ Other!Ends(j, "over")
         \/ run2' = [run2 EXCEPT ![j] = Other!Queued(root)]
         \/ \E s \in Steps :
              Other!Goto(j, s) /\ (s \in {"find", "make"} => run2[j].at = "find" \/ Live(run2[j].root))
  PROVE  \E w1 : ThatTakes(j, w1)
<1>1. drive' = drive /\ made' = made /\ root' = root
  BY DEF files
<1>2. ASSUME NEW w1, run2' = [run2 EXCEPT ![j] = w1], Stands(drive, OtherTitle, root, row2, run2[j], w1)
      PROVE  \E w : ThatTakes(j, w)
  BY <1>1, <1>2 DEF ThatTakes, Gets
<1>3. ASSUME NEW s \in Steps \ {"find", "make"}, Other!Ends(j, s) PROVE \E w : ThatTakes(j, w)
  <2>1. run2' = [run2 EXCEPT ![j] = Thread(s)]
    BY <1>3, OtherNames DEF Other!Ends
  <2>2. Stands(drive, OtherTitle, root, row2, run2[j], Thread(s))
    BY DEF Stands
  <2> QED BY <1>2, <2>1, <2>2
<1>4. CASE run2' = [run2 EXCEPT ![j] = Other!Queued(root)]
  <2>1. run2' = [run2 EXCEPT ![j] = Queued(root)]
    BY <1>4, OtherNames
  <2>2. Stands(drive, OtherTitle, root, row2, run2[j], Queued(root))
    BY DEF Stands
  <2> QED BY <1>2, <2>1, <2>2
<1>5. ASSUME NEW s \in Steps, Other!Goto(j, s),
             s \in {"find", "make"} => run2[j].at = "find" \/ Live(run2[j].root)
      PROVE  \E w : ThatTakes(j, w)
  <2>1. run2' = [run2 EXCEPT ![j] = [run2[j] EXCEPT !.at = s]]
    BY <1>5 DEF Other!Goto
  <2>2. Stands(drive, OtherTitle, root, row2, run2[j], [run2[j] EXCEPT !.at = s])
    BY <1>5 DEF Stands, Live
  <2> QED BY <1>2, <2>1, <2>2
<1>6. CASE \/ Other!Fails(j) /\ j \in Other!Syncs
           \/ Other!Ends(j, "release") \/ Other!Ends(j, "over")
  BY <1>3, <1>6 DEF Other!Fails, Steps
<1>7. CASE \E s \in Steps :
             Other!Goto(j, s) /\ (s \in {"find", "make"} => run2[j].at = "find" \/ Live(run2[j].root))
  BY <1>5, <1>7
<1> QED BY <1>4, <1>6, <1>7

LEMMA ThatWorks ==
  ASSUME run2 \in [Other!Threads -> Work], NEW j \in Other!Threads, j \in Other!Syncs,
         Other!RequestSync(j) \/ Other!SyncStep(j) \/ Other!Fault(j)
  PROVE  \E w1 : ThatTakes(j, w1)
<1>1. CASE Other!RequestSync(j) \/ Other!Begin(j) \/ Other!PruneLocal(j) \/ Other!Release(j) \/ Other!Fault(j)
  BY <1>1, ThatStands DEF Other!RequestSync, Other!Begin, Other!PruneLocal, Other!Release,
     Other!Fault, Steps, files, Other!files
<1>2. CASE Other!Read(j)
  <2>1. CASE Other!Fails(j)
    BY <1>2, <2>1, ThatStands DEF Other!Read, files, Other!files
  <2>2. CASE run2' = [run2 EXCEPT ![j].at = "root", ![j].recorded = row2.recorded, ![j].ref = row2.ref]
    <3> DEFINE w1 == [run2[j] EXCEPT !.at = "root", !.recorded = row2.recorded, !.ref = row2.ref]
    <3>1. run2' = [run2 EXCEPT ![j] = w1]
      BY <2>2
    <3>2. Stands(drive, OtherTitle, root, row2, run2[j], w1)
      BY DEF Stands
    <3>3. drive' = drive /\ made' = made /\ root' = root
      BY <1>2 DEF Other!Read, files, Other!files
    <3> QED BY <3>1, <3>2, <3>3 DEF ThatTakes, Gets
  <2> QED BY <1>2, <2>1, <2>2 DEF Other!Read
<1>3. CASE Other!EnsureRoot(j)
  <2>1. CASE Live(run2[j].root) /\ Other!Goto(j, "find") /\ UNCHANGED files
    BY <2>1, ThatStands DEF Steps
  <2>2. CASE /\ Create("root", Nil) /\ root' = made + 1
             /\ run2' = [run2 EXCEPT ![j].at = "find", ![j].root = made + 1]
    <3> DEFINE w1 == [run2[j] EXCEPT !.at = "find", !.root = made']
    <3>1. made' = made + 1 /\ drive' = drive \cup {Entry(made', "root", Nil)}
      BY <2>2 DEF Create, Entry
    <3>2. run2' = [run2 EXCEPT ![j] = w1]
      BY <2>2, <3>1
    <3>3. MakesRoot(drive, made, root, run2[j], drive', made', root', w1)
      BY <2>2, <3>1 DEF MakesRoot
    <3> QED BY <3>2, <3>3 DEF ThatTakes, Gets
  <2> QED BY <1>3, <2>1, <2>2, OtherNames DEF Other!EnsureRoot, Other!Live, Live, files, Other!files
<1>4. CASE Other!FindFolder(j)
  <2>1. CASE Other!Goto(j, "doc") \/ Other!Goto(j, "make")
    BY <1>4, <2>1, ThatStands DEF Other!FindFolder, Other!At, Steps, files, Other!files
  <2>2. ASSUME NEW f \in drive, f.kind = OtherTitle,
               run2' = [run2 EXCEPT ![j].at = "doc", ![j].ref.folder = f.id]
        PROVE  \E w : ThatTakes(j, w)
    <3> DEFINE w1 == [run2[j] EXCEPT !.at = "doc", !.ref.folder = f.id]
    <3>1. run2' = [run2 EXCEPT ![j] = w1]
      BY <2>2
    <3>2. Stands(drive, OtherTitle, root, row2, run2[j], w1)
      BY <2>2 DEF Stands
    <3>3. drive' = drive /\ made' = made /\ root' = root
      BY <1>4 DEF Other!FindFolder, files, Other!files
    <3> QED BY <3>1, <3>2, <3>3 DEF ThatTakes, Gets
  <2> QED BY <1>4, <2>1, <2>2 DEF Other!FindFolder
<1>5. CASE Other!MakeFolder(j)
  <2> DEFINE w1 == [run2[j] EXCEPT !.at = "doc", !.ref.folder = made']
  <2>1. /\ made' = made + 1 /\ drive' = drive \cup {Entry(made', OtherTitle, run2[j].root)}
        /\ root' = root /\ run2[j].at = "make"
        /\ run2' = [run2 EXCEPT ![j].at = "doc", ![j].ref.folder = made + 1]
    BY <1>5, OtherNames DEF Other!MakeFolder, Create, Entry, Other!At
  <2>2. run2' = [run2 EXCEPT ![j] = w1]
    BY <2>1
  <2>3. MakesFolder(drive, made, OtherTitle, run2[j], drive', made', w1)
    BY <2>1 DEF MakesFolder
  <2> QED BY <2>1, <2>2, <2>3 DEF ThatTakes, Gets
<1>6. CASE Other!BuildDoc(j)
  <2>1. CASE (Other!Goto(j, "audio") \/ Other!Fails(j)) /\ UNCHANGED files
    BY <2>1, ThatStands DEF Steps
  <2>2. CASE /\ \/ Other!Create("doc", run2[j].ref.folder)
                \/ /\ made' = made + 1
                   /\ drive' = {f \in drive : f.id # run2[j].ref.doc}
                                 \cup {[id |-> made + 1, kind |-> "doc", parent |-> run2[j].ref.folder]}
             /\ run2' = [run2 EXCEPT ![j].at = "audio", ![j].ref.doc = made + 1] /\ root' = root
    <3> DEFINE w1 == [run2[j] EXCEPT !.at = "audio", !.ref.doc = made']
    <3>1. /\ made' = made + 1
          /\ \/ drive' = drive \cup {Entry(made', "doc", run2[j].ref.folder)}
             \/ drive' = {f \in drive : f.id # run2[j].ref.doc} \cup {Entry(made', "doc", run2[j].ref.folder)}
      BY <2>2, OtherNames DEF Create, Entry
    <3>2. run2' = [run2 EXCEPT ![j] = w1]
      BY <2>2, <3>1
    <3>3. MakesDoc(drive, made, run2[j], drive', made', w1)
      BY <3>1 DEF MakesDoc
    <3> QED BY <2>2, <3>2, <3>3 DEF ThatTakes, Gets
  <2> QED BY <1>6, <2>1, <2>2 DEF Other!BuildDoc, Other!UpsertDoc, Other!ApplyTemplate,
              Other!Previous, files, Other!files
<1>7. CASE Other!UploadAudio(j)
  <2>1. CASE (Other!Goto(j, "save") \/ Other!Fails(j)) /\ UNCHANGED files
    BY <2>1, ThatStands DEF Steps
  <2>2. CASE /\ Other!Live(run2[j].ref.folder) /\ Other!Create("audio", run2[j].ref.folder) /\ root' = root
             /\ run2' = [run2 EXCEPT ![j].at = "save", ![j].ref.audio = made + 1]
    <3> DEFINE w1 == [run2[j] EXCEPT !.at = "save", !.ref.audio = made']
    <3>1. made' = made + 1 /\ drive' = drive \cup {Entry(made', "audio", run2[j].ref.folder)}
      BY <2>2, OtherNames DEF Create, Entry
    <3>2. run2' = [run2 EXCEPT ![j] = w1]
      BY <2>2, <3>1
    <3>3. MakesAudio(drive, made, run2[j], drive', made', w1)
      BY <2>2, <3>1 DEF MakesAudio, Other!Live
    <3> QED BY <2>2, <3>2, <3>3 DEF ThatTakes, Gets
  <2> QED BY <1>7, <2>1, <2>2 DEF Other!UploadAudio, files, Other!files
<1>8. CASE Other!SaveRef(j)
  <2>1. Other!Goto(j, "prune") /\ UNCHANGED files
    BY <1>8 DEF Other!SaveRef, files, Other!files
  <2> QED BY <2>1, ThatStands DEF Steps
<1> QED BY <1>1, <1>2, <1>3, <1>4, <1>5, <1>6, <1>7, <1>8 DEF Other!SyncStep, Other!Step

LEMMA ThisFiles ==
  ASSUME NEW j, RequestSync(j) \/ SyncStep(j) \/ Fault(j)
  PROVE  /\ post' = post /\ del' = del /\ wipe' = wipe
         /\ kept' = kept \/ kept' = (kept /\ run[j].ref.audio = Nil)
         /\ row' = row \/ (row.stored /\ row' = [row EXCEPT !.ref = run[j].ref])
<1>1. CASE RequestSync(j) \/ Begin(j) \/ Read(j) \/ Release(j) \/ Fault(j)
  BY <1>1, OtherNames DEF RequestSync, Begin, Read, Release, Fault
<1>2. CASE EnsureRoot(j) \/ FindFolder(j) \/ MakeFolder(j) \/ BuildDoc(j) \/ UploadAudio(j)
  BY <1>2 DEF EnsureRoot, FindFolder, MakeFolder, BuildDoc, UploadAudio
<1>3. CASE SaveRef(j) \/ PruneLocal(j)
  BY <1>3, OtherNames DEF SaveRef, PruneLocal
<1> QED BY <1>1, <1>2, <1>3 DEF SyncStep, Step

\* A meeting that wipes or not: what stays of Drive for itself and for others.
LEMMA ThisMoves ==
  ASSUME Shape(drive, made, root), ThisInv, Unmailed
  PROVE  /\ Shape(drive', made', root') /\ Stays(drive, made, drive', made')
         /\ \A U : U \notin Plain /\ U # Title /\ Placed(drive, U) => Placed(drive', U)
         /\ ThisInv'
<1>t. Title \notin Plain
  BY TitleAssumption, OtherTitleAssumption DEF Plain
<1>r. run \in [Threads -> Work] /\ \A j \in Syncs : j \in Threads
  BY DEF ThisInv, Cares, Threads
<1>1. ASSUME NEW j \in Syncs, RequestSync(j) \/ SyncStep(j) \/ Fault(j)
      PROVE  /\ Keeps(drive, made, root, drive', made', root')
             /\ Cares(drive', made', Title, Threads, post', kept', row', run', del', wipe')
  <2>1. PICK w1 : /\ run' = [run EXCEPT ![j] = w1]
                  /\ Gets(Title, drive, made, root, row, run[j], drive', made', root', w1)
    BY <1>1, <1>r, ThisWorks DEF ThisTakes
  <2>2. /\ post' = post /\ del' = del /\ wipe' = wipe
        /\ kept' = kept \/ kept' = (kept /\ run[j].ref.audio = Nil)
        /\ row' = row \/ (row.stored /\ row' = [row EXCEPT !.ref = run[j].ref])
    BY <1>1, ThisFiles
  <2>3. /\ Keeps(drive, made, root, drive', made', root')
        /\ Cares(drive', made', Title, Threads, post, kept', row', run', del, wipe)
    <3>1. /\ Shape(drive, made, root) /\ j \in Threads
          /\ Cares(drive, made, Title, Threads, post, kept, row, run, del, wipe)
      BY <1>r DEF ThisInv
    <3>2. Works(Title, drive, made, root, kept, row, run, j, drive', made', root', kept', row', run', w1)
      BY <2>1, <2>2 DEF Works
    <3> QED BY <1>t, <3>1, <3>2, CaresJob
  <2> QED BY <2>2, <2>3
<1>2. CASE WipeDrive
  <2>1. /\ drive' = Wiped(drive, root, wipe) /\ made' = made /\ root' = root
        /\ wipe # NoRef /\ wipe' = NoRef
        /\ UNCHANGED <<post, kept, row, run, del>>
    BY <1>2, OtherNames DEF WipeDrive, Wiped
  <2>2. Holds(drive, made, Title, wipe) /\ del # "none"
    BY <2>1 DEF ThisInv, Cares
  <2>3. /\ Shape(drive', made, root) /\ Stays(drive, made, drive', made)
        /\ \A U : U \notin Plain /\ U # Title /\ Placed(drive, U) => Placed(drive', U)
    BY <1>t, <2>1, <2>2, WipeSpares
  <2>4. Cares(drive', made, Title, Threads, post, kept, row, run, del, wipe)
    BY <2>2, <2>3, CaresStays DEF ThisInv
  <2>5. Holds(drive', made, Title, NoRef)
    BY <2>3, NothingHeld
  <2>6. Cares(drive', made, Title, Threads, post, kept, row, run, del, NoRef)
    BY <2>2, <2>4, <2>5 DEF Cares
  <2> QED BY <2>1, <2>3, <2>6 DEF ThisInv
<1>3. ASSUME drive' = drive, made' = made, root' = root, run' \in [Threads -> Work],
             Turns(post, kept, row, run, del, wipe, post', kept', row', run', del', wipe')
      PROVE  /\ Shape(drive', made', root') /\ Stays(drive, made, drive', made')
             /\ \A U : U \notin Plain /\ U # Title /\ Placed(drive, U) => Placed(drive', U)
             /\ ThisInv'
  <2>1. Cares(drive, made, Title, Threads, post', kept', row', run', del', wipe')
    BY <1>3, CaresTurns DEF ThisInv
  <2> QED BY <1>3, <2>1 DEF ThisInv, Stays
<1>4. CASE Upload \/ CleanupStaging \/ Bind \/ Save \/ AskDelete \/ DeleteRow \/ DeleteLocal
  <2>1. drive' = drive /\ made' = made /\ root' = root /\ run' = run
    BY <1>4 DEF Upload, CleanupStaging, Bind, Save, AskDelete, DeleteRow, DeleteLocal, files
  <2>2. Turns(post, kept, row, run, del, wipe, post', kept', row', run', del', wipe')
    BY <1>4, OtherNames DEF Upload, CleanupStaging, Bind, Save, AskDelete, DeleteRow,
       DeleteLocal, Turns
  <2> QED BY <1>3, <1>r, <2>1, <2>2
<1> QED
  <2>1. CASE \E j \in Syncs : RequestSync(j) \/ SyncStep(j) \/ Fault(j)
    BY <1>1, <2>1 DEF Keeps, ThisInv
  <2> QED BY <1>2, <1>4, <2>1 DEF Unmailed

LEMMA ThatFiles ==
  ASSUME NEW j, Other!RequestSync(j) \/ Other!SyncStep(j) \/ Other!Fault(j)
  PROVE  /\ post2' = post2 /\ del2' = del2 /\ wipe2' = wipe2
         /\ kept2' = kept2 \/ kept2' = (kept2 /\ run2[j].ref.audio = Nil)
         /\ row2' = row2 \/ (row2.stored /\ row2' = [row2 EXCEPT !.ref = run2[j].ref])
<1>1. CASE Other!RequestSync(j) \/ Other!Begin(j) \/ Other!Read(j) \/ Other!Release(j) \/ Other!Fault(j)
  BY <1>1, OtherNames DEF Other!RequestSync, Other!Begin, Other!Read, Other!Release, Other!Fault
<1>2. CASE \/ Other!EnsureRoot(j) \/ Other!FindFolder(j) \/ Other!MakeFolder(j)
           \/ Other!BuildDoc(j) \/ Other!UploadAudio(j)
  BY <1>2 DEF Other!EnsureRoot, Other!FindFolder, Other!MakeFolder, Other!BuildDoc, Other!UploadAudio
<1>3. CASE Other!SaveRef(j) \/ Other!PruneLocal(j)
  BY <1>3, OtherNames DEF Other!SaveRef, Other!PruneLocal
<1> QED BY <1>1, <1>2, <1>3 DEF Other!SyncStep, Other!Step

\* A meeting that wipes or not: what stays of Drive for itself and for others.
LEMMA ThatMoves ==
  ASSUME Shape(drive, made, root), ThatInv, Other!Unmailed
  PROVE  /\ Shape(drive', made', root') /\ Stays(drive, made, drive', made')
         /\ \A U : U \notin Plain /\ U # OtherTitle /\ Placed(drive, U) => Placed(drive', U)
         /\ ThatInv'
<1>t. OtherTitle \notin Plain
  BY TitleAssumption, OtherTitleAssumption DEF Plain
<1>r. run2 \in [Other!Threads -> Work] /\ \A j \in Other!Syncs : j \in Other!Threads
  BY DEF ThatInv, Cares, Other!Threads
<1>1. ASSUME NEW j \in Other!Syncs, Other!RequestSync(j) \/ Other!SyncStep(j) \/ Other!Fault(j)
      PROVE  /\ Keeps(drive, made, root, drive', made', root')
             /\ Cares(drive', made', OtherTitle, Other!Threads, post2', kept2', row2', run2', del2', wipe2')
  <2>1. PICK w1 : /\ run2' = [run2 EXCEPT ![j] = w1]
                  /\ Gets(OtherTitle, drive, made, root, row2, run2[j], drive', made', root', w1)
    BY <1>1, <1>r, ThatWorks DEF ThatTakes
  <2>2. /\ post2' = post2 /\ del2' = del2 /\ wipe2' = wipe2
        /\ kept2' = kept2 \/ kept2' = (kept2 /\ run2[j].ref.audio = Nil)
        /\ row2' = row2 \/ (row2.stored /\ row2' = [row2 EXCEPT !.ref = run2[j].ref])
    BY <1>1, ThatFiles
  <2>3. /\ Keeps(drive, made, root, drive', made', root')
        /\ Cares(drive', made', OtherTitle, Other!Threads, post2, kept2', row2', run2', del2, wipe2)
    <3>1. /\ Shape(drive, made, root) /\ j \in Other!Threads
          /\ Cares(drive, made, OtherTitle, Other!Threads, post2, kept2, row2, run2, del2, wipe2)
      BY <1>r DEF ThatInv
    <3>2. Works(OtherTitle, drive, made, root, kept2, row2, run2, j,
                drive', made', root', kept2', row2', run2', w1)
      BY <2>1, <2>2 DEF Works
    <3> QED BY <1>t, <3>1, <3>2, CaresJob
  <2> QED BY <2>2, <2>3
<1>2. CASE Other!WipeDrive
  <2>1. /\ drive' = Wiped(drive, root, wipe2) /\ made' = made /\ root' = root
        /\ wipe2 # NoRef /\ wipe2' = NoRef
        /\ UNCHANGED <<post2, kept2, row2, run2, del2>>
    BY <1>2, OtherNames DEF Other!WipeDrive, Wiped
  <2>2. Holds(drive, made, OtherTitle, wipe2) /\ del2 # "none"
    BY <2>1 DEF ThatInv, Cares
  <2>3. /\ Shape(drive', made, root) /\ Stays(drive, made, drive', made)
        /\ \A U : U \notin Plain /\ U # OtherTitle /\ Placed(drive, U) => Placed(drive', U)
    BY <1>t, <2>1, <2>2, WipeSpares
  <2>4. Cares(drive', made, OtherTitle, Other!Threads, post2, kept2, row2, run2, del2, wipe2)
    BY <2>2, <2>3, CaresStays DEF ThatInv
  <2>5. Holds(drive', made, OtherTitle, NoRef)
    BY <2>3, NothingHeld
  <2>6. Cares(drive', made, OtherTitle, Other!Threads, post2, kept2, row2, run2, del2, NoRef)
    BY <2>2, <2>4, <2>5 DEF Cares
  <2> QED BY <2>1, <2>3, <2>6 DEF ThatInv
<1>3. ASSUME drive' = drive, made' = made, root' = root, run2' \in [Other!Threads -> Work],
             Turns(post2, kept2, row2, run2, del2, wipe2, post2', kept2', row2', run2', del2', wipe2')
      PROVE  /\ Shape(drive', made', root') /\ Stays(drive, made, drive', made')
             /\ \A U : U \notin Plain /\ U # OtherTitle /\ Placed(drive, U) => Placed(drive', U)
             /\ ThatInv'
  <2>1. Cares(drive, made, OtherTitle, Other!Threads, post2', kept2', row2', run2', del2', wipe2')
    BY <1>3, CaresTurns DEF ThatInv
  <2> QED BY <1>3, <2>1 DEF ThatInv, Stays
<1>4. CASE \/ Other!Upload \/ Other!CleanupStaging \/ Other!Bind \/ Other!Save
           \/ Other!AskDelete \/ Other!DeleteRow \/ Other!DeleteLocal
  <2>1. drive' = drive /\ made' = made /\ root' = root /\ run2' = run2
    BY <1>4 DEF Other!Upload, Other!CleanupStaging, Other!Bind, Other!Save, Other!AskDelete,
       Other!DeleteRow, Other!DeleteLocal, files, Other!files
  <2>2. Turns(post2, kept2, row2, run2, del2, wipe2, post2', kept2', row2', run2', del2', wipe2')
    BY <1>4, OtherNames DEF Other!Upload, Other!CleanupStaging, Other!Bind, Other!Save,
       Other!AskDelete, Other!DeleteRow, Other!DeleteLocal, Turns
  <2> QED BY <1>3, <1>r, <2>1, <2>2
<1> QED
  <2>1. CASE \E j \in Other!Syncs : Other!RequestSync(j) \/ Other!SyncStep(j) \/ Other!Fault(j)
    BY <1>1, <2>1 DEF Keeps, ThatInv
  <2> QED BY <1>2, <1>4, <2>1 DEF Other!Unmailed

-----------------------------------------------------------------------------
(* Both meetings.                                                          *)

TwinsInv == side = "twins" => Shape(drive, made, root) /\ ThisInv /\ ThatInv

LEMMA TwinsSpare == TwinsInv => DeletionSparesOthers
BY DEF TwinsInv, ThisInv, ThatInv, Cares, DeletionSparesOthers, Uploaded, Placed

LEMMA EmptyShape == Shape({}, 0, Nil) /\ \A T : Holds({}, 0, T, NoRef)
BY NoRowType DEF Shape, Holds, Names, NoRef, Nil

\* Nothing is on Drive, and no job has begun.
LEMMA CaresInit ==
  ASSUME NEW T, NEW D
  PROVE  Cares({}, 0, T, D, "none", FALSE, NoRow, [t \in D |-> Thread("idle")], "none", NoRef)
<1>1. /\ Thread("idle") \in Work /\ Thread("idle").ref = NoRef /\ Thread("idle").root = Nil
      /\ Thread("idle").at = "idle"
  BY ThreadType DEF Thread, Steps
<1>2. NoRow.ref = NoRef /\ NoRow.recorded = FALSE /\ NoRef.audio = Nil
  BY DEF NoRow, NoRef
<1>3. Sound({}, 0, T, Thread("idle"))
  BY <1>1, EmptyShape DEF Sound
<1> QED BY <1>1, <1>2, <1>3, EmptyShape, NoRowType DEF Cares

LEMMA TwinsStart == TwinsInit => TwinsInv
<1> SUFFICES ASSUME TwinsInit PROVE Shape(drive, made, root) /\ ThisInv /\ ThatInv
  BY DEF TwinsInv
<1>1. /\ drive = {} /\ made = 0 /\ root = Nil
      /\ post = "none" /\ kept = FALSE /\ row = NoRow /\ del = "none" /\ wipe = NoRef
      /\ run = [t \in Threads |-> Thread("idle")]
  BY DEF TwinsInit, PlayInit, Init
<1>2. /\ post2 = "none" /\ kept2 = FALSE /\ row2 = NoRow /\ del2 = "none" /\ wipe2 = NoRef
      /\ run2 = [t \in Other!Threads |-> Thread("idle")]
  BY OtherNames DEF TwinsInit, Other!Init
<1> QED BY <1>1, <1>2, EmptyShape, CaresInit DEF ThisInv, ThatInv

\* A stop ends the work of a meeting and leaves its files.
LEMMA ThisStops ==
  ASSUME Shape(drive, made, root), ThisInv, Restart
  PROVE  Shape(drive, made, root)' /\ ThisInv'
<1>1. /\ drive' = drive /\ made' = made /\ root' = root
      /\ run \in [Threads -> Work]
  BY DEF Restart, files, ThisInv, Cares
<1>2. run' = [t \in Threads |-> Thread(IF At(t, "idle") THEN "idle" ELSE "over")]
  BY DEF Restart
<1>3. run' \in [Threads -> Work] /\ \A t \in Threads : run'[t] \in {Thread("idle"), Thread("over")}
  BY <1>2, ThreadType DEF Steps
<1>4. Turns(post, kept, row, run, del, wipe, post', kept', row', run', del', wipe')
  BY <1>1, <1>3 DEF Restart, Turns
<1>5. Cares(drive, made, Title, Threads, post', kept', row', run', del', wipe')
  BY <1>3, <1>4, CaresTurns DEF ThisInv
<1> QED BY <1>1, <1>5 DEF ThisInv

LEMMA ThatStops ==
  ASSUME Shape(drive, made, root), ThatInv, Other!Restart
  PROVE  ThatInv'
<1>1. /\ drive' = drive /\ made' = made /\ root' = root
      /\ run2 \in [Other!Threads -> Work]
  BY DEF Other!Restart, Other!files, ThatInv, Cares
<1>2. run2' = [t \in Other!Threads |-> Thread(IF Other!At(t, "idle") THEN "idle" ELSE "over")]
  BY OtherNames DEF Other!Restart
<1>3. /\ run2' \in [Other!Threads -> Work]
      /\ \A t \in Other!Threads : run2'[t] \in {Thread("idle"), Thread("over")}
  BY <1>2, ThreadType DEF Steps
<1>4. Turns(post2, kept2, row2, run2, del2, wipe2, post2', kept2', row2', run2', del2', wipe2')
  BY <1>1, <1>3, OtherNames DEF Other!Restart, Turns
<1>5. Cares(drive, made, OtherTitle, Other!Threads, post2', kept2', row2', run2', del2', wipe2')
  BY <1>3, <1>4, CaresTurns DEF ThatInv
<1> QED BY <1>1, <1>5 DEF ThatInv

LEMMA TwinsStep == TwinsInv /\ [TwinsNext]_<<vars, player, second>> => TwinsInv'
<1> SUFFICES ASSUME TwinsInv, [TwinsNext]_<<vars, player, second>>, side' = "twins"
             PROVE  Shape(drive, made, root)' /\ ThisInv' /\ ThatInv'
  BY DEF TwinsInv
<1>t. /\ Title \notin Plain /\ OtherTitle \notin Plain /\ OtherTitle # Title
  BY TitleAssumption, OtherTitleAssumption DEF Plain
<1>1. side = "twins"
  BY DEF TwinsNext, PlayNext, Play, Ask, ReadRow, FindFile, Answer, Body, FindOnDrive, Relay,
         RelayFails, Close, AtStep, To, player
<1>2. Shape(drive, made, root) /\ ThisInv /\ ThatInv
  BY <1>1 DEF TwinsInv
<1>3. CASE Unmailed /\ UNCHANGED second
  <2>1. /\ Shape(drive', made', root') /\ Stays(drive, made, drive', made')
        /\ Placed(drive, OtherTitle) => Placed(drive', OtherTitle)
        /\ ThisInv'
    BY <1>t, <1>2, <1>3, ThisMoves
  <2>2. Cares(drive', made', OtherTitle, Other!Threads, post2, kept2, row2, run2, del2, wipe2)
    BY <1>2, <2>1, CaresStays DEF ThatInv
  <2> QED BY <1>3, <2>1, <2>2 DEF ThatInv, second
<1>4. CASE Other!Unmailed /\ UNCHANGED <<post, kept, row, inflight, run, del, wipe>>
  <2>1. /\ Shape(drive', made', root') /\ Stays(drive, made, drive', made')
        /\ Placed(drive, Title) => Placed(drive', Title)
        /\ ThatInv'
    BY <1>t, <1>2, <1>4, ThatMoves
  <2>2. Cares(drive', made', Title, Threads, post, kept, row, run, del, wipe)
    BY <1>2, <2>1, CaresStays DEF ThisInv
  <2> QED BY <1>4, <2>1, <2>2 DEF ThisInv
<1>5. CASE Restart /\ Other!Restart
  BY <1>2, <1>5, ThisStops, ThatStops
<1>6. CASE UNCHANGED <<vars, player, second>>
  BY <1>2, <1>6 DEF vars, files, second, ThisInv, ThatInv
<1>7. ~PlayNext
  BY <1>1 DEF PlayNext, Play, Ask, ReadRow, FindFile, Answer, Body, FindOnDrive, Relay, RelayFails,
         Close, AtStep
<1> QED BY <1>3, <1>4, <1>5, <1>6, <1>7 DEF TwinsNext, This, That

\* Whatever is synced, deleted with its assets, failed or stopped around it, a
\* meeting keeps its own recording until its own deletion is asked for, if its
\* folder has a name of its own.
THEOREM OthersAreSpared == TwinsSpec => []DeletionSparesOthers
<1> QED BY TwinsStart, TwinsStep, TwinsSpare, PTL DEF TwinsSpec

=============================================================================
