----------------------------- MODULE MeetingStore -----------------------------
(***************************************************************************)
(* One meeting of web/store.py (MeetingStore) and the requests of         *)
(* web/app.py that change it: POST, PATCH, regenerate/apply and undo,     *)
(* revert, DELETE, the Jira export, the reference writes of the Drive and *)
(* calendar syncs, and the cleanup batch.                                 *)
(*                                                                        *)
(* A request is what its handler does between two holds of store._lock.   *)
(* Every handler first reads the meeting to check its owner; the step is  *)
(* told apart from the locked operation only where the handler keeps what *)
(* it read (the merge of a regenerated summary, the Jira export).  Of the *)
(* content the model keeps which generation of summary, action items and  *)
(* gate notice is stored and which user edits each holds.  There is one   *)
(* owner; title, status, transcript and audio are left out.  A request    *)
(* that is refused (404, 409, 412, 422) changes nothing.                  *)
(***************************************************************************)
EXTENDS Naturals

CONSTANTS
  Clients,       \* browser tabs of the owner, each with one request at a time
  Conditional,   \* those that send If-Match with every change
  Exporters,     \* those that export to Jira (the owner, or an admin)
  None,          \* no row, no snapshot
  OldPreviews,   \* there are previews without gateSummary
  LostReplies,   \* Jira may make an issue and the reply be lost
  MaxTime, MaxGens, MaxEdits, MaxEtag, MaxIssues   \* bounds

ASSUME ClientsAssumption == Conditional \subseteq Clients /\ Exporters \subseteq Clients

ASSUME BoundsAssumption ==
  /\ MaxTime \in Nat /\ MaxGens \in Nat /\ MaxEdits \in Nat
  /\ OldPreviews \in BOOLEAN /\ LostReplies \in BOOLEAN
  /\ MaxEtag \in Nat /\ MaxIssues \in Nat

\* A summary: the generation it was written by, the edited items a merge
\* carried over into its last block, and the edits made to it since.
Summary == [gen : Nat, kept : SUBSET Nat, edits : SUBSET Nat]
\* An action item: its item_id, its last edit (0 when unedited), jiraKey set.
Item == [id : 1..MaxGens, tag : Nat, key : BOOLEAN]
\* The row.  born is a history variable: the number of the POST it came from.
Row == [born : Nat, etag : Nat, sum : Summary, items : SUBSET Item, gate : Nat]

ASSUME NoneAssumption == None \notin Row

VARIABLES
  row,       \* the meetings row, or None
  original,  \* the backup with reason 'original', or None
  backups,   \* the backups with reason 'regenerate'
  now,       \* the wall clock in microseconds; it may be set back
  posts, gens, edits,  \* how many POSTs, generations and edits there were
  issued,    \* Jira issues made so far for each item_id
  at,        \* the next step of the request a client has open
  seen,      \* the client's copy: the last meeting a reply gave it
  loaded,    \* what the open request holds outside the lock
  todo,      \* Jira export: items whose issue is still to be made
  filed      \* Jira export: items whose key is to be written back

store    == <<row, original, backups>>
counters == <<posts, gens, edits>>
request  == <<at, seen, loaded, todo, filed>>
vars     == <<store, now, counters, issued, request>>

Step == {"idle", "post", "snapshot", "merge", "filing"}

Init ==
  /\ row = None /\ original = None /\ backups = {}
  /\ now = 0 /\ posts = 0 /\ gens = 0 /\ edits = 0
  /\ issued = [i \in 1..MaxGens |-> 0]
  /\ at = [c \in Clients |-> "idle"]
  /\ seen = [c \in Clients |-> None]
  /\ loaded = [c \in Clients |-> None]
  /\ todo = [c \in Clients |-> {}]
  /\ filed = [c \in Clients |-> {}]

-----------------------------------------------------------------------------
(* Helpers of the store and of the handlers.                               *)

\* Variant: the clock is taken as it is.
ClockOnly(prev) == now

\* _next_etag: the clock, or one microsecond past the previous ETag.
NextEtag(prev) == IF now > prev THEN now ELSE prev + 1

\* An update inside the lock: the changed row gets a new ETag.
Stored(r) == [r EXCEPT !.etag = NextEtag(r.etag)]

\* Variant: the precondition is not compared.
NoCompare(c) == TRUE

\* The comparison of the locked operations: If-Match is the ETag of the
\* client's copy.
Matches(c) == c \in Conditional => seen[c].etag = row.etag

Edited(items) == {i \in items : i.tag > 0}
NewItem(g) == [id |-> g, tag |-> 0, key |-> FALSE]
Generated(g) == [gen |-> g, kept |-> {}, edits |-> {}]

\* Variant: the edits made since the last merge are not collected.
MergeBlockOnly(cur, g) ==
  [cur EXCEPT !.sum = [Generated(g) EXCEPT !.kept = cur.sum.kept],
              !.items = {NewItem(g)} \cup Edited(cur.items)]

\* merge_preserve_edited: the new generation, with the edited summary items in
\* a block of their own and the edited action items appended.
Merge(cur, g) ==
  [cur EXCEPT !.sum = [Generated(g) EXCEPT !.kept = cur.sum.kept \cup cur.sum.edits],
              !.items = {NewItem(g)} \cup Edited(cur.items)]

Reset(c) ==
  /\ at' = [at EXCEPT ![c] = "idle"]
  /\ loaded' = [loaded EXCEPT ![c] = None]
  /\ todo' = [todo EXCEPT ![c] = {}]
  /\ filed' = [filed EXCEPT ![c] = {}]

\* The request ends; its reply is the meeting r.
Reply(c, r) == Reset(c) /\ seen' = [seen EXCEPT ![c] = r]

\* The request ends without a meeting in its reply (an error, a deletion).
Refuse(c) == Reset(c) /\ UNCHANGED seen

-----------------------------------------------------------------------------
(* The clock, and reading.                                                 *)

Clock ==
  /\ now' \in 0..MaxTime
  /\ UNCHANGED <<store, counters, issued, request>>

Get(c) ==
  /\ at[c] = "idle" /\ row # None
  /\ seen' = [seen EXCEPT ![c] = row]
  /\ UNCHANGED <<store, now, counters, issued, at, loaded, todo, filed>>

-----------------------------------------------------------------------------
(* POST /api/meetings: the stamp, the row and the snapshot of the original *)
(* are three steps (an audio file may be moved after the stamp).           *)

PostStamp(c) ==
  /\ at[c] = "idle" /\ gens < MaxGens
  /\ gens' = gens + 1
  /\ at' = [at EXCEPT ![c] = "post"]
  /\ loaded' = [loaded EXCEPT ![c] =
       [born |-> 0, etag |-> now, sum |-> Generated(gens + 1),
        items |-> {NewItem(gens + 1)}, gate |-> gens + 1]]
  /\ UNCHANGED <<store, now, posts, edits, issued, seen, todo, filed>>

\* create: INSERT OR REPLACE, whatever the row was.
PostCreate(c) ==
  /\ at[c] = "post"
  /\ posts' = posts + 1
  /\ row' = [loaded[c] EXCEPT !.born = posts + 1]
  /\ at' = [at EXCEPT ![c] = "snapshot"]
  /\ loaded' = [loaded EXCEPT ![c] = row']
  /\ UNCHANGED <<original, backups, now, gens, edits, issued, seen, todo, filed>>

\* Variant: the snapshot is taken on every save.
SnapshotAlways(c) ==
  /\ at[c] = "snapshot"
  /\ original' = [sum |-> loaded[c].sum, items |-> loaded[c].items]
  /\ Reply(c, loaded[c])
  /\ UNCHANGED <<row, backups, now, counters, issued>>

\* save_original_snapshot: only the first one is kept.
PostSnapshot(c) ==
  /\ at[c] = "snapshot"
  /\ original' = IF original = None THEN [sum |-> loaded[c].sum, items |-> loaded[c].items]
                 ELSE original
  /\ Reply(c, loaded[c])
  /\ UNCHANGED <<row, backups, now, counters, issued>>

-----------------------------------------------------------------------------
(* The locked operations.                                                  *)

\* What they share: a client that has loaded the meeting, a row, a precondition
\* that holds; r replaces the row, and the reply is the new row.
Replace(c, r) ==
  /\ seen[c] # None /\ row # None /\ Matches(c)
  /\ row.etag < MaxEtag
  /\ row' = Stored(r)
  /\ Reply(c, row')

\* validate_summary_edit: the client's summary has the blocks of the stored one.
SameBlocks(s, t) == s.gen = t.gen /\ s.kept = t.kept

\* PATCH of the summary: every item text is the client's, one of them new.
PatchSummary(c) ==
  /\ at[c] = "idle" /\ edits < MaxEdits
  /\ edits' = edits + 1
  /\ Replace(c, [row EXCEPT !.sum.edits = seen[c].sum.edits \cup {edits + 1}])
  /\ SameBlocks(seen[c].sum, row.sum)
  /\ UNCHANGED <<original, backups, now, posts, gens, issued>>

\* PATCH of the action items: the client's list, one item of it edited.
PatchItems(c) ==
  /\ at[c] = "idle" /\ seen[c] # None /\ edits < MaxEdits
  /\ edits' = edits + 1
  /\ \E i \in seen[c].items :
       Replace(c, [row EXCEPT !.items = (seen[c].items \ {i}) \cup {[i EXCEPT !.tag = edits + 1]}])
  /\ UNCHANGED <<original, backups, now, posts, gens, issued>>

\* apply_regenerate: new replaces summary and items, what they were is backed
\* up.  A preview without gateSummary leaves the notice as it is.
Apply(c, new) ==
  /\ row # None /\ gens < MaxGens
  /\ gens' = gens + 1
  /\ \E notice \in {gens + 1} \cup (IF OldPreviews THEN {row.gate} ELSE {}) :
       Replace(c, [row EXCEPT !.sum = new.sum, !.items = new.items, !.gate = notice])
  /\ backups' = backups \cup {[id |-> gens + 1, at |-> now, sum |-> row.sum,
                               items |-> row.items, gate |-> row.gate]}
  /\ UNCHANGED <<original, now, posts, edits, issued>>

\* regenerate/apply with mode prompt or overwrite.
ApplyPreview(c) ==
  /\ at[c] = "idle"
  /\ Apply(c, [sum |-> Generated(gens + 1), items |-> {NewItem(gens + 1)}])

\* regenerate/apply with mode preserve_edited: the meeting is read ...
BeginMerge(c) ==
  /\ at[c] = "idle" /\ seen[c] # None /\ row # None
  /\ at' = [at EXCEPT ![c] = "merge"]
  /\ loaded' = [loaded EXCEPT ![c] = row]
  /\ UNCHANGED <<store, now, counters, issued, seen, todo, filed>>

\* ... and its edited items are merged into the preview that is applied.
ApplyMerged(c) ==
  /\ at[c] = "merge"
  /\ Apply(c, Merge(loaded[c], gens + 1))

MergeRefused(c) ==
  /\ at[c] = "merge"
  /\ row # None => ~Matches(c)
  /\ Refuse(c)
  /\ UNCHANGED <<store, now, counters, issued>>

\* restore_latest_backup and restore_original: the rest of the row stays.
FromBackup(b) == [row EXCEPT !.sum = b.sum, !.items = b.items, !.gate = b.gate]

FromOriginal == [row EXCEPT !.sum = original.sum, !.items = original.items]

\* regenerate/undo: the backup with the highest id is restored and consumed.
Undo(c) ==
  /\ at[c] = "idle"
  /\ \E b \in backups :
       /\ \A d \in backups : d.id <= b.id
       /\ Replace(c, FromBackup(b))
       /\ backups' = backups \ {b}
  /\ UNCHANGED <<original, now, counters, issued>>

\* revert: the original is restored and kept.
Revert(c) ==
  /\ at[c] = "idle" /\ original # None
  /\ Replace(c, FromOriginal)
  /\ UNCHANGED <<original, backups, now, counters, issued>>

\* DELETE: the row and all its backups, the original included.
Delete(c) ==
  /\ at[c] = "idle" /\ seen[c] # None /\ row # None
  /\ row' = None /\ original' = None /\ backups' = {}
  /\ UNCHANGED <<now, counters, issued, request>>

-----------------------------------------------------------------------------
(* POST .../jira-issues: the items are read once, one issue is made per    *)
(* item without a key, and the read list is written back with the keys.    *)

BeginFiling(c) ==
  /\ c \in Exporters /\ at[c] = "idle" /\ seen[c] # None /\ row # None
  /\ \E ids \in SUBSET {i.id : i \in seen[c].items} :
       /\ ids # {}
       /\ todo' = [todo EXCEPT ![c] = ids \ {i.id : i \in {k \in row.items : k.key}}]
  /\ at' = [at EXCEPT ![c] = "filing"]
  /\ loaded' = [loaded EXCEPT ![c] = row]
  /\ UNCHANGED <<store, now, counters, issued, seen, filed>>

\* One item, with the second attempt without reporter after an error; an
\* attempt that ends in an error may have made its issue (a timeout).
FileIssue(c) ==
  /\ at[c] = "filing"
  /\ \E i \in todo[c], made \in 0..2, ok \in BOOLEAN :
       /\ IF LostReplies THEN ok => made > 0 ELSE made = IF ok THEN 1 ELSE 0
       /\ issued[i] + made <= MaxIssues
       /\ issued' = [issued EXCEPT ![i] = @ + made]
       /\ todo' = [todo EXCEPT ![c] = @ \ {i}]
       /\ filed' = [filed EXCEPT ![c] = IF ok THEN @ \cup {i} ELSE @]
  /\ UNCHANGED <<store, now, counters, at, seen, loaded>>

WithKeys(items, ids) == {[i EXCEPT !.key = @ \/ i.id \in ids] : i \in items}

\* The write-back carries no precondition and no list but the one read first.
WriteBack(c) ==
  /\ at[c] = "filing" /\ todo[c] = {}
  /\ row # None => row.etag < MaxEtag
  /\ row' = IF row = None \/ filed[c] = {} THEN row
            ELSE Stored([row EXCEPT !.items = WithKeys(loaded[c].items, filed[c])])
  /\ Refuse(c)
  /\ UNCHANGED <<original, backups, now, counters, issued>>

-----------------------------------------------------------------------------
(* The server's own writes.                                                *)

\* gdriveRef and gcalRef: no content the model keeps, but a new ETag.
RefWrite ==
  /\ row # None /\ row.etag < MaxEtag
  /\ row' = Stored(row)
  /\ UNCHANGED <<original, backups, now, counters, issued, request>>

\* prune_expired_backups, for any age of the backups.
Prune ==
  /\ \E cutoff \in 0..now :
       backups' = {b \in backups : b.at >= cutoff}
  /\ UNCHANGED <<row, original, now, counters, issued, request>>

ClientStep(c) ==
  \/ Get(c) \/ PostStamp(c) \/ PostCreate(c) \/ PostSnapshot(c) \/ Delete(c)
  \/ PatchSummary(c) \/ PatchItems(c) \/ ApplyPreview(c) \/ Undo(c) \/ Revert(c)
  \/ BeginMerge(c) \/ ApplyMerged(c) \/ MergeRefused(c)
  \/ BeginFiling(c) \/ FileIssue(c) \/ WriteBack(c)

Next == Clock \/ RefWrite \/ Prune \/ \E c \in Clients : ClientStep(c)

Spec == Init /\ [][Next]_vars

-----------------------------------------------------------------------------
(* Properties.                                                             *)

Content == [sum : Summary, items : SUBSET Item]
Backup  == [id : Nat, at : Nat, sum : Summary, items : SUBSET Item, gate : Nat]

TypeOK ==
  /\ row \in Row \cup {None} /\ original \in Content \cup {None}
  /\ backups \in SUBSET Backup
  /\ now \in Nat /\ posts \in Nat /\ gens \in 0..MaxGens /\ edits \in Nat
  /\ issued \in [1..MaxGens -> Nat]
  /\ at \in [Clients -> Step]
  /\ seen \in [Clients -> Row \cup {None}]
  /\ loaded \in [Clients -> Row \cup {None}]
  /\ todo \in [Clients -> SUBSET (1..MaxGens)]
  /\ filed \in [Clients -> SUBSET (1..MaxGens)]

\* An ETag names the content: a client whose copy is of the same saved meeting
\* and carries the row's ETag holds what the row holds, however many writes
\* share a microsecond and however the clock is set back (_next_etag).
EtagNamesContent ==
  \A c \in Clients :
    row # None /\ seen[c] # None =>
      (seen[c].born = row.born /\ seen[c].etag = row.etag => seen[c] = row)

\* The edits a user made that r shows.
SummaryEdits(r) == r.sum.kept \cup r.sum.edits
ItemEditKept(i, items) == \E k \in items : k.id = i.id /\ k.tag >= i.tag

\* The steps that may take an accepted edit away: those that are meant to, and
\* those without If-Match or from a copy of the meeting before it was saved anew.
Replaces ==
  \E c \in Clients :
    \/ PostCreate(c) \/ ApplyPreview(c) \/ Undo(c) \/ Revert(c)
    \/ /\ PatchSummary(c) \/ PatchItems(c) \/ ApplyMerged(c)
       /\ c \in Conditional => seen[c].born # row.born

\* An edit one client made and the store accepted is not lost to a request of
\* another that carries If-Match: no PATCH of a stale copy and no merge of a
\* regenerated summary drops it, although the merge reads the meeting outside
\* the lock.  Only the Jira write-back takes edits of action items away.
AcceptedEditsSurvive ==
  [][row # None /\ row' # None =>
       /\ SummaryEdits(row) \subseteq SummaryEdits(row') \/ Replaces
       /\ \/ \A i \in Edited(row.items) : ItemEditKept(i, row'.items)
          \/ Replaces
          \/ \E c \in Clients : WriteBack(c)]_vars

\* The original, once taken, is neither consumed nor replaced nor expired: it
\* goes only with its meeting.
OriginalOutlives ==
  [][original # None /\ original' # original => original' = None /\ row' = None]_vars

\* Every backup that an undo could restore belongs to a stored meeting.
BackupsHaveMeeting == row = None => backups = {}

\* A key stored with an action item, also one that comes back from a backup,
\* names an issue that was made.
KeysNameIssues ==
  \A i \in (IF row = None THEN {} ELSE row.items) : i.key => issued[i.id] > 0
=============================================================================
