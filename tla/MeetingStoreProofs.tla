-------------------------- MODULE MeetingStoreProofs --------------------------
(***************************************************************************)
(* Theorems about MeetingStore, for any number of clients and any bounds.  *)
(***************************************************************************)
EXTENDS Upkeep, FiniteSetTheorems, TLAPS

\* What an open request holds.
OpenInv ==
  \A c \in Clients :
    /\ at[c] # "idle" => loaded[c] # None
    /\ at[c] = "merge" => seen[c] # None

TypeInv == TypeOK /\ OpenInv

LEMMA GeneratedType ==
  ASSUME NEW g \in Nat PROVE Generated(g) \in Summary
  BY DEF Generated, Summary

LEMMA NewItemType ==
  ASSUME NEW g \in 1..MaxGens PROVE NewItem(g) \in Item
  BY BoundsAssumption DEF NewItem, Item

\* A stored row keeps everything but its ETag, which grows.
LEMMA StoredRow ==
  ASSUME now \in Nat, NEW r \in Row
  PROVE  /\ Stored(r) \in Row
         /\ Stored(r).etag > r.etag
         /\ Stored(r).born = r.born /\ Stored(r).sum = r.sum
         /\ Stored(r).items = r.items /\ Stored(r).gate = r.gate
<1>1. NextEtag(r.etag) \in Nat /\ NextEtag(r.etag) > r.etag
  BY DEF NextEtag, Row
<1> QED BY <1>1 DEF Stored, Row

\* What Merge makes of a meeting is a summary and items.
LEMMA MergeType ==
  ASSUME NEW r \in Row, NEW g \in 1..MaxGens
  PROVE  /\ Merge(r, g).sum \in Summary
         /\ Merge(r, g).items \in SUBSET Item
         /\ Merge(r, g).sum.kept = r.sum.kept \cup r.sum.edits
         /\ Edited(r.items) \subseteq Merge(r, g).items
         /\ Merge(r, g).items \subseteq {NewItem(g)} \cup r.items
<1>1. NewItem(g) \in Item BY NewItemType
<1>2. g \in Nat BY BoundsAssumption
<1> QED BY <1>1, <1>2 DEF Merge, Generated, Edited, Row, Summary

LEMMA WithKeysType ==
  ASSUME NEW items \in SUBSET Item, NEW ids
  PROVE  WithKeys(items, ids) \in SUBSET Item
  BY DEF WithKeys, Item

\* The reply of a request.
LEMMA ReplyTypes ==
  ASSUME TypeInv, NEW c \in Clients, NEW r \in Row, Reply(c, r)
  PROVE  /\ at' \in [Clients -> Step] /\ seen' \in [Clients -> Row \cup {None}]
         /\ loaded' \in [Clients -> Row \cup {None}]
         /\ todo' \in [Clients -> SUBSET (1..MaxGens)]
         /\ filed' \in [Clients -> SUBSET (1..MaxGens)]
         /\ OpenInv'
  BY NoneAssumption DEF TypeInv, TypeOK, OpenInv, Reply, Reset, Step

LEMMA RefuseTypes ==
  ASSUME TypeInv, NEW c \in Clients, Refuse(c)
  PROVE  /\ at' \in [Clients -> Step] /\ seen' \in [Clients -> Row \cup {None}]
         /\ loaded' \in [Clients -> Row \cup {None}]
         /\ todo' \in [Clients -> SUBSET (1..MaxGens)]
         /\ filed' \in [Clients -> SUBSET (1..MaxGens)]
         /\ OpenInv'
  BY DEF TypeInv, TypeOK, OpenInv, Refuse, Reset, Step

\* A locked operation replaces a row by a row.
LEMMA ReplaceTypes ==
  ASSUME TypeInv, NEW c \in Clients, NEW r \in Row, Replace(c, r)
  PROVE  /\ row \in Row /\ row' \in Row
         /\ row'.etag > r.etag /\ row'.born = r.born
         /\ row'.sum = r.sum /\ row'.items = r.items
         /\ at' \in [Clients -> Step] /\ seen' \in [Clients -> Row \cup {None}]
         /\ loaded' \in [Clients -> Row \cup {None}]
         /\ todo' \in [Clients -> SUBSET (1..MaxGens)]
         /\ filed' \in [Clients -> SUBSET (1..MaxGens)]
         /\ OpenInv'
<1>1. row \in Row /\ row' = Stored(r) /\ Reply(c, row')
  BY DEF Replace, TypeInv, TypeOK
<1>2. now \in Nat BY DEF TypeInv, TypeOK
<1> QED BY <1>1, <1>2, StoredRow, ReplyTypes

-----------------------------------------------------------------------------
(* The six locked operations replace the row by a row of the same save.     *)

IsLocked(c) ==
  \/ PatchSummary(c) \/ PatchItems(c) \/ ApplyPreview(c) \/ ApplyMerged(c)
  \/ Undo(c) \/ Revert(c)

SameSave(c) == \E r \in Row : Replace(c, r) /\ r.born = row.born /\ r.etag = row.etag

LEMMA ApplyReplaces ==
  ASSUME TypeInv, NEW c \in Clients, NEW new, new.sum \in Summary, new.items \in SUBSET Item,
         Apply(c, new)
  PROVE  SameSave(c) /\ backups' \in SUBSET Backup
<1>1. PICK notice \in {gens + 1} \cup (IF OldPreviews THEN {row.gate} ELSE {}) :
        Replace(c, [row EXCEPT !.sum = new.sum, !.items = new.items, !.gate = notice])
  BY DEF Apply
<1> DEFINE r == [row EXCEPT !.sum = new.sum, !.items = new.items, !.gate = notice]
           b == [id |-> gens + 1, at |-> now, sum |-> row.sum, items |-> row.items, gate |-> row.gate]
<1>2. row \in Row /\ gens + 1 \in Nat /\ now \in Nat
  BY BoundsAssumption DEF Apply, TypeInv, TypeOK
<1>3. r \in Row /\ r.born = row.born /\ r.etag = row.etag BY <1>1, <1>2 DEF Row
<1>4. Replace(c, r) BY <1>1
<1>5. SameSave(c) BY <1>3, <1>4 DEF SameSave
<1>6. b \in Backup BY <1>2 DEF Row, Backup
<1>7. backups' = backups \cup {b} BY DEF Apply
<1>8. backups \in SUBSET Backup BY DEF TypeInv, TypeOK
<1> QED BY <1>5, <1>6, <1>7, <1>8

LEMMA LockedReplaces ==
  ASSUME TypeInv, NEW c \in Clients, IsLocked(c)
  PROVE  /\ SameSave(c)
         /\ UNCHANGED <<original, now, posts, issued>>
         /\ backups' \in SUBSET Backup /\ gens' \in 0..MaxGens /\ edits' \in Nat
<1> DEFINE Rest == /\ UNCHANGED <<original, now, posts, issued>>
                   /\ gens' \in 0..MaxGens /\ edits' \in Nat
<1>1. CASE PatchSummary(c)
  <2> DEFINE r == [row EXCEPT !.sum.edits = seen[c].sum.edits \cup {edits + 1}]
  <2>1. row \in Row /\ seen[c] \in Row /\ edits + 1 \in Nat
    BY <1>1 DEF PatchSummary, Replace, TypeInv, TypeOK
  <2>2. r \in Row /\ r.born = row.born /\ r.etag = row.etag BY <2>1 DEF Row, Summary
  <2>3. Replace(c, r) BY <1>1 DEF PatchSummary
  <2>4. SameSave(c) BY <2>2, <2>3 DEF SameSave
  <2> QED BY <1>1, <2>1, <2>4 DEF PatchSummary, TypeInv, TypeOK
<1>2. CASE PatchItems(c)
  <2>1. PICK i \in seen[c].items :
          Replace(c, [row EXCEPT !.items = (seen[c].items \ {i}) \cup {[i EXCEPT !.tag = edits + 1]}])
    BY <1>2 DEF PatchItems
  <2> DEFINE r == [row EXCEPT !.items = (seen[c].items \ {i}) \cup {[i EXCEPT !.tag = edits + 1]}]
  <2>2. row \in Row /\ seen[c] \in Row /\ edits + 1 \in Nat
    BY <1>2, <2>1 DEF PatchItems, Replace, TypeInv, TypeOK
  <2>3. [i EXCEPT !.tag = edits + 1] \in Item BY <2>2 DEF Row, Item
  <2>4. r \in Row /\ r.born = row.born /\ r.etag = row.etag BY <2>2, <2>3 DEF Row
  <2>5. Replace(c, r) BY <2>1
  <2>6. SameSave(c) BY <2>4, <2>5 DEF SameSave
  <2> QED BY <1>2, <2>2, <2>6 DEF PatchItems, TypeInv, TypeOK
<1>3. CASE ApplyPreview(c)
  <2> DEFINE new == [sum |-> Generated(gens + 1), items |-> {NewItem(gens + 1)}]
  <2>1. gens + 1 \in 1..MaxGens /\ gens + 1 \in Nat
    BY <1>3, BoundsAssumption DEF ApplyPreview, Apply, TypeInv, TypeOK
  <2>2. new.sum \in Summary /\ new.items \in SUBSET Item BY <2>1, GeneratedType, NewItemType
  <2>3. Apply(c, new) BY <1>3 DEF ApplyPreview
  <2> HIDE DEF new
  <2>4. Rest BY <2>1, <2>3 DEF Apply, TypeInv, TypeOK
  <2> QED BY <2>2, <2>3, <2>4, ApplyReplaces
<1>4. CASE ApplyMerged(c)
  <2>1. gens + 1 \in 1..MaxGens /\ loaded[c] \in Row
    BY <1>4, BoundsAssumption DEF ApplyMerged, Apply, TypeInv, TypeOK, OpenInv
  <2>2. Merge(loaded[c], gens + 1).sum \in Summary /\ Merge(loaded[c], gens + 1).items \in SUBSET Item
    BY <2>1, MergeType
  <2>3. Apply(c, Merge(loaded[c], gens + 1)) BY <1>4 DEF ApplyMerged
  <2>4. Rest BY <2>1, <2>3 DEF Apply, TypeInv, TypeOK
  <2> QED BY <2>2, <2>3, <2>4, ApplyReplaces
<1>5. CASE Undo(c)
  <2>1. PICK b \in backups :
          /\ Replace(c, [row EXCEPT !.sum = b.sum, !.items = b.items, !.gate = b.gate])
          /\ backups' = backups \ {b}
    BY <1>5 DEF Undo, FromBackup
  <2> DEFINE r == [row EXCEPT !.sum = b.sum, !.items = b.items, !.gate = b.gate]
  <2>2. row \in Row /\ b \in Backup BY <2>1 DEF Replace, TypeInv, TypeOK
  <2>3. r \in Row /\ r.born = row.born /\ r.etag = row.etag BY <2>2 DEF Row, Backup
  <2>4. Replace(c, r) BY <2>1
  <2>5. SameSave(c) BY <2>3, <2>4 DEF SameSave
  <2> QED BY <1>5, <2>1, <2>5 DEF Undo, FromBackup, counters, TypeInv, TypeOK
<1>6. CASE Revert(c)
  <2> DEFINE r == [row EXCEPT !.sum = original.sum, !.items = original.items]
  <2>1. row \in Row /\ original \in Content BY <1>6 DEF Revert, FromOriginal, Replace, TypeInv, TypeOK
  <2>2. r \in Row /\ r.born = row.born /\ r.etag = row.etag BY <2>1 DEF Row, Content
  <2>3. Replace(c, r) BY <1>6 DEF Revert, FromOriginal
  <2>4. SameSave(c) BY <2>2, <2>3 DEF SameSave
  <2> QED BY <1>6, <2>4 DEF Revert, FromOriginal, counters, TypeInv, TypeOK
<1> QED BY <1>1, <1>2, <1>3, <1>4, <1>5, <1>6 DEF IsLocked

\* The write-back leaves the row, or replaces it by a row of the same save.
LEMMA WriteBackRow ==
  ASSUME TypeInv, NEW c \in Clients, WriteBack(c), row' # row
  PROVE  /\ row \in Row /\ row' \in Row /\ row'.born = row.born /\ row'.etag > row.etag
         /\ row'.items = WithKeys(loaded[c].items, filed[c]) /\ row'.sum = row.sum
<1> DEFINE r == [row EXCEPT !.items = WithKeys(loaded[c].items, filed[c])]
<1>1. row \in Row /\ loaded[c] \in Row /\ now \in Nat
  BY DEF WriteBack, TypeInv, TypeOK, OpenInv
<1>2. WithKeys(loaded[c].items, filed[c]) \in SUBSET Item BY <1>1, WithKeysType DEF Row
<1>3. /\ r \in Row /\ r.born = row.born /\ r.etag = row.etag /\ r.sum = row.sum
      /\ r.items = WithKeys(loaded[c].items, filed[c])
  BY <1>1, <1>2 DEF Row
<1>4. row' = Stored(r) BY DEF WriteBack
<1> HIDE DEF r
<1> QED BY <1>1, <1>3, <1>4, StoredRow

-----------------------------------------------------------------------------
LEMMA TypeInit == Init => TypeInv
  BY BoundsAssumption DEF Init, TypeInv, TypeOK, OpenInv, Step

LEMMA TypeStep == TypeInv /\ [Next]_vars => TypeInv'
<1> SUFFICES ASSUME TypeInv, [Next]_vars PROVE TypeInv'
  OBVIOUS
<1> USE BoundsAssumption, NoneAssumption
<1>1. CASE Clock
  BY <1>1 DEF Clock, TypeInv, TypeOK, OpenInv, store, counters, request
<1>2. CASE RefWrite
  <2>1. row \in Row /\ now \in Nat BY <1>2 DEF RefWrite, TypeInv, TypeOK
  <2> QED BY <1>2, <2>1, StoredRow DEF RefWrite, TypeInv, TypeOK, OpenInv, counters, request
<1>3. CASE Prune
  BY <1>3 DEF Prune, TypeInv, TypeOK, OpenInv, counters, request
<1>4. ASSUME NEW c \in Clients, Get(c) PROVE TypeInv'
  BY <1>4 DEF Get, TypeInv, TypeOK, OpenInv, store, counters
<1>5. ASSUME NEW c \in Clients, PostStamp(c) PROVE TypeInv'
  <2> DEFINE r == [born |-> 0, etag |-> now, sum |-> Generated(gens + 1),
                   items |-> {NewItem(gens + 1)}, gate |-> gens + 1]
  <2>1. gens + 1 \in 1..MaxGens /\ gens + 1 \in Nat BY <1>5 DEF PostStamp, TypeInv, TypeOK
  <2>2. Generated(gens + 1) \in Summary /\ NewItem(gens + 1) \in Item
    BY <2>1, GeneratedType, NewItemType
  <2>3. r \in Row BY <2>1, <2>2 DEF Row, TypeInv, TypeOK
  <2>4. /\ gens' = gens + 1
        /\ at' = [at EXCEPT ![c] = "post"]
        /\ loaded' = [loaded EXCEPT ![c] = r]
        /\ UNCHANGED <<store, now, posts, edits, issued, seen, todo, filed>>
    BY <1>5 DEF PostStamp
  <2> HIDE DEF r
  <2>5. TypeOK' BY <2>1, <2>3, <2>4 DEF TypeInv, TypeOK, Step, store
  <2>6. OpenInv' BY <2>3, <2>4 DEF TypeInv, TypeOK, OpenInv
  <2> QED BY <2>5, <2>6 DEF TypeInv
<1>6. ASSUME NEW c \in Clients, PostCreate(c) PROVE TypeInv'
  <2> DEFINE r == [loaded[c] EXCEPT !.born = posts + 1]
  <2>1. loaded[c] \in Row /\ posts + 1 \in Nat BY <1>6 DEF PostCreate, TypeInv, TypeOK, OpenInv
  <2>2. r \in Row BY <2>1 DEF Row
  <2>3. /\ row' = r /\ posts' = posts + 1
        /\ at' = [at EXCEPT ![c] = "snapshot"]
        /\ loaded' = [loaded EXCEPT ![c] = r]
        /\ UNCHANGED <<original, backups, now, gens, edits, issued, seen, todo, filed>>
    BY <1>6 DEF PostCreate
  <2> HIDE DEF r
  <2>4. TypeOK' BY <2>1, <2>2, <2>3 DEF TypeInv, TypeOK, Step
  <2>5. OpenInv' BY <2>2, <2>3 DEF TypeInv, TypeOK, OpenInv
  <2> QED BY <2>4, <2>5 DEF TypeInv
<1>7. ASSUME NEW c \in Clients, PostSnapshot(c) PROVE TypeInv'
  <2>1. loaded[c] \in Row BY <1>7 DEF PostSnapshot, TypeInv, TypeOK, OpenInv
  <2>2. [sum |-> loaded[c].sum, items |-> loaded[c].items] \in Content BY <2>1 DEF Row, Content
  <2>3. original' \in Content \cup {None} BY <1>7, <2>2 DEF PostSnapshot, TypeInv, TypeOK
  <2> QED BY <1>7, <2>1, <2>3, ReplyTypes DEF PostSnapshot, TypeInv, TypeOK, counters
<1>8. ASSUME NEW c \in Clients, Delete(c) PROVE TypeInv'
  BY <1>8 DEF Delete, TypeInv, TypeOK, OpenInv, counters, request
<1>9. ASSUME NEW c \in Clients, IsLocked(c) PROVE TypeInv'
  <2>1. PICK r \in Row : Replace(c, r) BY <1>9, LockedReplaces DEF SameSave
  <2>2. /\ row' \in Row /\ at' \in [Clients -> Step] /\ seen' \in [Clients -> Row \cup {None}]
        /\ loaded' \in [Clients -> Row \cup {None}]
        /\ todo' \in [Clients -> SUBSET (1..MaxGens)]
        /\ filed' \in [Clients -> SUBSET (1..MaxGens)]
        /\ OpenInv'
    BY <2>1, ReplaceTypes
  <2> QED BY <1>9, <2>2, LockedReplaces DEF TypeInv, TypeOK
<1>10. ASSUME NEW c \in Clients, BeginMerge(c) PROVE TypeInv'
  BY <1>10 DEF BeginMerge, TypeInv, TypeOK, OpenInv, store, counters, Step
<1>11. ASSUME NEW c \in Clients, MergeRefused(c) PROVE TypeInv'
  BY <1>11, RefuseTypes DEF MergeRefused, TypeInv, TypeOK, store, counters
<1>12. ASSUME NEW c \in Clients, BeginFiling(c) PROVE TypeInv'
  <2>1. PICK ids \in SUBSET {i.id : i \in seen[c].items} :
          todo' = [todo EXCEPT ![c] = ids \ {i.id : i \in {k \in row.items : k.key}}]
    BY <1>12 DEF BeginFiling
  <2>2. seen[c] \in Row BY <1>12 DEF BeginFiling, TypeInv, TypeOK
  <2>3. ids \in SUBSET (1..MaxGens) BY <2>1, <2>2 DEF Row, Item
  <2>4. todo' \in [Clients -> SUBSET (1..MaxGens)] BY <2>1, <2>3 DEF TypeInv, TypeOK
  <2> QED BY <1>12, <2>4 DEF BeginFiling, TypeInv, TypeOK, OpenInv, store, counters, Step
<1>13. ASSUME NEW c \in Clients, FileIssue(c) PROVE TypeInv'
  <2>1. PICK i \in todo[c], made \in 0..2, ok \in BOOLEAN :
          /\ issued' = [issued EXCEPT ![i] = @ + made]
          /\ todo' = [todo EXCEPT ![c] = @ \ {i}]
          /\ filed' = [filed EXCEPT ![c] = IF ok THEN @ \cup {i} ELSE @]
    BY <1>13 DEF FileIssue
  <2>2. i \in 1..MaxGens BY DEF TypeInv, TypeOK
  <2>3. /\ issued' \in [1..MaxGens -> Nat]
        /\ todo' \in [Clients -> SUBSET (1..MaxGens)]
        /\ filed' \in [Clients -> SUBSET (1..MaxGens)]
    BY <2>1, <2>2 DEF TypeInv, TypeOK
  <2> QED BY <1>13, <2>3 DEF FileIssue, TypeInv, TypeOK, OpenInv, store, counters
<1>14. ASSUME NEW c \in Clients, WriteBack(c) PROVE TypeInv'
  <2>1. row' \in Row \cup {None} BY <1>14, WriteBackRow DEF TypeInv, TypeOK
  <2> QED BY <1>14, <2>1, RefuseTypes DEF WriteBack, TypeInv, TypeOK, counters
<1>15. CASE UNCHANGED vars
  BY <1>15 DEF vars, store, counters, request, TypeInv, TypeOK, OpenInv
<1> QED BY <1>1, <1>2, <1>3, <1>4, <1>5, <1>6, <1>7, <1>8, <1>9, <1>10, <1>11, <1>12, <1>13,
           <1>14, <1>15 DEF Next, ClientStep, IsLocked

\* The tables, the open requests and the copies of the clients have their types.
THEOREM MeetingTypeCorrect == Spec => []TypeOK
<1>1. TypeInv => TypeOK BY DEF TypeInv
<1> QED BY <1>1, TypeInit, TypeStep, PTL DEF Spec

-----------------------------------------------------------------------------
(* The copies outside the lock: each is of an earlier save of the meeting,  *)
(* or older than the row, or the row itself.                                *)

Before(x, y) ==
  x.born < y.born \/ (x.born = y.born /\ (x.etag < y.etag \/ x = y))

Known(x, r, p) == x.born <= p /\ (r # None => Before(x, r))

CopyInv ==
  /\ row # None => row.born <= posts
  /\ \A c \in Clients :
       /\ seen[c] # None => Known(seen[c], row, posts)
       /\ at[c] \in {"snapshot", "merge", "filing"} => Known(loaded[c], row, posts)
       /\ at[c] = "merge" => Before(seen[c], loaded[c])

Later == /\ row \in Row /\ row' \in Row /\ posts' = posts
         /\ row'.born = row.born /\ row'.etag > row.etag

\* How the row moves: it stays, goes, is saved anew, or gets a later ETag.
LEMMA RowMoves ==
  ASSUME TypeInv, [Next]_vars
  PROVE  \/ row' = row /\ posts' = posts
         \/ row' = None /\ posts' = posts
         \/ row' \in Row /\ posts' = posts + 1 /\ row'.born = posts + 1
         \/ Later
<1>1. CASE Clock \/ Prune \/ UNCHANGED vars
  BY <1>1 DEF Clock, Prune, vars, store, counters
<1>2. CASE RefWrite
  <2>1. row \in Row /\ now \in Nat BY <1>2 DEF RefWrite, TypeInv, TypeOK
  <2> QED BY <1>2, <2>1, StoredRow DEF RefWrite, counters, Later
<1>3. ASSUME NEW c \in Clients,
             \/ Get(c) \/ PostStamp(c) \/ PostSnapshot(c) \/ BeginMerge(c)
             \/ MergeRefused(c) \/ BeginFiling(c) \/ FileIssue(c) \/ Delete(c)
      PROVE  (row' = row \/ row' = None) /\ posts' = posts
  BY <1>3 DEF Get, PostStamp, PostSnapshot, BeginMerge, MergeRefused, BeginFiling, FileIssue,
              Delete, store, counters
<1>4. ASSUME NEW c \in Clients, PostCreate(c)
      PROVE  row' \in Row /\ posts' = posts + 1 /\ row'.born = posts + 1
  <2>1. loaded[c] \in Row /\ posts \in Nat BY <1>4 DEF PostCreate, TypeInv, TypeOK, OpenInv
  <2> QED BY <1>4, <2>1 DEF PostCreate, Row
<1>5. ASSUME NEW c \in Clients, IsLocked(c) PROVE Later
  BY <1>5, LockedReplaces, ReplaceTypes DEF SameSave, Later
<1>6. ASSUME NEW c \in Clients, WriteBack(c)
      PROVE  (row' = row /\ posts' = posts) \/ Later
  BY <1>6, WriteBackRow DEF WriteBack, counters, Later
<1> QED BY <1>1, <1>2, <1>3, <1>4, <1>5, <1>6 DEF Next, ClientStep, IsLocked

\* What a client and its open request get to hold: what they held, the row the
\* step leaves, or, for the reply of a save, what the request held.
Held(c) ==
  /\ seen'[c] \in {seen[c], row'} \/ (at[c] = "snapshot" /\ seen'[c] = loaded[c])
  /\ at'[c] \in {"snapshot", "merge", "filing"} =>
       \/ at'[c] = at[c] /\ loaded'[c] = loaded[c] /\ seen'[c] = seen[c]
       \/ /\ loaded'[c] = row' /\ row' # None
          /\ at'[c] = "merge" => row' = row /\ seen'[c] = seen[c] /\ seen[c] # None

LEMMA RequestMoves ==
  ASSUME TypeInv, [Next]_vars, NEW c \in Clients PROVE Held(c)
<1> USE DEF TypeInv, TypeOK, Held
<1>1. CASE Clock \/ Prune \/ RefWrite \/ UNCHANGED vars
  BY <1>1 DEF Clock, Prune, RefWrite, vars, request
<1>2. ASSUME NEW d \in Clients, NEW r, Replace(d, r) PROVE Held(c)
  BY <1>2 DEF Replace, Reply, Reset
<1>3. ASSUME NEW d \in Clients, Refuse(d) PROVE Held(c)
  BY <1>3 DEF Refuse, Reset
<1>4. ASSUME NEW d \in Clients, Get(d) PROVE Held(c)
  BY <1>4 DEF Get, store
<1>5. ASSUME NEW d \in Clients, PostStamp(d) PROVE Held(c)
  BY <1>5 DEF PostStamp
<1>6. ASSUME NEW d \in Clients, PostCreate(d) PROVE Held(c)
  <2> DEFINE r == [loaded[d] EXCEPT !.born = posts + 1]
  <2>1. loaded[d] \in Row /\ posts + 1 \in Nat BY <1>6 DEF PostCreate, OpenInv
  <2>2. r \in Row BY <2>1 DEF Row
  <2>3. row' = r BY <1>6 DEF PostCreate
  <2> HIDE DEF r
  <2>4. row' # None BY <2>2, <2>3, NoneAssumption
  <2> QED BY <1>6, <2>4 DEF PostCreate
<1>7. ASSUME NEW d \in Clients, PostSnapshot(d) PROVE Held(c)
  <2>1. at[d] = "snapshot" /\ Reply(d, loaded[d]) BY <1>7 DEF PostSnapshot
  <2>2. CASE c = d
    <3>1. seen'[c] = loaded[c] /\ at'[c] = "idle" BY <2>1, <2>2 DEF Reply, Reset
    <3> QED BY <2>1, <2>2, <3>1
  <2>3. CASE c # d BY <2>1, <2>3 DEF Reply, Reset
  <2> QED BY <2>2, <2>3
<1>8. ASSUME NEW d \in Clients, IsLocked(d) PROVE Held(c)
  <2>1. PICK r \in Row : Replace(d, r) BY <1>8, LockedReplaces DEF SameSave
  <2> QED BY <2>1, <1>2
<1>9. ASSUME NEW d \in Clients, MergeRefused(d) \/ WriteBack(d) PROVE Held(c)
  BY <1>9, <1>3 DEF MergeRefused, WriteBack
<1>10. ASSUME NEW d \in Clients, BeginMerge(d) \/ BeginFiling(d) PROVE Held(c)
  BY <1>10 DEF BeginMerge, BeginFiling, store
<1>11. ASSUME NEW d \in Clients, FileIssue(d) \/ Delete(d) PROVE Held(c)
  BY <1>11 DEF FileIssue, Delete, request
<1> HIDE DEF TypeInv, TypeOK, Held
<1>12. ASSUME NEW d \in Clients, ClientStep(d) PROVE Held(c)
  BY <1>12, <1>4, <1>5, <1>6, <1>7, <1>8, <1>9, <1>10, <1>11 DEF ClientStep, IsLocked
<1> QED BY <1>1, <1>12 DEF Next

LEMMA CopyStep ==
  ASSUME TypeInv, CopyInv, [Next]_vars PROVE CopyInv'
<1>1. posts \in Nat /\ row \in Row \cup {None} BY DEF TypeInv, TypeOK
<1>2. ASSUME NEW x \in Row, Known(x, row, posts) PROVE Known(x, row', posts')
  BY <1>1, <1>2, RowMoves, NoneAssumption DEF Later, Known, Before, CopyInv, Row
<1>3. row' # None => Known(row', row', posts')
  BY <1>1, RowMoves, NoneAssumption DEF Later, Known, Before, CopyInv, Row
<1>4. row' # None => row'.born <= posts' BY <1>3 DEF Known
<1>5. ASSUME NEW c \in Clients PROVE seen'[c] # None => Known(seen'[c], row', posts')
  <2>1. CASE seen'[c] = seen[c] BY <1>2, <2>1 DEF CopyInv, TypeInv, TypeOK
  <2>2. CASE seen'[c] = row' BY <1>3, <2>2
  <2>3. CASE at[c] = "snapshot" /\ seen'[c] = loaded[c]
    <3>1. loaded[c] \in Row /\ Known(loaded[c], row, posts) BY <2>3 DEF CopyInv, TypeInv, TypeOK, OpenInv
    <3> QED BY <1>2, <2>3, <3>1
  <2> QED BY <2>1, <2>2, <2>3, RequestMoves DEF Held
<1>6. ASSUME NEW c \in Clients, at'[c] \in {"snapshot", "merge", "filing"}
      PROVE  Known(loaded'[c], row', posts') /\ (at'[c] = "merge" => Before(seen'[c], loaded'[c]))
  <2>1. CASE at'[c] = at[c] /\ loaded'[c] = loaded[c] /\ seen'[c] = seen[c]
    <3>1. loaded[c] \in Row BY <1>6, <2>1 DEF TypeInv, TypeOK, OpenInv
    <3>2. Known(loaded[c], row, posts) /\ (at[c] = "merge" => Before(seen[c], loaded[c])) BY <1>6, <2>1 DEF CopyInv
    <3> QED BY <1>2, <2>1, <3>1, <3>2
  <2>2. CASE /\ loaded'[c] = row' /\ row' # None
             /\ at'[c] = "merge" => row' = row /\ seen'[c] = seen[c] /\ seen[c] # None
    <3>1. Known(loaded'[c], row', posts') BY <1>3, <2>2
    <3>2. ASSUME at'[c] = "merge" PROVE Before(seen'[c], loaded'[c])
      BY <2>2, <3>2 DEF CopyInv, Known
    <3> QED BY <3>1, <3>2
  <2> QED BY <1>6, <2>1, <2>2, RequestMoves DEF Held
<1> QED BY <1>4, <1>5, <1>6 DEF CopyInv

LEMMA CopyInit == Init => CopyInv
  BY DEF Init, CopyInv

LEMMA CopyNames == TypeInv /\ CopyInv => EtagNamesContent
<1> SUFFICES ASSUME TypeInv, CopyInv, NEW c \in Clients, row # None, seen[c] # None,
                    seen[c].born = row.born, seen[c].etag = row.etag
             PROVE  seen[c] = row
  BY DEF EtagNamesContent
<1>1. row \in Row BY DEF TypeInv, TypeOK
<1>2. Before(seen[c], row) BY DEF CopyInv, Known
<1> QED BY <1>1, <1>2 DEF Before, Row

\* An ETag names the content of the meeting as it was last saved.
THEOREM EtagsNameContents == Spec => []EtagNamesContent
<1>1. TypeInv /\ CopyInv /\ [Next]_vars => (TypeInv /\ CopyInv)' BY TypeStep, CopyStep
<1>2. Init => TypeInv /\ CopyInv BY TypeInit, CopyInit
<1> QED BY <1>1, <1>2, CopyNames, PTL DEF Spec

-----------------------------------------------------------------------------
(* The backups.                                                             *)

-----------------------------------------------------------------------------
(* What a step leaves of the meeting's backups and its original.            *)

LEMMA BackupsStep ==
  ASSUME TypeInv, BackupsHaveMeeting, [Next]_vars PROVE BackupsHaveMeeting'
<1> USE DEF BackupsHaveMeeting
<1>1. CASE Clock \/ Prune \/ UNCHANGED vars
  BY <1>1 DEF Clock, Prune, vars, store
<1>2. CASE RefWrite
  <2>1. row \in Row /\ now \in Nat BY <1>2 DEF RefWrite, TypeInv, TypeOK
  <2>2. row' # None BY <1>2, <2>1, StoredRow, NoneAssumption DEF RefWrite
  <2> QED BY <2>2
<1>3. ASSUME NEW c \in Clients,
             \/ Get(c) \/ PostStamp(c) \/ PostSnapshot(c) \/ BeginMerge(c)
             \/ MergeRefused(c) \/ BeginFiling(c) \/ FileIssue(c) \/ Delete(c)
      PROVE  BackupsHaveMeeting'
  BY <1>3 DEF Get, PostStamp, PostSnapshot, BeginMerge, MergeRefused, BeginFiling, FileIssue,
              Delete, store
<1>4. ASSUME NEW c \in Clients, PostCreate(c) PROVE BackupsHaveMeeting'
  <2> DEFINE r == [loaded[c] EXCEPT !.born = posts + 1]
  <2>1. loaded[c] \in Row /\ posts + 1 \in Nat BY <1>4 DEF PostCreate, TypeInv, TypeOK, OpenInv
  <2>2. r \in Row BY <2>1 DEF Row
  <2>3. row' = r BY <1>4 DEF PostCreate
  <2> HIDE DEF r
  <2> QED BY <2>2, <2>3, NoneAssumption
<1>5. ASSUME NEW c \in Clients, IsLocked(c) PROVE BackupsHaveMeeting'
  <2>1. row' \in Row BY <1>5, LockedReplaces, ReplaceTypes DEF SameSave
  <2> QED BY <2>1, NoneAssumption
<1>6. ASSUME NEW c \in Clients, WriteBack(c) PROVE BackupsHaveMeeting'
  <2>1. row' = None => row = None BY <1>6, WriteBackRow, NoneAssumption
  <2> QED BY <1>6, <2>1 DEF WriteBack
<1> QED BY <1>1, <1>2, <1>3, <1>4, <1>5, <1>6 DEF Next, ClientStep, IsLocked

\* Whatever an undo could restore belongs to a stored meeting.
THEOREM BackupsBelong == Spec => []BackupsHaveMeeting
<1>1. TypeInv /\ BackupsHaveMeeting /\ [Next]_vars => (TypeInv /\ BackupsHaveMeeting)'
  BY TypeStep, BackupsStep
<1>2. Init => TypeInv /\ BackupsHaveMeeting BY TypeInit DEF Init, BackupsHaveMeeting
<1> QED BY <1>1, <1>2, PTL DEF Spec

LEMMA OriginalStep ==
  ASSUME TypeInv, [Next]_vars, original # None, original' # original
  PROVE  original' = None /\ row' = None
<1>1. CASE Clock \/ Prune \/ RefWrite \/ UNCHANGED vars
  BY <1>1 DEF Clock, Prune, RefWrite, vars, store
<1>2. ASSUME NEW c \in Clients,
             \/ Get(c) \/ PostStamp(c) \/ PostCreate(c) \/ PostSnapshot(c) \/ BeginMerge(c)
             \/ MergeRefused(c) \/ BeginFiling(c) \/ FileIssue(c) \/ WriteBack(c)
      PROVE  FALSE
  BY <1>2 DEF Get, PostStamp, PostCreate, PostSnapshot, BeginMerge, MergeRefused, BeginFiling,
              FileIssue, WriteBack, store
<1>3. ASSUME NEW c \in Clients, IsLocked(c) PROVE FALSE BY <1>3, LockedReplaces
<1>4. ASSUME NEW c \in Clients, Delete(c) PROVE original' = None /\ row' = None
  BY <1>4 DEF Delete
<1> QED BY <1>1, <1>2, <1>3, <1>4 DEF Next, ClientStep, IsLocked

\* The original, once taken, stays what it is until its meeting is deleted.
THEOREM OriginalKept == Spec => OriginalOutlives
<1>1. TypeInv /\ [Next]_vars =>
        [original # None /\ original' # original => original' = None /\ row' = None]_vars
  BY OriginalStep
<1> QED BY <1>1, TypeInit, TypeStep, PTL DEF Spec, OriginalOutlives

-----------------------------------------------------------------------------
(* The action items: their keys and the numbers of their edits.             *)

\* What the six locked operations make of the summary and the items.
Rewritten(c) ==
  \/ /\ PatchSummary(c) /\ row'.items = row.items
     /\ row'.sum.kept = row.sum.kept
     /\ row'.sum.edits = seen[c].sum.edits \cup {edits + 1}
  \/ /\ PatchItems(c) /\ row'.sum = row.sum
     /\ \E i \in seen[c].items :
          row'.items = (seen[c].items \ {i}) \cup {[i EXCEPT !.tag = edits + 1]}
  \/ ApplyPreview(c) /\ row'.items = {NewItem(gens + 1)}
  \/ /\ ApplyMerged(c) /\ row'.sum = Merge(loaded[c], gens + 1).sum
     /\ row'.items = Merge(loaded[c], gens + 1).items
  \/ Undo(c) /\ \E b \in backups : row'.items = b.items
  \/ Revert(c) /\ row'.items = original.items

LEMMA LockedRewrites ==
  ASSUME TypeInv, NEW c \in Clients, IsLocked(c) PROVE Rewritten(c)
<1>1. row \in Row
  BY DEF TypeInv, TypeOK, IsLocked, PatchSummary, PatchItems, ApplyPreview, ApplyMerged, Apply,
         Undo, FromBackup, Revert, FromOriginal, Replace
<1>2. CASE PatchSummary(c)
  BY <1>1, <1>2 DEF PatchSummary, Replace, Stored, Row, Summary, Rewritten
<1>3. CASE PatchItems(c)
  <2>1. PICK i \in seen[c].items :
          Replace(c, [row EXCEPT !.items = (seen[c].items \ {i}) \cup {[i EXCEPT !.tag = edits + 1]}])
    BY <1>3 DEF PatchItems
  <2>2. /\ row'.sum = row.sum
        /\ row'.items = (seen[c].items \ {i}) \cup {[i EXCEPT !.tag = edits + 1]}
    BY <1>1, <2>1 DEF Replace, Stored, Row
  <2> QED BY <1>3, <2>2 DEF Rewritten
<1>4. ASSUME NEW new, Apply(c, new) PROVE row'.sum = new.sum /\ row'.items = new.items
  BY <1>1, <1>4 DEF Apply, Replace, Stored, Row
<1>5. CASE ApplyPreview(c) BY <1>4, <1>5 DEF ApplyPreview, Rewritten
<1>6. CASE ApplyMerged(c) BY <1>4, <1>6 DEF ApplyMerged, Rewritten
<1>7. CASE Undo(c) BY <1>1, <1>7 DEF Undo, FromBackup, Replace, Stored, Row, Rewritten
<1>8. CASE Revert(c) BY <1>1, <1>8 DEF Revert, FromOriginal, Replace, Stored, Row, Rewritten
<1> QED BY <1>2, <1>3, <1>5, <1>6, <1>7, <1>8 DEF IsLocked

\* A list of items whose keys name issues and whose edits were all made.
Good(items, q, e) == \A i \in items : (i.key => q[i.id] > 0) /\ i.tag <= e
GoodIn(x, q, e) == x # None => Good(x.items, q, e)

ItemsInv ==
  /\ GoodIn(row, issued, edits) /\ GoodIn(original, issued, edits)
  /\ \A b \in backups : Good(b.items, issued, edits)
  /\ \A c \in Clients :
       /\ GoodIn(seen[c], issued, edits) /\ GoodIn(loaded[c], issued, edits)
       /\ \A i \in filed[c] : issued[i] > 0

\* No step takes an edit number or an issue away.
LEMMA CountsGrow ==
  ASSUME TypeInv, [Next]_vars
  PROVE  edits' \in Nat /\ edits' >= edits /\ \A i \in 1..MaxGens : issued'[i] >= issued[i]
<1> USE DEF TypeInv, TypeOK
<1>1. ASSUME Clock \/ Prune \/ RefWrite \/ UNCHANGED vars
      PROVE  edits' = edits /\ issued' = issued
  BY <1>1 DEF Clock, Prune, RefWrite, vars, counters
<1>2. ASSUME NEW c \in Clients,
             \/ Get(c) \/ PostStamp(c) \/ PostCreate(c) \/ PostSnapshot(c) \/ BeginMerge(c)
             \/ MergeRefused(c) \/ BeginFiling(c) \/ WriteBack(c) \/ Delete(c)
      PROVE  edits' = edits /\ issued' = issued
  BY <1>2 DEF Get, PostStamp, PostCreate, PostSnapshot, BeginMerge, MergeRefused, BeginFiling,
              WriteBack, Delete, counters
<1>3. ASSUME NEW c \in Clients, FileIssue(c)
      PROVE  edits' = edits /\ \A i \in 1..MaxGens : issued'[i] >= issued[i]
  <2>1. PICK i \in todo[c], made \in 0..2 : issued' = [issued EXCEPT ![i] = @ + made]
    BY <1>3 DEF FileIssue
  <2> QED BY <1>3, <2>1 DEF FileIssue, counters
<1>4. ASSUME NEW c \in Clients, IsLocked(c) PROVE edits' >= edits /\ issued' = issued
  <2>1. edits' = edits \/ edits' = edits + 1
    BY <1>4 DEF IsLocked, PatchSummary, PatchItems, ApplyPreview, ApplyMerged, Apply, Undo, FromBackup,
                Revert, FromOriginal, counters
  <2> QED BY <1>4, <2>1, LockedReplaces
<1>5. edits' \in Nat BY TypeStep
<1> HIDE DEF TypeInv, TypeOK
<1>6. edits \in Nat /\ issued \in [1..MaxGens -> Nat] BY DEF TypeInv, TypeOK
<1> DEFINE Grow == edits' >= edits /\ \A i \in 1..MaxGens : issued'[i] >= issued[i]
<1>7. ASSUME edits' = edits, issued' = issued PROVE Grow BY <1>6, <1>7
<1>8. ASSUME NEW c \in Clients, ClientStep(c) PROVE Grow
  <2>1. CASE IsLocked(c)
    <3>1. edits' >= edits /\ issued' = issued BY <1>4, <2>1
    <3> QED BY <1>6, <3>1
  <2>2. CASE FileIssue(c) BY <1>3, <1>6, <2>2
  <2> HIDE DEF Grow
  <2> QED BY <1>2, <1>7, <1>8, <2>1, <2>2 DEF ClientStep, IsLocked
<1> HIDE DEF Grow
<1>9. Grow BY <1>1, <1>7, <1>8 DEF Next
<1> QED BY <1>5, <1>9 DEF Grow

LEMMA GoodGrows ==
  ASSUME TypeInv, [Next]_vars, NEW S \in SUBSET Item, Good(S, issued, edits)
  PROVE  Good(S, issued', edits')
<1>1. issued \in [1..MaxGens -> Nat] /\ issued' \in [1..MaxGens -> Nat] /\ edits \in Nat
  BY TypeStep DEF TypeInv, TypeOK
<1> QED BY <1>1, CountsGrow DEF Good, Item

\* The items of the row after a step.
LEMMA RowItems ==
  ASSUME TypeInv, ItemsInv, [Next]_vars PROVE GoodIn(row', issued', edits')
<1> DEFINE G(S) == Good(S, issued', edits')
<1>1. ASSUME NEW S \in SUBSET Item, Good(S, issued, edits) PROVE G(S) BY <1>1, GoodGrows
<1>2. edits' \in Nat BY CountsGrow
<1>3. \A g \in 1..MaxGens : G({NewItem(g)}) BY <1>2 DEF NewItem, Good
<1>4. row # None => G(row.items) BY <1>1 DEF ItemsInv, GoodIn, TypeInv, TypeOK, Row
<1>5. CASE Clock \/ Prune \/ UNCHANGED vars
  BY <1>4, <1>5 DEF Clock, Prune, vars, store, GoodIn
<1>6. CASE RefWrite
  <2>1. row \in Row /\ now \in Nat BY <1>6 DEF RefWrite, TypeInv, TypeOK
  <2>2. row # None /\ row'.items = row.items BY <1>6, <2>1, StoredRow DEF RefWrite
  <2> QED BY <1>4, <2>2 DEF GoodIn
<1>7. ASSUME NEW c \in Clients,
             \/ Get(c) \/ PostStamp(c) \/ PostSnapshot(c) \/ BeginMerge(c)
             \/ MergeRefused(c) \/ BeginFiling(c) \/ FileIssue(c) \/ Delete(c)
      PROVE  row' = row \/ row' = None
  BY <1>7 DEF Get, PostStamp, PostSnapshot, BeginMerge, MergeRefused, BeginFiling, FileIssue,
              Delete, store
<1>8. ASSUME NEW c \in Clients, PostCreate(c) PROVE G(row'.items)
  <2>1. loaded[c] \in Row BY <1>8 DEF PostCreate, TypeInv, TypeOK, OpenInv
  <2>2. row'.items = loaded[c].items BY <1>8, <2>1 DEF PostCreate, Row
  <2>3. loaded[c] # None BY <1>8 DEF PostCreate, TypeInv, OpenInv
  <2>4. G(loaded[c].items) BY <1>1, <2>1, <2>3 DEF ItemsInv, GoodIn, Row
  <2> QED BY <2>2, <2>4
<1>9. ASSUME NEW c \in Clients, WriteBack(c), row' # row PROVE G(row'.items)
  <2>1. row'.items = WithKeys(loaded[c].items, filed[c]) BY <1>9, WriteBackRow
  <2>2. loaded[c] \in Row /\ loaded[c] # None BY <1>9 DEF WriteBack, TypeInv, TypeOK, OpenInv
  <2>3. G(loaded[c].items) BY <1>1, <2>2 DEF ItemsInv, GoodIn, Row
  <2>4. issued' = issued /\ \A i \in filed[c] : issued[i] > 0 BY <1>9 DEF WriteBack, ItemsInv
  <2> QED BY <2>1, <2>2, <2>3, <2>4 DEF WithKeys, Good, Row, Item
<1>10. ASSUME NEW c \in Clients, IsLocked(c) PROVE G(row'.items)
  <2>1. row \in Row /\ seen[c] \in Row /\ row # None /\ seen[c] # None
    BY <1>10, LockedReplaces, ReplaceTypes DEF SameSave, Replace, TypeInv, TypeOK
  <2>2. G(row.items) /\ G(seen[c].items) /\ seen[c].items \in SUBSET Item
    BY <1>1, <1>4, <2>1 DEF ItemsInv, GoodIn, Row
  <2>3. CASE PatchItems(c) /\ \E i \in seen[c].items :
                row'.items = (seen[c].items \ {i}) \cup {[i EXCEPT !.tag = edits + 1]}
    <3>1. PICK i \in seen[c].items :
            row'.items = (seen[c].items \ {i}) \cup {[i EXCEPT !.tag = edits + 1]}
      BY <2>3
    <3>2. i \in Item /\ edits' = edits + 1 /\ edits \in Nat
      BY <2>2, <2>3 DEF PatchItems, TypeInv, TypeOK
    <3>3. (i.key => issued'[i.id] > 0) BY <2>2 DEF Good
    <3>4. G({[i EXCEPT !.tag = edits + 1]}) BY <3>2, <3>3 DEF Good, Item
    <3> QED BY <2>2, <3>1, <3>4 DEF Good
  <2>4. CASE ApplyPreview(c) /\ row'.items = {NewItem(gens + 1)}
    <3>1. gens + 1 \in 1..MaxGens BY <2>4, BoundsAssumption DEF ApplyPreview, Apply, TypeInv, TypeOK
    <3> QED BY <1>3, <2>4, <3>1
  <2>5. CASE ApplyMerged(c) /\ row'.items = Merge(loaded[c], gens + 1).items
    <3>1. gens + 1 \in 1..MaxGens /\ loaded[c] \in Row /\ loaded[c] # None
      BY <2>5, BoundsAssumption DEF ApplyMerged, Apply, TypeInv, TypeOK, OpenInv
    <3>2. row'.items \subseteq {NewItem(gens + 1)} \cup loaded[c].items BY <2>5, <3>1, MergeType
    <3>3. G({NewItem(gens + 1)}) /\ G(loaded[c].items)
      BY <1>1, <1>3, <3>1 DEF ItemsInv, GoodIn, Row
    <3> QED BY <3>2, <3>3 DEF Good
  <2>6. CASE Undo(c) /\ \E b \in backups : row'.items = b.items
    <3>1. PICK b \in backups : row'.items = b.items BY <2>6
    <3>2. b.items \in SUBSET Item BY DEF TypeInv, TypeOK, Backup
    <3> QED BY <1>1, <3>1, <3>2 DEF ItemsInv
  <2>7. CASE Revert(c) /\ row'.items = original.items
    <3>1. original # None /\ original.items \in SUBSET Item
      BY <2>7 DEF Revert, FromOriginal, TypeInv, TypeOK, Content
    <3> QED BY <1>1, <2>7, <3>1 DEF ItemsInv, GoodIn
  <2> QED BY <1>10, <2>2, <2>3, <2>4, <2>5, <2>6, <2>7, LockedRewrites DEF Rewritten
<1> HIDE DEF G
<1>11. row' # None => G(row'.items)
  BY <1>4, <1>5, <1>6, <1>7, <1>8, <1>9, <1>10 DEF Next, ClientStep, IsLocked, GoodIn, G
<1> QED BY <1>11 DEF G, GoodIn

\* A client whose precondition holds has the row as its copy, and merges into it.
LEMMA CurrentCopy ==
  ASSUME TypeInv, CopyInv, NEW c \in Clients, c \in Conditional, Matches(c),
         row # None, seen[c] # None, seen[c].born = row.born
  PROVE  seen[c] = row /\ (at[c] = "merge" => loaded[c] = row)
<1>1. row \in Row /\ seen[c] \in Row BY DEF TypeInv, TypeOK
<1>2. Before(seen[c], row) BY DEF CopyInv, Known
<1>3. seen[c] = row BY <1>1, <1>2 DEF Matches, Before, Row
<1>4. ASSUME at[c] = "merge" PROVE loaded[c] = row
  <2>1. loaded[c] \in Row BY <1>4 DEF TypeInv, TypeOK, OpenInv
  <2>2. Before(loaded[c], row) /\ Before(row, loaded[c]) BY <1>3, <1>4 DEF CopyInv, Known
  <2> QED BY <1>1, <2>1, <2>2 DEF Before, Row
<1> QED BY <1>3, <1>4

SummaryKept == SummaryEdits(row) \subseteq SummaryEdits(row') \/ Replaces

ItemsKept ==
  \/ \A i \in Edited(row.items) : ItemEditKept(i, row'.items)
  \/ Replaces
  \/ \E c \in Clients : WriteBack(c)

\* A row with the content it had keeps every edit.
LEMMA SameContent ==
  ASSUME row \in Row, row'.sum = row.sum, row'.items = row.items
  PROVE  SummaryKept /\ ItemsKept
<1>1. ASSUME NEW i \in Edited(row.items) PROVE ItemEditKept(i, row'.items)
  <2>1. i \in row.items /\ i.tag >= i.tag BY DEF Edited, Row, Item
  <2> QED BY <2>1 DEF ItemEditKept
<1> QED BY <1>1 DEF SummaryKept, ItemsKept, SummaryEdits

\* An edit goes with an operation that replaces it, or with the write-back.
LEMMA EditsStep ==
  ASSUME TypeInv, CopyInv, ItemsInv, [Next]_vars, row # None, row' # None
  PROVE  SummaryKept /\ ItemsKept
<1>1. row \in Row BY DEF TypeInv, TypeOK
<1>2. CASE Clock \/ Prune \/ UNCHANGED vars
  BY <1>1, <1>2, SameContent DEF Clock, Prune, vars, store
<1>3. CASE RefWrite
  <2>1. now \in Nat BY DEF TypeInv, TypeOK
  <2> QED BY <1>1, <1>3, <2>1, StoredRow, SameContent DEF RefWrite
<1>4. ASSUME NEW c \in Clients,
             \/ Get(c) \/ PostStamp(c) \/ PostSnapshot(c) \/ BeginMerge(c)
             \/ MergeRefused(c) \/ BeginFiling(c) \/ FileIssue(c)
      PROVE  SummaryKept /\ ItemsKept
  <2>1. row' = row
    BY <1>4 DEF Get, PostStamp, PostSnapshot, BeginMerge, MergeRefused, BeginFiling, FileIssue,
                store
  <2> QED BY <1>1, <2>1, SameContent
<1>5. ASSUME NEW c \in Clients, PostCreate(c) \/ ApplyPreview(c) \/ Undo(c) \/ Revert(c)
      PROVE  SummaryKept /\ ItemsKept
  BY <1>5 DEF SummaryKept, ItemsKept, Replaces
<1>6. ASSUME NEW c \in Clients, Delete(c) PROVE FALSE BY <1>6 DEF Delete
<1>7. ASSUME NEW c \in Clients, WriteBack(c) PROVE SummaryKept /\ ItemsKept
  <2>1. row'.sum = row.sum BY <1>7, WriteBackRow
  <2> QED BY <1>7, <2>1 DEF SummaryKept, ItemsKept, SummaryEdits
<1>8. ASSUME NEW c \in Clients, PatchSummary(c) \/ PatchItems(c) \/ ApplyMerged(c)
      PROVE  SummaryKept /\ ItemsKept
  <2>1. CASE c \in Conditional => seen[c].born # row.born
    BY <1>8, <2>1 DEF SummaryKept, ItemsKept, Replaces
  <2>2. CASE c \in Conditional /\ seen[c].born = row.born
    <3>1. Matches(c) /\ seen[c] # None
      BY <1>8 DEF PatchSummary, PatchItems, ApplyMerged, Apply, Replace
    <3>2. seen[c] = row /\ (at[c] = "merge" => loaded[c] = row) BY <2>2, <3>1, CurrentCopy
    <3>3. Rewritten(c) BY <1>8, LockedRewrites DEF IsLocked
    <3>4. CASE /\ PatchSummary(c) /\ row'.items = row.items
               /\ row'.sum.kept = row.sum.kept
               /\ row'.sum.edits = seen[c].sum.edits \cup {edits + 1}
      <4>1. \A i \in Edited(row.items) : i \in row'.items /\ i.tag >= i.tag
        BY <1>1, <3>4 DEF Edited, Row, Item
      <4> QED BY <3>2, <3>4, <4>1 DEF SummaryKept, ItemsKept, SummaryEdits, ItemEditKept
    <3>5. CASE /\ row'.sum = row.sum
               /\ \E i \in seen[c].items :
                    row'.items = (seen[c].items \ {i}) \cup {[i EXCEPT !.tag = edits + 1]}
      <4>1. PICK k \in row.items : row'.items = (row.items \ {k}) \cup {[k EXCEPT !.tag = edits + 1]}
        BY <3>2, <3>5
      <4>2. ASSUME NEW i \in Edited(row.items) PROVE ItemEditKept(i, row'.items)
        <5>1. i \in Item /\ k \in Item /\ i \in row.items /\ edits \in Nat
          BY <1>1 DEF Edited, Row, TypeInv, TypeOK
        <5>2. CASE i # k
          <6>1. i \in row'.items /\ i.tag >= i.tag BY <4>1, <5>1, <5>2 DEF Item
          <6> QED BY <6>1 DEF ItemEditKept
        <5>3. CASE i = k
          <6> DEFINE j == [k EXCEPT !.tag = edits + 1]
          <6>1. k.tag <= edits BY DEF ItemsInv, GoodIn, Good
          <6>2. j.id = i.id /\ j.tag >= i.tag BY <5>1, <5>3, <6>1 DEF Item
          <6>3. j \in row'.items BY <4>1
          <6> QED BY <6>2, <6>3 DEF ItemEditKept
        <5> QED BY <5>2, <5>3
      <4> QED BY <3>5, <4>2 DEF SummaryKept, ItemsKept, SummaryEdits
    <3>6. CASE /\ ApplyMerged(c) /\ row'.sum = Merge(loaded[c], gens + 1).sum
               /\ row'.items = Merge(loaded[c], gens + 1).items
      <4>1. loaded[c] = row /\ gens + 1 \in 1..MaxGens
        BY <3>2, <3>6, BoundsAssumption DEF ApplyMerged, Apply, TypeInv, TypeOK
      <4>2. row'.sum.kept = row.sum.kept \cup row.sum.edits /\ Edited(row.items) \subseteq row'.items
        BY <1>1, <3>6, <4>1, MergeType
      <4>3. \A i \in Edited(row.items) : i \in row'.items /\ i.tag >= i.tag
        BY <1>1, <4>2 DEF Edited, Row, Item
      <4> QED BY <4>2, <4>3 DEF SummaryKept, ItemsKept, SummaryEdits, ItemEditKept
    <3>7. CASE ApplyPreview(c) \/ Undo(c) \/ Revert(c) BY <1>5, <3>7
    <3> QED BY <3>3, <3>4, <3>5, <3>6, <3>7 DEF Rewritten
  <2> QED BY <2>1, <2>2
<1> QED BY <1>2, <1>3, <1>4, <1>5, <1>6, <1>7, <1>8 DEF Next, ClientStep

\* What a request holds outside the lock stays good.
LEMMA RequestItems ==
  ASSUME TypeInv, ItemsInv, [Next]_vars, NEW c \in Clients
  PROVE  GoodIn(loaded'[c], issued', edits') /\ \A i \in filed'[c] : issued'[i] > 0
<1> DEFINE Ok == GoodIn(loaded'[c], issued', edits') /\ \A i \in filed'[c] : issued'[i] > 0
<1>1. GoodIn(loaded[c], issued', edits') /\ \A i \in filed[c] : issued'[i] > 0
  <2>1. loaded[c] # None => loaded[c].items \in SUBSET Item BY DEF TypeInv, TypeOK, Row
  <2>2. issued \in [1..MaxGens -> Nat] /\ issued' \in [1..MaxGens -> Nat] /\ filed[c] \in SUBSET (1..MaxGens)
    BY TypeStep DEF TypeInv, TypeOK
  <2>3. GoodIn(loaded[c], issued', edits') BY <2>1, GoodGrows DEF ItemsInv, GoodIn
  <2>4. \A i \in filed[c] : issued'[i] > 0 BY <2>2, CountsGrow DEF ItemsInv
  <2> QED BY <2>3, <2>4
<1>2. GoodIn(row', issued', edits') BY RowItems
<1>3. GoodIn(None, issued', edits') BY DEF GoodIn
<1>4. ASSUME loaded'[c] \in {loaded[c], row', None}, filed'[c] \in {filed[c], {}} PROVE Ok
  BY <1>1, <1>2, <1>3, <1>4
<1>5. at \in [Clients -> Step] /\ loaded \in [Clients -> Row \cup {None}] /\ filed \in [Clients -> SUBSET (1..MaxGens)]
  BY DEF TypeInv, TypeOK
<1>6. ASSUME NEW d \in Clients, Reset(d) PROVE Ok
  <2>1. loaded'[c] \in {loaded[c], None} /\ filed'[c] \in {filed[c], {}} BY <1>5, <1>6 DEF Reset
  <2> QED BY <1>4, <2>1
<1>7. ASSUME Clock \/ Prune \/ RefWrite \/ UNCHANGED vars PROVE Ok
  <2>1. loaded' = loaded /\ filed' = filed BY <1>7 DEF Clock, Prune, RefWrite, vars, request
  <2> QED BY <1>4, <2>1
<1>8. ASSUME NEW d \in Clients, Get(d) \/ Delete(d) PROVE Ok
  <2>1. loaded' = loaded /\ filed' = filed BY <1>8 DEF Get, Delete, request
  <2> QED BY <1>4, <2>1
<1>9. ASSUME NEW d \in Clients, PostStamp(d) PROVE Ok
  <2> DEFINE r == [born |-> 0, etag |-> now, sum |-> Generated(gens + 1),
                   items |-> {NewItem(gens + 1)}, gate |-> gens + 1]
  <2>1. loaded' = [loaded EXCEPT ![d] = r] /\ filed' = filed BY <1>9 DEF PostStamp
  <2>2. edits' \in Nat BY CountsGrow
  <2>3. GoodIn(r, issued', edits') BY <2>2 DEF GoodIn, Good, NewItem
  <2> HIDE DEF r
  <2>4. loaded'[c] \in {loaded[c], r} BY <1>5, <2>1
  <2> QED BY <1>1, <2>1, <2>3, <2>4
<1>10. ASSUME NEW d \in Clients, PostCreate(d) \/ BeginMerge(d) \/ BeginFiling(d) PROVE Ok
  <2>1. loaded' = [loaded EXCEPT ![d] = row'] /\ filed' = filed
    BY <1>10 DEF PostCreate, BeginMerge, BeginFiling, store
  <2>2. loaded'[c] \in {loaded[c], row'} BY <1>5, <2>1
  <2> QED BY <1>4, <2>1, <2>2
<1>11. ASSUME NEW d \in Clients, FileIssue(d) PROVE Ok
  <2>1. PICK i \in todo[d], made \in 0..2, ok \in BOOLEAN :
          /\ IF LostReplies THEN ok => made > 0 ELSE made = IF ok THEN 1 ELSE 0
          /\ issued' = [issued EXCEPT ![i] = @ + made]
          /\ filed' = [filed EXCEPT ![d] = IF ok THEN @ \cup {i} ELSE @]
    BY <1>11 DEF FileIssue
  <2>2. i \in 1..MaxGens /\ issued \in [1..MaxGens -> Nat] BY DEF TypeInv, TypeOK
  <2>3. ok => issued'[i] > 0 BY <2>1, <2>2
  <2>4. filed'[c] \in {filed[c], IF ok THEN filed[c] \cup {i} ELSE filed[c]} BY <1>5, <2>1
  <2>5. loaded' = loaded BY <1>11 DEF FileIssue
  <2> QED BY <1>1, <2>3, <2>4, <2>5
<1>12. ASSUME NEW d \in Clients, IsLocked(d) PROVE Ok
  BY <1>6, <1>12, LockedReplaces DEF SameSave, Replace, Reply
<1>13. ASSUME NEW d \in Clients, PostSnapshot(d) \/ MergeRefused(d) \/ WriteBack(d) PROVE Ok
  BY <1>6, <1>13 DEF PostSnapshot, MergeRefused, WriteBack, Reply, Refuse
<1> HIDE DEF Ok
<1>14. ASSUME NEW d \in Clients, ClientStep(d) PROVE Ok
  BY <1>8, <1>9, <1>10, <1>11, <1>12, <1>13, <1>14 DEF ClientStep, IsLocked
<1>15. Ok BY <1>7, <1>14 DEF Next
<1> QED BY <1>15 DEF Ok

\* So do the original and the backups.
LEMMA BackupItems ==
  ASSUME TypeInv, ItemsInv, [Next]_vars
  PROVE  GoodIn(original', issued', edits') /\ \A b \in backups' : Good(b.items, issued', edits')
<1> DEFINE G(S) == Good(S, issued', edits')
           Ok == GoodIn(original', issued', edits') /\ \A b \in backups' : G(b.items)
<1>1. ASSUME NEW S \in SUBSET Item, Good(S, issued, edits) PROVE G(S) BY <1>1, GoodGrows
<1>2. GoodIn(original, issued', edits')
  BY <1>1, NoneAssumption DEF ItemsInv, GoodIn, TypeInv, TypeOK, Content
<1>3. \A b \in backups : G(b.items) BY <1>1 DEF ItemsInv, TypeInv, TypeOK, Backup
<1>4. row # None => G(row.items) BY <1>1 DEF ItemsInv, GoodIn, TypeInv, TypeOK, Row
<1>5. ASSUME original' \in {original, None}, backups' \subseteq backups PROVE Ok
  BY <1>2, <1>3, <1>5 DEF GoodIn
<1>6. ASSUME Clock \/ Prune \/ RefWrite \/ UNCHANGED vars PROVE Ok
  BY <1>5, <1>6 DEF Clock, Prune, RefWrite, vars, store
<1>7. ASSUME NEW c \in Clients,
             \/ Get(c) \/ PostStamp(c) \/ PostCreate(c) \/ BeginMerge(c) \/ MergeRefused(c)
             \/ BeginFiling(c) \/ FileIssue(c) \/ WriteBack(c) \/ Delete(c)
             \/ PatchSummary(c) \/ PatchItems(c) \/ Undo(c) \/ Revert(c)
      PROVE  original' \in {original, None} /\ backups' \subseteq backups
  BY <1>7 DEF Get, PostStamp, PostCreate, BeginMerge, MergeRefused, BeginFiling, FileIssue,
              WriteBack, Delete, PatchSummary, PatchItems, Undo, FromBackup, Revert, FromOriginal, store
<1>8. ASSUME NEW c \in Clients, PostSnapshot(c) PROVE Ok
  <2>1. loaded[c] \in Row /\ loaded[c] # None BY <1>8 DEF PostSnapshot, TypeInv, TypeOK, OpenInv
  <2>2. G(loaded[c].items) BY <1>1, <2>1 DEF ItemsInv, GoodIn, Row
  <2>3. backups' = backups /\ (original' = original \/ original'.items = loaded[c].items)
    BY <1>8 DEF PostSnapshot
  <2> QED BY <1>2, <1>3, <2>2, <2>3 DEF GoodIn
<1>9. ASSUME NEW c \in Clients, ApplyPreview(c) \/ ApplyMerged(c) PROVE Ok
  <2>1. row # None /\ original' = original BY <1>9 DEF ApplyPreview, ApplyMerged, Apply
  <2>2. PICK b : backups' = backups \cup {b} /\ b.items = row.items
    <3>1. ASSUME NEW new, Apply(c, new) PROVE \E b : backups' = backups \cup {b} /\ b.items = row.items
      <4> DEFINE k == [id |-> gens + 1, at |-> now, sum |-> row.sum, items |-> row.items, gate |-> row.gate]
      <4>1. backups' = backups \cup {k} BY <3>1 DEF Apply
      <4> WITNESS k
      <4> QED BY <4>1
    <3> QED BY <1>9, <3>1 DEF ApplyPreview, ApplyMerged
  <2> QED BY <1>2, <1>3, <1>4, <2>1, <2>2
<1> HIDE DEF Ok
<1>10. ASSUME NEW c \in Clients, ClientStep(c) PROVE Ok
  <2>1. CASE PostSnapshot(c) \/ ApplyPreview(c) \/ ApplyMerged(c) BY <1>8, <1>9, <2>1
  <2>2. CASE ~(PostSnapshot(c) \/ ApplyPreview(c) \/ ApplyMerged(c))
    <3>1. original' \in {original, None} /\ backups' \subseteq backups
      BY <1>7, <1>10, <2>2 DEF ClientStep
    <3> QED BY <1>5, <3>1
  <2> QED BY <2>1, <2>2
<1>11. Ok BY <1>6, <1>10 DEF Next
<1> QED BY <1>11 DEF Ok

LEMMA ItemsStep ==
  ASSUME TypeInv, ItemsInv, [Next]_vars PROVE ItemsInv'
<1>1. ASSUME NEW c \in Clients PROVE GoodIn(seen'[c], issued', edits')
  <2>1. seen[c] # None => seen[c].items \in SUBSET Item BY DEF TypeInv, TypeOK, Row
  <2>2. loaded[c] # None => loaded[c].items \in SUBSET Item BY DEF TypeInv, TypeOK, Row
  <2>3. GoodIn(seen[c], issued', edits') BY <2>1, GoodGrows DEF ItemsInv, GoodIn
  <2>4. GoodIn(loaded[c], issued', edits') BY <2>2, GoodGrows DEF ItemsInv, GoodIn
  <2> QED BY <2>3, <2>4, RowItems, RequestMoves DEF Held
<1> QED BY <1>1, RowItems, BackupItems, RequestItems DEF ItemsInv

LEMMA ItemsInit == Init => ItemsInv
  BY DEF Init, ItemsInv, GoodIn

Inv == TypeInv /\ CopyInv /\ ItemsInv

LEMMA InvStep == Inv /\ [Next]_vars => Inv'
  BY TypeStep, CopyStep, ItemsStep DEF Inv

LEMMA InvInit == Init => Inv
  BY TypeInit, CopyInit, ItemsInit DEF Inv

\* A stored key names an issue Jira was seen to make.
THEOREM StoredKeysNameIssues == Spec => []KeysNameIssues
<1>1. Inv => KeysNameIssues BY DEF Inv, ItemsInv, GoodIn, Good, KeysNameIssues
<1> QED BY <1>1, InvInit, InvStep, PTL DEF Spec

\* An edit the store accepted survives every conditional request of another tab.
THEOREM EditsSurvive == Spec => AcceptedEditsSurvive
<1>1. Inv /\ [Next]_vars =>
        [row # None /\ row' # None =>
           /\ SummaryEdits(row) \subseteq SummaryEdits(row') \/ Replaces
           /\ \/ \A i \in Edited(row.items) : ItemEditKept(i, row'.items)
              \/ Replaces
              \/ \E c \in Clients : WriteBack(c)]_vars
  BY EditsStep DEF Inv, SummaryKept, ItemsKept
<1> QED BY <1>1, InvInit, InvStep, PTL DEF Spec, AcceptedEditsSurvive
-----------------------------------------------------------------------------
(***************************************************************************)
(* The server's own work.  A complete snapshot of the newest time is there *)
(* once one was completed: the copy that is being made is the last of the  *)
(* list until it is complete or removed, and only then are old ones pruned.*)
(***************************************************************************)

SnapshotInv ==
  /\ env.keep \in Int
  /\ snaps \in Seq({"part", "whole", "newest"})
  /\ snap = "copy" => Len(snaps) > 0 /\ snaps[Len(snaps)] = "part"
  /\ snap = "prune" => Len(snaps) > 0 /\ snaps[Len(snaps)] = "newest"
  /\ NewestSnapshotKept

LEMMA SnapshotInit ==
  ASSUME UpkeepInit
  PROVE  SnapshotInv
BY DEF UpkeepInit, SnapshotInv, NewestSnapshotKept, Down

\* The server starts, stops and records: no snapshot is touched.
LEMMA ServerKeepsSnapshots ==
  ASSUME SnapshotInv, UNCHANGED <<snaps, taken>>, env'.keep \in Int, snap' \in {snap, "off", "begin", "sleep"}
  PROVE  SnapshotInv'
BY DEF SnapshotInv, NewestSnapshotKept

LEMMA BeginKeepsNewest ==
  ASSUME SnapshotInv, NEW works \in BOOLEAN, BeginSnapshot(works)
  PROVE  SnapshotInv'
<1>1. CASE works
  <2>1. snaps' = Append(snaps, "part") /\ snap' = "copy" /\ UNCHANGED <<env, taken>>
    BY <1>1 DEF BeginSnapshot, Take
  <2>2. /\ snaps' \in Seq({"part", "whole", "newest"}) /\ Len(snaps') = Len(snaps) + 1
        /\ snaps'[Len(snaps')] = "part" /\ Len(snaps) \in Nat
        /\ \A i \in DOMAIN snaps : i \in DOMAIN snaps' /\ snaps'[i] = snaps[i]
    BY <2>1 DEF SnapshotInv
  <2> QED BY <2>1, <2>2 DEF SnapshotInv, NewestSnapshotKept
<1>2. CASE ~works
  BY <1>2, ServerKeepsSnapshots DEF BeginSnapshot, Take, SnapshotInv
<1> QED BY <1>1, <1>2

LEMMA FinishKeepsNewest ==
  ASSUME SnapshotInv, Finish
  PROVE  SnapshotInv'
<1> DEFINE n == Len(snaps)
           named(i) == IF i = n THEN "newest" ELSE IF snaps[i] = "newest" THEN "whole" ELSE snaps[i]
<1>1. /\ snap' = "prune" /\ UNCHANGED env /\ n \in Nat /\ n > 0 /\ DOMAIN snaps = 1 .. n
      /\ snaps' = [i \in 1 .. n |-> named(i)]
      /\ \A i \in 1 .. n : snaps[i] \in {"part", "whole", "newest"}
  BY DEF Finish, Take, SnapshotInv
<1>2. named(n) = "newest" /\ \A i \in 1 .. n : named(i) \in {"part", "whole", "newest"}
  BY <1>1
<1> HIDE DEF named, n
<1>3. /\ snaps' \in Seq({"part", "whole", "newest"}) /\ Len(snaps') = n
      /\ DOMAIN snaps' = 1 .. n /\ snaps'[n] = "newest"
  BY <1>1, <1>2
<1> QED BY <1>1, <1>3 DEF SnapshotInv, NewestSnapshotKept

\* What is removed after a failure is the copy, and the copy is not the newest.
LEMMA FailKeepsNewest ==
  ASSUME SnapshotInv, NEW removed \in BOOLEAN, Fail(removed)
  PROVE  SnapshotInv'
<1>1. CASE removed
  <2>1. /\ snaps' = SubSeq(snaps, 1, Len(snaps) - 1) /\ snap' = "sleep" /\ UNCHANGED <<env, taken>>
        /\ Len(snaps) \in Nat /\ Len(snaps) > 0 /\ snaps[Len(snaps)] = "part"
    BY <1>1 DEF Fail, Take, Front, SnapshotInv
  <2>2. /\ snaps' \in Seq({"part", "whole", "newest"}) /\ DOMAIN snaps' = 1 .. (Len(snaps) - 1)
        /\ \A i \in 1 .. (Len(snaps) - 1) : snaps'[i] = snaps[i]
    BY <2>1 DEF SnapshotInv
  <2>3. \A i \in DOMAIN snaps : snaps[i] = "newest" => i \in 1 .. (Len(snaps) - 1)
    BY <2>1 DEF SnapshotInv
  <2> QED BY <2>1, <2>2, <2>3 DEF SnapshotInv, NewestSnapshotKept
<1>2. CASE ~removed
  BY <1>2, ServerKeepsSnapshots DEF Fail, Take, SnapshotInv
<1> QED BY <1>1, <1>2

\* The last of the list stays, as at least one is kept whatever is configured.
LEMMA PruneKeepsNewest ==
  ASSUME SnapshotInv, NEW stay \in SUBSET (1 .. Len(snaps)), PruneSnapshots(stay)
  PROVE  SnapshotInv'
<1> DEFINE stays == {i \in DOMAIN snaps : i > Len(snaps) - Keep \/ i \in stay}
<1>1. PICK numbers \in [1 .. Cardinality(stays) -> stays] :
        CountsUp(numbers, stays) /\ Take("sleep", [n \in 1 .. Cardinality(stays) |-> snaps[numbers[n]]])
  BY DEF PruneSnapshots
<1>2. Len(snaps) \in Nat /\ Len(snaps) > 0 /\ snaps[Len(snaps)] = "newest" /\ Keep \in Int /\ Keep >= 1
  BY DEF PruneSnapshots, SnapshotInv, Keep
<1>3. Len(snaps) \in stays /\ stays \subseteq DOMAIN snaps /\ stays \subseteq 1 .. Len(snaps)
  BY <1>2 DEF SnapshotInv
<1> DEFINE length == Cardinality(stays)
<1>4. length \in Nat
  <2>1. IsFiniteSet(1 .. Len(snaps))
    BY <1>2, FS_Interval
  <2> QED BY <1>3, <2>1, FS_Subset, FS_CardinalityType
<1>5. PICK n \in 1 .. length : numbers[n] = Len(snaps)
  BY <1>1, <1>3 DEF CountsUp
<1>6. /\ snaps' = [k \in 1 .. length |-> snaps[numbers[k]]] /\ snap' = "sleep" /\ UNCHANGED <<env, taken>>
      /\ \A k \in 1 .. length : numbers[k] \in DOMAIN snaps
  BY <1>1, <1>3 DEF Take, PruneSnapshots
<1> HIDE DEF stays, length
<1>7. snaps' \in Seq({"part", "whole", "newest"}) /\ DOMAIN snaps' = 1 .. length /\ snaps'[n] = "newest"
  BY <1>2, <1>4, <1>5, <1>6 DEF SnapshotInv
<1> QED BY <1>6, <1>7 DEF SnapshotInv, NewestSnapshotKept

LEMMA UpkeepKeepsNewest ==
  ASSUME SnapshotInv, [AllNext]_<<vars, upkeep>>
  PROVE  SnapshotInv'
<1>1. CASE UNCHANGED upkeep
  BY <1>1 DEF upkeep, SnapshotInv, NewestSnapshotKept
<1>2. CASE UpkeepNext
  <2>1. CASE \E e \in Envs : StartServer(e)
    BY <2>1, UpkeepAssumption, ServerKeepsSnapshots DEF StartServer, Envs
  <2>2. CASE StopServer
    BY <2>2, ServerKeepsSnapshots DEF StopServer, Down
  <2>3. CASE Record \/ Age
    BY <2>3, ServerKeepsSnapshots DEF Record, Age, SnapshotInv
  <2>4. CASE CleanupStep
    BY <2>4, ServerKeepsSnapshots DEF CleanupStep, Part, Wake, SnapshotInv
  <2>5. CASE SnapshotStep
    <3>1. CASE WakeSnapshot
      BY <3>1, ServerKeepsSnapshots DEF WakeSnapshot, Take, SnapshotInv
    <3> QED BY <2>5, <3>1, BeginKeepsNewest, FinishKeepsNewest, FailKeepsNewest, PruneKeepsNewest
         DEF SnapshotStep
  <2> QED BY <1>2, <2>1, <2>2, <2>3, <2>4, <2>5 DEF UpkeepNext
<1> QED BY <1>1, <1>2 DEF AllNext

\* "무백업 prune 사고 재발 방지" (maintenance.py:71-131): once a snapshot was
\* completed the newest complete one is there, for any WEB_DB_BACKUP_KEEP, also
\* zero and negative ones, whichever copies and removals fail and whenever the
\* server stops.
THEOREM SnapshotsKeepTheNewest == AllSpec => []NewestSnapshotKept
<1>1. UpkeepInit => SnapshotInv
  BY SnapshotInit
<1>2. SnapshotInv /\ [AllNext]_<<vars, upkeep>> => SnapshotInv'
  BY UpkeepKeepsNewest
<1>3. SnapshotInv => NewestSnapshotKept
  BY DEF SnapshotInv
<1> QED BY <1>1, <1>2, <1>3, PTL DEF AllSpec

\* The upkeep touches no meeting: what holds of the meeting holds beside it.
LEMMA UpkeepSparesMeetings == AllSpec => Spec
<1>1. UpkeepInit => Init
  BY DEF UpkeepInit
<1>2. [AllNext]_<<vars, upkeep>> => [Next]_vars
  BY DEF AllNext
<1> QED BY <1>1, <1>2, PTL DEF AllSpec, Spec

\* The meeting's properties for the server with both loops (store.py:105-132,
\* 346-369; app.py:1992-2018, 3783-3796).
THEOREM MeetingsBesideUpkeep ==
  AllSpec => []EtagNamesContent /\ OriginalOutlives /\ AcceptedEditsSurvive
BY UpkeepSparesMeetings, EtagsNameContents, OriginalKept, EditsSurvive, PTL
=============================================================================
