-------------------------------- MODULE Twins --------------------------------
(***************************************************************************)
(* Two meetings of one owner.  Each has its row, its file and its jobs of  *)
(* its own; they share the Drive, its root folder and the process, so one  *)
(* may be synced while the other is deleted with its assets.               *)
(***************************************************************************)
EXTENDS Playback

CONSTANTS OtherTitle

ASSUME OtherTitleAssumption == OtherTitle \notin {Title, "root", "doc", "audio"}

\* What DriveSync keeps of the second meeting.
VARIABLES post2, kept2, row2, inflight2, run2, del2, wipe2

second == <<post2, kept2, row2, inflight2, run2, del2, wipe2>>

Other ==
  INSTANCE DriveSync WITH
    Title <- OtherTitle, MaxSyncs <- 1, Emails <- {},
    post <- post2, kept <- kept2, row <- row2, inflight <- inflight2,
    run <- run2, del <- del2, wipe <- wipe2

TwinsInit == PlayInit /\ Other!Init

\* Each meeting has one sync here.
This ==
  /\ Unmailed /\ \A j \in Syncs \ {1} : run'[j] = run[j]
  /\ UNCHANGED second

That == Other!Unmailed /\ UNCHANGED <<post, kept, row, inflight, run, del, wipe>>

TwinsNext ==
  \/ PlayNext /\ UNCHANGED second
  \/ side = "twins" /\ (This \/ That) /\ UNCHANGED player
  \/ side = "twins" /\ Restart /\ Other!Restart /\ UNCHANGED player

TwinsSpec == TwinsInit /\ [][TwinsNext]_<<vars, player, second>>

-----------------------------------------------------------------------------
\* A recording on Drive lies in the folder of its meeting.
Uploaded(title) ==
  \E f, g \in drive : f.kind = "audio" /\ f.parent = g.id /\ g.kind = title

\* "LB_NOTE/{회의명_날짜_시간}" (_delete_google_assets_async deletes the folder
\* with all that is in it): whatever is synced, deleted, failed or restarted
\* around it, a meeting keeps its own recording, in its file or on Drive, until
\* its own deletion is asked for.  Its folder must have a name of its own.
DeletionSparesOthers ==
  side = "twins" =>
    /\ row.recorded /\ del = "none" => kept \/ Uploaded(Title)
    /\ row2.recorded /\ del2 = "none" => kept2 \/ Uploaded(OtherTitle)
=============================================================================
