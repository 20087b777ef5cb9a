-------------------------------- MODULE Playback --------------------------------
(***************************************************************************)
(* The player of a meeting's recording (get_meeting_audio in web/app.py)   *)
(* beside the sync that moves the recording to Drive and removes the file. *)
(*                                                                         *)
(* A request reads the row, looks for the file, asks for its size and, for *)
(* the body, opens it; or it asks Drive.  Between any two of these a sync, *)
(* a deletion or a stop may have its turn.  A file that is open can be     *)
(* read to its end.                                                        *)
(***************************************************************************)
EXTENDS DriveSync

CONSTANTS Size   \* bytes of the recording

ASSUME SizeAssumption == Size \in Nat \ {0}

VARIABLES
  side,  \* this behaviour has emails ("sync"), a player ("play") or, in Twins,
         \* a second meeting ("twins")
  req    \* the player's request

player == <<side, req>>

None == [at |-> "none"]

\* owed and moved are history: since the request the meeting has had its
\* recording and nobody has asked for its deletion; its file was removed.
Request(at, audio) ==
  [at |-> at, audio |-> audio, wanted |-> {}, given |-> {}, owed |-> row.recorded /\ del = "none",
   moved |-> FALSE]

PlayInit == Init /\ side \in {"sync", "play", "twins"} /\ req = None

-----------------------------------------------------------------------------
(* What a request brings.                                                  *)

\* Tokens of a user and no token; the scope of one that is not "audio" is all.
Tokens == {"none", "session", "audio", "expired"}

\* _audio_user: a header is used before the query, and each has its scope.
Granted(header, query, mustChange) ==
  /\ IF header # "none" THEN header = "session" ELSE query = "audio"
  /\ ~mustChange

\* A Range header: none, one that is no range, bytes=-last, bytes=first-, and
\* bytes=first-last.  Of several ranges the first counts.
RangeHeader ==
  [form : {"none", "bad", "suffix", "open", "span"}, first : 0..Size, last : 0..(Size + 1)]

Bytes == 0..(Size - 1)

\* _parse_range: from start to end, or none.
ParseRange(r) ==
  LET start == IF r.form # "suffix" THEN r.first ELSE IF r.last > Size THEN 0 ELSE Size - r.last
      end == IF r.form = "span" THEN r.last ELSE Size - 1 IN
  IF r.form \in {"none", "bad"} \/ (r.form = "suffix" /\ r.last = 0) \/ start >= Size \/ end < start
  THEN {} ELSE start..(IF end < Size THEN end ELSE Size - 1)

\* The bytes a header asks for.
Asked(r) ==
  {b \in Bytes :
     \/ r.form = "none"
     \/ r.form = "suffix" /\ b + r.last >= Size
     \/ r.form = "open" /\ b >= r.first
     \/ r.form = "span" /\ r.first <= b /\ b <= r.last}

-----------------------------------------------------------------------------
(* The steps of a request.                                                 *)

AtStep(step) == side = "play" /\ req.at = step

To(step) == req' = [req EXCEPT !.at = step] /\ UNCHANGED <<vars, side>>

Ask(header, query, mustChange) ==
  /\ AtStep("none") /\ Granted(header, query, mustChange)
  /\ req' = Request("row", Nil)
  /\ UNCHANGED <<vars, side>>

\* _owned_or_404.
ReadRow ==
  /\ AtStep("row")
  /\ req' = [req EXCEPT !.at = IF ~row.stored THEN "missing" ELSE IF row.recorded THEN "file" ELSE "ref",
                        !.audio = row.ref.audio]
  /\ UNCHANGED <<vars, side>>

\* meeting_audio_path.
FindFile == AtStep("file") /\ To(IF kept THEN "size" ELSE "ref")

\* A file that went after it was found is an error of the server.
Answer ==
  /\ AtStep("size")
  /\ \/ ~kept /\ To("failed")
     \/ /\ kept
        /\ \E r \in RangeHeader :
             LET given == IF r.form = "none" THEN Bytes ELSE ParseRange(r) IN
             req' = [req EXCEPT !.at = IF given = {} THEN "unsatisfiable" ELSE "body",
                                !.given = given, !.wanted = Asked(r)]
        /\ UNCHANGED <<vars, side>>

\* The headers are out: a file that went meanwhile breaks the answer off.
Body == AtStep("body") /\ To(IF kept THEN "played" ELSE "broken")

\* _stream_audio_from_drive, up to the token.
FindOnDrive == AtStep("ref") /\ To(IF req.audio = Nil THEN "missing" ELSE "drive")

\* stream_media and the relay; Drive keeps to the ranges itself.
Relay ==
  /\ AtStep("drive")
  /\ \/ ~Live(req.audio) /\ To("missing")
     \/ /\ Live(req.audio)
        /\ \E r \in RangeHeader :
             /\ r.form # "bad"
             /\ req' = [req EXCEPT !.at = IF Asked(r) = {} THEN "unsatisfiable" ELSE "played",
                                   !.given = Asked(r), !.wanted = Asked(r)]
        /\ UNCHANGED <<vars, side>>

\* No credential, an expired one, or no answer of Drive: the recording is said
\* to be missing.
RelayFails ==
  /\ AtStep("drive") /\ faults < MaxFaults /\ faults' = faults + 1
  /\ req' = [req EXCEPT !.at = "missing", !.owed = FALSE]
  /\ UNCHANGED <<post, kept, row, files, inflight, run, del, wipe, side>>

Ended == {"missing", "failed", "unsatisfiable", "played", "broken"}

Close ==
  /\ side = "play" /\ req.at \in Ended /\ req' = None
  /\ UNCHANGED <<vars, side>>

-----------------------------------------------------------------------------
\* What a request under way has lived through.
Witness ==
  req' = IF req.at \in Ended \cup {"none"} THEN req
         ELSE [req EXCEPT !.owed = @ /\ row'.recorded /\ del' = "none", !.moved = @ \/ (kept /\ ~kept')]

Play ==
  \/ \E header, query \in Tokens, mustChange \in BOOLEAN : Ask(header, query, mustChange)
  \/ ReadRow \/ FindFile \/ Answer \/ Body \/ FindOnDrive \/ Relay \/ RelayFails \/ Close

PlayNext ==
  \/ side = "sync" /\ Next /\ UNCHANGED player
  \/ side = "play" /\ Unmailed /\ Witness /\ UNCHANGED side
  \/ side = "play" /\ Restart /\ req' = None /\ UNCHANGED side
  \/ Play

PlaySpec == PlayInit /\ [][PlayNext]_<<vars, player>>

-----------------------------------------------------------------------------
\* The recording plays on while it moves to Drive: as long as nobody asked for
\* its deletion and no call of Drive failed it, a request is answered with the
\* bytes it asks for, out of the file or out of Drive, also between failed
\* syncs and restarts; only one that the removal of the file falls into may
\* find it nowhere or be broken off.
PlaysWhileItMoves ==
  /\ req.at \in {"missing", "failed", "broken"} => ~req.owed \/ req.moved
  /\ req.at \in {"played", "unsatisfiable"} => req.given = req.wanted
=============================================================================
