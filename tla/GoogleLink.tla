------------------------------ MODULE GoogleLink ------------------------------
(***************************************************************************)
(* One user's connection with Google (web/google_oauth.py, web/auth.py,    *)
(* web/google_calendar.py, web/app.py): the row with the refresh token and *)
(* its mark "reconnect", the OAuth client the administrator sets, the key  *)
(* that seals both at rest, and the calendar event of one meeting.         *)
(*                                                                         *)
(* A handler asks Google between two holds of the lock of UserStore, so    *)
(* its answer may belong to a token that is no longer the stored one.      *)
(* google_verify and the calls of the calendar write what they are told    *)
(* into the mark; Drive sync, mail, the player and the deletion of Drive   *)
(* files ask with the same token and write nothing of it.                  *)
(* Google itself - its tokens, its accounts, its calendars - is modelled   *)
(* from how the code calls it.                                             *)
(***************************************************************************)
EXTENDS Naturals, Sequences, FiniteSets, TLC

CONSTANTS
  Requests,   \* handlers that may run at the same time
  Accounts,   \* Google accounts of the user
  Keys,       \* values of CRED_ENC_KEY
  MaxTokens,  \* bound on the refresh tokens Google gives
  MaxEvents,  \* bound on the events made
  Nil

ASSUME BoundsAssumption == MaxTokens \in Nat /\ MaxEvents \in Nat

\* key is the one the token is sealed under.
Row == [tok : 1..MaxTokens, key : Keys, marked : BOOLEAN]

\* over is a history field: another handler has been under way meanwhile.
Handlers ==
  [op : {"callback", "verify", "sync", "disconnect"},
   at : {"exchange", "store", "read", "ask", "mark", "clear", "delete", "upsert", "save"},
   tok : 0..MaxTokens, ref : 0..MaxEvents, over : BOOLEAN]

ASSUME NilAssumption == Nil \notin Row \cup Handlers \cup Keys

VARIABLES
  key,       \* CRED_ENC_KEY of the running server
  client,    \* the row of app_oauth_config: the key its secret is sealed under
  row,       \* the row of google_credentials
  gref,      \* the event id in gcalRef of the meeting, 0 for none
  req,       \* the handlers
  owner,     \* Google: the account of every token given
  event,     \* Google: the account of every event made
  there,     \* Google: the events that are still there
  said,      \* history: Google's last answer about the stored token, to anyone
  noted,     \* history: its last answer to google_verify or the calendar
  mixed,     \* history: the mark was last written by a handler that was not alone,
             \* or an answer was lost
  crossed    \* history: two syncs overlapped, a call of the calendar was lost or
             \* refused, or the user changed accounts

tables == <<client, row, gref>>
google == <<owner, event, there>>
history == <<said, noted, mixed, crossed>>
vars == <<key, tables, req, google, history>>

Init ==
  /\ key \in Keys /\ client = Nil /\ row = Nil /\ gref = 0
  /\ req = [r \in Requests |-> Nil]
  /\ owner = <<>> /\ event = <<>> /\ there = {}
  /\ said = "nothing" /\ noted = "nothing" /\ mixed = FALSE /\ crossed = FALSE

Syncing(r) == req[r] # Nil /\ req[r].op = "sync"
Answered(r) == req[r] # Nil /\ req[r].at \in {"mark", "clear"}

\* The server stops and starts again, perhaps with another key.
Restart(k) ==
  /\ key' = k
  /\ req' = [r \in Requests |-> Nil]
  /\ mixed' = (mixed \/ \E r \in Requests : Answered(r))
  /\ crossed' = (crossed \/ \E r \in Requests : Syncing(r))
  /\ UNCHANGED <<tables, google, said, noted>>

\* The administrator stores an OAuth client, or removes it.
PutClient ==
  /\ client' = key
  /\ UNCHANGED <<key, row, gref, req, google, history>>

ClearClient ==
  /\ client' = Nil
  /\ UNCHANGED <<key, row, gref, req, google, history>>

\* get_google_oauth_config gives "" for a secret it cannot read.
SecretRead == client = key

\* The id and the secret are looked up one by one: a stored secret that cannot be
\* read is replaced by the one of the environment, next to the stored id.
ClientFits == client = Nil \/ SecretRead

-----------------------------------------------------------------------------
\* Handlers.
Begin(r, op, at, tok, ref) ==
  /\ req[r] = Nil
  /\ LET busy == {s \in Requests : req[s] # Nil} IN
       req' = [s \in Requests |->
                 IF s = r THEN [op |-> op, at |-> at, tok |-> tok, ref |-> ref, over |-> busy # {}]
                 ELSE IF s \in busy THEN [req[s] EXCEPT !.over = TRUE] ELSE Nil]

At(r, at) == req[r] # Nil /\ req[r].at = at
Go(r, at) == req' = [req EXCEPT ![r].at = at]
End(r) == req' = [req EXCEPT ![r] = Nil]

\* google_callback: its state, signed by google_connect, is checked and not
\* stored, so a callback may come at any time.
Callback(r) ==
  /\ Begin(r, "callback", "exchange", 0, 0)
  /\ UNCHANGED <<key, tables, google, history>>

\* exchange_code.
Exchange(r) ==
  /\ At(r, "exchange")
  /\ \/ /\ ClientFits /\ Len(owner) < MaxTokens
        /\ \E a \in Accounts : owner' = Append(owner, a)
        /\ req' = [req EXCEPT ![r].at = "store", ![r].tok = Len(owner) + 1]
     \/ End(r) /\ UNCHANGED owner
  /\ UNCHANGED <<key, tables, event, there, history>>

\* Mutant: a reconnection leaves the mark.
StoredMarked(t) ==
  [tok |-> t, key |-> key, marked |-> row # Nil /\ row.marked]

\* set_google_credential takes the mark away.
Stored(t) == [tok |-> t, key |-> key, marked |-> FALSE]

Store(r) ==
  /\ At(r, "store")
  /\ row' = Stored(req[r].tok)
  /\ said' = "nothing" /\ noted' = "nothing" /\ mixed' = FALSE
  /\ crossed' = (crossed \/ (gref # 0 /\ event[gref] # owner[req[r].tok])
                         \/ \E s \in Requests : Syncing(s))
  /\ End(r)
  /\ UNCHANGED <<key, client, gref, google>>

\* get_google_credential: a token that cannot be read is none.
Credential == IF row # Nil /\ row.key = key THEN row.tok ELSE 0

\* google_verify; the list of events of the calendar starts the same way.
Verify(r) ==
  /\ Begin(r, "verify", "read", 0, 0)
  /\ UNCHANGED <<key, tables, google, history>>

\* calendar_sync has read its meeting.
Sync(r) ==
  /\ Begin(r, "sync", "read", 0, gref)
  /\ crossed' = (crossed \/ \E s \in Requests : Syncing(s))
  /\ UNCHANGED <<key, tables, google, said, noted, mixed>>

ReadCredential(r) ==
  /\ At(r, "read")
  /\ req' = IF Credential = 0 THEN [req EXCEPT ![r] = Nil]
            ELSE [req EXCEPT ![r].at = "ask", ![r].tok = Credential]
  /\ UNCHANGED <<key, tables, google, history>>

\* _refresh_creds: tokens die, and are refused to a client that is not theirs.
\* Every RefreshError counts as a refusal.
Answers == {"bad"} \cup {x \in {"good"} : ClientFits}

\* Other errors end the handler.
Refresh(r) ==
  /\ At(r, "ask")
  /\ \/ \E answer \in Answers :
          /\ Go(r, IF answer = "good" THEN "clear" ELSE "mark")
          /\ IF row # Nil /\ row.tok = req[r].tok THEN said' = answer /\ noted' = answer
             ELSE UNCHANGED <<said, noted>>
     \/ End(r) /\ UNCHANGED <<said, noted>>
  /\ UNCHANGED <<key, tables, google, mixed, crossed>>

\* Drive sync, mail, the player and the deletion of Drive files ask Google about
\* the stored token too and write neither mark: what they do is one step here, and
\* an answer about a token that was replaced meanwhile leaves no trace.
Use ==
  /\ Credential # 0
  /\ said' \in Answers
  /\ UNCHANGED <<key, tables, req, google, noted, mixed, crossed>>

\* mark_google_credential_invalid.
Mark(r) ==
  /\ At(r, "mark")
  /\ row' = IF row = Nil THEN Nil ELSE [row EXCEPT !.marked = TRUE]
  /\ mixed' = req[r].over
  /\ End(r)
  /\ UNCHANGED <<key, client, gref, google, said, noted, crossed>>

\* clear_google_credential_invalid; a sync goes on to the calendar.
Clear(r) ==
  /\ At(r, "clear")
  /\ row' = IF row = Nil THEN Nil ELSE [row EXCEPT !.marked = FALSE]
  /\ mixed' = req[r].over
  /\ IF req[r].op = "sync" THEN Go(r, "upsert") ELSE End(r)
  /\ UNCHANGED <<key, client, gref, google, said, noted, crossed>>

\* google_disconnect: the token it read is revoked, or not, and the row that is
\* there then is deleted.
Disconnect(r) ==
  /\ Begin(r, "disconnect", "delete", Credential, 0)
  /\ UNCHANGED <<key, tables, google, history>>

Forget(r) ==
  /\ At(r, "delete")
  /\ row' = Nil
  /\ said' = "nothing" /\ noted' = "nothing" /\ mixed' = FALSE
  /\ End(r)
  /\ UNCHANGED <<key, client, gref, google, crossed>>

-----------------------------------------------------------------------------
\* The calendar: upsert_event, then gcalRef.

\* The calendar of the account finds the event.
Finds(r) ==
  req[r].ref # 0 /\ req[r].ref \in there /\ event[req[r].ref] = owner[req[r].tok]

Update(r) ==
  /\ At(r, "upsert") /\ Finds(r)
  /\ Go(r, "save")
  /\ UNCHANGED <<key, tables, google, history>>

\* Events are inserted when there is none, when it is gone, and after a 403.
Insert(r) ==
  /\ At(r, "upsert") /\ ~Finds(r) /\ Len(event) < MaxEvents
  /\ event' = Append(event, owner[req[r].tok])
  /\ there' = there \cup {Len(event) + 1}
  /\ req' = [req EXCEPT ![r].at = "save", ![r].ref = Len(event) + 1]
  /\ UNCHANGED <<key, tables, owner, history>>

\* The calendar answers 403 although the event is there, and it is made again.
Forbidden(r) ==
  /\ At(r, "upsert") /\ Finds(r) /\ Len(event) < MaxEvents
  /\ event' = Append(event, owner[req[r].tok])
  /\ there' = there \cup {Len(event) + 1}
  /\ req' = [req EXCEPT ![r].at = "save", ![r].ref = Len(event) + 1]
  /\ crossed' = TRUE
  /\ UNCHANGED <<key, tables, owner, said, noted, mixed>>

\* The call fails, perhaps after the event has been made.
UpsertFails(r) ==
  /\ At(r, "upsert")
  /\ \/ UNCHANGED <<event, there, crossed>>
     \/ /\ ~Finds(r) /\ Len(event) < MaxEvents
        /\ event' = Append(event, owner[req[r].tok])
        /\ there' = there \cup {Len(event) + 1}
        /\ crossed' = TRUE
  /\ End(r)
  /\ UNCHANGED <<key, tables, owner, said, noted, mixed>>

\* Mutant: the id of the event is written only the first time.
SavedOnce(r) == IF gref = 0 THEN req[r].ref ELSE gref

Saved(r) == req[r].ref

Save(r) ==
  /\ At(r, "save")
  /\ gref' = Saved(r)
  /\ End(r)
  /\ UNCHANGED <<key, client, row, google, history>>

-----------------------------------------------------------------------------
\* The user removes an event.
EventRemoved(e) ==
  /\ e \in there /\ there' = there \ {e}
  /\ UNCHANGED <<key, tables, req, owner, event, history>>

Step(r) ==
  \/ Exchange(r) \/ Store(r) \/ ReadCredential(r) \/ Refresh(r) \/ Mark(r) \/ Clear(r) \/ Forget(r)
  \/ Update(r) \/ Insert(r) \/ Forbidden(r) \/ UpsertFails(r) \/ Save(r)

Next ==
  \/ \E k \in Keys : Restart(k)
  \/ PutClient \/ ClearClient \/ Use
  \/ \E r \in Requests :
       Step(r) \/ Callback(r) \/ Verify(r) \/ Sync(r) \/ Disconnect(r)
  \/ \E e \in 1..MaxEvents : EventRemoved(e)

Spec == Init /\ [][Next]_vars

RequestSymmetry == Permutations(Requests) \cup Permutations(Accounts) \cup Permutations(Keys)

-----------------------------------------------------------------------------
TypeOK ==
  /\ key \in Keys /\ client \in Keys \cup {Nil}
  /\ row \in Row \cup {Nil} /\ (row # Nil => row.tok <= Len(owner))
  /\ req \in [Requests -> Handlers \cup {Nil}]
  /\ gref \in 0..Len(event)
  /\ owner \in Seq(Accounts) /\ Len(owner) \in 0..MaxTokens
  /\ event \in Seq(Accounts) /\ Len(event) \in 0..MaxEvents
  /\ there \subseteq 1..Len(event)
  /\ {said, noted} \subseteq {"nothing", "good", "bad"}
  /\ mixed \in BOOLEAN /\ crossed \in BOOLEAN

\* google_status: what the settings page shows.
NeedsReconnect == Credential # 0 /\ row.marked

\* The mark is at rest: it was last written by a handler that was alone, and no
\* answer is on its way to it.
Settled == Credential # 0 /\ ~mixed /\ \A r \in Requests : ~Answered(r)

\* The settings page shows what Google has last answered google_verify or a call of
\* the calendar about the stored token, when the handler that wrote the mark was
\* alone: over every order of reconnections, disconnections, other keys and other
\* clients.  What Drive sync, mail and the player hear is not in it: see
\* RefusalIsShown.
ShowsLastCheck == Settled => (NeedsReconnect <=> noted = "bad")

\* google_status says that the calls of the calendar, of Drive and of mail and
\* google_verify leave invalid_at where they meet an expired token: so the page asks
\* for a new connection whenever the last answer to any of them was a refusal.
\* It does not hold: only the calendar and google_verify do.
RefusalIsShown == Settled /\ said = "bad" => NeedsReconnect

\* A meeting that is synced again and again has one event, unless two syncs
\* overlapped, the calendar lost or refused a call, or the accounts changed.
OneEventPerMeeting ==
  ~crossed => Cardinality(there) <= 1
=============================================================================
