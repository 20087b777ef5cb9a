--------------------------- MODULE CredentialProofs ---------------------------
(***************************************************************************)
(* Theorems about the credentials kept for users.                          *)
(*                                                                         *)
(* GoogleLink, for any number of handlers, tokens, events and keys: the    *)
(* settings page shows Google's last answer, and a meeting has one event   *)
(* in the calendar.  CredHealth, for any users and keys: restarts with     *)
(* other keys leave every claude secret readable, and what is cached of a  *)
(* credential stays right while the credential is left alone.              *)
(***************************************************************************)
EXTENDS GoogleLink, CredHealth, FiniteSetTheorems, TLAPS

-----------------------------------------------------------------------------
(***************************************************************************)
(* The types, and what a handler holds at each of its steps.               *)
(***************************************************************************)

\* The steps of a handler that has read the token.
Asking == {"ask", "mark", "clear", "upsert", "save"}

\* What a handler holds at each of its steps, with so many tokens and events.
Fits(h, tokens, events) ==
  /\ h \in Handlers
  /\ h.at \in {"exchange", "store"} => h.op = "callback"
  /\ h.at \in {"read", "ask", "mark", "clear"} => h.op \in {"verify", "sync"}
  /\ h.at = "delete" => h.op = "disconnect"
  /\ h.at \in {"upsert", "save"} => h.op = "sync"
  /\ h.at \in Asking \cup {"store"} => h.tok \in 1..tokens
  /\ h.ref \in 0..events
  /\ h.at = "save" => h.ref # 0

HandlersFit == \A r \in Requests : req[r] = Nil \/ Fits(req[r], Len(owner), Len(event))

TypeInv == TypeOK /\ HandlersFit

\* The step of handler r leaves it with h, or ends it.
Moves(r, h) == req' = [req EXCEPT ![r] = h]

\* Tokens and events are only added.
Grows == /\ Len(owner) \in Nat /\ Len(owner') \in Nat /\ Len(event) \in Nat /\ Len(event') \in Nat
         /\ Len(owner) <= Len(owner') /\ Len(event) <= Len(event')

LEMMA NilIsNone == Nil \notin Row /\ Nil \notin Handlers /\ Nil \notin Keys
  BY NilAssumption

LEMMA HandlerFields ==
  ASSUME NEW h \in Handlers
  PROVE  /\ h.op \in {"callback", "verify", "sync", "disconnect"}
         /\ h.at \in {"exchange", "store", "read", "ask", "mark", "clear", "delete", "upsert", "save"}
         /\ h.tok \in 0..MaxTokens /\ h.ref \in 0..MaxEvents /\ h.over \in BOOLEAN /\ h # Nil
  BY NilIsNone DEF Handlers

LEMMA RowFields ==
  ASSUME NEW x \in Row
  PROVE  x.tok \in 1..MaxTokens /\ x.key \in Keys /\ x.marked \in BOOLEAN /\ x # Nil
  BY NilIsNone DEF Row

LEMMA Appended ==
  ASSUME NEW s \in Seq(Accounts), NEW a \in Accounts
  PROVE  /\ Append(s, a) \in Seq(Accounts) /\ Len(Append(s, a)) = Len(s) + 1 /\ Len(s) \in Nat
         /\ \A i \in 1..Len(s) : Append(s, a)[i] = s[i]
         /\ Append(s, a)[Len(s) + 1] = a
  OBVIOUS

\* A new event has the next number.
LEMMA OneMore ==
  ASSUME NEW n \in Nat, NEW S, S \subseteq 1..n
  PROVE  S \cup {n + 1} \subseteq 1..(n + 1)
  OBVIOUS

\* A handler that goes on holds what its step needs.
LEMMA MovedHandler ==
  ASSUME TypeInv, Grows, NEW r \in Requests, NEW h, Moves(r, h),
         h = Nil \/ Fits(h, Len(owner'), Len(event'))
  PROVE  req' \in [Requests -> Handlers \cup {Nil}] /\ HandlersFit'
<1>1. /\ req \in [Requests -> Handlers \cup {Nil}]
      /\ \A s \in Requests : req[s] = Nil \/ Fits(req[s], Len(owner), Len(event))
  BY DEF TypeInv, TypeOK, HandlersFit
<1>2. h \in Handlers \cup {Nil}
  BY DEF Fits
<1>3. /\ req' \in [Requests -> Handlers \cup {Nil}] /\ req'[r] = h
      /\ \A s \in Requests : s # r => req'[s] = req[s]
  BY <1>1, <1>2 DEF Moves
<1>4. ASSUME NEW x, Fits(x, Len(owner), Len(event))
      PROVE  Fits(x, Len(owner'), Len(event'))
  BY <1>4 DEF Fits, Grows
<1> QED BY <1>1, <1>3, <1>4 DEF HandlersFit

\* So does one that begins.
LEMMA BegunHandler ==
  ASSUME TypeInv, NEW r \in Requests,
         NEW op \in {"callback", "verify", "sync", "disconnect"},
         NEW at \in {"exchange", "read", "delete"},
         NEW tok \in 0..MaxTokens, NEW ref \in 0..Len(event),
         at = "exchange" => op = "callback", at = "read" => op \in {"verify", "sync"},
         at = "delete" => op = "disconnect",
         Begin(r, op, at, tok, ref), owner' = owner, event' = event
  PROVE  req' \in [Requests -> Handlers \cup {Nil}] /\ HandlersFit'
<1> DEFINE h == [op |-> op, at |-> at, tok |-> tok, ref |-> ref,
                 over |-> {s \in Requests : req[s] # Nil} # {}]
           moved(s) == IF s = r THEN h ELSE IF req[s] # Nil THEN [req[s] EXCEPT !.over = TRUE] ELSE Nil
<1>1. /\ req \in [Requests -> Handlers \cup {Nil}] /\ Len(event) \in 0..MaxEvents
      /\ \A s \in Requests : req[s] = Nil \/ Fits(req[s], Len(owner), Len(event))
  BY DEF TypeInv, TypeOK, HandlersFit
<1>2. req' = [s \in Requests |-> moved(s)]
  BY DEF Begin
<1>3. h \in Handlers /\ Fits(h, Len(owner), Len(event))
  <2>1. ref \in 0..MaxEvents
    BY <1>1, BoundsAssumption
  <2>2. h \in Handlers
    BY <2>1 DEF Handlers
  <2> QED BY <2>2 DEF Fits, Asking
<1>4. ASSUME NEW s \in Requests, req[s] # Nil
      PROVE  Fits([req[s] EXCEPT !.over = TRUE], Len(owner), Len(event))
  BY <1>1, <1>4 DEF Fits, Handlers
<1>5. \A s \in Requests : moved(s) = Nil \/ Fits(moved(s), Len(owner), Len(event))
  BY <1>3, <1>4
<1>6. \A s \in Requests : moved(s) \in Handlers \cup {Nil}
  BY <1>5 DEF Fits
<1> QED BY <1>2, <1>5, <1>6 DEF HandlersFit

LEMMA TypeInit == Init => TypeInv
<1> SUFFICES ASSUME Init PROVE TypeInv
  OBVIOUS
<1>1. Len(owner) = 0 /\ Len(event) = 0 /\ owner \in Seq(Accounts) /\ event \in Seq(Accounts)
  BY DEF Init
<1>2. req \in [Requests -> Handlers \cup {Nil}] /\ HandlersFit
  BY DEF Init, HandlersFit
<1>3. row = Nil /\ gref \in 0..Len(event) /\ there \subseteq 1..Len(event)
  BY <1>1 DEF Init
<1>4. Len(owner) \in 0..MaxTokens /\ Len(event) \in 0..MaxEvents
  BY <1>1, BoundsAssumption
<1>5. /\ key \in Keys /\ client \in Keys \cup {Nil} /\ {said, noted} \subseteq {"nothing", "good", "bad"}
      /\ mixed \in BOOLEAN /\ crossed \in BOOLEAN
  BY DEF Init
<1> QED BY <1>1, <1>2, <1>3, <1>4, <1>5 DEF TypeInv, TypeOK

LEMMA TypeNext == TypeInv /\ [Next]_vars => TypeInv'
<1> SUFFICES ASSUME TypeInv, [Next]_vars
             PROVE  TypeInv'
  OBVIOUS
<1>0. /\ key \in Keys /\ client \in Keys \cup {Nil}
      /\ row \in Row \cup {Nil} /\ (row # Nil => row.tok <= Len(owner))
      /\ req \in [Requests -> Handlers \cup {Nil}]
      /\ gref \in 0..Len(event)
      /\ owner \in Seq(Accounts) /\ Len(owner) \in 0..MaxTokens
      /\ event \in Seq(Accounts) /\ Len(event) \in 0..MaxEvents
      /\ there \subseteq 1..Len(event)
      /\ {said, noted} \subseteq {"nothing", "good", "bad"} /\ mixed \in BOOLEAN /\ crossed \in BOOLEAN
      /\ \A r \in Requests : req[r] = Nil \/ Fits(req[r], Len(owner), Len(event))
  BY DEF TypeInv, TypeOK, HandlersFit
<1>c. Credential \in 0..Len(owner) /\ Credential \in 0..MaxTokens
  BY <1>0, RowFields, BoundsAssumption DEF Credential
<1> USE BoundsAssumption
<1>1. ASSUME NEW k \in Keys, Restart(k) PROVE TypeInv'
  BY <1>0, <1>1 DEF Restart, TypeInv, TypeOK, HandlersFit, tables, google
<1>2. CASE PutClient \/ ClearClient \/ Use
  BY <1>0, <1>2 DEF PutClient, ClearClient, Use, Answers, TypeInv, TypeOK, HandlersFit,
     tables, google, history
<1>3. ASSUME NEW e \in 1..MaxEvents, EventRemoved(e) PROVE TypeInv'
  BY <1>0, <1>3 DEF EventRemoved, TypeInv, TypeOK, HandlersFit, tables, history
<1>4. ASSUME NEW r \in Requests, Callback(r) \/ Verify(r) \/ Sync(r) \/ Disconnect(r)
      PROVE  TypeInv'
  <2>1. /\ UNCHANGED <<key, tables, google, said, noted, mixed>> /\ crossed' \in BOOLEAN
    BY <1>0, <1>4 DEF Callback, Verify, Sync, Disconnect, history
  <2>2. req' \in [Requests -> Handlers \cup {Nil}] /\ HandlersFit'
    <3>1. CASE Callback(r)
      BY <1>0, <2>1, <3>1, BegunHandler DEF Callback, google
    <3>2. CASE Verify(r)
      BY <1>0, <2>1, <3>2, BegunHandler DEF Verify, google
    <3>3. CASE Sync(r)
      BY <1>0, <2>1, <3>3, BegunHandler DEF Sync, google
    <3>4. CASE Disconnect(r)
      BY <1>0, <1>c, <2>1, <3>4, BegunHandler DEF Disconnect, google
    <3> QED BY <1>4, <3>1, <3>2, <3>3, <3>4
  <2> QED BY <1>0, <2>1, <2>2 DEF TypeInv, TypeOK, tables, google
<1>5. ASSUME NEW r \in Requests, Step(r) PROVE TypeInv'
  <2> DEFINE h == req[r]
  <2>a. ASSUME NEW at, At(r, at)
        PROVE  h \in Handlers /\ Fits(h, Len(owner), Len(event)) /\ h.at = at
    BY <1>0, <2>a DEF At, Fits
  <2>b. ASSUME owner' = owner, event' = event
        PROVE  Grows
    BY <1>0, <2>b DEF Grows
  <2>1. CASE Exchange(r)
    <3>1. /\ h \in Handlers /\ Fits(h, Len(owner), Len(event)) /\ h.at = "exchange"
      BY <2>1, <2>a DEF Exchange
    <3>2. CASE End(r) /\ UNCHANGED owner
      <4>1. Moves(r, Nil) /\ Grows
        BY <1>0, <2>1, <3>2, <2>b DEF Exchange, End, Moves
      <4> QED BY <1>0, <2>1, <3>2, <4>1, MovedHandler DEF Exchange, TypeInv, TypeOK, tables, history
    <3>3. CASE /\ Len(owner) < MaxTokens
               /\ \E a \in Accounts : owner' = Append(owner, a)
               /\ req' = [req EXCEPT ![r].at = "store", ![r].tok = Len(owner) + 1]
      <4>1. owner' \in Seq(Accounts) /\ Len(owner') = Len(owner) + 1
        BY <1>0, <3>3, Appended
      <4>2. Grows
        BY <1>0, <2>1, <4>1 DEF Exchange, Grows
      <4> DEFINE g == [h EXCEPT !.at = "store", !.tok = Len(owner) + 1]
      <4>3. Moves(r, g)
        BY <1>0, <3>3 DEF Moves
      <4>4. Fits(g, Len(owner'), Len(event'))
        <5>1. g \in Handlers
          <6>1. Len(owner) + 1 \in 0..MaxTokens
            BY <1>0, <3>3
          <6> QED BY <3>1, <6>1 DEF Handlers
        <5>2. g.at = "store" /\ g.op = h.op /\ g.tok = Len(owner) + 1 /\ g.ref = h.ref
          BY <3>1 DEF Handlers
        <5> QED BY <1>0, <2>1, <3>1, <4>1, <5>1, <5>2 DEF Exchange, Fits, Asking
      <4>5. req' \in [Requests -> Handlers \cup {Nil}] /\ HandlersFit'
        BY <4>2, <4>3, <4>4, MovedHandler
      <4>6. Len(owner') \in 0..MaxTokens
        BY <1>0, <3>3, <4>1
      <4>7. /\ UNCHANGED <<key, client, row, gref, event, there, said, noted, mixed, crossed>>
            /\ row # Nil => row.tok <= Len(owner')
        BY <1>0, <2>1, <4>1, RowFields, Appended DEF Exchange, tables, history
      <4> QED BY <1>0, <4>1, <4>5, <4>6, <4>7 DEF TypeInv, TypeOK
    <3> QED BY <2>1, <3>2, <3>3 DEF Exchange
  <2>2. CASE Store(r)
    <3>1. /\ h \in Handlers /\ Fits(h, Len(owner), Len(event)) /\ h.at = "store"
      BY <2>2, <2>a DEF Store
    <3>2. Moves(r, Nil) /\ Grows
      BY <2>2, <2>b DEF Store, End, Moves, google
    <3>3. Stored(h.tok) \in Row /\ Stored(h.tok).tok <= Len(owner)
      BY <1>0, <3>1 DEF Stored, Row, Fits, Asking
    <3>4. crossed' \in BOOLEAN
      BY <2>2 DEF Store
    <3>5. req' \in [Requests -> Handlers \cup {Nil}] /\ HandlersFit'
      BY <3>2, MovedHandler
    <3> QED BY <1>0, <2>2, <3>3, <3>4, <3>5 DEF Store, TypeInv, TypeOK, google
  <2>3. CASE ReadCredential(r)
    <3>1. /\ h \in Handlers /\ Fits(h, Len(owner), Len(event)) /\ h.at = "read"
      BY <2>3, <2>a DEF ReadCredential
    <3>2. Grows
      BY <2>3, <2>b DEF ReadCredential, google
    <3> DEFINE g == [h EXCEPT !.at = "ask", !.tok = Credential]
    <3>3. Moves(r, Nil) \/ (Moves(r, g) /\ Credential # 0)
      BY <1>0, <2>3 DEF ReadCredential, Moves
    <3>4. Credential # 0 => Fits(g, Len(owner'), Len(event'))
      <4>1. g \in Handlers
        BY <1>c, <3>1 DEF Handlers
      <4>2. g.at = "ask" /\ g.op = h.op /\ g.tok = Credential /\ g.ref = h.ref
        BY <3>1 DEF Handlers
      <4> QED BY <1>0, <1>c, <2>3, <3>1, <4>1, <4>2 DEF ReadCredential, google, Fits, Asking
    <3>5. req' \in [Requests -> Handlers \cup {Nil}] /\ HandlersFit'
      BY <3>2, <3>3, <3>4, MovedHandler
    <3> QED BY <1>0, <2>3, <3>5 DEF ReadCredential, TypeInv, TypeOK, tables, google, history
  <2>4. CASE Refresh(r)
    <3>1. /\ h \in Handlers /\ Fits(h, Len(owner), Len(event)) /\ h.at = "ask"
      BY <2>4, <2>a DEF Refresh
    <3>2. Grows
      BY <2>4, <2>b DEF Refresh, google
    <3> DEFINE g(x) == [h EXCEPT !.at = x]
    <3>3. /\ Moves(r, Nil) \/ Moves(r, g("clear")) \/ Moves(r, g("mark"))
          /\ {said', noted'} \subseteq {"nothing", "good", "bad"}
      BY <1>0, <2>4 DEF Refresh, Answers, Moves, Go, End
    <3>4. ASSUME NEW x \in {"clear", "mark"}
          PROVE  Fits(g(x), Len(owner'), Len(event'))
      <4>1. g(x) \in Handlers
        BY <3>1 DEF Handlers
      <4>2. g(x).at = x /\ g(x).op = h.op /\ g(x).tok = h.tok /\ g(x).ref = h.ref
        BY <3>1 DEF Handlers
      <4> QED BY <1>0, <2>4, <3>1, <4>1, <4>2 DEF Refresh, google, Fits, Asking
    <3>5. req' \in [Requests -> Handlers \cup {Nil}] /\ HandlersFit'
      BY <3>2, <3>3, <3>4, MovedHandler
    <3> QED BY <1>0, <2>4, <3>3, <3>5 DEF Refresh, TypeInv, TypeOK, tables, google
  <2>5. CASE Mark(r) \/ Clear(r)
    <3>1. /\ h \in Handlers /\ Fits(h, Len(owner), Len(event)) /\ h.at \in {"mark", "clear"}
      BY <2>5, <2>a DEF Mark, Clear
    <3>2. Grows
      BY <2>5, <2>b DEF Mark, Clear, google
    <3> DEFINE g == [h EXCEPT !.at = "upsert"]
    <3>3. /\ Moves(r, Nil) \/ (h.op = "sync" /\ Moves(r, g))
          /\ mixed' \in BOOLEAN
      BY <1>0, <2>5, <3>1, HandlerFields DEF Mark, Clear, Moves, Go, End
    <3>4. h.op = "sync" => Fits(g, Len(owner'), Len(event'))
      <4>1. g \in Handlers
        BY <3>1 DEF Handlers
      <4>2. g.at = "upsert" /\ g.op = h.op /\ g.tok = h.tok /\ g.ref = h.ref
        BY <3>1 DEF Handlers
      <4> QED BY <1>0, <2>5, <3>1, <4>1, <4>2 DEF Mark, Clear, google, Fits, Asking
    <3>5. req' \in [Requests -> Handlers \cup {Nil}] /\ HandlersFit'
      BY <3>2, <3>3, <3>4, MovedHandler
    <3>6. row' \in Row \cup {Nil} /\ (row' # Nil => row # Nil /\ row'.tok = row.tok)
      BY <1>0, <2>5 DEF Mark, Clear, Row
    <3> QED BY <1>0, <2>5, <3>3, <3>5, <3>6 DEF Mark, Clear, TypeInv, TypeOK, google
  <2>6. CASE Forget(r)
    <3>1. Moves(r, Nil) /\ Grows
      BY <2>6, <2>b DEF Forget, Moves, End, google
    <3>2. req' \in [Requests -> Handlers \cup {Nil}] /\ HandlersFit'
      BY <3>1, MovedHandler
    <3> QED BY <1>0, <2>6, <3>2 DEF Forget, TypeInv, TypeOK, google
  <2>7. CASE Update(r)
    <3>1. /\ h \in Handlers /\ Fits(h, Len(owner), Len(event)) /\ h.at = "upsert" /\ h.ref # 0
      BY <2>7, <2>a DEF Update, Finds
    <3>2. Grows
      BY <2>7, <2>b DEF Update, google
    <3> DEFINE g == [h EXCEPT !.at = "save"]
    <3>3. Moves(r, g)
      BY <1>0, <2>7 DEF Update, Moves, Go
    <3>4. Fits(g, Len(owner'), Len(event'))
      <4>1. g \in Handlers
        BY <3>1 DEF Handlers
      <4>2. g.at = "save" /\ g.op = h.op /\ g.tok = h.tok /\ g.ref = h.ref
        BY <3>1 DEF Handlers
      <4> QED BY <1>0, <2>7, <3>1, <4>1, <4>2 DEF Update, google, Fits, Asking
    <3>5. req' \in [Requests -> Handlers \cup {Nil}] /\ HandlersFit'
      BY <3>2, <3>3, <3>4, MovedHandler
    <3> QED BY <1>0, <2>7, <3>5 DEF Update, TypeInv, TypeOK, tables, google, history
  <2>8. CASE Insert(r) \/ Forbidden(r)
    <3>1. /\ h \in Handlers /\ Fits(h, Len(owner), Len(event)) /\ h.at = "upsert"
          /\ Len(event) < MaxEvents
      BY <2>8, <2>a DEF Insert, Forbidden
    <3>2. owner[h.tok] \in Accounts
      BY <1>0, <3>1 DEF Fits, Asking
    <3>3. /\ event' \in Seq(Accounts) /\ Len(event') = Len(event) + 1
          /\ there' \subseteq 1..Len(event') /\ owner' = owner /\ crossed' \in BOOLEAN
      <4>1. /\ event' = Append(event, owner[h.tok]) /\ there' = there \cup {Len(event) + 1}
            /\ owner' = owner /\ crossed' \in BOOLEAN
        BY <1>0, <2>8 DEF Insert, Forbidden, history
      <4>2. /\ Append(event, owner[h.tok]) \in Seq(Accounts)
            /\ Len(Append(event, owner[h.tok])) = Len(event) + 1
        BY <1>0, <3>2, Appended
      <4>3. there \cup {Len(event) + 1} \subseteq 1..(Len(event) + 1)
        <5>1. Len(event) \in Nat /\ there \subseteq 1..Len(event)
          BY <1>0
        <5> QED BY <5>1, OneMore
      <4> QED BY <4>1, <4>2, <4>3
    <3>4. Grows
      BY <1>0, <3>3 DEF Grows
    <3> DEFINE g == [h EXCEPT !.at = "save", !.ref = Len(event) + 1]
    <3>5. Moves(r, g)
      BY <1>0, <2>8 DEF Insert, Forbidden, Moves
    <3>6. Fits(g, Len(owner'), Len(event'))
      <4>1. g \in Handlers
        <5>1. Len(event) + 1 \in 0..MaxEvents
          BY <1>0, <3>1
        <5> QED BY <3>1, <5>1 DEF Handlers
      <4>2. g.at = "save" /\ g.op = h.op /\ g.tok = h.tok /\ g.ref = Len(event) + 1
        BY <3>1 DEF Handlers
      <4> QED BY <1>0, <3>1, <3>3, <4>1, <4>2 DEF Fits, Asking
    <3>7. req' \in [Requests -> Handlers \cup {Nil}] /\ HandlersFit'
      BY <3>4, <3>5, <3>6, MovedHandler
    <3> QED BY <1>0, <2>8, <3>1, <3>3, <3>7 DEF Insert, Forbidden, TypeInv, TypeOK, tables, history
  <2>9. CASE UpsertFails(r)
    <3>1. /\ h \in Handlers /\ Fits(h, Len(owner), Len(event)) /\ h.at = "upsert"
      BY <2>9, <2>a DEF UpsertFails
    <3>2. owner[h.tok] \in Accounts
      BY <1>0, <3>1 DEF Fits, Asking
    <3>3. /\ event' \in Seq(Accounts) /\ Len(event') \in Len(event)..MaxEvents
          /\ there' \subseteq 1..Len(event') /\ owner' = owner /\ crossed' \in BOOLEAN
      <4>1. CASE UNCHANGED <<event, there, crossed>>
        BY <1>0, <2>9, <4>1 DEF UpsertFails
      <4>2. CASE /\ Len(event) < MaxEvents /\ event' = Append(event, owner[h.tok])
                 /\ there' = there \cup {Len(event) + 1} /\ crossed' = TRUE
        <5>1. /\ Append(event, owner[h.tok]) \in Seq(Accounts)
              /\ Len(Append(event, owner[h.tok])) = Len(event) + 1
          BY <1>0, <3>2, Appended
        <5>2. there \cup {Len(event) + 1} \subseteq 1..(Len(event) + 1)
          <6>1. Len(event) \in Nat /\ there \subseteq 1..Len(event)
            BY <1>0
          <6> QED BY <6>1, OneMore
        <5>3. Len(event) + 1 \in Len(event)..MaxEvents
          BY <1>0, <4>2
        <5>4. owner' = owner
          BY <2>9 DEF UpsertFails
        <5> QED BY <4>2, <5>1, <5>2, <5>3, <5>4
      <4> QED BY <2>9, <4>1, <4>2 DEF UpsertFails
    <3>4. Moves(r, Nil) /\ Grows
      BY <1>0, <2>9, <3>3 DEF UpsertFails, Moves, End, Grows
    <3>5. req' \in [Requests -> Handlers \cup {Nil}] /\ HandlersFit'
      BY <3>4, MovedHandler
    <3> QED BY <1>0, <2>9, <3>3, <3>5 DEF UpsertFails, TypeInv, TypeOK, tables
  <2>10. CASE Save(r)
    <3>1. /\ h \in Handlers /\ Fits(h, Len(owner), Len(event))
      BY <2>10, <2>a DEF Save
    <3>2. Moves(r, Nil) /\ Grows
      BY <2>10, <2>b DEF Save, Moves, End, google
    <3>3. req' \in [Requests -> Handlers \cup {Nil}] /\ HandlersFit'
      BY <3>2, MovedHandler
    <3> QED BY <1>0, <2>10, <3>1, <3>3 DEF Save, Saved, Fits, TypeInv, TypeOK, google, history
  <2> QED BY <1>5, <2>1, <2>2, <2>3, <2>4, <2>5, <2>6, <2>7, <2>8, <2>9, <2>10 DEF Step
<1>6. CASE UNCHANGED vars
  BY <1>0, <1>6 DEF vars, TypeInv, TypeOK, HandlersFit, tables, google, history
<1> QED BY <1>1, <1>2, <1>3, <1>4, <1>5, <1>6 DEF Next

LEMMA TypeInvHolds == Spec => []TypeInv
<1>1. Init => TypeInv
  BY TypeInit
<1>2. TypeInv /\ [Next]_vars => TypeInv'
  BY TypeNext
<1> QED BY <1>1, <1>2, PTL DEF Spec

\* The tables, the handlers and Google's side keep their types: a handler that asks
\* Google has a token Google gave, and one that writes gcalRef has an event.
THEOREM LinkTypeCorrect == Spec => []TypeOK
<1>1. TypeInv => TypeOK
  BY DEF TypeInv
<1> QED BY <1>1, TypeInvHolds, PTL

-----------------------------------------------------------------------------
(***************************************************************************)
(* What the settings page shows.  A handler that has been alone since it   *)
(* began knows that its token is the stored one, so what it writes is what *)
(* Google has last said about it; a handler that was not alone leaves its  *)
(* trace in mixed.                                                         *)
(***************************************************************************)

\* Of two handlers each knows that it is not alone.
Alone ==
  \A r, s \in Requests : r # s /\ req[r] # Nil /\ req[s] # Nil => req[r].over

\* The token of a handler that is alone is the stored one, and its answer is
\* the last one.
KnowsItsToken ==
  \A r \in Requests : req[r] # Nil /\ ~req[r].over =>
    /\ req[r].at \in {"ask", "mark", "clear"} => row # Nil /\ row.tok = req[r].tok
    /\ req[r].at = "mark" => noted = "bad"
    /\ req[r].at = "clear" => noted = "good"

\* When no answer waits to be written, the mark is the last answer.
MarkIsAnswer ==
  row # Nil /\ ~mixed /\ (\A r \in Requests : ~Answered(r)) => (row.marked <=> noted = "bad")

MarkInv == Alone /\ KnowsItsToken /\ MarkIsAnswer

\* What a step of handler r may leave it with, and the others untouched.
Same(r, h) == h \in Handlers /\ h.over = req[r].over /\ h.op = req[r].op
Continues(r) ==
  /\ \A s \in Requests : s # r => req'[s] = req[s]
  /\ req'[r] = Nil \/ Same(r, req'[r])

\* A step is one of a handler under way, and it stays what it was or ends.
LEMMA Stepped ==
  ASSUME TypeInv, NEW r \in Requests, Step(r)
  PROVE  /\ req[r] \in Handlers /\ req[r] # Nil /\ key' = key
         /\ \A s \in Requests : s # r => req'[s] = req[s]
         /\ \/ req'[r] = Nil
            \/ req'[r] # Nil /\ req'[r].over = req[r].over /\ req'[r].op = req[r].op
<1>0. req \in [Requests -> Handlers \cup {Nil}]
  BY DEF TypeInv, TypeOK
<1>1. req[r] \in Handlers /\ req[r] # Nil /\ key' = key
  BY <1>0 DEF Step, At, Exchange, Store, ReadCredential, Refresh, Mark, Clear, Forget, Update, Insert,
     Forbidden, UpsertFails, Save
<1>2. ASSUME NEW g, Moves(r, g), g = Nil \/ Same(r, g) PROVE Continues(r)
  BY <1>0, <1>2 DEF Moves, Continues
<1>3. ASSUME NEW at \in {"mark", "clear", "upsert", "save"}, Go(r, at) PROVE Continues(r)
  <2>1. Moves(r, [req[r] EXCEPT !.at = at])
    BY <1>3 DEF Go, Moves
  <2>2. Same(r, [req[r] EXCEPT !.at = at])
    BY <1>1 DEF Handlers, Same
  <2> QED BY <1>2, <2>1, <2>2
<1>4. ASSUME End(r) PROVE Continues(r)
  BY <1>2, <1>4 DEF End, Moves
<1>5. ASSUME Store(r) \/ Mark(r) \/ Forget(r) \/ UpsertFails(r) \/ Save(r) PROVE Continues(r)
  <2>1. /\ Store(r) => End(r)
        /\ Mark(r) => End(r)
        /\ Forget(r) => End(r)
        /\ UpsertFails(r) => End(r)
        /\ Save(r) => End(r)
    BY DEF Store, Mark, Forget, UpsertFails, Save
  <2> QED BY <1>4, <1>5, <2>1
<1>6. ASSUME Clear(r) \/ Update(r) \/ Refresh(r) PROVE Continues(r)
  <2>1. /\ Clear(r) => Go(r, "upsert") \/ End(r)
        /\ Update(r) => Go(r, "save")
        /\ Refresh(r) => Go(r, "clear") \/ Go(r, "mark") \/ End(r)
    BY DEF Clear, Update, Refresh
  <2> QED BY <1>3, <1>4, <1>6, <2>1
<1>7. ASSUME Exchange(r) PROVE Continues(r)
  <2> DEFINE g == [req[r] EXCEPT !.at = "store", !.tok = Len(owner) + 1]
  <2>1. End(r) \/ (Len(owner) < MaxTokens /\ Moves(r, g))
    BY <1>7 DEF Exchange, Moves
  <2>2. Len(owner) < MaxTokens => Len(owner) + 1 \in 0..MaxTokens
    BY BoundsAssumption DEF TypeInv, TypeOK
  <2>3. Len(owner) < MaxTokens => Same(r, g)
    BY <1>1, <2>2 DEF Handlers, Same
  <2> HIDE DEF g
  <2> QED BY <1>2, <1>4, <2>1, <2>3
<1>8. ASSUME ReadCredential(r) PROVE Continues(r)
  <2> DEFINE g == [req[r] EXCEPT !.at = "ask", !.tok = Credential]
  <2>1. Moves(r, Nil) \/ Moves(r, g)
    BY <1>8 DEF ReadCredential, Moves
  <2>2. Credential \in 0..MaxTokens
    BY RowFields, BoundsAssumption DEF Credential, TypeInv, TypeOK
  <2>3. Same(r, g)
    BY <1>1, <2>2 DEF Handlers, Same
  <2> HIDE DEF g
  <2> QED BY <1>2, <2>1, <2>3
<1>9. ASSUME Insert(r) \/ Forbidden(r) PROVE Continues(r)
  <2> DEFINE g == [req[r] EXCEPT !.at = "save", !.ref = Len(event) + 1]
  <2>1. Moves(r, g) /\ Len(event) < MaxEvents
    BY <1>9 DEF Insert, Forbidden, Moves
  <2>2. Len(event) + 1 \in 0..MaxEvents
    BY <2>1, BoundsAssumption DEF TypeInv, TypeOK
  <2>3. Same(r, g)
    BY <1>1, <2>2 DEF Handlers, Same
  <2> HIDE DEF g
  <2> QED BY <1>2, <2>1, <2>3
<1>10. Continues(r)
  BY <1>5, <1>6, <1>7, <1>8, <1>9 DEF Step
<1> QED BY <1>1, <1>10, NilIsNone DEF Continues, Same

\* A handler that begins beside others is not alone, and neither are they.
LEMMA Begun ==
  ASSUME TypeInv, NEW r \in Requests, NEW op, NEW at, NEW tok, NEW ref, Begin(r, op, at, tok, ref)
  PROVE  /\ req[r] = Nil /\ req'[r].at = at /\ req'[r].op = op /\ req'[r].ref = ref
         /\ \A s \in Requests : s # r /\ req[s] # Nil =>
              /\ req'[s] # Nil /\ req'[r].over /\ req'[s].over
              /\ req'[s].at = req[s].at /\ req'[s].op = req[s].op
              /\ req'[s].tok = req[s].tok /\ req'[s].ref = req[s].ref
         /\ \A s \in Requests : s # r /\ req[s] = Nil => req'[s] = Nil
<1> DEFINE busy == {q \in Requests : req[q] # Nil}
           others == busy # {}
           first == [op |-> op, at |-> at, tok |-> tok, ref |-> ref, over |-> others]
<1>0. req \in [Requests -> Handlers \cup {Nil}]
  BY DEF TypeInv, TypeOK
<1>1. /\ req[r] = Nil
      /\ req' = [s \in Requests |->
                   IF s = r THEN first ELSE IF s \in busy THEN [req[s] EXCEPT !.over = TRUE] ELSE Nil]
  BY DEF Begin
<1> HIDE DEF first
<1>2. /\ req'[r] = first
      /\ \A s \in Requests : s # r /\ req[s] # Nil => req'[s] = [req[s] EXCEPT !.over = TRUE]
      /\ \A s \in Requests : s # r /\ req[s] = Nil => req'[s] = Nil
  BY <1>1
<1> HIDE DEF others
<1>3. /\ first.at = at /\ first.op = op /\ first.ref = ref /\ first.over = others
  BY DEF first
<1>4. \A s \in Requests : s # r /\ req[s] # Nil => others
  BY DEF others
<1>5. ASSUME NEW s \in Requests, s # r, req[s] # Nil
      PROVE  /\ req'[s] # Nil /\ req'[s].over
             /\ req'[s].at = req[s].at /\ req'[s].op = req[s].op
             /\ req'[s].tok = req[s].tok /\ req'[s].ref = req[s].ref
  <2>1. req'[s] = [req[s] EXCEPT !.over = TRUE] /\ req[s] \in Handlers
    BY <1>0, <1>2, <1>5
  <2>2. req'[s] \in Handlers
    BY <2>1 DEF Handlers
  <2> QED BY <2>1, <2>2, NilIsNone DEF Handlers
<1> QED BY <1>1, <1>2, <1>3, <1>4, <1>5

LEMMA MarkInit == Init => MarkInv
  BY DEF Init, MarkInv, Alone, KnowsItsToken, MarkIsAnswer

LEMMA MarkNext == TypeInv /\ MarkInv /\ [Next]_vars => MarkInv'
<1> SUFFICES ASSUME TypeInv, MarkInv, [Next]_vars
             PROVE  MarkInv'
  OBVIOUS
<1>0. /\ req \in [Requests -> Handlers \cup {Nil}] /\ row \in Row \cup {Nil}
      /\ noted \in {"nothing", "good", "bad"} /\ mixed \in BOOLEAN
      /\ \A r \in Requests : req[r] = Nil \/ Fits(req[r], Len(owner), Len(event))
  BY DEF TypeInv, TypeOK, HandlersFit
<1>i. Alone /\ KnowsItsToken /\ MarkIsAnswer
  BY DEF MarkInv
<1>1. ASSUME NEW k \in Keys, Restart(k) PROVE MarkInv'
  <2>1. /\ \A r \in Requests : req'[r] = Nil
        /\ row' = row /\ noted' = noted
        /\ mixed' = (mixed \/ \E r \in Requests : Answered(r))
    BY <1>1 DEF Restart, tables
  <2>2. MarkIsAnswer'
    BY <1>i, <2>1 DEF MarkIsAnswer
  <2> QED BY <2>1, <2>2 DEF MarkInv, Alone, KnowsItsToken
<1>2. CASE \/ PutClient \/ ClearClient \/ Use \/ \E e \in 1..MaxEvents : EventRemoved(e)
           \/ UNCHANGED vars
  <2>1. req' = req /\ row' = row /\ noted' = noted /\ mixed' = mixed
    BY <1>2 DEF PutClient, ClearClient, Use, EventRemoved, vars, tables, history
  <2> QED BY <1>i, <2>1 DEF MarkInv, Alone, KnowsItsToken, MarkIsAnswer, Answered
<1>3. ASSUME NEW r \in Requests, Callback(r) \/ Verify(r) \/ Sync(r) \/ Disconnect(r)
      PROVE  MarkInv'
  <2>1. row' = row /\ noted' = noted /\ mixed' = mixed
    BY <1>3 DEF Callback, Verify, Sync, Disconnect, tables, history
  <2>2. \E op, at, tok, ref : at \in {"exchange", "read", "delete"} /\ Begin(r, op, at, tok, ref)
    BY <1>3 DEF Callback, Verify, Sync, Disconnect
  <2>3. PICK op, at, tok, ref : at \in {"exchange", "read", "delete"} /\ Begin(r, op, at, tok, ref)
    BY <2>2
  <2>4. /\ req[r] = Nil /\ req'[r].at = at
        /\ \A s \in Requests : s # r /\ req[s] # Nil =>
             req'[s] # Nil /\ req'[r].over /\ req'[s].over /\ req'[s].at = req[s].at
        /\ \A s \in Requests : s # r /\ req[s] = Nil => req'[s] = Nil
    BY <2>3, Begun
  <2>5. Alone'
    BY <2>4 DEF Alone
  <2>6. KnowsItsToken'
    BY <2>3, <2>4 DEF KnowsItsToken
  <2>7. \A s \in Requests : Answered(s) => Answered(s)'
    BY <2>4 DEF Answered
  <2> QED BY <1>i, <2>1, <2>5, <2>6, <2>7 DEF MarkInv, MarkIsAnswer
<1>4. ASSUME NEW r \in Requests, Step(r) PROVE MarkInv'
  <2>1. /\ req[r] \in Handlers /\ req[r] # Nil /\ key' = key
        /\ \A s \in Requests : s # r => req'[s] = req[s]
        /\ \/ req'[r] = Nil
           \/ req'[r] # Nil /\ req'[r].over = req[r].over /\ req'[r].op = req[r].op
    BY <1>4, Stepped
  <2>2. Alone'
    BY <1>i, <2>1 DEF Alone
  <2>3. \A s \in Requests : s # r /\ req'[s] # Nil => req[s].over /\ req[r].over
    BY <1>i, <2>1 DEF Alone
  <2>4. ASSUME req'[r] # Nil /\ ~req[r].over =>
                 /\ req'[r].at \in {"ask", "mark", "clear"} => row' # Nil /\ row'.tok = req'[r].tok
                 /\ req'[r].at = "mark" => noted' = "bad"
                 /\ req'[r].at = "clear" => noted' = "good",
               MarkIsAnswer'
        PROVE  MarkInv'
    BY <2>4, <2>1, <2>2, <2>3 DEF MarkInv, KnowsItsToken
  <2>5. \A s \in Requests : s # r => (Answered(s)' <=> Answered(s))
    BY <2>1 DEF Answered
  <2>6. ASSUME ~Answered(r), row' = row, noted' = noted, mixed' = mixed PROVE MarkIsAnswer'
    BY <1>i, <2>5, <2>6 DEF MarkIsAnswer
  <2>7. CASE Exchange(r) \/ Update(r) \/ Insert(r) \/ Forbidden(r) \/ UpsertFails(r) \/ Save(r)
    <3>1. ~Answered(r) /\ row' = row /\ noted' = noted /\ mixed' = mixed
      BY <2>7 DEF Exchange, Update, Insert, Forbidden, UpsertFails, Save, Answered, At, tables, history
    <3>2. req'[r] = Nil \/ req'[r].at \in {"store", "save"}
      BY <1>0, <2>1, <2>7 DEF Exchange, Update, Insert, Forbidden, UpsertFails, Save, End, Go, Handlers
    <3> QED BY <2>4, <2>6, <3>1, <3>2
  <2>8. CASE ReadCredential(r)
    <3>1. ~Answered(r) /\ row' = row /\ noted' = noted /\ mixed' = mixed
      BY <2>8 DEF ReadCredential, Answered, At, tables, history
    <3>2. \/ req'[r] = Nil
          \/ req'[r].at = "ask" /\ req'[r].tok = Credential /\ Credential # 0
      BY <1>0, <2>1, <2>8 DEF ReadCredential, Handlers
    <3> QED BY <2>4, <2>6, <3>1, <3>2 DEF Credential
  <2>9. CASE Refresh(r)
    <3>1. ~Answered(r) /\ row' = row /\ mixed' = mixed /\ req[r].at = "ask"
      BY <2>9 DEF Refresh, Answered, At, tables
    <3>2. CASE req'[r] = Nil /\ noted' = noted
      BY <2>4, <2>6, <3>1, <3>2
    <3>3. ASSUME NEW answer \in {"good", "bad"},
                 Go(r, IF answer = "good" THEN "clear" ELSE "mark"),
                 noted' = IF row # Nil /\ row.tok = req[r].tok THEN answer ELSE noted
          PROVE  MarkInv'
      <4>1. /\ req'[r].at = (IF answer = "good" THEN "clear" ELSE "mark") /\ req'[r].tok = req[r].tok
            /\ req'[r] # Nil
        <5>1. req'[r] = [req[r] EXCEPT !.at = IF answer = "good" THEN "clear" ELSE "mark"]
          BY <1>0, <3>3 DEF Go
        <5>2. req'[r] \in Handlers
          BY <2>1, <5>1 DEF Handlers
        <5> QED BY <2>1, <5>1, <5>2, NilIsNone DEF Handlers
      <4>2. Answered(r)'
        BY <4>1 DEF Answered
      <4>3. MarkIsAnswer'
        BY <4>2 DEF MarkIsAnswer
      <4>4. ~req[r].over => row # Nil /\ row.tok = req[r].tok
        BY <1>i, <2>1, <3>1 DEF KnowsItsToken
      <4> QED BY <2>4, <3>1, <3>3, <4>1, <4>3, <4>4
    <3>4. End(r) => req'[r] = Nil
      BY <1>0 DEF End
    <3>5. \/ End(r) /\ noted' = noted
          \/ \E answer \in {"good", "bad"} :
               /\ Go(r, IF answer = "good" THEN "clear" ELSE "mark")
               /\ noted' = IF row # Nil /\ row.tok = req[r].tok THEN answer ELSE noted
      BY <2>9 DEF Refresh, Answers
    <3> QED BY <3>2, <3>3, <3>4, <3>5
  <2>10. CASE Store(r) \/ Forget(r)
    <3>1. /\ req'[r] = Nil /\ noted' = "nothing" /\ (row' = Nil \/ row' = Stored(req[r].tok))
      BY <1>0, <2>10 DEF Store, Forget, End
    <3>2. MarkIsAnswer'
      BY <3>1 DEF MarkIsAnswer, Stored
    <3> QED BY <2>4, <3>1, <3>2
  <2>11. CASE Mark(r) \/ Clear(r)
    <3>1. /\ mixed' = req[r].over /\ noted' = noted /\ req[r].at \in {"mark", "clear"}
          /\ req'[r] = Nil \/ req'[r].at = "upsert"
          /\ row' = IF row = Nil THEN Nil ELSE [row EXCEPT !.marked = (req[r].at = "mark")]
      BY <1>0, <2>1, <2>11 DEF Mark, Clear, At, End, Go, Handlers
    <3>2. ~req[r].over /\ row # Nil => (row'.marked <=> noted = "bad")
      BY <1>0, <1>i, <2>1, <3>1 DEF KnowsItsToken, Row
    <3>3. MarkIsAnswer'
      BY <3>1, <3>2 DEF MarkIsAnswer
    <3> QED BY <2>4, <3>1, <3>3
  <2> QED BY <1>4, <2>7, <2>8, <2>9, <2>10, <2>11 DEF Step
<1> QED BY <1>1, <1>2, <1>3, <1>4 DEF Next

\* google_status: when the handler that wrote the mark was alone, the page asks for
\* a new connection exactly if the last answer to google_verify or the calendar about
\* the stored token was a refusal, whatever other callers were told.
THEOREM PageShowsLastCheck == Spec => []ShowsLastCheck
<1>1. Init => MarkInv
  BY MarkInit
<1>2. TypeInv /\ MarkInv /\ [Next]_vars => MarkInv'
  BY MarkNext
<1>3. MarkInv => ShowsLastCheck
  BY DEF MarkInv, MarkIsAnswer, ShowsLastCheck, Settled, NeedsReconnect, Credential
<1> QED BY <1>1, <1>2, <1>3, TypeInvHolds, PTL DEF Spec

-----------------------------------------------------------------------------
(***************************************************************************)
(* The event of a meeting.  While nothing was crossed only one sync runs;  *)
(* the event it looks for is the one of the meeting, in the calendar of    *)
(* the account of its token, and nothing but that event, or the one it has *)
(* just made, is there.                                                    *)
(***************************************************************************)

Saving(r) == req[r] # Nil /\ req[r].at = "save"

OneSync == \A r, s \in Requests : Syncing(r) /\ Syncing(s) => r = s

\* What sync h knows about the event of the meeting, when it began, when it has
\* its token, and when it has an event to save.
Holds(h) ==
  /\ h.at # "save" => h.ref = gref
  /\ h.at \in Asking /\ row # Nil => row.tok = h.tok
  /\ h.at \in Asking /\ gref # 0 => event[gref] = owner[h.tok]
  /\ h.at = "save" => event[h.ref] = owner[h.tok] /\ there \subseteq {h.ref}

SyncsHold == \A r \in Requests : Syncing(r) => Holds(req[r])

\* The event of the meeting is in the calendar of the connected account.
OwnEvent ==
  /\ gref # 0 /\ row # Nil => event[gref] = owner[row.tok]
  /\ (\A r \in Requests : ~Saving(r)) => there \subseteq {gref}

EventInv == ~crossed => OneSync /\ SyncsHold /\ OwnEvent

LEMMA EventInit == Init => EventInv
  BY DEF Init, EventInv, OneSync, SyncsHold, OwnEvent, Syncing

\* A handler that starts beside the syncs leaves them as they are.
LEMMA EventBeside ==
  ASSUME TypeInv, EventInv, UNCHANGED <<row, gref, owner, event, crossed>>, there' \subseteq there,
         \A s \in Requests : Saving(s)' <=> Saving(s),
         \A s \in Requests : Syncing(s)' =>
           /\ Syncing(s) /\ req'[s].at = req[s].at /\ req'[s].tok = req[s].tok
           /\ req'[s].ref = req[s].ref
  PROVE  EventInv'
<1> SUFFICES ASSUME ~crossed'
             PROVE  (OneSync /\ SyncsHold /\ OwnEvent)'
  BY DEF EventInv
<1>1. OneSync /\ SyncsHold /\ OwnEvent
  BY DEF EventInv
<1>2. OneSync' /\ OwnEvent'
  BY <1>1 DEF OneSync, OwnEvent
<1>3. ASSUME NEW s \in Requests, Syncing(s)' PROVE Holds(req[s])'
  <2>1. Holds(req[s])
    BY <1>1, <1>3 DEF SyncsHold
  <2>2. req'[s].at = req[s].at /\ req'[s].tok = req[s].tok /\ req'[s].ref = req[s].ref
    BY <1>3
  <2> QED BY <2>1, <2>2 DEF Holds
<1> QED BY <1>2, <1>3 DEF SyncsHold

\* The steps of a handler.
LEMMA EventStep ==
  ASSUME TypeInv, EventInv, NEW r \in Requests, Step(r)
  PROVE  EventInv'
<1>0. /\ row \in Row \cup {Nil} /\ (row # Nil => row.tok \in 1..Len(owner))
      /\ req \in [Requests -> Handlers \cup {Nil}]
      /\ gref \in 0..Len(event)
      /\ owner \in Seq(Accounts) /\ Len(owner) \in Nat
      /\ event \in Seq(Accounts) /\ Len(event) \in Nat
      /\ there \subseteq 1..Len(event) /\ crossed \in BOOLEAN
      /\ \A s \in Requests : req[s] = Nil \/ Fits(req[s], Len(owner), Len(event))
  BY RowFields, BoundsAssumption DEF TypeInv, TypeOK, HandlersFit
<1>s. /\ req[r] \in Handlers /\ req[r] # Nil
      /\ \A s \in Requests : s # r => req'[s] = req[s]
      /\ \/ req'[r] = Nil
         \/ req'[r] # Nil /\ req'[r].op = req[r].op
  BY Stepped
<1>f. Fits(req[r], Len(owner), Len(event))
  BY <1>0, <1>s
<1>c. crossed => crossed'
  BY DEF Step, Exchange, Store, ReadCredential, Refresh, Mark, Clear, Forget, Update, Insert,
     Forbidden, UpsertFails, Save, history
<1> SUFFICES ASSUME ~crossed, ~crossed'
             PROVE  (OneSync /\ SyncsHold /\ OwnEvent)'
  BY <1>c DEF EventInv
<1>i. OneSync /\ SyncsHold /\ OwnEvent
  BY DEF EventInv
<1>o. OneSync' /\ \A s \in Requests : Syncing(s)' => Syncing(s)
  BY <1>i, <1>s DEF OneSync, Syncing
<1>h. ASSUME ~Saving(r) PROVE (\A s \in Requests : ~Saving(s)') => there \subseteq {gref}
  BY <1>h, <1>i, <1>s DEF OwnEvent, Saving
<1>a. Syncing(r) => /\ \A s \in Requests : s # r => ~Syncing(s) /\ ~Saving(s)
                    /\ Holds(req[r])
  <2>1. \A s \in Requests : Saving(s) => Syncing(s)
    BY <1>0 DEF Saving, Syncing, Fits
  <2> QED BY <1>i, <2>1 DEF OneSync, SyncsHold
<1>1. CASE Exchange(r)
  <2>1. /\ UNCHANGED <<row, gref, event, there>> /\ ~Syncing(r) /\ ~Saving(r)
    BY <1>1, <1>f DEF Exchange, At, tables, Fits, Syncing, Saving
  <2>2. \A i \in 1..Len(owner) : owner'[i] = owner[i]
    <3>1. CASE owner' = owner
      BY <3>1
    <3>2. ASSUME NEW a \in Accounts, owner' = Append(owner, a)
          PROVE  \A i \in 1..Len(owner) : owner'[i] = owner[i]
      BY <1>0, <3>2, Appended
    <3> QED BY <1>1, <3>1, <3>2 DEF Exchange
  <2>3. OwnEvent'
    BY <1>0, <1>h, <1>i, <2>1, <2>2 DEF OwnEvent
  <2>4. ASSUME NEW s \in Requests, Syncing(s)' PROVE Holds(req[s])'
    <3>1. Holds(req[s]) /\ req'[s] = req[s] /\ Fits(req[s], Len(owner), Len(event))
      BY <1>0, <1>i, <1>o, <1>s, <2>1, <2>4 DEF SyncsHold, Syncing
    <3>2. req[s].at \in Asking => owner'[req[s].tok] = owner[req[s].tok]
      BY <2>2, <3>1 DEF Fits
    <3> QED BY <2>1, <3>1, <3>2 DEF Holds, Asking
  <2> QED BY <1>o, <2>3, <2>4 DEF SyncsHold
<1>2. CASE Store(r)
  <2>1. /\ UNCHANGED <<gref, owner, event, there>> /\ ~Saving(r)
        /\ row' = Stored(req[r].tok) /\ (gref # 0 => event[gref] = owner[req[r].tok])
        /\ \A s \in Requests : ~Syncing(s)
    BY <1>2 DEF Store, At, google, Saving
  <2>2. OwnEvent'
    BY <1>h, <2>1 DEF OwnEvent, Stored
  <2> QED BY <1>o, <2>1, <2>2 DEF SyncsHold
<1>3. CASE Forget(r)
  <2>1. /\ UNCHANGED <<gref, owner, event, there>> /\ row' = Nil /\ ~Saving(r) /\ ~Syncing(r)
    BY <1>3, <1>f DEF Forget, At, google, Saving, Syncing, Fits
  <2>2. OwnEvent'
    BY <1>h, <2>1 DEF OwnEvent
  <2>3. ASSUME NEW s \in Requests, Syncing(s)' PROVE Holds(req[s])'
    <3>1. Holds(req[s]) /\ req'[s] = req[s]
      BY <1>i, <1>o, <1>s, <2>1, <2>3 DEF SyncsHold
    <3> QED BY <2>1, <3>1 DEF Holds
  <2> QED BY <1>o, <2>2, <2>3 DEF SyncsHold
<1>4. CASE ReadCredential(r) \/ Refresh(r) \/ Mark(r) \/ Clear(r)
  <2>1. /\ UNCHANGED <<gref, owner, event, there>> /\ ~Saving(r)
        /\ (row' # Nil => row # Nil /\ row'.tok = row.tok)
    BY <1>0, <1>4 DEF ReadCredential, Refresh, Mark, Clear, At, tables, google, Saving, Row
  <2>2. OwnEvent'
    BY <1>h, <1>i, <2>1 DEF OwnEvent
  <2>3. ASSUME NEW s \in Requests, s # r, Syncing(s)' PROVE Holds(req[s])'
    <3>1. Holds(req[s]) /\ req'[s] = req[s]
      BY <1>i, <1>o, <1>s, <2>3 DEF SyncsHold
    <3> QED BY <2>1, <3>1 DEF Holds
  <2>4. ASSUME Syncing(r)' PROVE Holds(req[r])'
    <3>1. Syncing(r) /\ Holds(req[r]) /\ req'[r] # Nil
      BY <1>a, <1>o, <2>4 DEF Syncing
    <3>2. CASE ReadCredential(r)
      <4>1. /\ req[r].at = "read" /\ Credential # 0
            /\ req'[r].at = "ask" /\ req'[r].tok = Credential /\ req'[r].ref = req[r].ref
        BY <1>0, <1>s, <3>1, <3>2 DEF ReadCredential, At, Handlers
      <4>2. row # Nil /\ Credential = row.tok /\ row' = row
        BY <3>2, <4>1 DEF ReadCredential, Credential, tables
      <4> QED BY <1>i, <2>1, <3>1, <4>1, <4>2 DEF Holds, OwnEvent
    <3>3. CASE Refresh(r) \/ Mark(r) \/ Clear(r)
      <4>1. /\ req[r].at \in {"ask", "mark", "clear"} /\ req'[r].at \in {"mark", "clear", "upsert"}
            /\ req'[r].tok = req[r].tok /\ req'[r].ref = req[r].ref
        <5>1. Refresh(r) => Go(r, "clear") \/ Go(r, "mark") \/ End(r)
          BY DEF Refresh
        <5>2. Mark(r) => End(r)
          BY DEF Mark
        <5>3. Clear(r) => Go(r, "upsert") \/ End(r)
          BY DEF Clear
        <5>4. ~End(r)
          BY <1>0, <3>1 DEF End
        <5>5. \E at \in {"mark", "clear", "upsert"} : Go(r, at)
          BY <3>3, <5>1, <5>2, <5>3, <5>4
        <5>6. req[r].at \in {"ask", "mark", "clear"}
          BY <3>3 DEF Refresh, Mark, Clear, At
        <5> QED BY <1>0, <1>s, <5>5, <5>6 DEF Go, Handlers
      <4> QED BY <2>1, <3>1, <4>1 DEF Holds, Asking
    <3> QED BY <1>4, <3>2, <3>3
  <2> QED BY <1>o, <2>2, <2>3, <2>4 DEF SyncsHold
<1>5. CASE Update(r) \/ Insert(r)
  <2>1. /\ UNCHANGED <<row, gref, owner>> /\ req[r].at = "upsert" /\ Syncing(r) /\ ~Saving(r)
    BY <1>5, <1>f DEF Update, Insert, At, tables, google, Fits, Syncing, Saving
  <2>2. Holds(req[r]) /\ req[r].ref = gref /\ there \subseteq {gref}
        /\ \A s \in Requests : s # r => ~Syncing(s)'
    BY <1>a, <1>i, <1>o, <2>1 DEF Holds, OwnEvent, Saving
  <2>3. \A i \in 1..Len(event) : event'[i] = event[i]
    <3>1. CASE event' = event
      BY <3>1
    <3>2. CASE event' = Append(event, owner[req[r].tok])
      <4>1. owner[req[r].tok] \in Accounts
        BY <1>0, <1>f, <2>1 DEF Fits, Asking
      <4> QED BY <1>0, <3>2, <4>1, Appended
    <3> QED BY <1>5, <3>1, <3>2 DEF Update, Insert, google
  <2>4. /\ req'[r].at = "save" /\ req'[r].tok = req[r].tok /\ req'[r] # Nil
        /\ event'[req'[r].ref] = owner[req[r].tok] /\ there' \subseteq {req'[r].ref}
    <3>1. CASE Update(r)
      <4>1. req'[r] = [req[r] EXCEPT !.at = "save"]
        BY <1>0, <3>1 DEF Update, Go
      <4>2. req'[r].at = "save" /\ req'[r].tok = req[r].tok /\ req'[r].ref = req[r].ref
        BY <1>s, <4>1 DEF Handlers
      <4>3. req'[r] # Nil
        BY <1>s, <4>1, NilIsNone DEF Handlers
      <4>4. event[req[r].ref] = owner[req[r].tok] /\ event' = event /\ there' = there
        BY <3>1 DEF Update, Finds, google
      <4> QED BY <2>2, <4>2, <4>3, <4>4
    <3>2. CASE Insert(r)
      <4>1. /\ req'[r] = [req[r] EXCEPT !.at = "save", !.ref = Len(event) + 1]
            /\ event' = Append(event, owner[req[r].tok]) /\ there' = there \cup {Len(event) + 1}
            /\ Len(event) < MaxEvents
        BY <1>0, <3>2 DEF Insert
      <4>2. /\ req'[r].at = "save" /\ req'[r].tok = req[r].tok /\ req'[r].ref = Len(event) + 1
        BY <1>s, <4>1 DEF Handlers
      <4>3. req'[r] # Nil
        <5>1. Len(event) + 1 \in 0..MaxEvents
          BY <1>0, <4>1, BoundsAssumption
        <5>2. req'[r] \in Handlers
          BY <1>s, <4>1, <5>1 DEF Handlers
        <5> QED BY <5>2, NilIsNone
      <4>4. owner[req[r].tok] \in Accounts
        BY <1>0, <1>f, <2>1 DEF Fits, Asking
      <4>5. event'[Len(event) + 1] = owner[req[r].tok]
        BY <1>0, <4>1, <4>4, Appended
      <4>6. there = {}
        <5>1. ~Finds(r)
          BY <3>2 DEF Insert
        <5>2. gref # 0 => event[gref] = owner[req[r].tok]
          BY <2>1, <2>2 DEF Holds, Asking
        <5>3. gref = 0 => 0 \notin there
          BY <1>0
        <5>4. gref \notin there
          BY <2>2, <5>1, <5>2, <5>3 DEF Finds
        <5> QED BY <2>2, <5>4
      <4> QED BY <4>1, <4>2, <4>3, <4>5, <4>6
    <3> QED BY <1>5, <3>1, <3>2
  <2>5. Holds(req[r])'
    <3>1. req'[r].at \in Asking
      BY <2>4 DEF Asking
    <3>2. row' # Nil => row'.tok = req'[r].tok
      BY <2>1, <2>2, <2>4 DEF Holds, Asking
    <3>3. gref' # 0 => event'[gref'] = owner'[req'[r].tok]
      BY <1>0, <2>1, <2>2, <2>3, <2>4 DEF Holds, Asking
    <3> QED BY <2>1, <2>4, <3>1, <3>2, <3>3 DEF Holds
  <2>6. OwnEvent'
    <3>1. Saving(r)'
      BY <2>4 DEF Saving
    <3> QED BY <1>0, <1>i, <2>1, <2>3, <3>1 DEF OwnEvent
  <2> QED BY <1>o, <2>2, <2>5, <2>6 DEF SyncsHold
<1>6. CASE Forbidden(r)
  BY <1>6 DEF Forbidden
<1>7. CASE UpsertFails(r)
  <2>1. /\ UNCHANGED <<row, gref, owner, event, there>> /\ ~Saving(r)
        /\ req'[r] = Nil
    BY <1>0, <1>7 DEF UpsertFails, At, End, tables, Saving
  <2>2. OwnEvent'
    BY <1>h, <1>i, <2>1 DEF OwnEvent
  <2>3. ASSUME NEW s \in Requests, Syncing(s)' PROVE Holds(req[s])'
    <3>1. Holds(req[s]) /\ req'[s] = req[s]
      BY <1>i, <1>o, <1>s, <2>1, <2>3 DEF SyncsHold, Syncing
    <3> QED BY <2>1, <3>1 DEF Holds
  <2> QED BY <1>o, <2>2, <2>3 DEF SyncsHold
<1>8. CASE Save(r)
  <2>1. /\ UNCHANGED <<row, owner, event, there>> /\ req[r].at = "save" /\ Syncing(r)
        /\ req'[r] = Nil /\ gref' = req[r].ref
    BY <1>0, <1>8, <1>f DEF Save, Saved, At, End, google, Fits, Syncing
  <2>2. Holds(req[r]) /\ \A s \in Requests : ~Syncing(s)'
    BY <1>a, <1>o, <2>1 DEF Syncing
  <2>3. OwnEvent'
    BY <2>1, <2>2 DEF OwnEvent, Holds, Asking
  <2> QED BY <1>o, <2>2, <2>3 DEF SyncsHold
<1> QED BY <1>1, <1>2, <1>3, <1>4, <1>5, <1>6, <1>7, <1>8 DEF Step

LEMMA EventNext == TypeInv /\ EventInv /\ [Next]_vars => EventInv'
<1> SUFFICES ASSUME TypeInv, EventInv, [Next]_vars
             PROVE  EventInv'
  OBVIOUS
<1>0. /\ crossed \in BOOLEAN
      /\ \A s \in Requests : req[s] = Nil \/ Fits(req[s], Len(owner), Len(event))
  BY DEF TypeInv, TypeOK, HandlersFit
<1>1. ASSUME NEW k \in Keys, Restart(k) PROVE EventInv'
  <2>1. /\ UNCHANGED <<row, gref, owner, event, there>> /\ \A s \in Requests : req'[s] = Nil
        /\ crossed' = (crossed \/ \E s \in Requests : Syncing(s))
    BY <1>1 DEF Restart, tables, google
  <2> SUFFICES ASSUME ~crossed'
               PROVE  (OneSync /\ SyncsHold /\ OwnEvent)'
    BY DEF EventInv
  <2>2. /\ OwnEvent /\ \A s \in Requests : ~Syncing(s)
    BY <2>1 DEF EventInv
  <2>3. \A s \in Requests : ~Saving(s)
    BY <1>0, <2>2 DEF Saving, Syncing, Fits
  <2> QED BY <2>1, <2>2, <2>3 DEF OneSync, SyncsHold, OwnEvent, Syncing
<1>2. CASE \/ PutClient \/ ClearClient \/ Use \/ \E e \in 1..MaxEvents : EventRemoved(e)
           \/ UNCHANGED vars
  <2>1. UNCHANGED <<req, row, gref, owner, event, crossed>> /\ there' \subseteq there
    BY <1>2 DEF PutClient, ClearClient, Use, EventRemoved, vars, tables, google, history
  <2> QED BY <2>1, EventBeside DEF Saving, Syncing
<1>3. ASSUME NEW r \in Requests, NEW op, NEW at, NEW tok, NEW ref, Begin(r, op, at, tok, ref),
             op # "sync", at # "save", UNCHANGED <<row, gref, owner, event, there, crossed>>
      PROVE  EventInv'
  <2>1. /\ req[r] = Nil /\ req'[r].at = at /\ req'[r].op = op
        /\ \A s \in Requests : s # r /\ req[s] # Nil =>
             /\ req'[s] # Nil /\ req'[s].at = req[s].at /\ req'[s].op = req[s].op
             /\ req'[s].tok = req[s].tok /\ req'[s].ref = req[s].ref
        /\ \A s \in Requests : s # r /\ req[s] = Nil => req'[s] = Nil
    BY <1>3, Begun
  <2>2. \A s \in Requests : Saving(s)' <=> Saving(s)
    BY <1>3, <2>1 DEF Saving
  <2>3. \A s \in Requests : Syncing(s)' =>
           /\ Syncing(s) /\ req'[s].at = req[s].at /\ req'[s].tok = req[s].tok
           /\ req'[s].ref = req[s].ref
    BY <1>3, <2>1 DEF Syncing
  <2> QED BY <1>3, <2>2, <2>3, EventBeside
<1>4. ASSUME NEW r \in Requests, Callback(r) \/ Verify(r) \/ Disconnect(r) PROVE EventInv'
  <2>1. UNCHANGED <<row, gref, owner, event, there, crossed>>
    BY <1>4 DEF Callback, Verify, Disconnect, tables, google, history
  <2>2. \E op, at, tok, ref : op # "sync" /\ at # "save" /\ Begin(r, op, at, tok, ref)
    BY <1>4 DEF Callback, Verify, Disconnect
  <2> QED BY <1>3, <2>1, <2>2
<1>5. ASSUME NEW r \in Requests, Sync(r) PROVE EventInv'
  <2>1. /\ UNCHANGED <<row, gref, owner, event, there>>
        /\ crossed' = (crossed \/ \E s \in Requests : Syncing(s))
        /\ Begin(r, "sync", "read", 0, gref)
    BY <1>5 DEF Sync, tables, google
  <2> SUFFICES ASSUME ~crossed'
               PROVE  (OneSync /\ SyncsHold /\ OwnEvent)'
    BY DEF EventInv
  <2>2. OwnEvent /\ \A s \in Requests : ~Syncing(s)
    BY <2>1 DEF EventInv
  <2>3. /\ req[r] = Nil /\ req'[r].at = "read" /\ req'[r].ref = gref
        /\ \A s \in Requests : s # r /\ req[s] # Nil =>
             req'[s] # Nil /\ req'[s].at = req[s].at /\ req'[s].op = req[s].op
        /\ \A s \in Requests : s # r /\ req[s] = Nil => req'[s] = Nil
    BY <2>1, Begun
  <2>4. \A s \in Requests : s # r => ~Syncing(s)'
    BY <2>2, <2>3 DEF Syncing
  <2>5. Holds(req[r])'
    BY <2>1, <2>3 DEF Holds, Asking
  <2>6. \A s \in Requests : ~Saving(s)
    BY <1>0, <2>2 DEF Saving, Syncing, Fits
  <2>7. OwnEvent'
    BY <2>1, <2>2, <2>6 DEF OwnEvent
  <2> QED BY <2>4, <2>5, <2>7 DEF OneSync, SyncsHold
<1>6. ASSUME NEW r \in Requests, Step(r) PROVE EventInv'
  BY <1>6, EventStep
<1> QED BY <1>1, <1>2, <1>4, <1>5, <1>6 DEF Next

\* calendar_sync: however often a meeting is synced, one event of it is there, unless
\* two syncs overlapped, a call was lost or refused, or the accounts changed.
THEOREM MeetingHasOneEvent == Spec => []OneEventPerMeeting
<1>1. Init => EventInv
  BY EventInit
<1>2. TypeInv /\ EventInv /\ [Next]_vars => EventInv'
  BY EventNext
<1>3. TypeInv /\ EventInv => OneEventPerMeeting
  <2> SUFFICES ASSUME TypeInv, EventInv, ~crossed
               PROVE  Cardinality(there) <= 1
    BY DEF OneEventPerMeeting
  <2>1. \E x : there \subseteq {x}
    <3>1. CASE \A r \in Requests : ~Saving(r)
      BY <3>1 DEF EventInv, OwnEvent
    <3>2. ASSUME NEW r \in Requests, Saving(r) PROVE \E x : there \subseteq {x}
      <4>1. Syncing(r)
        BY <3>2 DEF TypeInv, HandlersFit, Saving, Syncing, Fits
      <4> QED BY <3>2, <4>1 DEF EventInv, SyncsHold, Holds, Saving
    <3> QED BY <3>1, <3>2
  <2>2. PICK x : there \subseteq {x}
    BY <2>1
  <2>3. there = {} \/ there = {x}
    BY <2>2
  <2>4. Cardinality({}) = 0 /\ Cardinality({x}) = 1
    BY FS_EmptySet, FS_Singleton
  <2> QED BY <2>3, <2>4
<1> QED BY <1>1, <1>2, <1>3, TypeInvHolds, PTL DEF Spec

-----------------------------------------------------------------------------
(***************************************************************************)
(* The claude credentials.  A secret is stored plain or under one key, and *)
(* the start of the process encrypts it only if it is plain.               *)
(***************************************************************************)

\* Plain, or under one key.
Seals == {<<>>} \cup {<<k>> : k \in EncKeys}

Creds == [id : Nat, kind : Kinds, seal : Seals]

SealInv ==
  /\ ids \in Nat /\ encKey \in EncKeys \cup {NoKey}
  /\ cred \in [Users -> Creds \cup {None}]
  /\ encKey # NoKey => \A u \in Users : cred[u] # None => cred[u].seal # <<>>

\* _enc_secret encrypts once.
LEMMA SealedUnderOne ==
  ASSUME NEW k \in EncKeys \cup {NoKey}
  PROVE  Sealed(k) \in Seals /\ (k # NoKey => Sealed(k) # <<>>)
  BY DEF Sealed, Seals

\* What a start with key k makes of a stored secret.
LEMMA MigratedSeal ==
  ASSUME NEW c \in Creds, NEW k \in EncKeys \cup {NoKey}
  PROVE  /\ Migrated(c, k) \in Creds
         /\ k # NoKey => Migrated(c, k).seal # <<>>
<1> DEFINE s == IF c.seal = <<>> THEN Sealed(k) ELSE c.seal
<1>1. s \in Seals /\ (k # NoKey => s # <<>>)
  BY SealedUnderOne DEF Creds
<1> HIDE DEF s
<1>2. [c EXCEPT !.seal = s] \in Creds /\ [c EXCEPT !.seal = s].seal = s
  BY <1>1 DEF Creds
<1>3. Migrated(c, k) = [c EXCEPT !.seal = s]
  BY DEF Migrated, s
<1> QED BY <1>1, <1>2, <1>3

LEMMA SealNext == SealInv /\ [HealthNext]_healthVars => SealInv'
<1> SUFFICES ASSUME SealInv, [HealthNext]_healthVars
             PROVE  SealInv'
  OBVIOUS
<1>0. /\ ids \in Nat /\ encKey \in EncKeys \cup {NoKey}
      /\ cred \in [Users -> Creds \cup {None}]
      /\ encKey # NoKey => \A u \in Users : cred[u] # None => cred[u].seal # <<>>
  BY DEF SealInv
<1>1. ASSUME UNCHANGED <<cred, ids, encKey>> PROVE SealInv'
  BY <1>0, <1>1 DEF SealInv
<1>2. ASSUME NEW t, Evaluate(t) PROVE SealInv'
  BY <1>1, <1>2 DEF Evaluate, ReadType, ReadCred, Recheck, Ping,
     Write, Pop, Raise
<1>3. CASE Sweep \/ CooldownEnds \/ Expire
  BY <1>1, <1>2, <1>3 DEF Sweep, SweepStart, SweepUser, CooldownEnds,
     Expire
<1>4. CASE ProcessRestart
  <2>1. /\ encKey' \in EncKeys \cup {NoKey} /\ ids' = ids
        /\ cred' = [u \in Users |-> IF cred[u] = None THEN None ELSE Migrated(cred[u], encKey')]
    BY <1>4 DEF ProcessRestart
  <2>2. ASSUME NEW u \in Users
        PROVE  /\ cred'[u] \in Creds \cup {None}
               /\ encKey' # NoKey /\ cred'[u] # None => cred'[u].seal # <<>>
    BY <1>0, <2>1, MigratedSeal
  <2> QED BY <1>0, <2>1, <2>2 DEF SealInv
<1>5. ASSUME NEW w \in Workers, NEW u \in Users, Put(w, u) PROVE SealInv'
  <2>1. PICK kind \in Kinds : cred' = [cred EXCEPT ![u] = StoredCred(kind)]
    BY <1>5 DEF Put
  <2>2. ids' = ids + 1 /\ encKey' = encKey
    BY <1>5 DEF Put
  <2>3. StoredCred(kind) \in Creds /\ StoredCred(kind).seal = Sealed(encKey)
    BY <1>0, SealedUnderOne DEF StoredCred, Creds
  <2>4. encKey # NoKey => StoredCred(kind).seal # <<>>
    BY <1>0, <2>3, SealedUnderOne
  <2> QED BY <1>0, <2>1, <2>2, <2>3, <2>4 DEF SealInv
<1>6. ASSUME NEW w \in Workers, NEW u \in Users, Delete(w, u) PROVE SealInv'
  BY <1>0, <1>6 DEF Delete, SealInv
<1>7. ASSUME NEW w \in Workers, Request(w) PROVE SealInv'
  <2>1. ASSUME NEW u \in Users, VerifyCred(w, u) \/ JobStart(w, u) PROVE SealInv'
    BY <1>1, <2>1 DEF VerifyCred, JobStart
  <2> QED BY <1>5, <1>6, <1>7, <2>1 DEF Request
<1>8. ASSUME NEW w \in Workers, Proceed(w) PROVE SealInv'
  BY <1>1, <1>2, <1>8 DEF Proceed, Note, JobAuthFails, JobEnds
<1>9. CASE UNCHANGED healthVars
  BY <1>1, <1>9 DEF healthVars
<1> QED BY <1>3, <1>4, <1>7, <1>8, <1>9 DEF HealthNext

\* _dec_secret and migrate_encrypt_credentials: whatever keys the process is
\* started with, no secret is ever under two, and while there is a key none
\* is plain.
THEOREM SecretsAreReadable == HealthSpec => []SecretsStayReadable
<1>1. HealthInit => SealInv
  BY DEF HealthInit, SealInv
<1>2. SealInv /\ [HealthNext]_healthVars => SealInv'
  BY SealNext
<1>3. SealInv => SecretsStayReadable
  <2>1. \A s \in Seals : Len(s) <= 1
    <3>1. ASSUME NEW k PROVE Len(<<k>>) = 1
      OBVIOUS
    <3>2. Len(<<>>) = 0
      OBVIOUS
    <3> TAKE s \in Seals
    <3>3. CASE s = <<>>
      BY <3>2, <3>3
    <3>4. ASSUME NEW k \in EncKeys, s = <<k>> PROVE Len(s) <= 1
      <4>1. Len(<<k>>) = 1
        BY <3>1
      <4> QED BY <3>4, <4>1
    <3> QED BY <3>3, <3>4 DEF Seals
  <2> QED BY <2>1 DEF SealInv, Creds, SecretsStayReadable
<1> QED BY <1>1, <1>2, <1>3, PTL DEF HealthSpec

-----------------------------------------------------------------------------
(***************************************************************************)
(* The claude credentials: what the cache says of a credential, once it is *)
(* right, stays right while that credential is left alone.                 *)
(***************************************************************************)

\* What is cached of a credential.
Verdicts == [valid : BOOLEAN, reason : {"api_key", "ok", "verify_failed", "decrypt_failed"}]

\* What v says of the credential of u is so.
Sound(v, u) == v.valid = Works(u) /\ (Works(u) => v.reason # "decrypt_failed")

\* The work w spoils no verdict of user u: it does not drop the health that is
\* cached, and what it has read of the credential, or is to write of it, is so.
Agrees(w, u) ==
  w # None /\ w.user = u =>
    /\ w.at # "pop"
    /\ w.at = "get" /\ w.op = "put" => Usable(u) # None
    /\ w.at = "recheck" => Usable(u) = None
    /\ w.at = "ping" => w.cred = Usable(u) /\ w.cred # None
    /\ w.at = "write" => Sound(w.verdict, u)
    /\ w.at = "job" /\ Works(u) => w.cred = Usable(u)

\* The cached health of u is right, and no thread is about to spoil it.
Healed(u) == HasVerdict(u) /\ Right(u) /\ \A t \in Threads : Agrees(run[t], u)

\* The user keeps the credential, it does not expire, no call fails for other
\* reasons, and the process runs on.
LeftAlone(u) ==
  /\ cred'[u] = cred[u] /\ (cred[u].id \in dead <=> cred[u].id \in dead')
  /\ restarts' = restarts /\ faults' = faults

\* Right once, right as long as the credential is left alone: no late answer, no
\* sweep, verify or job, of this user or another, makes the cached health wrong.
RightStaysRight ==
  [][\A u \in Users : Healed(u) /\ LeftAlone(u) => Healed(u)']_healthVars

\* The work of a thread.
WorkFits(w) ==
  w # None =>
    /\ w = [op |-> w.op, user |-> w.user, at |-> w.at, cred |-> w.cred, verdict |-> w.verdict]
    /\ w.at = "type" => w.op # "put"
    /\ w.at = "write" => w.verdict \in Verdicts

\* Registrations are numbered, and every row has a number that was given.
WorkInv ==
  /\ SealInv
  /\ \A u \in Users : cred[u] # None => cred[u].id <= ids
  /\ DOMAIN cache = Users /\ DOMAIN run = Threads
  /\ restarts \in Nat /\ faults \in Nat
  /\ \A t \in Threads : WorkFits(run[t])

\* The step of thread t leaves it with w.
Becomes(t, w) == run' = [run EXCEPT ![t] = w] /\ WorkFits(w)

\* The next step of a work, a verdict for it to write, a credential for it to ping.
LEMMA StepFits ==
  ASSUME NEW w, w # None, WorkFits(w), NEW s
  PROVE  /\ s \notin {"type", "write"} => WorkFits([w EXCEPT !.at = s])
         /\ [w EXCEPT !.at = s] = [op |-> w.op, user |-> w.user, at |-> s, cred |-> w.cred, verdict |-> w.verdict]
<1>1. w = [op |-> w.op, user |-> w.user, at |-> w.at, cred |-> w.cred, verdict |-> w.verdict]
  BY DEF WorkFits
<1>2. [w EXCEPT !.at = s] = [op |-> w.op, user |-> w.user, at |-> s, cred |-> w.cred, verdict |-> w.verdict]
  BY <1>1
<1> QED BY <1>2 DEF WorkFits

LEMMA VerdictFits ==
  ASSUME NEW w, w # None, WorkFits(w), NEW x \in Verdicts
  PROVE  /\ WorkFits([w EXCEPT !.at = "write", !.verdict = x])
         /\ [w EXCEPT !.at = "write", !.verdict = x] =
              [op |-> w.op, user |-> w.user, at |-> "write", cred |-> w.cred, verdict |-> x]
<1> DEFINE o == w.op  u == w.user  a == w.at  c == w.cred  v == w.verdict
<1>1. w = [op |-> o, user |-> u, at |-> a, cred |-> c, verdict |-> v]
  BY DEF WorkFits
<1>2. ASSUME NEW oo, NEW uu, NEW aa, NEW cc, NEW vv, w = [op |-> oo, user |-> uu, at |-> aa, cred |-> cc, verdict |-> vv]
      PROVE  [w EXCEPT !.at = "write", !.verdict = x] = [op |-> oo, user |-> uu, at |-> "write", cred |-> cc, verdict |-> x]
  <2> DEFINE m == [op |-> oo, user |-> uu, at |-> "write", cred |-> cc, verdict |-> vv]
  <2>1. [w EXCEPT !.at = "write"] = m
    BY <1>2
  <2>2. [m EXCEPT !.verdict = x] = [op |-> oo, user |-> uu, at |-> "write", cred |-> cc, verdict |-> x]
    OBVIOUS
  <2>3. [w EXCEPT !.at = "write", !.verdict = x] = [[w EXCEPT !.at = "write"] EXCEPT !.verdict = x]
    OBVIOUS
  <2> QED BY <2>1, <2>2, <2>3
<1> HIDE DEF o, u, a, c, v
<1>3. [w EXCEPT !.at = "write", !.verdict = x] = [op |-> o, user |-> u, at |-> "write", cred |-> c, verdict |-> x]
  BY <1>1, <1>2
<1>4. WorkFits([op |-> o, user |-> u, at |-> "write", cred |-> c, verdict |-> x])
  BY DEF WorkFits
<1> QED BY <1>3, <1>4 DEF o, u, c, v

LEMMA CredFits ==
  ASSUME NEW w, w # None, WorkFits(w), NEW x
  PROVE  /\ WorkFits([w EXCEPT !.at = "ping", !.cred = x])
         /\ [w EXCEPT !.at = "ping", !.cred = x] =
              [op |-> w.op, user |-> w.user, at |-> "ping", cred |-> x, verdict |-> w.verdict]
<1> DEFINE o == w.op  u == w.user  a == w.at  c == w.cred  v == w.verdict
<1>1. w = [op |-> o, user |-> u, at |-> a, cred |-> c, verdict |-> v]
  BY DEF WorkFits
<1>2. ASSUME NEW oo, NEW uu, NEW aa, NEW cc, NEW vv, w = [op |-> oo, user |-> uu, at |-> aa, cred |-> cc, verdict |-> vv]
      PROVE  [w EXCEPT !.at = "ping", !.cred = x] = [op |-> oo, user |-> uu, at |-> "ping", cred |-> x, verdict |-> vv]
  <2> DEFINE m == [op |-> oo, user |-> uu, at |-> "ping", cred |-> cc, verdict |-> vv]
  <2>1. [w EXCEPT !.at = "ping"] = m
    BY <1>2
  <2>2. [m EXCEPT !.cred = x] = [op |-> oo, user |-> uu, at |-> "ping", cred |-> x, verdict |-> vv]
    OBVIOUS
  <2>3. [w EXCEPT !.at = "ping", !.cred = x] = [[w EXCEPT !.at = "ping"] EXCEPT !.cred = x]
    OBVIOUS
  <2> QED BY <2>1, <2>2, <2>3
<1> HIDE DEF o, u, a, c, v
<1>3. [w EXCEPT !.at = "ping", !.cred = x] = [op |-> o, user |-> u, at |-> "ping", cred |-> x, verdict |-> v]
  BY <1>1, <1>2
<1>4. WorkFits([op |-> o, user |-> u, at |-> "ping", cred |-> x, verdict |-> v])
  BY DEF WorkFits
<1> QED BY <1>3, <1>4 DEF o, u, c, v

\* What a step of a thread makes of its work, whichever step it is.
LEMMA WorkGoes ==
  ASSUME WorkInv, NEW t \in Threads, Evaluate(t) \/ Note(t) \/ JobAuthFails(t) \/ JobEnds(t)
  PROVE  /\ (\E w : Becomes(t, w)) /\ DOMAIN cache' = Users /\ faults' \in Nat
         /\ UNCHANGED <<cred, ids, dead, encKey, restarts>>
<1>n. WorkFits(None)
  BY DEF WorkFits
<1>u. DOMAIN run = Threads /\ DOMAIN cache = Users /\ WorkFits(run[t]) /\ faults \in Nat
  BY DEF WorkInv
<1>a. ASSUME NEW s, s \notin {"type", "write"}, run[t] # None, run' = [run EXCEPT ![t].at = s]
      PROVE  \E w : Becomes(t, w)
  <2>1. run' = [run EXCEPT ![t] = [run[t] EXCEPT !.at = s]]
    BY <1>a
  <2> QED BY <2>1, <1>a, <1>u, StepFits DEF Becomes
<1>s. ASSUME NEW v \in BOOLEAN, NEW r \in {"api_key", "ok", "verify_failed", "decrypt_failed"},
             run[t] # None, Settle(t, v, r)
      PROVE  \E w : Becomes(t, w)
  <2>0. [valid |-> v, reason |-> r] \in Verdicts
    BY DEF Verdicts
  <2>1. run' = [run EXCEPT ![t] = [run[t] EXCEPT !.at = "write", !.verdict = [valid |-> v, reason |-> r]]]
    BY <1>s DEF Settle
  <2> QED BY <2>0, <2>1, <1>s, <1>u, VerdictFits DEF Becomes
<1>f. ASSUME run[t] # None, Finish(t)
      PROVE  \E w : Becomes(t, w)
  <2>1. \/ run' = [run EXCEPT ![t] = None]
        \/ run' = [run EXCEPT ![t] = [run[t] EXCEPT !.at = "note"]]
    BY <1>f DEF Finish
  <2>2. WorkFits([run[t] EXCEPT !.at = "note"])
    BY <1>f, <1>u, StepFits
  <2> QED BY <2>1, <2>2, <1>n DEF Becomes
<1>1. CASE ReadType(t)
  <2>0. run[t] # None /\ UNCHANGED <<cache, cred, ids, dead, encKey, restarts, faults>>
    BY <1>1 DEF ReadType, On
  <2>1. run' = [run EXCEPT ![t].at = "pop"] \/ run' = [run EXCEPT ![t].at = "get"]
    BY <1>1 DEF ReadType
  <2>2. \E w : Becomes(t, w)
    BY <2>0, <2>1, <1>a
  <2> QED BY <2>0, <2>2, <1>u
<1>2. CASE ReadCred(t)
  <2>0. run[t] # None /\ UNCHANGED <<cache, cred, ids, dead, encKey, restarts, faults>>
    BY <1>2 DEF ReadCred, On
  <2>1. ASSUME run' = [run EXCEPT ![t].at = IF run[t].op = "put" THEN "pop" ELSE "recheck"]
        PROVE  \E w : Becomes(t, w)
    <3>1. run' = [run EXCEPT ![t].at = "pop"] \/ run' = [run EXCEPT ![t].at = "recheck"]
      BY <2>1
    <3> QED BY <3>1, <2>0, <1>a
  <2>2. ASSUME Settle(t, TRUE, "api_key")
        PROVE  \E w : Becomes(t, w)
    BY <2>0, <2>2, <1>s
  <2>3. ASSUME NEW c, run' = [run EXCEPT ![t].at = "ping", ![t].cred = c]
        PROVE  \E w : Becomes(t, w)
    <3>1. run' = [run EXCEPT ![t] = [run[t] EXCEPT !.at = "ping", !.cred = c]]
      BY <2>3
    <3>2. WorkFits([run[t] EXCEPT !.at = "ping", !.cred = c])
      BY <2>0, <1>u, CredFits
    <3> QED BY <3>1, <3>2 DEF Becomes
  <2>4. \/ run' = [run EXCEPT ![t].at = IF run[t].op = "put" THEN "pop" ELSE "recheck"]
        \/ Settle(t, TRUE, "api_key")
        \/ \E c : run' = [run EXCEPT ![t].at = "ping", ![t].cred = c]
    BY <1>2 DEF ReadCred
  <2>5. \E w : Becomes(t, w)
    BY <2>1, <2>2, <2>3, <2>4
  <2> QED BY <2>0, <2>5, <1>u
<1>3. CASE Recheck(t)
  <2>0. run[t] # None /\ UNCHANGED <<cache, cred, ids, dead, encKey, restarts, faults>>
    BY <1>3 DEF Recheck, On
  <2>1. run' = [run EXCEPT ![t].at = "pop"] \/ Settle(t, FALSE, "decrypt_failed")
    BY <1>3 DEF Recheck
  <2>2. ASSUME Settle(t, FALSE, "decrypt_failed")
        PROVE  \E w : Becomes(t, w)
    BY <2>0, <2>2, <1>s
  <2>3. ASSUME run' = [run EXCEPT ![t].at = "pop"]
        PROVE  \E w : Becomes(t, w)
    <3>1. "pop" \notin {"type", "write"}
      OBVIOUS
    <3> QED BY <2>0, <2>3, <3>1, <1>a, Zenon
  <2>4. \E w : Becomes(t, w)
    BY <2>1, <2>2, <2>3
  <2> QED BY <2>0, <2>4, <1>u
<1>4. CASE Ping(t)
  <2>0. run[t] # None /\ UNCHANGED <<cache, cred, ids, dead, encKey, restarts>> /\ faults' \in {faults, faults + 1}
    BY <1>4 DEF Ping, On
  <2>1. Settle(t, TRUE, "api_key") \/ Settle(t, TRUE, "ok") \/ Settle(t, FALSE, "verify_failed")
    BY <1>4 DEF Ping
  <2>2. ASSUME Settle(t, TRUE, "api_key")
        PROVE  \E w : Becomes(t, w)
    BY <2>0, <2>2, <1>s
  <2>3. ASSUME Settle(t, TRUE, "ok")
        PROVE  \E w : Becomes(t, w)
    BY <2>0, <2>3, <1>s
  <2>4. ASSUME Settle(t, FALSE, "verify_failed")
        PROVE  \E w : Becomes(t, w)
    BY <2>0, <2>4, <1>s
  <2>5. \E w : Becomes(t, w)
    BY <2>1, <2>2, <2>3, <2>4
  <2> QED BY <2>0, <2>5, <1>u
<1>5. CASE Write(t) \/ Pop(t)
  BY <1>5, <1>f, <1>u DEF Write, Pop, On
<1>6. CASE Raise(t) \/ Note(t) \/ JobAuthFails(t) \/ JobEnds(t)
  BY <1>6, <1>n, <1>u DEF Raise, Note, JobAuthFails, JobEnds, Becomes
<1> QED BY <1>1, <1>2, <1>3, <1>4, <1>5, <1>6 DEF Evaluate

\* What a thread begins with.
LEMMA WorkBegins ==
  ASSUME WorkInv, NEW t, NEW op, NEW u, NEW at, TakeUp(t, op, u, at), at = "type" => op # "put", at # "write"
  PROVE  \E w : Becomes(t, w)
<1> DEFINE w == [op |-> op, user |-> u, at |-> at, cred |-> None, verdict |-> None]
<1>1. run' = [run EXCEPT ![t] = w]
  BY DEF TakeUp
<1>2. WorkFits(w)
  BY DEF WorkFits
<1> HIDE DEF w
<1> QED BY <1>1, <1>2 DEF Becomes

\* The inductive step.
LEMMA WorkNext == WorkInv /\ [HealthNext]_healthVars => WorkInv'
<1> SUFFICES ASSUME WorkInv, [HealthNext]_healthVars
             PROVE  WorkInv'
  OBVIOUS
<1>0. /\ SealInv /\ SealInv' /\ ids \in Nat
      /\ \A u \in Users : cred[u] # None => cred[u].id <= ids
      /\ DOMAIN cache = Users /\ DOMAIN run = Threads /\ restarts \in Nat /\ faults \in Nat
      /\ \A t \in Threads : WorkFits(run[t])
      /\ cred \in [Users -> Creds \cup {None}]
  BY SealNext DEF WorkInv, SealInv
<1>t. Sweeper \in Threads /\ \A w \in Workers : w \in Threads
  BY DEF Threads
<1>a. ASSUME NEW t \in Threads, \E w : Becomes(t, w)
      PROVE  DOMAIN run' = Threads /\ \A s \in Threads : WorkFits(run'[s])
  BY <1>0, <1>a DEF Becomes
<1>b. ASSUME UNCHANGED <<cred, ids, restarts>>, DOMAIN cache' = Users, faults' \in Nat,
             UNCHANGED run \/ \E t \in Threads : \E w : Becomes(t, w)
      PROVE  WorkInv'
  <2>1. DOMAIN run' = Threads /\ \A s \in Threads : WorkFits(run'[s])
    BY <1>0, <1>a, <1>b
  <2> QED BY <1>0, <1>b, <2>1 DEF WorkInv
<1>1. ASSUME NEW t \in Threads, Evaluate(t) \/ Note(t) \/ JobAuthFails(t) \/ JobEnds(t)
      PROVE  WorkInv'
  BY <1>1, <1>b, WorkGoes
<1>2. CASE SweepStart \/ CooldownEnds \/ Expire \/ UNCHANGED healthVars
  BY <1>2, <1>b, <1>0 DEF SweepStart, CooldownEnds, Expire, healthVars
<1>3. CASE SweepUser
  <2>1. \E u : TakeUp(Sweeper, "sweep", u, "type")
    BY <1>3 DEF SweepUser
  <2>2. UNCHANGED <<cred, ids, cache, restarts, faults>>
    BY <1>3 DEF SweepUser
  <2> QED BY <2>1, <2>2, <1>0, <1>b, <1>t, WorkBegins
<1>4. CASE ProcessRestart
  <2>1. /\ cred' = [u \in Users |-> IF cred[u] = None THEN None ELSE Migrated(cred[u], encKey')]
        /\ cache' = [u \in Users |-> None] /\ run' = [t \in Threads |-> None] /\ ids' = ids
        /\ restarts' = restarts + 1 /\ faults' = faults
    BY <1>4 DEF ProcessRestart
  <2>2. \A u \in Users : cred[u] # None => Migrated(cred[u], encKey').id = cred[u].id
    BY <1>0 DEF Migrated, Creds
  <2>3. \A u \in Users : cred'[u] # None => cred'[u].id <= ids'
    BY <1>0, <2>1, <2>2
  <2>4. \A t \in Threads : WorkFits(run'[t])
    BY <2>1 DEF WorkFits
  <2> QED BY <1>0, <2>1, <2>3, <2>4 DEF WorkInv
<1>5. ASSUME NEW w \in Workers, NEW u \in Users, VerifyCred(w, u) \/ Put(w, u) \/ Delete(w, u) \/ JobStart(w, u)
      PROVE  WorkInv'
  <2>1. CASE VerifyCred(w, u)
    <3>1. UNCHANGED <<cred, ids, cache, restarts, faults>> /\ TakeUp(w, "verify", u, "type")
      BY <2>1 DEF VerifyCred
    <3> QED BY <3>1, <1>0, <1>b, <1>t, WorkBegins
  <2>2. CASE JobStart(w, u)
    <3> DEFINE x == [op |-> "job", user |-> u, at |-> "job", cred |-> Usable(u), verdict |-> None]
    <3>a. UNCHANGED <<cred, ids, cache, restarts, faults>> /\ run' = [run EXCEPT ![w] = x]
      BY <2>2 DEF JobStart
    <3>b. WorkFits(x)
      BY DEF WorkFits
    <3> HIDE DEF x
    <3>1. UNCHANGED <<cred, ids, cache, restarts, faults>> /\ \E y : Becomes(w, y)
      BY <3>a, <3>b DEF Becomes
    <3> QED BY <3>1, <1>0, <1>b, <1>t
  <2>3. CASE Put(w, u) \/ Delete(w, u)
    <3>1. /\ \E x : Becomes(w, x)
          /\ UNCHANGED <<cache, restarts, faults>>
      <4>1. TakeUp(w, "put", u, "get") \/ TakeUp(w, "delete", u, "pop")
        BY <2>3 DEF Put, Delete
      <4>2. UNCHANGED <<cache, restarts, faults>>
        BY <2>3 DEF Put, Delete
      <4> QED BY <4>1, <4>2, WorkBegins
    <3>2. \A v \in Users : cred'[v] # None => cred'[v].id <= ids'
      <4>1. CASE Delete(w, u)
        BY <4>1, <1>0 DEF Delete
      <4>2. CASE Put(w, u)
        <5>1. PICK kind \in Kinds : cred' = [cred EXCEPT ![u] = StoredCred(kind)]
          BY <4>2 DEF Put
        <5>2. ids' = ids + 1 /\ StoredCred(kind).id = ids + 1
          BY <4>2 DEF Put, StoredCred
        <5>3. \A v \in Users : cred[v] # None => cred[v].id \in Nat /\ cred[v].id <= ids
          BY <1>0 DEF Creds
        <5> HIDE DEF StoredCred
        <5> QED BY <1>0, <5>1, <5>2, <5>3
      <4> QED BY <2>3, <4>1, <4>2
    <3> QED BY <1>0, <1>a, <1>t, <3>1, <3>2 DEF WorkInv
  <2> QED BY <1>5, <2>1, <2>2, <2>3
<1> QED BY <1>1, <1>2, <1>3, <1>4, <1>5, <1>t DEF HealthNext, Sweep, Request, Proceed

-----------------------------------------------------------------------------
\* The cached health is right if there is one and what it says is so.
LEMMA RightIs ==
  ASSUME NEW u, cred[u] # None
  PROVE  Right(u) <=> cache[u] # None /\ Sound(cache[u], u)
<1> DEFINE works == Usable(u) # None /\ cred[u].id \notin dead
<1>1. Sound(cache[u], u) <=> cache[u].valid = works /\ (works => cache[u].reason # "decrypt_failed")
  BY DEF Sound, Works
<1>2. Right(u) <=> cache[u] # None /\ cache[u].valid = works /\ (Availability(u) = "ok") = works
  BY DEF Right, Works
<1>3. ASSUME cache[u] # None, Usable(u) # None
      PROVE  Availability(u) = IF cache[u].reason = "decrypt_failed" THEN "decrypt_failed"
                               ELSE IF cache[u].valid THEN "ok" ELSE "invalid"
  BY <1>3 DEF Availability
<1>4. Usable(u) = None => Availability(u) = "not_configured"
  BY DEF Availability
<1> QED BY <1>1, <1>2, <1>3, <1>4

\* The same, of the state after a step.
LEMMA RightIsNext ==
  ASSUME NEW u, cred'[u] # None
  PROVE  Right(u)' <=> cache'[u] # None /\ Sound(cache[u], u)'
<1> DEFINE works == Usable(u)' # None /\ cred'[u].id \notin dead'
<1>1. Sound(cache[u], u)' <=> cache'[u].valid = works /\ (works => cache'[u].reason # "decrypt_failed")
  BY DEF Sound, Works
<1>2. Right(u)' <=> cache'[u] # None /\ cache'[u].valid = works /\ (Availability(u)' = "ok") = works
  BY DEF Right, Works
<1>3. ASSUME cache'[u] # None, Usable(u)' # None
      PROVE  Availability(u)' = IF cache'[u].reason = "decrypt_failed" THEN "decrypt_failed"
                                ELSE IF cache'[u].valid THEN "ok" ELSE "invalid"
  BY <1>3 DEF Availability
<1>4. Usable(u)' = None => Availability(u)' = "not_configured"
  BY DEF Availability
<1> QED BY <1>1, <1>2, <1>3, <1>4

\* With the key and the credential of u, what works and agrees does so on.
LEMMA LeftFacts ==
  ASSUME NEW u, LeftAlone(u), encKey' = encKey
  PROVE  /\ Usable(u)' = Usable(u) /\ Works(u)' = Works(u)
         /\ HasVerdict(u) => HasVerdict(u)'
         /\ \A v : Sound(v, u) => Sound(v, u)'
         /\ \A w : Agrees(w, u) => Agrees(w, u)'
<1>1. Usable(u)' = Usable(u)
  BY DEF LeftAlone, Usable, Opens
<1>2. Works(u)' = Works(u)
  BY <1>1 DEF LeftAlone, Works
<1>3. HasVerdict(u) => HasVerdict(u)'
  BY <1>1 DEF LeftAlone, HasVerdict
<1>4. \A v : Sound(v, u) => Sound(v, u)'
  BY <1>2 DEF Sound
<1>5. \A w : Agrees(w, u) => Agrees(w, u)'
  BY <1>1, <1>2, <1>4 DEF Agrees
<1> QED BY <1>1, <1>2, <1>3, <1>4, <1>5

\* A verdict that is so may be cached while all work agrees.
LEMMA HealthHolds ==
  ASSUME NEW u \in Users, Healed(u), LeftAlone(u), encKey' = encKey,
         cache'[u] = cache[u] \/ (cache'[u] \in Verdicts /\ Sound(cache'[u], u)),
         \A s \in Threads : Agrees(run'[s], u)
  PROVE  Healed(u)'
<1>1. cred[u] # None /\ cred'[u] # None
  BY DEF Healed, HasVerdict, LeftAlone
<1>2. cache[u] # None /\ Sound(cache[u], u)
  BY <1>1, RightIs DEF Healed
<1>3. cache'[u] # None /\ Sound(cache'[u], u)
  BY <1>2, NoneAssumption DEF Verdicts
<1>4. Sound(cache[u], u)'
  <2>1. Works(u)' = Works(u)
    BY LeftFacts
  <2> QED BY <1>3, <2>1 DEF Sound
<1>5. Right(u)' /\ HasVerdict(u)'
  BY <1>1, <1>3, <1>4, RightIsNext, LeftFacts DEF Healed
<1>6. ASSUME NEW s \in Threads PROVE Agrees(run[s], u)'
  <2>1. /\ Usable(u)' = Usable(u) /\ Works(u)' = Works(u)
    BY LeftFacts
  <2> QED BY <2>1 DEF Agrees, Sound
<1> QED BY <1>5, <1>6 DEF Healed

\* So one thread may go on with work that agrees.
LEMMA HealthKept ==
  ASSUME WorkInv, NEW u \in Users, Healed(u), LeftAlone(u), encKey' = encKey,
         cache'[u] = cache[u] \/ (cache'[u] \in Verdicts /\ Sound(cache'[u], u)),
         NEW t, NEW w, run' = [run EXCEPT ![t] = w], Agrees(w, u)
  PROVE  Healed(u)'
<1>1. ASSUME NEW s \in Threads PROVE Agrees(run'[s], u)
  <2>1. DOMAIN run = Threads /\ Agrees(run[s], u)
    BY DEF WorkInv, Healed
  <2> QED BY <2>1
<1> QED BY <1>1, HealthHolds

\* A step of a thread keeps the health of u right: it caches only what is so, and
\* its work goes on agreeing.
LEMMA ThreadKeepsHealth ==
  ASSUME WorkInv, NEW u \in Users, Healed(u), LeftAlone(u),
         NEW t \in Threads, Evaluate(t) \/ Note(t) \/ JobAuthFails(t) \/ JobEnds(t)
  PROVE  Healed(u)'
<1> DEFINE w == run[t]
<1>0. encKey' = encKey
  BY WorkGoes
<1>1. /\ WorkFits(w) /\ Agrees(w, u) /\ cred[u] # None /\ faults \in Nat /\ faults' = faults
      /\ ~(Usable(u) # None /\ cred[u].kind = "api_key" /\ cred[u].id \in dead)
      /\ Usable(u) # None => Usable(u) = cred[u]
      /\ DOMAIN cache = Users
  BY DEF WorkInv, Healed, LeftAlone, HasVerdict, Usable
<1>n. Agrees(None, u)
  BY DEF Agrees
\* The work goes on with the step s.
<1>a. ASSUME NEW s, w # None, run' = [run EXCEPT ![t].at = s], cache' = cache,
             Agrees([op |-> w.op, user |-> w.user, at |-> s, cred |-> w.cred, verdict |-> w.verdict], u)
      PROVE  Healed(u)'
  <2>1. run' = [run EXCEPT ![t] = [w EXCEPT !.at = s]]
    BY <1>a
  <2>2. Agrees([w EXCEPT !.at = s], u)
    BY <1>1, <1>a, StepFits
  <2> HIDE DEF w
  <2> QED BY <1>0, <1>a, <2>1, <2>2, HealthKept
\* The work has a verdict to write.
<1>s. ASSUME NEW v \in BOOLEAN, NEW r \in {"api_key", "ok", "verify_failed", "decrypt_failed"},
             w # None, Settle(t, v, r), cache' = cache,
             w.user = u => Sound([valid |-> v, reason |-> r], u)
      PROVE  Healed(u)'
  <2> DEFINE x == [valid |-> v, reason |-> r]
  <2>0. x \in Verdicts
    BY DEF Verdicts
  <2>1. run' = [run EXCEPT ![t] = [w EXCEPT !.at = "write", !.verdict = x]]
    BY <1>s DEF Settle
  <2>2. [w EXCEPT !.at = "write", !.verdict = x] =
          [op |-> w.op, user |-> w.user, at |-> "write", cred |-> w.cred, verdict |-> x]
    BY <1>1, <1>s, <2>0, VerdictFits
  <2>3. w.user = u => Sound(x, u)
    BY <1>s
  <2> HIDE DEF x, w
  <2>4. Agrees([op |-> w.op, user |-> w.user, at |-> "write", cred |-> w.cred, verdict |-> x], u)
    BY <2>3 DEF Agrees
  <2>5. Agrees([w EXCEPT !.at = "write", !.verdict = x], u)
    BY <2>2, <2>4
  <2> QED BY <1>0, <1>s, <2>1, <2>5, HealthKept
\* The work is over.
<1>f. ASSUME w # None, Finish(t), cache'[u] = cache[u] \/ (cache'[u] \in Verdicts /\ Sound(cache'[u], u))
      PROVE  Healed(u)'
  <2>1. CASE run' = [run EXCEPT ![t] = None]
    BY <1>0, <1>f, <1>n, <2>1, HealthKept
  <2>2. CASE run' = [run EXCEPT ![t] = [w EXCEPT !.at = "note"]]
    <3>1. [w EXCEPT !.at = "note"] = [op |-> w.op, user |-> w.user, at |-> "note", cred |-> w.cred, verdict |-> w.verdict]
      BY <1>1, <1>f, StepFits
    <3> HIDE DEF w
    <3>2. Agrees([op |-> w.op, user |-> w.user, at |-> "note", cred |-> w.cred, verdict |-> w.verdict], u)
      BY DEF Agrees
    <3>3. Agrees([w EXCEPT !.at = "note"], u)
      BY <3>1, <3>2
    <3> QED BY <1>0, <1>f, <2>2, <3>3, HealthKept
  <2> QED BY <1>f, <2>1, <2>2 DEF Finish
<1>2. CASE ReadType(t)
  <2>0. w # None /\ w.at = "type" /\ cache' = cache /\ w.op # "put"
    BY <1>1, <1>2 DEF ReadType, On, WorkFits
  <2>1. \/ run' = [run EXCEPT ![t].at = "pop"] /\ w.user # u
        \/ run' = [run EXCEPT ![t].at = "get"]
    BY <1>1, <1>2 DEF ReadType
  <2>2. CASE run' = [run EXCEPT ![t].at = "pop"] /\ w.user # u
    <3>1. Agrees([op |-> w.op, user |-> w.user, at |-> "pop", cred |-> w.cred, verdict |-> w.verdict], u)
      BY <2>2 DEF Agrees
    <3> QED BY <1>a, <2>0, <2>2, <3>1
  <2>3. CASE run' = [run EXCEPT ![t].at = "get"]
    <3>1. Agrees([op |-> w.op, user |-> w.user, at |-> "get", cred |-> w.cred, verdict |-> w.verdict], u)
      BY <2>0 DEF Agrees
    <3> QED BY <1>a, <2>0, <2>3, <3>1
  <2> QED BY <2>1, <2>2, <2>3
<1>3. CASE ReadCred(t)
  <2> DEFINE c == Usable(w.user)
  <2>0. w # None /\ w.at = "get" /\ cache' = cache
    BY <1>3 DEF ReadCred, On
  <2>1. CASE c = None /\ w.op = "put" /\ run' = [run EXCEPT ![t].at = "pop"]
    <3>1. w.user # u
      BY <1>1, <2>0, <2>1 DEF Agrees
    <3>2. Agrees([op |-> w.op, user |-> w.user, at |-> "pop", cred |-> w.cred, verdict |-> w.verdict], u)
      BY <3>1 DEF Agrees
    <3> QED BY <1>a, <2>0, <2>1, <3>2
  <2>2. CASE c = None /\ run' = [run EXCEPT ![t].at = "recheck"]
    <3>1. Agrees([op |-> w.op, user |-> w.user, at |-> "recheck", cred |-> w.cred, verdict |-> w.verdict], u)
      BY <2>2 DEF Agrees
    <3> QED BY <1>a, <2>0, <2>2, <3>1
  <2>3. CASE c # None /\ c.kind = "api_key" /\ Settle(t, TRUE, "api_key")
    <3>1. w.user = u => Works(u)
      BY <1>1, <2>3 DEF Works
    <3>2. w.user = u => Sound([valid |-> TRUE, reason |-> "api_key"], u)
      BY <3>1 DEF Sound
    <3> QED BY <1>s, <2>0, <2>3, <3>2
  <2>4. CASE c # None /\ run' = [run EXCEPT ![t].at = "ping", ![t].cred = c]
    <3>1. run' = [run EXCEPT ![t] = [w EXCEPT !.at = "ping", !.cred = c]]
      BY <2>4
    <3>2. [w EXCEPT !.at = "ping", !.cred = c] =
            [op |-> w.op, user |-> w.user, at |-> "ping", cred |-> c, verdict |-> w.verdict]
      BY <1>1, <2>0, CredFits
    <3>3. c # None /\ (w.user = u => c = Usable(u))
      BY <2>4
    <3> HIDE DEF c, w
    <3>4. Agrees([op |-> w.op, user |-> w.user, at |-> "ping", cred |-> c, verdict |-> w.verdict], u)
      BY <3>3 DEF Agrees
    <3>5. Agrees([w EXCEPT !.at = "ping", !.cred = c], u)
      BY <3>2, <3>4
    <3> QED BY <1>0, <2>0, <3>1, <3>5, HealthKept
  <2>5. \/ c = None /\ w.op = "put" /\ run' = [run EXCEPT ![t].at = "pop"]
        \/ c = None /\ run' = [run EXCEPT ![t].at = "recheck"]
        \/ c # None /\ c.kind = "api_key" /\ Settle(t, TRUE, "api_key")
        \/ c # None /\ run' = [run EXCEPT ![t].at = "ping", ![t].cred = c]
    BY <1>3 DEF ReadCred
  <2> QED BY <2>1, <2>2, <2>3, <2>4, <2>5
<1>4. CASE Recheck(t)
  <2>0. w # None /\ w.at = "recheck" /\ cache' = cache
    BY <1>4 DEF Recheck, On
  <2>1. CASE cred[w.user] = None /\ run' = [run EXCEPT ![t].at = "pop"]
    <3>1. Agrees([op |-> w.op, user |-> w.user, at |-> "pop", cred |-> w.cred, verdict |-> w.verdict], u)
      BY <1>1, <2>1 DEF Agrees
    <3> QED BY <1>a, <2>0, <2>1, <3>1
  <2>2. CASE Settle(t, FALSE, "decrypt_failed")
    <3>1. w.user = u => ~Works(u)
      BY <1>1, <2>0 DEF Agrees, Works
    <3>2. w.user = u => Sound([valid |-> FALSE, reason |-> "decrypt_failed"], u)
      BY <3>1 DEF Sound, Works
    <3> QED BY <1>s, <2>0, <2>2, <3>2
  <2> QED BY <1>4, <2>1, <2>2 DEF Recheck
<1>5. CASE Ping(t)
  <2> DEFINE c == w.cred
  <2>0. w # None /\ w.at = "ping" /\ cache' = cache
    BY <1>5 DEF Ping, On
  <2>1. w.user = u => c = cred[u] /\ Usable(u) # None
    BY <1>1, <2>0 DEF Agrees
  <2>2. CASE c.id \notin dead /\ (Settle(t, TRUE, "api_key") \/ Settle(t, TRUE, "ok"))
    <3>1. w.user = u => Works(u)
      BY <2>1, <2>2 DEF Works
    <3>2. w.user = u => Sound([valid |-> TRUE, reason |-> "api_key"], u) /\ Sound([valid |-> TRUE, reason |-> "ok"], u)
      BY <3>1 DEF Sound
    <3>3. CASE Settle(t, TRUE, "api_key")
      BY <1>s, <2>0, <3>2, <3>3
    <3>4. CASE Settle(t, TRUE, "ok")
      BY <1>s, <2>0, <3>2, <3>4
    <3> QED BY <2>2, <3>3, <3>4
  <2>3. CASE c.id \in dead /\ Settle(t, FALSE, "verify_failed")
    <3>1. w.user = u => ~Works(u)
      BY <2>1, <2>3 DEF Works
    <3>2. w.user = u => Sound([valid |-> FALSE, reason |-> "verify_failed"], u)
      BY <3>1 DEF Sound, Works
    <3> QED BY <1>s, <2>0, <2>3, <3>2
  <2>4. \/ c.id \notin dead /\ (Settle(t, TRUE, "api_key") \/ Settle(t, TRUE, "ok"))
        \/ c.id \in dead /\ Settle(t, FALSE, "verify_failed")
    <3>1. \/ c.id \notin dead /\ (Settle(t, TRUE, "api_key") \/ Settle(t, TRUE, "ok"))
          \/ (c.id \in dead \/ faults' = faults + 1) /\ Settle(t, FALSE, "verify_failed")
      BY <1>5 DEF Ping
    <3>2. faults' # faults + 1
      BY <1>1
    <3> QED BY <3>1, <3>2
  <2> QED BY <2>2, <2>3, <2>4
<1>6. CASE Write(t)
  <2>0. w # None /\ w.at = "write" /\ Finish(t) /\ cache' = [cache EXCEPT ![w.user] = w.verdict]
    BY <1>6 DEF Write, On
  <2>1. w.verdict \in Verdicts /\ (w.user = u => Sound(w.verdict, u))
    BY <1>1, <2>0 DEF WorkFits, Agrees
  <2>2. cache'[u] = cache[u] \/ (cache'[u] \in Verdicts /\ Sound(cache'[u], u))
    BY <1>1, <2>0, <2>1
  <2> QED BY <1>f, <2>0, <2>2
<1>7. CASE Pop(t)
  <2>0. w # None /\ w.at = "pop" /\ Finish(t) /\ cache' = [cache EXCEPT ![w.user] = None]
    BY <1>7 DEF Pop, On
  <2>1. w.user # u
    BY <1>1, <2>0 DEF Agrees
  <2> QED BY <1>f, <2>0, <2>1
<1>8. CASE JobAuthFails(t)
  <2> DEFINE x == [valid |-> FALSE, reason |-> "verify_failed"]
  <2>0. /\ w # None /\ w.at = "job" /\ run' = [run EXCEPT ![t] = None]
        /\ w.cred # None => w.cred.id \in dead
        /\ cache' = [cache EXCEPT ![w.user] = x]
    BY <1>8 DEF JobAuthFails, On
  <2>1. w.user = u => ~Works(u)
    BY <1>1, <2>0 DEF Agrees, Works
  <2>2. x \in Verdicts /\ (w.user = u => Sound(x, u))
    BY <2>1 DEF Sound, Works, Verdicts
  <2> HIDE DEF x
  <2>3. cache'[u] = cache[u] \/ (cache'[u] \in Verdicts /\ Sound(cache'[u], u))
    BY <1>1, <2>0, <2>2
  <2> QED BY <1>0, <1>n, <2>0, <2>3, HealthKept
<1>9. CASE Raise(t) \/ Note(t) \/ JobEnds(t)
  <2>1. run' = [run EXCEPT ![t] = None] /\ cache' = cache
    BY <1>9 DEF Raise, Note, JobEnds
  <2> QED BY <1>0, <1>n, <2>1, HealthKept
<1> QED BY <1>2, <1>3, <1>4, <1>5, <1>6, <1>7, <1>8, <1>9 DEF Evaluate

\* A step that leaves the credential of u alone leaves its health right.
LEMMA HealthStays ==
  ASSUME WorkInv, NEW u \in Users, Healed(u), LeftAlone(u), [HealthNext]_healthVars
  PROVE  Healed(u)'
<1>0. /\ cred[u] # None /\ cred'[u] = cred[u] /\ cred[u].id \in Nat /\ cred[u].id <= ids /\ ids \in Nat
      /\ cred \in [Users -> Creds \cup {None}] /\ restarts \in Nat /\ restarts' = restarts
  BY DEF Healed, HasVerdict, WorkInv, SealInv, LeftAlone, Creds
<1>t. Sweeper \in Threads /\ \A w \in Workers : w \in Threads
  BY DEF Threads
\* No thread does anything that matters.
<1>a. ASSUME cache' = cache, run' = run, encKey' = encKey
      PROVE  Healed(u)'
  <2>1. \A s \in Threads : Agrees(run'[s], u)
    BY <1>a DEF Healed
  <2> QED BY <1>a, <2>1, HealthHolds
\* A thread begins with something else than dropping the health of u.
<1>b. ASSUME NEW t, NEW op, NEW v, NEW at, TakeUp(t, op, v, at), cache' = cache, encKey' = encKey,
             at = "type" \/ (v # u /\ at \in {"get", "pop"})
      PROVE  Healed(u)'
  <2> DEFINE w == [op |-> op, user |-> v, at |-> at, cred |-> None, verdict |-> None]
  <2>1. run' = [run EXCEPT ![t] = w]
    BY <1>b DEF TakeUp
  <2>2. Agrees(w, u)
    BY <1>b DEF Agrees
  <2> HIDE DEF w
  <2> QED BY <1>b, <2>1, <2>2, HealthKept
<1>1. ASSUME NEW t \in Threads, Evaluate(t) \/ Note(t) \/ JobAuthFails(t) \/ JobEnds(t)
      PROVE  Healed(u)'
  BY <1>1, ThreadKeepsHealth
<1>2. CASE SweepStart \/ CooldownEnds \/ Expire \/ UNCHANGED healthVars
  BY <1>2, <1>a DEF SweepStart, CooldownEnds, Expire, healthVars
<1>3. CASE SweepUser
  <2>1. PICK v \in left : TakeUp(Sweeper, "sweep", v, "type")
    BY <1>3 DEF SweepUser
  <2>2. cache' = cache /\ encKey' = encKey
    BY <1>3 DEF SweepUser
  <2> QED BY <1>b, <2>1, <2>2
<1>4. CASE ProcessRestart
  BY <1>0, <1>4 DEF ProcessRestart
<1>5. ASSUME NEW w \in Workers, NEW v \in Users, VerifyCred(w, v)
      PROVE  Healed(u)'
  <2>1. TakeUp(w, "verify", v, "type") /\ cache' = cache /\ encKey' = encKey
    BY <1>5 DEF VerifyCred
  <2> QED BY <1>b, <2>1
<1>6. ASSUME NEW w \in Workers, NEW v \in Users, Put(w, v)
      PROVE  Healed(u)'
  <2>1. TakeUp(w, "put", v, "get") /\ cache' = cache /\ encKey' = encKey
    BY <1>6 DEF Put
  <2>2. PICK kind \in Kinds : cred' = [cred EXCEPT ![v] = StoredCred(kind)]
    BY <1>6 DEF Put
  <2>3. StoredCred(kind).id = ids + 1
    BY DEF StoredCred
  <2>4. v # u
    <3> HIDE DEF StoredCred
    <3> QED BY <1>0, <2>2, <2>3
  <2> QED BY <1>b, <2>1, <2>4
<1>7. ASSUME NEW w \in Workers, NEW v \in Users, Delete(w, v)
      PROVE  Healed(u)'
  <2>1. TakeUp(w, "delete", v, "pop") /\ cache' = cache /\ encKey' = encKey
    BY <1>7 DEF Delete
  <2>2. v # u
    BY <1>0, <1>7 DEF Delete
  <2> QED BY <1>b, <2>1, <2>2
<1>8. ASSUME NEW w \in Workers, NEW v \in Users, JobStart(w, v)
      PROVE  Healed(u)'
  <2> DEFINE x == [op |-> "job", user |-> v, at |-> "job", cred |-> Usable(v), verdict |-> None]
  <2>1. run' = [run EXCEPT ![w] = x] /\ cache' = cache /\ encKey' = encKey
    BY <1>8 DEF JobStart
  <2>2. Agrees(x, u)
    BY DEF Agrees
  <2> HIDE DEF x
  <2> QED BY <2>1, <2>2, HealthKept
<1>9. CASE Sweep
  BY <1>1, <1>2, <1>3, <1>9, <1>t DEF Sweep
<1>10. ASSUME NEW w \in Workers, Request(w) \/ Proceed(w)
       PROVE  Healed(u)'
  BY <1>1, <1>5, <1>6, <1>7, <1>8, <1>10, <1>t DEF Request, Proceed
<1> QED BY <1>2, <1>4, <1>9, <1>10 DEF HealthNext

\* The cached health of a user, once right and with no work under way that
\* spoils it, stays right while the credential is left alone, whatever the sweep,
\* verify, PUT, DELETE and jobs do (_claude_cred_health).
THEOREM VerdictsStayRight == HealthSpec => RightStaysRight
<1>1. HealthInit => WorkInv
  BY DEF HealthInit, WorkInv, SealInv, WorkFits
<1>2. WorkInv /\ [HealthNext]_healthVars => (\A u \in Users : Healed(u) /\ LeftAlone(u) => Healed(u)')
  BY HealthStays
<1> QED BY <1>1, <1>2, WorkNext, PTL DEF HealthSpec, RightStaysRight
=============================================================================
