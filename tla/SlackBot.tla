------------------------------- MODULE SlackBot -------------------------------
(***************************************************************************)
(* The dialogue in which users of one Slack thread hand in requirements    *)
(* (slack_bot/bot.py, handlers.py, conversation.py, lbnote_client.py).     *)
(*                                                                         *)
(* Slack delivers a post as app_mention, as message, or as both, and bolt  *)
(* runs a handler for each on a pool of threads.  The table of             *)
(* conversations has one entry per thread, under a lock that a handler     *)
(* holds for one access at a time; between the accesses it calls Slack and *)
(* the server, which may fail before or after they stored anything.        *)
(***************************************************************************)
EXTENDS Naturals, Sequences, FiniteSets, TLC

CONSTANTS
  Users,
  Pool,    \* threads of the bot that handle events
  Nil

\* What a post says, once its mention is taken off: the requirement command
\* alone or with a text, "yes", other words, nothing.
Kinds == {"call", "callWith", "yes", "words", "blank"}

Answers == {"prompt", "more", "end", "error"}

Steps == {"route", "start", "reply", "again", "close", "save", "ask"} \cup Answers

\* What a thread of the pool does about an event; "-": the text is no longer asked for.
Handler == [user : Users, at : Steps, says : Kinds \cup {"-"}, inThread : BOOLEAN]

ASSUME NoHandlerAssumption == Nil \notin Handler

VARIABLES
  subscribed,  \* the app also receives the messages of the channel
  convo,       \* the thread's entry in _convos; old: its TTL has passed
  job,         \* what each thread of the pool does, Nil for nothing
  asked,       \* history: what the bot last said to a user who is not muddled
  muddled      \* history: users with two handlers at a time since their last call

vars == <<subscribed, convo, job, asked, muddled>>

Init ==
  /\ subscribed \in BOOLEAN /\ convo = Nil /\ job = [t \in Pool |-> Nil]
  /\ asked = [u \in Users |-> "nothing"] /\ muddled = {}

At(t, step) == job[t] # Nil /\ job[t].at = step

ThreadsOf(u) == {t \in Pool : job[t] # Nil /\ job[t].user = u}

Symmetry == Permutations(Pool) \cup Permutations(Users)

-----------------------------------------------------------------------------
(* The table of conversations.                                             *)

Swept == IF convo # Nil /\ convo.old THEN Nil ELSE convo

\* get: an entry of another user is none.
Get(u) == IF Swept # Nil /\ Swept.user = u THEN Swept.state ELSE "none"

\* set_state sweeps nothing, and makes an entry of its owner fresh again.
InState(u, state) ==
  IF convo # Nil /\ convo.user = u THEN [user |-> u, state |-> state, old |-> FALSE] ELSE convo

Age ==
  /\ convo # Nil /\ ~convo.old /\ convo' = [convo EXCEPT !.old = TRUE]
  /\ UNCHANGED <<subscribed, job, asked, muddled>>

-----------------------------------------------------------------------------
(* Events and their handlers.                                              *)

Event(u, step, says, inThread) == [user |-> u, at |-> step, says |-> says, inThread |-> inThread]

\* In a reply a command is a text like any other.
AsReply(says) == IF says \in {"yes", "blank"} THEN says ELSE "words"

Events(u, says, mention, inThread) ==
  (IF mention THEN {Event(u, "route", says, inThread)} ELSE {}) \cup
  (IF inThread /\ subscribed THEN {Event(u, "reply", AsReply(says), TRUE)} ELSE {})

\* A thread begins with a mention of the bot or with something else; a post is
\* a mention, a reply below its root, or both, and its events are handled at
\* the same time.
Post(u, says, mention, inThread) ==
  LET events == Events(u, says, mention, inThread) IN
  /\ events # {}
  /\ \E f \in [events -> {t \in Pool : job[t] = Nil}] :
       /\ \A d, e \in events : f[d] = f[e] => d = e
       /\ job' = [t \in Pool |-> IF \E e \in events : f[e] = t
                                 THEN CHOOSE e \in events : f[e] = t ELSE job[t]]
  /\ IF ThreadsOf(u) # {} \/ Cardinality(events) > 1
     THEN muddled' = muddled \cup {u} /\ asked' = [asked EXCEPT ![u] = "nothing"]
     ELSE UNCHANGED <<muddled, asked>>
  /\ UNCHANGED <<subscribed, convo>>

\* With a step of Answers the handler is about to say that.
Goto(t, step) == job' = [job EXCEPT ![t].at = step, ![t].says = "-", ![t].inThread = TRUE]

Over(t) == job' = [job EXCEPT ![t] = Nil]

\* _route_mention and dispatch: an answer of the dialogue or a command; what is
\* no command of the dialogue is answered by the others, which leave it alone.
Route(t) ==
  LET u == job[t].user
      replies == job[t].inThread /\ Get(u) # "none" IN
  /\ At(t, "route")
  /\ convo' = IF job[t].inThread THEN Swept ELSE convo
  /\ \/ replies /\ job' = [job EXCEPT ![t].at = "reply", ![t].says = AsReply(@)]
     \/ ~replies /\ job[t].says \in {"call", "callWith"} /\ job' = [job EXCEPT ![t].at = "start"]
     \/ ~replies /\ job[t].says \in {"yes", "words", "blank"} /\ Over(t)
  /\ UNCHANGED <<subscribed, asked, muddled>>

\* requirement_start.
Start(t) ==
  LET u == job[t].user IN
  /\ At(t, "start")
  /\ convo' = [user |-> u, state |-> "awaiting_text", old |-> FALSE]
  /\ muddled' = IF ThreadsOf(u) = {t} THEN muddled \ {u} ELSE muddled
  /\ IF job[t].says = "callWith" THEN Goto(t, "save") ELSE Goto(t, "prompt")
  /\ UNCHANGED <<subscribed, asked>>

\* requirement_reply up to what it does about the state it found.
Reply(t) ==
  LET state == Get(job[t].user) IN
  /\ At(t, "reply") /\ convo' = Swept
  /\ \/ state = "none" /\ Over(t)
     \/ state = "awaiting_more" /\ Goto(t, IF job[t].says = "yes" THEN "again" ELSE "close")
     \/ state = "awaiting_text" /\ job[t].says = "blank" /\ Goto(t, "prompt")
     \/ state = "awaiting_text" /\ job[t].says # "blank" /\ Goto(t, "save")
  /\ UNCHANGED <<subscribed, asked, muddled>>

Again(t) ==
  /\ At(t, "again") /\ convo' = InState(job[t].user, "awaiting_text") /\ Goto(t, "prompt")
  /\ UNCHANGED <<subscribed, asked, muddled>>

\* clear does not ask whose entry it takes.
Close(t) ==
  /\ At(t, "close") /\ convo' = Nil /\ Goto(t, "end")
  /\ UNCHANGED <<subscribed, asked, muddled>>

\* _request: what is no answer of status 2xx is a failure, a refusal as well as
\* a timeout after the server has stored the post.
Outcomes == {"answered", "failed"}

\* Variant: the state moves on before the outcome of the call is known.
SaveAndMoveOn(t, outcome) ==
  /\ At(t, "save") /\ convo' = InState(job[t].user, "awaiting_more")
  /\ IF outcome = "answered" THEN Goto(t, "ask") ELSE Goto(t, "error")
  /\ UNCHANGED <<subscribed, asked, muddled>>

\* _save_and_ask_more: after a failure the conversation keeps its state.
Save(t, outcome) ==
  /\ At(t, "save") /\ IF outcome = "answered" THEN Goto(t, "ask") ELSE Goto(t, "error")
  /\ UNCHANGED <<subscribed, convo, asked, muddled>>

Ask(t) ==
  /\ At(t, "ask") /\ convo' = InState(job[t].user, "awaiting_more") /\ Goto(t, "more")
  /\ UNCHANGED <<subscribed, asked, muddled>>

Answer(t) ==
  /\ job[t] # Nil /\ job[t].at \in Answers /\ Over(t)
  /\ asked' = IF job[t].user \in muddled THEN asked ELSE [asked EXCEPT ![job[t].user] = job[t].at]
  /\ UNCHANGED <<subscribed, convo, muddled>>

Next ==
  \/ \E u \in Users, says \in Kinds, mention, inThread \in BOOLEAN : Post(u, says, mention, inThread)
  \/ \E t \in Pool :
       \/ Route(t) \/ Start(t) \/ Reply(t) \/ Again(t) \/ Close(t) \/ Ask(t) \/ Answer(t)
       \/ \E outcome \in Outcomes : Save(t, outcome)
  \/ Age

Spec == Init /\ [][Next]_vars

-----------------------------------------------------------------------------
\* The state of a conversation is the one its owner was told of: a text is
\* taken for "no more" only from a user who was asked whether there is more,
\* and for a requirement only from one who was asked for it - also after a
\* call that failed, and whatever others do in the thread.  It holds for a user
\* who waits for the bot and whose posts are delivered once.
AskedIsExpected ==
  \A u \in Users \ muddled :
    convo # Nil /\ convo.user = u /\ ThreadsOf(u) = {} =>
      asked[u] \in IF convo.state = "awaiting_more" THEN {"more"} ELSE {"prompt", "error"}
=============================================================================
