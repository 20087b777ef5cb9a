------------------------------ MODULE BotCommands ------------------------------
(***************************************************************************)
(* The commands of the Slack bot that are no dialogue (handlers.py,        *)
(* lbnote_client.py): a user resets its own password, hands in a           *)
(* requirement by a slash command, reads the notice, and broadcasts it if  *)
(* it is an administrator; with the tables of the server they go to and    *)
(* the console that edits them meanwhile (app.py, store.py, auth.py).      *)
(*                                                                         *)
(* The bot waits ten seconds for an answer.  A call it gave up may be      *)
(* served afterwards, and a call it was answered may never be told of:     *)
(* Slack fails too, and the bot may stop at any step.                      *)
(***************************************************************************)
EXTENDS SlackBot

\* Bounds: calls that write, notices, and commands handled at the same time.
CONSTANTS MaxCalls, MaxNotices, MaxBusy

ASSUME BotBoundsAssumption == {MaxCalls, MaxNotices, MaxBusy} \subseteq Nat

\* A command about an account, from its call to what is said of it.
AccountCommand == [at : {"waiting", "message", "done", "absent", "failed"}, call : Nat]

ASSUME NilAssumption == Nil \notin AccountCommand

VARIABLES
  side,     \* what this behaviour is about: "dialogue", "accounts" or "notices"
  clerk,    \* whether the account the bot acts as, "admin", may act
  role,     \* role of the account named by each user's address, or "none"
  pw,       \* the call that set its password, 0 for one it chose or was handed
  calls,    \* the calls of the server that write, in the order they were made
  notices,  \* each by its number: "active", "hidden" or "gone"
  cmd,      \* the command each thread of the pool handles
  post      \* the last broadcast

commands == <<side, clerk, role, pw, calls, notices, cmd, post>>

CommandsInit ==
  /\ Init /\ side \in {"dialogue", "accounts", "notices"} /\ (subscribed => side = "dialogue")
  /\ clerk \in IF side = "dialogue" THEN {TRUE} ELSE BOOLEAN
  /\ role \in IF side = "dialogue" THEN {[u \in Users |-> "user"]} ELSE [Users -> {"user", "admin"}]
  /\ pw = [u \in Users |-> 0]
  /\ calls = <<>> /\ notices = <<>> /\ cmd = [t \in Pool |-> Nil] /\ post = Nil

CommandAt(t, step) == cmd[t] # Nil /\ cmd[t].at = step

Step(t, step) == cmd' = [cmd EXCEPT ![t].at = step]

Idle(t) == cmd' = [cmd EXCEPT ![t] = Nil]

Active(table) == {i \in DOMAIN table : table[i] = "active"}

\* A command starts.  In a channel that is not allowed, without an address in
\* the profile and without a text it ends at once, and nothing has changed.
Take(t, command) ==
  /\ cmd[t] = Nil /\ Cardinality({s \in Pool : cmd[s] # Nil}) < MaxBusy
  /\ cmd' = [cmd EXCEPT ![t] = command]

-----------------------------------------------------------------------------
(* The two commands that write: a reset and a requirement.                 *)

Call(t, u, op) ==
  /\ Len(calls) < MaxCalls
  /\ Take(t, [at |-> "waiting", call |-> Len(calls) + 1])
  /\ calls' = Append(calls, [op |-> op, user |-> u, got |-> "sent", dm |-> FALSE, told |-> "-"])
  /\ UNCHANGED <<side, clerk, role, pw, notices, post>>

\* handle_reset and requirement_start without a thread.
Reset(t, u) == Call(t, u, "reset")

Submit(t, u) == Call(t, u, "requirement")

\* The token of a call that waits too long has expired.  For a requirement no
\* account is asked; for a reset the account "admin" has to be in order.
MayWrite(c, expired) == ~expired /\ (c.op = "requirement" \/ clerk)

Served(c, expired) ==
  CASE ~MayWrite(c, expired) -> "refused"
    [] c.op = "reset" /\ role[c.user] = "none" -> "absent"
    [] OTHER -> "stored"

Serve(k, expired) ==
  /\ calls[k].got = "sent"
  /\ LET got == Served(calls[k], expired) IN
     /\ calls' = [calls EXCEPT ![k].got = got]
     /\ pw' = IF got = "stored" /\ calls[k].op = "reset"
              THEN [pw EXCEPT ![calls[k].user] = k] ELSE pw
  /\ UNCHANGED <<side, clerk, role, notices, cmd, post>>

\* _request: no answer in time, or no server.
GiveUp(t) ==
  /\ CommandAt(t, "waiting") /\ Step(t, "failed")
  /\ UNCHANGED <<side, clerk, role, pw, calls, notices, post>>

Receive(t) ==
  LET c == calls[cmd[t].call] IN
  /\ CommandAt(t, "waiting")
  /\ \/ c.got = "refused" /\ Step(t, "failed")
     \/ c.got = "absent" /\ Step(t, "absent")
     \/ c.got = "stored" /\ Step(t, IF c.op = "reset" THEN "message" ELSE "done")
  /\ UNCHANGED <<side, clerk, role, pw, calls, notices, post>>

Deliveries == {"delivered", "late", "failed"}

\* Variant: a direct message that fails is taken for one that was sent.
MessageUnchecked(t, delivery) ==
  /\ CommandAt(t, "message") /\ Step(t, "done")
  /\ calls' = [calls EXCEPT ![cmd[t].call].dm = delivery # "failed"]
  /\ UNCHANGED <<side, clerk, role, pw, notices, post>>

\* The password goes out by direct message, and nowhere else.
Message(t, delivery) ==
  /\ CommandAt(t, "message") /\ Step(t, IF delivery = "delivered" THEN "done" ELSE "failed")
  /\ calls' = [calls EXCEPT ![cmd[t].call].dm = delivery # "failed"]
  /\ UNCHANGED <<side, clerk, role, pw, notices, post>>

\* dispatch: an answer that cannot be said is followed by another, which says
\* that something failed and may itself be lost.
Say(t, delivery) ==
  /\ cmd[t] # Nil /\ cmd[t].at \in {"done", "absent", "failed"} /\ Idle(t)
  /\ calls' = [calls EXCEPT ![cmd[t].call].told =
       CASE delivery = "delivered" -> cmd[t].at [] delivery = "late" -> "failed" [] OTHER -> "lost"]
  /\ UNCHANGED <<side, clerk, role, pw, notices, post>>

-----------------------------------------------------------------------------
(* The notice.                                                             *)

\* Variant: the newest notice, hidden or not.
LatestOfAll ==
  LET kept == {i \in DOMAIN notices : notices[i] # "gone"} IN
  IF kept = {} THEN 0 ELSE CHOOSE i \in kept : \A j \in kept : j <= i

\* NoticeStore.latest.
Latest ==
  LET live == Active(notices) IN IF live = {} THEN 0 ELSE CHOOSE i \in live : \A j \in live : j <= i

\* live and chief are history: the notices that were active, and whether the
\* user was an administrator, at some time since the command.
Notice(t, u) ==
  /\ Take(t, [user |-> u, at |-> "read", text |-> 0, live |-> Active(notices),
              chief |-> role[u] = "admin"])
  /\ UNCHANGED <<side, clerk, role, pw, calls, notices, post>>

Read(t, reached) ==
  /\ CommandAt(t, "read")
  /\ IF reached /\ clerk /\ Latest # 0
     THEN cmd' = [cmd EXCEPT ![t].at = "role", ![t].text = Latest]
     ELSE Idle(t)
  /\ UNCHANGED <<side, clerk, role, pw, calls, notices, post>>

\* get_user_role.
RoleOf(u) == IF clerk THEN role[u] ELSE "none"

\* A role that cannot be asked for only reads, and is shown the text here.
AskRole(t, reached) ==
  /\ CommandAt(t, "role")
  /\ IF reached /\ RoleOf(cmd[t].user) = "admin" THEN Step(t, "broadcast") ELSE Idle(t)
  /\ UNCHANGED <<side, clerk, role, pw, calls, notices, post>>

Broadcast(t, delivery) ==
  /\ CommandAt(t, "broadcast") /\ Idle(t)
  /\ post' = IF delivery = "failed" THEN post
             ELSE [text |-> cmd[t].text, live |-> cmd[t].live, chief |-> cmd[t].chief]
  /\ UNCHANGED <<side, clerk, role, pw, calls, notices>>

-----------------------------------------------------------------------------
(* The console, the users, and the end of the bot.                          *)

\* What the commands under way have seen of the tables.
Witness(table, roles) ==
  cmd' = [t \in Pool |->
    IF cmd[t] = Nil THEN Nil ELSE [cmd[t] EXCEPT !.live = @ \cup Active(table), !.chief = @ \/ roles[cmd[t].user] = "admin"]]

EditNotices(table) ==
  /\ notices' = table /\ Witness(table, role)
  /\ UNCHANGED <<side, clerk, role, pw, calls, post>>

Publish == Len(notices) < MaxNotices /\ EditNotices(Append(notices, "active"))

Show(i, active) ==
  /\ notices[i] # "gone"
  /\ EditNotices([notices EXCEPT ![i] = IF active THEN "active" ELSE "hidden"])

Remove(i) == notices[i] # "gone" /\ EditNotices([notices EXCEPT ![i] = "gone"])

\* An account that is made is handed a password.
SetRole(u, r) ==
  /\ role' = [role EXCEPT ![u] = r]
  /\ IF side = "notices" THEN Witness(notices, role') ELSE UNCHANGED cmd
  /\ pw' = IF role[u] = "none" THEN [pw EXCEPT ![u] = 0] ELSE pw
  /\ UNCHANGED <<side, clerk, calls, notices, post>>

SetClerk(b) == clerk' = b /\ UNCHANGED <<side, role, pw, calls, notices, cmd, post>>

\* A user logs in with the password of its message and chooses its own.
Choose(u) ==
  /\ pw[u] # 0 /\ calls[pw[u]].dm /\ role[u] # "none"
  /\ pw' = [pw EXCEPT ![u] = 0]
  /\ UNCHANGED <<side, clerk, role, calls, notices, cmd, post>>

StopBot ==
  /\ cmd' = [t \in Pool |-> Nil]
  /\ calls' = [k \in DOMAIN calls |->
       IF \E t \in Pool : cmd[t] # Nil /\ cmd[t].call = k THEN [calls[k] EXCEPT !.told = "lost"]
       ELSE calls[k]]
  /\ UNCHANGED <<side, clerk, role, pw, notices, post>>

AccountsNext ==
  \/ \E t \in Pool :
       \/ \E u \in Users : Reset(t, u) \/ Submit(t, u)
       \/ GiveUp(t) \/ Receive(t)
       \/ \E delivery \in Deliveries : Message(t, delivery) \/ Say(t, delivery)
  \/ \E k \in DOMAIN calls, expired \in BOOLEAN : Serve(k, expired)
  \/ \E u \in Users : Choose(u)
  \/ StopBot

NoticesNext ==
  \/ \E t \in Pool :
       \/ \E u \in Users : Notice(t, u)
       \/ \E reached \in BOOLEAN : Read(t, reached) \/ AskRole(t, reached)
       \/ \E delivery \in Deliveries : Broadcast(t, delivery)
  \/ Publish
  \/ \E i \in DOMAIN notices : Remove(i) \/ \E active \in BOOLEAN : Show(i, active)

ConsoleNext ==
  \/ \E u \in Users, r \in {"none", "user", "admin"} : SetRole(u, r)
  \/ \E b \in BOOLEAN : SetClerk(b)

\* The dialogue, the commands about accounts and those about notices touch no
\* state of each other.
BotNext ==
  \/ side = "dialogue" /\ Next /\ UNCHANGED commands
  \/ side = "accounts" /\ (AccountsNext \/ ConsoleNext) /\ UNCHANGED vars
  \/ side = "notices" /\ (NoticesNext \/ ConsoleNext) /\ UNCHANGED vars

BotSpec == CommandsInit /\ [][BotNext]_<<vars, commands>>

-----------------------------------------------------------------------------
\* Nobody is left with a password it does not know and believes all is well:
\* the one in force is the user's own, or was sent to it, or belongs to a reset
\* it was told the failure of or never heard the end of.  And what is answered
\* to have been stored was.  It holds with resets that overlap, calls served
\* after the bot gave them up, and messages that fail.
LockoutIsTold ==
  /\ \A u \in Users : pw[u] # 0 =>
       calls[pw[u]].dm \/ calls[pw[u]].told \in {"-", "failed", "lost"}
  /\ \A k \in DOMAIN calls :
       calls[k].told = "done" => calls[k].got = "stored" /\ (calls[k].op = "reset" => calls[k].dm)

\* What is broadcast was ordered by an administrator and was active, each at
\* some time since the command was given, whatever the console does meanwhile.
BroadcastIsOrdered == post # Nil => post.chief /\ post.text \in post.live
=============================================================================
