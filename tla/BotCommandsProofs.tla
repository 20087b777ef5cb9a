--------------------------- MODULE BotCommandsProofs ---------------------------
(***************************************************************************)
(* Theorem about BotCommands, for any users, threads and bounds: nobody is *)
(* left with a password it does not know and told that all is well.  The   *)
(* invariant follows a call from the thread that waits for it: no two      *)
(* threads share one, and what a thread is about to say is so.             *)
(***************************************************************************)
EXTENDS BotCommands, SequenceTheorems, FiniteSetTheorems, WellFoundedInduction, TLAPS

CallRecord ==
  [op : {"reset", "requirement"}, user : Users, got : {"sent", "refused", "absent", "stored"},
   dm : BOOLEAN, told : {"-", "done", "absent", "failed", "lost"}]

\* Behaviours about something else make no calls.
CallsTyped ==
  /\ calls \in Seq(CallRecord) /\ pw \in [Users -> Nat]
  /\ side # "accounts" => calls = <<>>
  /\ side = "accounts" => cmd \in [Pool -> AccountCommand \cup {Nil}]

\* The facts of a call that a step of its command rests on.
Grounded(at, c) ==
  /\ at = "message" => c.got = "stored" /\ c.op = "reset"
  /\ at = "done" => c.got = "stored" /\ (c.op = "reset" => c.dm)
  /\ at = "absent" => c.got = "absent"

Waiting == side = "accounts" =>
  \A t \in Pool : cmd[t] # Nil =>
    /\ cmd[t].call \in DOMAIN calls /\ calls[cmd[t].call].told = "-"
    /\ Grounded(cmd[t].at, calls[cmd[t].call])

\* A call has one thread.
Distinct == side = "accounts" =>
  \A s, t \in Pool : cmd[s] # Nil /\ cmd[t] # Nil /\ cmd[s].call = cmd[t].call => s = t

\* What was said rests on the same facts.
Said == \A k \in DOMAIN calls : Grounded(calls[k].told, calls[k])

\* A password in force that the user did not choose is of a reset that was served.
Owned == \A u \in Users : pw[u] # 0 =>
  pw[u] \in DOMAIN calls /\ calls[pw[u]].got = "stored" /\ calls[pw[u]].op = "reset"

IInv == CallsTyped /\ Waiting /\ Distinct /\ Said /\ Owned

LEMMA InvIsEnough ==
  ASSUME IInv
  PROVE  LockoutIsTold
<1>1. \A k \in DOMAIN calls : calls[k] \in CallRecord
  BY DEF IInv, CallsTyped
<1>2. \A u \in Users : pw[u] # 0 =>
        calls[pw[u]].dm \/ calls[pw[u]].told \in {"-", "failed", "lost"}
  BY <1>1 DEF IInv, Owned, Said, Grounded, CallRecord
<1>3. \A k \in DOMAIN calls :
        calls[k].told = "done" => calls[k].got = "stored" /\ (calls[k].op = "reset" => calls[k].dm)
  BY DEF IInv, Said, Grounded
<1> QED BY <1>2, <1>3 DEF LockoutIsTold

LEMMA InitHolds ==
  ASSUME CommandsInit
  PROVE  IInv
<1>1. calls = <<>> /\ pw = [u \in Users |-> 0] /\ cmd = [t \in Pool |-> Nil]
  BY DEF CommandsInit
<1>2. CallsTyped
  BY <1>1 DEF CallsTyped
<1>3. DOMAIN calls = {}
  BY <1>1
<1> QED BY <1>1, <1>2, <1>3 DEF IInv, Waiting, Distinct, Said, Owned

\* Types of what a step reads.
LEMMA Fields ==
  ASSUME IInv
  PROVE  /\ Len(calls) \in Nat /\ DOMAIN calls = 1 .. Len(calls)
         /\ \A k \in DOMAIN calls : calls[k] \in CallRecord
         /\ side = "accounts" => \A t \in Pool : cmd[t] # Nil =>
              cmd[t] \in AccountCommand /\ cmd[t].call \in DOMAIN calls
  BY DEF IInv, CallsTyped, Waiting

\* Changing a call keeps the sequence one of calls.
LEMMA CallChanged ==
  ASSUME IInv, NEW k \in DOMAIN calls, NEW c \in CallRecord
  PROVE  /\ [calls EXCEPT ![k] = c] \in Seq(CallRecord)
         /\ DOMAIN [calls EXCEPT ![k] = c] = DOMAIN calls
         /\ [calls EXCEPT ![k] = c][k] = c
         /\ \A j \in DOMAIN calls : j # k => [calls EXCEPT ![k] = c][j] = calls[j]
  BY Fields, ExceptSeq DEF IInv, CallsTyped

-----------------------------------------------------------------------------
(* The steps of a command.                                                 *)

LEMMA CallStep ==
  ASSUME IInv, side = "accounts", NEW t \in Pool, NEW u \in Users,
         NEW op \in {"reset", "requirement"}, Call(t, u, op)
  PROVE  IInv'
<1> DEFINE n == Len(calls) + 1
           c == [op |-> op, user |-> u, got |-> "sent", dm |-> FALSE, told |-> "-"]
           new == [at |-> "waiting", call |-> n]
<1>1. /\ calls' = Append(calls, c) /\ cmd[t] = Nil /\ cmd' = [cmd EXCEPT ![t] = new]
      /\ pw' = pw /\ side' = side
  BY DEF Call, Take
<1>2. c \in CallRecord /\ n \in Nat /\ new \in AccountCommand
  BY Fields DEF CallRecord, AccountCommand
<1>3. /\ calls' \in Seq(CallRecord) /\ DOMAIN calls' = DOMAIN calls \cup {n} /\ n \notin DOMAIN calls
      /\ calls'[n] = c /\ \A k \in DOMAIN calls : calls'[k] = calls[k]
  <2>1. /\ calls' \in Seq(CallRecord) /\ Len(calls') = n
        /\ \A i \in 1 .. Len(calls) : calls'[i] = calls[i]
        /\ calls'[n] = c
    BY <1>1, <1>2, AppendProperties DEF IInv, CallsTyped
  <2>2. DOMAIN calls' = 1 .. n
    BY <2>1, LenProperties
  <2> QED BY <2>1, <2>2, Fields
<1> HIDE DEF n, c, new
<1>4. CallsTyped'
  BY <1>1, <1>2, <1>3 DEF IInv, CallsTyped
<1>5. \A s \in Pool : cmd'[s] = IF s = t THEN new ELSE cmd[s]
  BY <1>1 DEF IInv, CallsTyped
<1>6. Waiting'
  BY <1>1, <1>3, <1>5, Fields DEF IInv, Waiting, Grounded, new, c
<1>7. Distinct'
  BY <1>1, <1>3, <1>5, Fields DEF IInv, Distinct, new
<1>8. Said' /\ Owned'
  BY <1>1, <1>3 DEF IInv, Said, Owned, Grounded, c
<1> QED BY <1>4, <1>6, <1>7, <1>8 DEF IInv

LEMMA ServeStep ==
  ASSUME IInv, side = "accounts", NEW k \in DOMAIN calls, NEW expired \in BOOLEAN, Serve(k, expired)
  PROVE  IInv'
<1> DEFINE got == Served(calls[k], expired)
           c == [calls[k] EXCEPT !.got = got]
<1>1. /\ calls[k].got = "sent" /\ calls' = [calls EXCEPT ![k] = c] /\ cmd' = cmd /\ side' = side
      /\ pw' = IF got = "stored" /\ calls[k].op = "reset" THEN [pw EXCEPT ![calls[k].user] = k] ELSE pw
  BY DEF Serve
<1>2. got \in {"refused", "absent", "stored"}
  BY DEF Served
<1>3. calls[k] \in CallRecord
  BY Fields
<1> HIDE DEF got
<1>4. /\ c \in CallRecord /\ c.got = got /\ c.op = calls[k].op /\ c.told = calls[k].told /\ c.dm = calls[k].dm
  BY <1>2, <1>3 DEF CallRecord
<1> HIDE DEF c
<1>5. /\ calls' \in Seq(CallRecord) /\ DOMAIN calls' = DOMAIN calls /\ calls'[k] = c
      /\ \A j \in DOMAIN calls : j # k => calls'[j] = calls[j]
  BY <1>1, <1>4, CallChanged
<1>6. CallsTyped'
  BY <1>1, <1>3, <1>5, Fields DEF IInv, CallsTyped, CallRecord
<1>7. Waiting'
  BY <1>1, <1>4, <1>5 DEF IInv, Waiting, Grounded
<1>8. Distinct' /\ Said'
  BY <1>1, <1>4, <1>5 DEF IInv, Distinct, Said, Grounded
<1>9. Owned'
  BY <1>1, <1>3, <1>4, <1>5 DEF IInv, Owned, CallsTyped, CallRecord
<1> QED BY <1>6, <1>7, <1>8, <1>9 DEF IInv

\* Only the step of a command changes.
LEMMA CommandMoves ==
  ASSUME IInv, side = "accounts", NEW t \in Pool, cmd[t] # Nil,
         NEW step \in {"waiting", "message", "done", "absent", "failed"}, Step(t, step),
         Grounded(step, calls[cmd[t].call]), UNCHANGED <<side, pw, calls>>
  PROVE  IInv'
<1>1. cmd \in [Pool -> AccountCommand \cup {Nil}] /\ cmd[t] \in AccountCommand
  BY DEF IInv, CallsTyped
<1>2. /\ cmd'[t] \in AccountCommand /\ cmd'[t].at = step /\ cmd'[t].call = cmd[t].call
      /\ \A s \in Pool : s # t => cmd'[s] = cmd[s]
  BY <1>1 DEF Step, AccountCommand
<1>3. CallsTyped'
  BY <1>1, <1>2 DEF IInv, CallsTyped, Step
<1>4. Waiting' /\ Distinct'
  BY <1>2 DEF IInv, Waiting, Distinct
<1> QED BY <1>3, <1>4 DEF IInv, Said, Owned

LEMMA GiveUpStep ==
  ASSUME IInv, side = "accounts", NEW t \in Pool, GiveUp(t)
  PROVE  IInv'
<1>1. Grounded("failed", calls[cmd[t].call])
  BY DEF Grounded
<1> QED BY <1>1, CommandMoves DEF GiveUp, CommandAt

LEMMA ReceiveStep ==
  ASSUME IInv, side = "accounts", NEW t \in Pool, Receive(t)
  PROVE  IInv'
<1> DEFINE c == calls[cmd[t].call]
<1>1. /\ cmd[t] # Nil /\ UNCHANGED <<side, pw, calls>>
      /\ \/ c.got = "refused" /\ Step(t, "failed")
         \/ c.got = "absent" /\ Step(t, "absent")
         \/ c.got = "stored" /\ Step(t, IF c.op = "reset" THEN "message" ELSE "done")
  BY DEF Receive, CommandAt
<1>2. CASE c.got = "refused" /\ Step(t, "failed")
  BY <1>1, <1>2, CommandMoves DEF Grounded
<1>3. CASE c.got = "absent" /\ Step(t, "absent")
  BY <1>1, <1>3, CommandMoves DEF Grounded
<1>4. CASE c.got = "stored" /\ c.op = "reset" /\ Step(t, "message")
  BY <1>1, <1>4, CommandMoves DEF Grounded
<1>5. CASE c.got = "stored" /\ c.op # "reset" /\ Step(t, "done")
  BY <1>1, <1>5, CommandMoves DEF Grounded
<1> QED BY <1>1, <1>2, <1>3, <1>4, <1>5

LEMMA MessageStep ==
  ASSUME IInv, side = "accounts", NEW t \in Pool, NEW delivery \in Deliveries, Message(t, delivery)
  PROVE  IInv'
<1> DEFINE k == cmd[t].call
           sent == delivery # "failed"
           c == [calls[k] EXCEPT !.dm = sent]
           step == IF delivery = "delivered" THEN "done" ELSE "failed"
<1>1. /\ cmd[t] # Nil /\ cmd[t].at = "message" /\ cmd' = [cmd EXCEPT ![t].at = step]
      /\ calls' = [calls EXCEPT ![k] = c] /\ pw' = pw /\ side' = side
  BY DEF Message, CommandAt, Step
<1>2. /\ k \in DOMAIN calls /\ calls[k] \in CallRecord /\ calls[k].told = "-"
      /\ calls[k].got = "stored" /\ calls[k].op = "reset"
  BY <1>1, Fields DEF IInv, Waiting, Grounded
<1>3. cmd \in [Pool -> AccountCommand \cup {Nil}] /\ cmd[t] \in AccountCommand
  BY <1>1 DEF IInv, CallsTyped
<1>4. /\ cmd'[t] \in AccountCommand /\ cmd'[t].at = step /\ cmd'[t].call = k
      /\ \A s \in Pool : s # t => cmd'[s] = cmd[s]
      /\ cmd' \in [Pool -> AccountCommand \cup {Nil}]
  BY <1>1, <1>3 DEF AccountCommand
<1>5. (step = "done" /\ sent) \/ step = "failed"
  OBVIOUS
<1>6. sent \in BOOLEAN
  OBVIOUS
<1> HIDE DEF sent, step
<1>7. /\ c \in CallRecord /\ c.got = "stored" /\ c.op = "reset" /\ c.told = "-" /\ c.dm = sent
  BY <1>2, <1>6 DEF CallRecord
<1> HIDE DEF k, c
<1>8. /\ calls' \in Seq(CallRecord) /\ DOMAIN calls' = DOMAIN calls /\ calls'[k] = c
      /\ \A j \in DOMAIN calls : j # k => calls'[j] = calls[j]
  BY <1>1, <1>2, <1>7, CallChanged
<1>9. CallsTyped'
  BY <1>1, <1>4, <1>8 DEF IInv, CallsTyped
<1>10. Grounded(step, c)
  BY <1>5, <1>7 DEF Grounded
<1>11. Waiting'
  <2> SUFFICES ASSUME NEW s \in Pool, cmd'[s] # Nil
               PROVE  /\ cmd'[s].call \in DOMAIN calls' /\ calls'[cmd'[s].call].told = "-"
                      /\ Grounded(cmd'[s].at, calls'[cmd'[s].call])
    BY DEF Waiting, Grounded
  <2>1. CASE s = t
    BY <2>1, <1>2, <1>4, <1>7, <1>8, <1>10
  <2>2. CASE s # t
    <3>1. cmd'[s] = cmd[s] /\ cmd[s].call # k /\ cmd[s].call \in DOMAIN calls
      BY <2>2, <1>1, <1>4 DEF IInv, Waiting, Distinct, k
    <3>2. calls'[cmd[s].call] = calls[cmd[s].call]
      BY <3>1, <1>8
    <3> QED BY <3>1, <3>2, <1>8 DEF IInv, Waiting
  <2> QED BY <2>1, <2>2
<1>12. Distinct'
  BY <1>1, <1>4 DEF IInv, Distinct, k
<1>13. Said' /\ Owned'
  BY <1>1, <1>2, <1>7, <1>8 DEF IInv, Said, Owned, Grounded
<1> QED BY <1>9, <1>11, <1>12, <1>13 DEF IInv

LEMMA SayStep ==
  ASSUME IInv, side = "accounts", NEW t \in Pool, NEW delivery \in Deliveries, Say(t, delivery)
  PROVE  IInv'
<1> DEFINE k == cmd[t].call
           said == CASE delivery = "delivered" -> cmd[t].at [] delivery = "late" -> "failed" [] OTHER -> "lost"
           c == [calls[k] EXCEPT !.told = said]
<1>1. /\ cmd[t] # Nil /\ cmd[t].at \in {"done", "absent", "failed"} /\ cmd' = [cmd EXCEPT ![t] = Nil]
      /\ calls' = [calls EXCEPT ![k] = c] /\ pw' = pw /\ side' = side
  BY DEF Say, Idle
<1>2. k \in DOMAIN calls /\ calls[k] \in CallRecord /\ Grounded(cmd[t].at, calls[k])
  BY <1>1, Fields DEF IInv, Waiting
<1>3. said \in {cmd[t].at, "failed", "lost"}
  OBVIOUS
<1> HIDE DEF said
<1>4. said \in {"done", "absent", "failed", "lost"} /\ Grounded(said, calls[k])
  BY <1>1, <1>2, <1>3 DEF Grounded
<1>5. /\ c \in CallRecord /\ c.got = calls[k].got /\ c.op = calls[k].op /\ c.told = said /\ c.dm = calls[k].dm
  BY <1>2, <1>4 DEF CallRecord
<1> HIDE DEF k, c
<1>6. /\ calls' \in Seq(CallRecord) /\ DOMAIN calls' = DOMAIN calls /\ calls'[k] = c
      /\ \A j \in DOMAIN calls : j # k => calls'[j] = calls[j]
  BY <1>1, <1>2, <1>5, CallChanged
<1>7. cmd \in [Pool -> AccountCommand \cup {Nil}]
  BY DEF IInv, CallsTyped
<1>8. cmd' \in [Pool -> AccountCommand \cup {Nil}] /\ \A s \in Pool : cmd'[s] = IF s = t THEN Nil ELSE cmd[s]
  BY <1>1, <1>7
<1>9. CallsTyped'
  BY <1>1, <1>6, <1>8 DEF IInv, CallsTyped
<1>10. Waiting'
  <2> SUFFICES ASSUME NEW s \in Pool, cmd'[s] # Nil
               PROVE  /\ cmd'[s].call \in DOMAIN calls' /\ calls'[cmd'[s].call].told = "-"
                      /\ Grounded(cmd'[s].at, calls'[cmd'[s].call])
    BY DEF Waiting, Grounded
  <2>1. s # t /\ cmd'[s] = cmd[s] /\ cmd[s] # Nil
    BY <1>8
  <2>2. cmd[s].call # k /\ cmd[s].call \in DOMAIN calls
    BY <2>1, <1>1 DEF IInv, Waiting, Distinct, k
  <2>3. calls'[cmd[s].call] = calls[cmd[s].call]
    BY <2>2, <1>6
  <2> QED BY <2>1, <2>2, <2>3, <1>6 DEF IInv, Waiting
<1>11. Distinct'
  BY <1>1, <1>8 DEF IInv, Distinct
<1>12. Said'
  BY <1>4, <1>5, <1>6 DEF IInv, Said, Grounded
<1>13. Owned'
  BY <1>1, <1>5, <1>6 DEF IInv, Owned
<1> QED BY <1>9, <1>10, <1>11, <1>12, <1>13 DEF IInv

-----------------------------------------------------------------------------
(* The users, the console, and the end of the bot.                          *)

LEMMA StopBotStep ==
  ASSUME IInv, side = "accounts", StopBot
  PROVE  IInv'
<1> DEFINE cut(k) == IF \E t \in Pool : cmd[t] # Nil /\ cmd[t].call = k
                     THEN [calls[k] EXCEPT !.told = "lost"] ELSE calls[k]
<1>1. cmd' = [t \in Pool |-> Nil] /\ calls' = [k \in DOMAIN calls |-> cut(k)] /\ pw' = pw /\ side' = side
  BY DEF StopBot
<1>2. \A k \in DOMAIN calls :
        /\ cut(k) \in CallRecord
        /\ cut(k).got = calls[k].got /\ cut(k).op = calls[k].op /\ cut(k).dm = calls[k].dm
        /\ cut(k).told \in {"lost", calls[k].told}
  BY Fields DEF CallRecord
<1> HIDE DEF cut
<1>3. calls' \in Seq(CallRecord) /\ DOMAIN calls' = DOMAIN calls
  <2>1. calls' \in [1 .. Len(calls) -> CallRecord]
    BY <1>1, <1>2, Fields
  <2> QED BY <2>1, <1>1, Fields, SeqDef
<1>4. CallsTyped'
  BY <1>1, <1>3 DEF IInv, CallsTyped
<1>5. Waiting' /\ Distinct'
  BY <1>1 DEF Waiting, Distinct
<1>6. Said'
  BY <1>1, <1>2, <1>3 DEF IInv, Said, Grounded
<1>7. Owned'
  BY <1>1, <1>2, <1>3 DEF IInv, Owned
<1> QED BY <1>4, <1>5, <1>6, <1>7 DEF IInv

\* A password that its user chooses, or is handed with a new account, is of no reset.
LEMMA PasswordForgotten ==
  ASSUME IInv, NEW u \in Users, pw' = pw \/ pw' = [pw EXCEPT ![u] = 0],
         UNCHANGED <<side, calls, cmd>>
  PROVE  IInv'
<1>1. CallsTyped' /\ Owned'
  BY DEF IInv, CallsTyped, Owned
<1>2. Waiting' /\ Distinct' /\ Said'
  BY DEF IInv, Waiting, Distinct, Said, Grounded
<1> QED BY <1>1, <1>2 DEF IInv

\* In behaviours about notices no call is made.
LEMMA NoticesStep ==
  ASSUME IInv, side = "notices", UNCHANGED <<side, calls>>,
         pw' = pw \/ \E u \in Users : pw' = [pw EXCEPT ![u] = 0]
  PROVE  IInv'
<1>1. CallsTyped' /\ Owned'
  BY DEF IInv, CallsTyped, Owned
<1>2. Waiting' /\ Distinct' /\ Said'
  BY DEF IInv, Waiting, Distinct, Said, Grounded
<1> QED BY <1>1, <1>2 DEF IInv

LEMMA ConsoleStep ==
  ASSUME IInv, side \in {"accounts", "notices"}, ConsoleNext
  PROVE  IInv'
<1>1. ASSUME NEW u \in Users, NEW r \in {"none", "user", "admin"}, SetRole(u, r)
      PROVE  IInv'
  <2>1. /\ UNCHANGED <<side, calls>>
        /\ pw' = pw \/ pw' = [pw EXCEPT ![u] = 0]
        /\ side # "notices" => cmd' = cmd
    BY <1>1 DEF SetRole
  <2>2. CASE side = "notices"
    <3>1. pw' = pw \/ \E v \in Users : pw' = [pw EXCEPT ![v] = 0]
      BY <2>1
    <3> QED BY <2>1, <2>2, <3>1, NoticesStep
  <2>3. CASE side = "accounts"
    <3>1. UNCHANGED <<side, calls, cmd>>
      BY <2>1, <2>3
    <3> QED BY <2>1, <3>1, PasswordForgotten
  <2> QED BY <2>2, <2>3
<1>2. ASSUME NEW b \in BOOLEAN, SetClerk(b)
      PROVE  IInv'
  <2>1. UNCHANGED <<side, calls, cmd, pw>>
    BY <1>2 DEF SetClerk
  <2>2. CASE side = "notices"
    BY <2>1, <2>2, NoticesStep
  <2>3. CASE side = "accounts"
    BY <2>1 DEF IInv, CallsTyped, Waiting, Distinct, Said, Owned, Grounded
  <2> QED BY <2>2, <2>3
<1> QED BY <1>1, <1>2 DEF ConsoleNext

LEMMA AccountsStep ==
  ASSUME IInv, side = "accounts", AccountsNext
  PROVE  IInv'
<1>1. ASSUME NEW t \in Pool, NEW u \in Users, Reset(t, u) \/ Submit(t, u)
      PROVE  IInv'
  BY <1>1, CallStep DEF Reset, Submit
<1>2. ASSUME NEW u \in Users, Choose(u)
      PROVE  IInv'
  BY <1>2, PasswordForgotten DEF Choose
<1> QED BY <1>1, <1>2, GiveUpStep, ReceiveStep, MessageStep, SayStep, ServeStep, StopBotStep
        DEF AccountsNext

LEMMA NoticesKeepCalls ==
  ASSUME NoticesNext
  PROVE  UNCHANGED <<side, calls, pw>>
BY DEF NoticesNext, Notice, Read, AskRole, Broadcast, Publish, Remove, Show, EditNotices

LEMMA NextHolds ==
  ASSUME IInv, [BotNext]_<<vars, commands>>
  PROVE  IInv'
<1>1. CASE UNCHANGED commands
  BY <1>1 DEF commands, IInv, CallsTyped, Waiting, Distinct, Said, Owned, Grounded
<1>2. CASE side = "accounts" /\ (AccountsNext \/ ConsoleNext)
  BY <1>2, AccountsStep, ConsoleStep
<1>3. CASE side = "notices" /\ (NoticesNext \/ ConsoleNext)
  BY <1>3, NoticesKeepCalls, NoticesStep, ConsoleStep
<1> QED BY <1>1, <1>2, <1>3 DEF BotNext, commands

\* The inductive invariant of the commands about accounts (handlers.py:15-54).
THEOREM CallsAreFollowed == BotSpec => []IInv
<1>1. CommandsInit => IInv
  BY InitHolds
<1>2. IInv /\ [BotNext]_<<vars, commands>> => IInv'
  BY NextHolds
<1> QED BY <1>1, <1>2, PTL DEF BotSpec

\* Whatever resets overlap, are served after the bot gave them up or whose
\* message fails: no user is left with a password it does not know and told
\* that all is well (handlers.py:33-54, lbnote_client.py:56-86).
THEOREM LockoutsAreTold == BotSpec => []LockoutIsTold
<1>1. IInv => LockoutIsTold
  BY InvIsEnough
<1> QED BY <1>1, CallsAreFollowed, PTL
-----------------------------------------------------------------------------
(***************************************************************************)
(* The broadcast of a notice.  What a command has witnessed since it was   *)
(* given holds what is active now, and whether its user is an              *)
(* administrator now; so what it reads and is told is among it.            *)
(***************************************************************************)

NoticeCommand ==
  [user : Users, at : {"read", "role", "broadcast"}, text : Nat, live : SUBSET Nat, chief : BOOLEAN]

NoticesTyped ==
  /\ notices \in Seq({"active", "hidden", "gone"})
  /\ side = "notices" => cmd \in [Pool -> NoticeCommand \cup {Nil}]

Witnessed == side = "notices" =>
  \A t \in Pool : cmd[t] # Nil =>
    /\ Active(notices) \subseteq cmd[t].live
    /\ role[cmd[t].user] = "admin" => cmd[t].chief
    /\ cmd[t].at \in {"role", "broadcast"} => cmd[t].text \in cmd[t].live
    /\ cmd[t].at = "broadcast" => cmd[t].chief

NoticeInv == NoticesTyped /\ Witnessed /\ BroadcastIsOrdered /\ (side # "notices" => post = Nil)

\* The least number of a set of numbers exists, so the greatest of a bounded one does.
LEMMA LeastExists ==
  ASSUME NEW T \in SUBSET Nat, T # {}
  PROVE  \E m \in T : \A k \in T : m <= k
<1>1. \E m \in T : \A k \in T : <<k, m>> \notin OpToRel(<, Nat)
  BY WFMin, NatLessThanWellFounded, Zenon
<1>2. PICK m \in T : \A k \in T : <<k, m>> \notin OpToRel(<, Nat)
  BY <1>1
<1>3. \A k \in T : ~(k < m)
  BY <1>2, Zenon DEF OpToRel
<1> QED BY <1>3

LEMMA GreatestExists ==
  ASSUME NEW n \in Nat, NEW S \in SUBSET (1 .. n), S # {}
  PROVE  \E i \in S : \A j \in S : j <= i
<1> DEFINE T == {n - i : i \in S}
<1>1. T \in SUBSET Nat /\ T # {}
  OBVIOUS
<1>2. \A i \in S : n - i \in T
  OBVIOUS
<1>3. \A m \in T : \E i \in S : m = n - i
  OBVIOUS
<1> HIDE DEF T
<1>4. PICK m \in T : \A k \in T : m <= k
  BY <1>1, LeastExists
<1>5. PICK i \in S : m = n - i
  BY <1>3
<1>6. \A j \in S : n - i <= n - j
  BY <1>2, <1>4, <1>5
<1> QED BY <1>6

LEMMA LatestIsActive ==
  ASSUME notices \in Seq({"active", "hidden", "gone"}), Latest # 0
  PROVE  Latest \in Active(notices)
<1>1. Len(notices) \in Nat /\ Active(notices) \subseteq 1 .. Len(notices)
  BY DEF Active
<1>2. Active(notices) # {}
  BY DEF Latest
<1>3. \E i \in Active(notices) : \A j \in Active(notices) : j <= i
  BY <1>1, <1>2, GreatestExists
<1> QED BY <1>2, <1>3 DEF Latest

LEMMA ActiveIsNat ==
  ASSUME NEW table \in Seq({"active", "hidden", "gone"})
  PROVE  Active(table) \in SUBSET Nat
BY DEF Active

\* The command of one thread moves on, or ends.
LEMMA NoticeMoves ==
  ASSUME NoticeInv, side = "notices", NEW t \in Pool, NEW c \in NoticeCommand \cup {Nil},
         cmd' = [cmd EXCEPT ![t] = c], UNCHANGED <<side, role, notices, post>>,
         c # Nil => /\ Active(notices) \subseteq c.live
                    /\ role[c.user] = "admin" => c.chief
                    /\ c.at \in {"role", "broadcast"} => c.text \in c.live
                    /\ c.at = "broadcast" => c.chief
  PROVE  NoticeInv'
<1>1. cmd \in [Pool -> NoticeCommand \cup {Nil}]
  BY DEF NoticeInv, NoticesTyped
<1>2. cmd' \in [Pool -> NoticeCommand \cup {Nil}] /\ \A s \in Pool : cmd'[s] = IF s = t THEN c ELSE cmd[s]
  BY <1>1
<1>3. Witnessed'
  BY <1>2 DEF NoticeInv, Witnessed, Active
<1> QED BY <1>2, <1>3 DEF NoticeInv, NoticesTyped, BroadcastIsOrdered

LEMMA NoticeGiven ==
  ASSUME NoticeInv, side = "notices", NEW t \in Pool, NEW u \in Users, Notice(t, u)
  PROVE  NoticeInv'
<1> DEFINE c == [user |-> u, at |-> "read", text |-> 0, live |-> Active(notices),
                 chief |-> role[u] = "admin"]
<1>1. c \in NoticeCommand
  BY ActiveIsNat DEF NoticeCommand, NoticeInv, NoticesTyped
<1>2. cmd' = [cmd EXCEPT ![t] = c] /\ UNCHANGED <<side, role, notices, post>>
  BY DEF Notice, Take
<1>3. /\ Active(notices) \subseteq c.live /\ (role[c.user] = "admin" => c.chief)
      /\ c.at \notin {"role", "broadcast"}
  OBVIOUS
<1> HIDE DEF c
<1> QED BY <1>1, <1>2, <1>3, NoticeMoves

LEMMA NoticeRead ==
  ASSUME NoticeInv, side = "notices", NEW t \in Pool, NEW reached \in BOOLEAN, Read(t, reached)
  PROVE  NoticeInv'
<1>1. cmd[t] # Nil /\ cmd[t] \in NoticeCommand /\ cmd \in [Pool -> NoticeCommand \cup {Nil}]
  BY DEF Read, CommandAt, NoticeInv, NoticesTyped
<1>2. CASE Idle(t)
  BY <1>2, NoticeMoves DEF Read, Idle
<1>3. CASE Latest # 0 /\ cmd' = [cmd EXCEPT ![t].at = "role", ![t].text = Latest]
  <2> DEFINE c == [cmd[t] EXCEPT !.at = "role", !.text = Latest]
  <2>1. Latest \in Active(notices) /\ Active(notices) \in SUBSET Nat
    BY <1>3, LatestIsActive, ActiveIsNat DEF NoticeInv, NoticesTyped
  <2>2. cmd' = [cmd EXCEPT ![t] = c]
    BY <1>1, <1>3
  <2>3. /\ c \in NoticeCommand /\ c.text = Latest /\ c.live = cmd[t].live /\ c.chief = cmd[t].chief
        /\ c.user = cmd[t].user /\ c.at = "role"
    BY <1>1, <2>1 DEF NoticeCommand
  <2>4. Active(notices) \subseteq cmd[t].live /\ (role[cmd[t].user] = "admin" => cmd[t].chief)
    BY <1>1 DEF NoticeInv, Witnessed
  <2> HIDE DEF c
  <2> QED BY <2>1, <2>2, <2>3, <2>4, NoticeMoves DEF Read
<1> QED BY <1>2, <1>3 DEF Read

LEMMA NoticeRoleAsked ==
  ASSUME NoticeInv, side = "notices", NEW t \in Pool, NEW reached \in BOOLEAN, AskRole(t, reached)
  PROVE  NoticeInv'
<1>1. cmd[t] # Nil /\ cmd[t] \in NoticeCommand /\ cmd \in [Pool -> NoticeCommand \cup {Nil}]
      /\ cmd[t].at = "role"
  BY DEF AskRole, CommandAt, NoticeInv, NoticesTyped
<1>2. CASE Idle(t)
  BY <1>2, NoticeMoves DEF AskRole, Idle
<1>3. CASE RoleOf(cmd[t].user) = "admin" /\ Step(t, "broadcast")
  <2> DEFINE c == [cmd[t] EXCEPT !.at = "broadcast"]
  <2>1. role[cmd[t].user] = "admin"
    BY <1>3 DEF RoleOf
  <2>2. cmd' = [cmd EXCEPT ![t] = c]
    BY <1>1, <1>3 DEF Step
  <2>3. /\ c \in NoticeCommand /\ c.text = cmd[t].text /\ c.live = cmd[t].live
        /\ c.chief = cmd[t].chief /\ c.user = cmd[t].user
    BY <1>1 DEF NoticeCommand
  <2>4. /\ Active(notices) \subseteq cmd[t].live /\ cmd[t].chief /\ cmd[t].text \in cmd[t].live
    BY <1>1, <2>1 DEF NoticeInv, Witnessed
  <2> HIDE DEF c
  <2> QED BY <2>2, <2>3, <2>4, NoticeMoves DEF AskRole
<1> QED BY <1>2, <1>3 DEF AskRole

LEMMA NoticeBroadcast ==
  ASSUME NoticeInv, side = "notices", NEW t \in Pool, NEW delivery \in Deliveries,
         Broadcast(t, delivery)
  PROVE  NoticeInv'
<1>1. cmd[t] # Nil /\ cmd[t].at = "broadcast"
  BY DEF Broadcast, CommandAt
<1>2. cmd[t].chief /\ cmd[t].text \in cmd[t].live
  BY <1>1 DEF NoticeInv, Witnessed
<1>3. BroadcastIsOrdered'
  BY <1>2 DEF Broadcast, NoticeInv, BroadcastIsOrdered
<1>4. /\ cmd' = [cmd EXCEPT ![t] = Nil] /\ cmd \in [Pool -> NoticeCommand \cup {Nil}]
      /\ UNCHANGED <<side, role, notices>>
  BY DEF Broadcast, Idle, NoticeInv, NoticesTyped
<1>5. NoticesTyped' /\ Witnessed'
  BY <1>4 DEF NoticeInv, NoticesTyped, Witnessed, Active
<1> QED BY <1>3, <1>4, <1>5 DEF NoticeInv

\* The console changes the tables, and every command under way witnesses it.
LEMMA WitnessStep ==
  ASSUME NoticeInv, side = "notices", UNCHANGED <<side, post>>,
         notices' \in Seq({"active", "hidden", "gone"}), Witness(notices', role')
  PROVE  NoticeInv'
<1>1. cmd \in [Pool -> NoticeCommand \cup {Nil}]
  BY DEF NoticeInv, NoticesTyped
<1>2. Active(notices') \in SUBSET Nat
  BY ActiveIsNat
<1>3. ASSUME NEW t \in Pool, cmd[t] # Nil
      PROVE  /\ cmd'[t] \in NoticeCommand /\ cmd'[t].at = cmd[t].at /\ cmd'[t].text = cmd[t].text
             /\ cmd'[t].user = cmd[t].user
             /\ cmd'[t].live = cmd[t].live \cup Active(notices')
             /\ cmd'[t].chief = (cmd[t].chief \/ role'[cmd[t].user] = "admin")
  <2>1. cmd[t] \in NoticeCommand
    BY <1>1, <1>3
  <2>2. cmd'[t] = [cmd[t] EXCEPT !.live = @ \cup Active(notices'),
                                 !.chief = @ \/ role'[cmd[t].user] = "admin"]
    BY <1>3 DEF Witness
  <2> QED BY <2>1, <2>2, <1>2 DEF NoticeCommand
<1>4. \A t \in Pool : cmd[t] = Nil => cmd'[t] = Nil
  BY DEF Witness
<1>5. NoticesTyped'
  BY <1>1, <1>3, <1>4 DEF Witness, NoticesTyped
<1>6. Witnessed'
  <2>1. ASSUME NEW t \in Pool, cmd'[t] # Nil
        PROVE  /\ Active(notices)' \subseteq cmd'[t].live
               /\ role'[cmd'[t].user] = "admin" => cmd'[t].chief
               /\ cmd'[t].at \in {"role", "broadcast"} => cmd'[t].text \in cmd'[t].live
               /\ cmd'[t].at = "broadcast" => cmd'[t].chief
    <3>1. cmd[t] # Nil
      BY <2>1, <1>4
    <3> QED BY <3>1, <1>3 DEF NoticeInv, Witnessed, Active
  <2> QED BY <2>1 DEF Witnessed
<1> QED BY <1>5, <1>6 DEF NoticeInv, BroadcastIsOrdered

LEMMA NoticesEdited ==
  ASSUME NoticeInv, side = "notices",
         Publish \/ \E i \in DOMAIN notices : Remove(i) \/ \E active \in BOOLEAN : Show(i, active)
  PROVE  NoticeInv'
<1>1. ASSUME NEW table \in Seq({"active", "hidden", "gone"}), EditNotices(table)
      PROVE  NoticeInv'
  BY <1>1, WitnessStep DEF EditNotices
<1>2. notices \in Seq({"active", "hidden", "gone"})
  BY DEF NoticeInv, NoticesTyped
<1>3. Append(notices, "active") \in Seq({"active", "hidden", "gone"})
  BY <1>2
<1>4. \A i \in DOMAIN notices, s \in {"active", "hidden", "gone"} :
        [notices EXCEPT ![i] = s] \in Seq({"active", "hidden", "gone"})
  BY <1>2, ExceptSeq
<1> QED BY <1>1, <1>3, <1>4 DEF Publish, Remove, Show

LEMMA NoticeNext ==
  ASSUME NoticeInv, [BotNext]_<<vars, commands>>
  PROVE  NoticeInv'
<1>1. CASE UNCHANGED commands
  BY <1>1 DEF commands, NoticeInv, NoticesTyped, Witnessed, BroadcastIsOrdered, Active
<1>2. CASE side = "accounts" /\ (AccountsNext \/ ConsoleNext)
  <2>1. UNCHANGED <<side, notices, post>>
    BY <1>2 DEF AccountsNext, ConsoleNext, Reset, Submit, Call, GiveUp, Receive, Message, Say, Serve,
                Choose, StopBot, SetRole, SetClerk
  <2> QED BY <1>2, <2>1 DEF NoticeInv, NoticesTyped, Witnessed, BroadcastIsOrdered
<1>3. CASE side = "notices" /\ NoticesNext
  BY <1>3, NoticeGiven, NoticeRead, NoticeRoleAsked, NoticeBroadcast, NoticesEdited DEF NoticesNext
<1>4. CASE side = "notices" /\ ConsoleNext
  <2>1. ASSUME NEW u \in Users, NEW r \in {"none", "user", "admin"}, SetRole(u, r)
        PROVE  NoticeInv'
    <3>1. /\ UNCHANGED <<side, post, notices>> /\ Witness(notices, role')
      BY <1>4, <2>1 DEF SetRole
    <3>2. notices' \in Seq({"active", "hidden", "gone"}) /\ Witness(notices', role')
      BY <3>1 DEF NoticeInv, NoticesTyped
    <3> QED BY <1>4, <3>1, <3>2, WitnessStep
  <2>2. ASSUME NEW b \in BOOLEAN, SetClerk(b)
        PROVE  NoticeInv'
    BY <2>2 DEF SetClerk, NoticeInv, NoticesTyped, Witnessed, BroadcastIsOrdered, Active
  <2> QED BY <1>4, <2>1, <2>2 DEF ConsoleNext
<1> QED BY <1>1, <1>2, <1>3, <1>4 DEF BotNext, commands

\* What is broadcast was ordered by an administrator and was active, each at
\* some time since the command, whatever the console does meanwhile
\* (handlers.py:89-126): the role and the notice are read by two calls.
THEOREM BroadcastsAreOrdered == BotSpec => []BroadcastIsOrdered
<1>1. CommandsInit => NoticeInv
  BY DEF CommandsInit, NoticeInv, NoticesTyped, Witnessed, BroadcastIsOrdered
<1>2. NoticeInv /\ [BotNext]_<<vars, commands>> => NoticeInv'
  BY NoticeNext
<1>3. NoticeInv => BroadcastIsOrdered
  BY DEF NoticeInv
<1> QED BY <1>1, <1>2, <1>3, PTL DEF BotSpec
-----------------------------------------------------------------------------
(***************************************************************************)
(* The dialogue.  A user who is not muddled has one handler at a time;     *)
(* what the handler is about to say is what the entry of the thread, if it *)
(* is the user's, expects, and while nothing was said yet the entry is     *)
(* still the one of the last answer.                                       *)
(***************************************************************************)

Conversation == [user : Users, state : {"awaiting_text", "awaiting_more"}, old : BOOLEAN]

DialogueTyped ==
  /\ convo \in Conversation \cup {Nil}
  /\ job \in [Pool -> Handler \cup {Nil}]
  /\ asked \in [Users -> Answers \cup {"nothing"}]

Own(u) == convo # Nil /\ convo.user = u

Expected(u) ==
  Own(u) => asked[u] \in IF convo.state = "awaiting_more" THEN {"more"} ELSE {"prompt", "error"}

Alone(u) == \A s, t \in Pool : s \in ThreadsOf(u) /\ t \in ThreadsOf(u) => s = t

\* What a handler at a step knows of the entry.
Knows(u, step) ==
  /\ step \in {"route", "reply"} => Expected(u)
  /\ step \in {"prompt", "save", "error"} => (Own(u) => convo.state = "awaiting_text")
  /\ step = "more" => (Own(u) => convo.state = "awaiting_more")
  /\ step = "end" => ~Own(u)

Followed(u) ==
  /\ Alone(u)
  /\ ThreadsOf(u) = {} => Expected(u)
  /\ \A t \in Pool : t \in ThreadsOf(u) => Knows(u, job[t].at)

DialogueInv == DialogueTyped /\ \A u \in Users \ muddled : Followed(u)

\* A sweep, and an entry that ages, keep what is known of the entry.
LEMMA SweptKeeps ==
  ASSUME DialogueTyped, UNCHANGED asked, NEW v \in Users,
         convo' = Swept \/ convo' = convo \/ (convo # Nil /\ convo' = [convo EXCEPT !.old = TRUE])
  PROVE  /\ convo' \in Conversation \cup {Nil}
         /\ Own(v)' => Own(v) /\ convo'.state = convo.state
         /\ Expected(v) => Expected(v)'
         /\ \A step \in Steps : Knows(v, step) => Knows(v, step)'
<1>1. convo' \in Conversation \cup {Nil}
  BY DEF DialogueTyped, Swept, Conversation
<1>2. Own(v)' => Own(v) /\ convo'.state = convo.state
  BY DEF DialogueTyped, Swept, Conversation, Own
<1> QED BY <1>1, <1>2 DEF Expected, Knows

\* What the handler of one user does to the entry leaves the other users theirs.
LEMMA OthersFollowed ==
  ASSUME DialogueTyped, NEW t \in Pool, NEW u \in Users, job[t] # Nil, job[t].user = u,
         NEW c \in Handler \cup {Nil}, c # Nil => c.user = u, job' = [job EXCEPT ![t] = c],
         \A v \in Users \ {u} : asked'[v] = asked[v],
         \A v \in Users \ {u} : Own(v)' => Own(v) /\ convo'.state = convo.state,
         NEW v \in Users \ {u}, Followed(v)
  PROVE  Followed(v)'
<1>1. \A s \in Pool : job'[s] = IF s = t THEN c ELSE job[s]
  BY DEF DialogueTyped
<1>2. ThreadsOf(v)' = ThreadsOf(v) /\ t \notin ThreadsOf(v)
  BY <1>1 DEF ThreadsOf
<1>3. Expected(v) => Expected(v)'
  BY DEF Expected
<1>4. \A step : Knows(v, step) => Knows(v, step)'
  BY <1>3 DEF Knows
<1>5. \A s \in Pool : s \in ThreadsOf(v) => job'[s] = job[s]
  BY <1>1, <1>2
<1> QED BY <1>2, <1>3, <1>4, <1>5 DEF Followed, Alone

\* The handler of a user moves on and knows the entry, or ends.
LEMMA HandlerMoves ==
  ASSUME DialogueInv, NEW t \in Pool, NEW u \in Users, job[t] # Nil, job[t].user = u,
         NEW c \in Handler \cup {Nil}, c # Nil => c.user = u, job' = [job EXCEPT ![t] = c],
         convo' \in Conversation \cup {Nil}, asked' \in [Users -> Answers \cup {"nothing"}],
         \A v \in Users \ {u} : asked'[v] = asked[v],
         \A v \in Users \ {u} : Own(v)' => Own(v) /\ convo'.state = convo.state,
         \A v \in Users \ {u} : v \in muddled <=> v \in muddled',
         u \notin muddled' => ThreadsOf(u) = {t} \/ u \notin muddled,
         u \notin muddled' => IF c = Nil THEN Expected(u)' ELSE Knows(u, c.at)'
  PROVE  DialogueInv'
<1>1. \A s \in Pool : job'[s] = IF s = t THEN c ELSE job[s]
  BY DEF DialogueInv, DialogueTyped
<1>2. DialogueTyped'
  BY DEF DialogueInv, DialogueTyped
<1>3. ASSUME NEW v \in Users \ muddled', v # u
      PROVE  Followed(v)'
  BY <1>3, OthersFollowed DEF DialogueInv
<1>4. ASSUME u \notin muddled'
      PROVE  Followed(u)'
  <2>1. t \in ThreadsOf(u)
    BY DEF ThreadsOf
  <2>2. ThreadsOf(u) = {t}
    <3>1. CASE ThreadsOf(u) = {t}
      BY <3>1
    <3>2. CASE u \notin muddled
      BY <2>1, <3>2 DEF DialogueInv, Followed, Alone, ThreadsOf
    <3> QED BY <1>4, <3>1, <3>2
  <2>3. \A s \in Pool : s # t => s \notin ThreadsOf(u)'
    BY <1>1, <2>2 DEF ThreadsOf
  <2>4. t \in ThreadsOf(u)' <=> c # Nil
    BY <1>1 DEF ThreadsOf
  <2>5. Alone(u)'
    BY <2>3 DEF Alone
  <2>6. (ThreadsOf(u) = {})' => Expected(u)'
    BY <1>4, <2>4
  <2>7. (\A s \in Pool : s \in ThreadsOf(u) => Knows(u, job[s].at))'
    BY <1>1, <1>4, <2>3, <2>4 DEF Knows
  <2> QED BY <2>5, <2>6, <2>7 DEF Followed
<1> QED BY <1>2, <1>3, <1>4 DEF DialogueInv

\* A handler that only moves on, and changes neither what is asked nor who is muddled.
LEMMA HandlerSteps ==
  ASSUME DialogueInv, NEW t \in Pool, NEW u \in Users, job[t] # Nil, job[t].user = u,
         NEW c \in Handler \cup {Nil}, c # Nil => c.user = u, job' = [job EXCEPT ![t] = c],
         convo' \in Conversation \cup {Nil}, UNCHANGED <<asked, muddled>>,
         \A v \in Users \ {u} : Own(v)' => Own(v) /\ convo'.state = convo.state,
         Knows(u, job[t].at) => IF c = Nil THEN Expected(u)' ELSE Knows(u, c.at)'
  PROVE  DialogueInv'
<1>1. u \notin muddled => Knows(u, job[t].at)
  BY DEF DialogueInv, Followed, ThreadsOf
<1>2. asked' \in [Users -> Answers \cup {"nothing"}]
  BY DEF DialogueInv, DialogueTyped
<1> QED BY <1>1, <1>2, HandlerMoves

LEMMA HandlerTyped ==
  ASSUME DialogueInv, NEW t \in Pool, job[t] # Nil
  PROVE  job[t] \in Handler /\ job[t].user \in Users
BY DEF DialogueInv, DialogueTyped, Handler

\* Goto makes this of a handler.
LEMMA GotoIs ==
  ASSUME DialogueInv, NEW t \in Pool, job[t] # Nil, NEW step \in Steps, Goto(t, step)
  PROVE  \E c \in Handler : c.user = job[t].user /\ c.at = step /\ job' = [job EXCEPT ![t] = c]
<1> DEFINE c == [job[t] EXCEPT !.at = step, !.says = "-", !.inThread = TRUE]
<1>1. job[t] \in Handler /\ job \in [Pool -> Handler \cup {Nil}]
  BY HandlerTyped DEF DialogueInv, DialogueTyped
<1>2. c \in Handler /\ c.user = job[t].user /\ c.at = step
  BY <1>1 DEF Handler
<1>3. job' = [job EXCEPT ![t] = c]
  BY <1>1 DEF Goto
<1> QED BY <1>2, <1>3

LEMMA RouteFollowed ==
  ASSUME DialogueInv, NEW t \in Pool, Route(t)
  PROVE  DialogueInv'
<1>1. job[t] # Nil /\ job[t].at = "route" /\ job[t] \in Handler /\ job[t].user \in Users /\ job \in [Pool -> Handler \cup {Nil}]
  BY HandlerTyped DEF Route, At, DialogueInv, DialogueTyped
<1>2. PICK u \in Users : u = job[t].user
  BY <1>1
<1>3. /\ convo' \in Conversation \cup {Nil}
      /\ \A v \in Users : Own(v)' => Own(v) /\ convo'.state = convo.state
      /\ \A v \in Users : Expected(v) => Expected(v)'
      /\ UNCHANGED <<asked, muddled>>
  <2>1. (convo' = Swept \/ convo' = convo) /\ UNCHANGED <<asked, muddled>>
    BY DEF Route
  <2> QED BY <2>1, SweptKeeps DEF DialogueInv
<1>4. ASSUME NEW step \in {"reply", "start"}, NEW says \in Kinds \cup {"-"},
             job' = [job EXCEPT ![t].at = step, ![t].says = says]
      PROVE  DialogueInv'
  <2>1. PICK c \in Handler : c.user = u /\ c.at = step /\ job' = [job EXCEPT ![t] = c]
    <3> DEFINE c == [job[t] EXCEPT !.at = step, !.says = says]
    <3>1. c \in Handler /\ c.user = u /\ c.at = step
      BY <1>1, <1>2 DEF Handler, Steps
    <3>2. job' = [job EXCEPT ![t] = c]
      BY <1>1, <1>4
    <3> QED BY <3>1, <3>2
  <2>2. Knows(u, job[t].at) => Knows(u, c.at)'
    BY <1>1, <1>3, <2>1 DEF Knows
  <2> QED BY <1>1, <1>2, <1>3, <2>1, <2>2, NoHandlerAssumption, HandlerSteps
<1>5. CASE Over(t)
  <2>1. Knows(u, job[t].at) => Expected(u)'
    BY <1>1, <1>3 DEF Knows
  <2> QED BY <1>1, <1>2, <1>3, <1>5, <2>1, HandlerSteps DEF Over
<1>6. CASE job' = [job EXCEPT ![t].at = "start"]
  <2>1. job' = [job EXCEPT ![t].at = "start", ![t].says = job[t].says]
    BY <1>1, <1>6 DEF Handler
  <2> QED BY <1>1, <1>4, <2>1 DEF Handler
<1>7. CASE job' = [job EXCEPT ![t].at = "reply", ![t].says = AsReply(@)]
  <2>1. AsReply(job[t].says) \in Kinds \cup {"-"}
    BY DEF AsReply, Kinds
  <2>2. job' = [job EXCEPT ![t].at = "reply", ![t].says = AsReply(job[t].says)]
    BY <1>1, <1>7 DEF Handler
  <2> QED BY <1>4, <2>1, <2>2
<1> QED BY <1>5, <1>6, <1>7 DEF Route

LEMMA StartFollowed ==
  ASSUME DialogueInv, NEW t \in Pool, Start(t)
  PROVE  DialogueInv'
<1>1. job[t] # Nil /\ job[t].user \in Users
  BY HandlerTyped DEF Start, At
<1>2. PICK u \in Users : u = job[t].user
  BY <1>1
<1>3. /\ convo' \in Conversation /\ convo'.user = u /\ convo'.state = "awaiting_text"
      /\ UNCHANGED asked
  BY <1>2 DEF Start, Conversation
<1>4. \A v \in Users : Own(v)' => v = u
  BY <1>3 DEF Own
<1>5. PICK step \in Steps : step \in {"save", "prompt"} /\ Goto(t, step)
  BY DEF Start, Steps, Answers
<1>6. PICK c \in Handler : c.user = u /\ c.at = step /\ job' = [job EXCEPT ![t] = c]
  BY <1>1, <1>2, <1>5, GotoIs
<1>7. Knows(u, c.at)' /\ c # Nil
  BY <1>3, <1>5, <1>6, NoHandlerAssumption DEF Knows
<1>8. /\ \A v \in Users \ {u} : v \in muddled <=> v \in muddled'
      /\ u \notin muddled' => ThreadsOf(u) = {t} \/ u \notin muddled
  BY <1>2 DEF Start
<1>9. asked' \in [Users -> Answers \cup {"nothing"}]
  BY <1>3 DEF DialogueInv, DialogueTyped
<1> QED BY <1>1, <1>2, <1>3, <1>4, <1>6, <1>7, <1>8, <1>9, HandlerMoves

LEMMA ReplyFollowed ==
  ASSUME DialogueInv, NEW t \in Pool, Reply(t)
  PROVE  DialogueInv'
<1>1. job[t] # Nil /\ job[t].at = "reply" /\ job[t].user \in Users
  BY HandlerTyped DEF Reply, At
<1>2. PICK u \in Users : u = job[t].user
  BY <1>1
<1>3. /\ convo' \in Conversation \cup {Nil}
      /\ \A v \in Users : Own(v)' => Own(v) /\ convo'.state = convo.state
      /\ \A v \in Users : Expected(v) => Expected(v)'
      /\ UNCHANGED <<asked, muddled>>
  BY SweptKeeps DEF Reply, DialogueInv
<1>4. CASE Over(t)
  <2>1. Knows(u, "reply") => Expected(u)'
    BY <1>3 DEF Knows
  <2> QED BY <1>1, <1>2, <1>3, <1>4, <2>1, HandlerSteps DEF Over
<1>5. CASE \E step \in {"again", "close"} : Goto(t, step)
  <2>1. PICK step \in {"again", "close"}, c \in Handler :
          c.user = u /\ c.at = step /\ job' = [job EXCEPT ![t] = c]
    BY <1>1, <1>2, <1>5, GotoIs DEF Steps, Answers
  <2>2. Knows(u, c.at)' /\ c # Nil
    BY <2>1, NoHandlerAssumption DEF Knows
  <2> QED BY <1>1, <1>2, <1>3, <2>1, <2>2, HandlerSteps
<1>6. CASE Get(u) = "awaiting_text" /\ \E step \in {"prompt", "save"} : Goto(t, step)
  <2>1. PICK step \in {"prompt", "save"}, c \in Handler :
          c.user = u /\ c.at = step /\ job' = [job EXCEPT ![t] = c]
    BY <1>1, <1>2, <1>6, GotoIs DEF Steps, Answers
  <2>2. Own(u)' => convo'.state = "awaiting_text"
    BY <1>6 DEF Reply, Get, Own
  <2>3. Knows(u, c.at)' /\ c # Nil
    BY <2>1, <2>2, NoHandlerAssumption DEF Knows
  <2> QED BY <1>1, <1>2, <1>3, <2>1, <2>3, HandlerSteps
<1> QED BY <1>2, <1>4, <1>5, <1>6 DEF Reply

\* What set_state does to the entry.
LEMMA InStateIs ==
  ASSUME DialogueTyped, NEW u \in Users, NEW state \in {"awaiting_text", "awaiting_more"},
         convo' = InState(u, state)
  PROVE  /\ convo' \in Conversation \cup {Nil}
         /\ Own(u)' => convo'.state = state
         /\ \A v \in Users \ {u} : Own(v)' => Own(v) /\ convo'.state = convo.state
BY DEF DialogueTyped, InState, Own, Conversation

\* The steps after the state was found: the entry is set, taken or left alone.
LEMMA DialogueStep ==
  ASSUME DialogueInv, NEW t \in Pool,
         Again(t) \/ Close(t) \/ Ask(t) \/ \E outcome \in Outcomes : Save(t, outcome)
  PROVE  DialogueInv'
<1>1. job[t] # Nil /\ job[t].user \in Users
  BY HandlerTyped DEF Again, Close, Ask, Save, At
<1>2. PICK u \in Users : u = job[t].user
  BY <1>1
<1>3. DialogueTyped /\ convo \in Conversation \cup {Nil} /\ UNCHANGED <<asked, muddled>>
  BY DEF DialogueInv, DialogueTyped, Again, Close, Ask, Save
<1>4. ASSUME NEW step \in Steps, Goto(t, step), convo' \in Conversation \cup {Nil},
             \A v \in Users \ {u} : Own(v)' => Own(v) /\ convo'.state = convo.state,
             Knows(u, job[t].at) => Knows(u, step)'
      PROVE  DialogueInv'
  <2>1. PICK c \in Handler : c.user = u /\ c.at = step /\ job' = [job EXCEPT ![t] = c]
    BY <1>1, <1>2, <1>4, GotoIs
  <2> QED BY <1>1, <1>2, <1>3, <1>4, <2>1, NoHandlerAssumption, HandlerSteps
<1>5. CASE Again(t)
  <2>1. Goto(t, "prompt") /\ convo' = InState(u, "awaiting_text")
    BY <1>2, <1>5 DEF Again
  <2>2. Knows(u, "prompt")'
    BY <1>3, <2>1, InStateIs DEF Knows
  <2> QED BY <1>3, <1>4, <2>1, <2>2, InStateIs DEF Steps, Answers
<1>6. CASE Close(t)
  <2>1. Goto(t, "end") /\ convo' = Nil
    BY <1>6 DEF Close
  <2>2. \A v \in Users : ~Own(v)'
    BY <2>1 DEF Own
  <2> QED BY <1>4, <2>1, <2>2 DEF Steps, Answers, Knows
<1>7. CASE Ask(t)
  <2>1. Goto(t, "more") /\ convo' = InState(u, "awaiting_more")
    BY <1>2, <1>7 DEF Ask
  <2>2. Knows(u, "more")'
    BY <1>3, <2>1, InStateIs DEF Knows
  <2> QED BY <1>3, <1>4, <2>1, <2>2, InStateIs DEF Steps, Answers
<1>8. CASE \E outcome \in Outcomes : Save(t, outcome)
  <2>1. job[t].at = "save" /\ convo' = convo
    BY <1>8 DEF Save, At
  <2>2. PICK step \in {"ask", "error"} : Goto(t, step)
    BY <1>8 DEF Save
  <2>3. /\ Knows(u, "save") => Knows(u, step)'
        /\ \A v \in Users : Own(v)' => Own(v) /\ convo'.state = convo.state
    BY <2>1 DEF Knows, Own
  <2> QED BY <1>3, <1>4, <2>1, <2>2, <2>3 DEF Steps, Answers
<1> QED BY <1>5, <1>6, <1>7, <1>8

LEMMA AnswerFollowed ==
  ASSUME DialogueInv, NEW t \in Pool, Answer(t)
  PROVE  DialogueInv'
<1>1. job[t] # Nil /\ job[t].user \in Users /\ job[t].at \in Answers
  BY HandlerTyped DEF Answer
<1>2. PICK u \in Users : u = job[t].user
  BY <1>1
<1>3. /\ convo' = convo /\ convo \in Conversation \cup {Nil} /\ UNCHANGED muddled
      /\ asked \in [Users -> Answers \cup {"nothing"}] /\ job' = [job EXCEPT ![t] = Nil]
      /\ asked' = IF u \in muddled THEN asked ELSE [asked EXCEPT ![u] = job[t].at]
  BY <1>2 DEF DialogueInv, DialogueTyped, Answer, Over
<1>4. asked' \in [Users -> Answers \cup {"nothing"}] /\ \A v \in Users \ {u} : asked'[v] = asked[v]
  BY <1>1, <1>3
<1>5. ASSUME u \notin muddled
      PROVE  Expected(u)'
  <2>1. Knows(u, job[t].at) /\ asked'[u] = job[t].at
    BY <1>1, <1>2, <1>3, <1>5 DEF DialogueInv, Followed, ThreadsOf
  <2>2. Own(u) => convo.state \in {"awaiting_text", "awaiting_more"}
    BY <1>3 DEF Own, Conversation
  <2> QED BY <1>1, <1>3, <2>1, <2>2 DEF Knows, Expected, Own, Answers
<1>6. \A v \in Users : Own(v)' => Own(v) /\ convo'.state = convo.state
  BY <1>3 DEF Own
<1> QED BY <1>1, <1>2, <1>3, <1>4, <1>5, <1>6, HandlerMoves

LEMMA AgeFollowed ==
  ASSUME DialogueInv, Age
  PROVE  DialogueInv'
<1>1. /\ convo' \in Conversation \cup {Nil} /\ UNCHANGED <<job, asked, muddled>>
      /\ \A v \in Users : Expected(v) => Expected(v)'
      /\ \A v \in Users, step \in Steps : Knows(v, step) => Knows(v, step)'
  <2>1. convo # Nil /\ convo' = [convo EXCEPT !.old = TRUE] /\ UNCHANGED <<job, asked, muddled>>
    BY DEF Age
  <2>2. ASSUME NEW v \in Users
        PROVE  /\ convo' \in Conversation \cup {Nil}
               /\ Expected(v) => Expected(v)'
               /\ \A step \in Steps : Knows(v, step) => Knows(v, step)'
    BY <2>1, SweptKeeps DEF DialogueInv
  <2>3. convo' \in Conversation \cup {Nil}
    BY <2>1 DEF DialogueInv, DialogueTyped, Conversation
  <2> QED BY <2>1, <2>2, <2>3
<1>2. \A v \in Users : ThreadsOf(v)' = ThreadsOf(v)
  BY <1>1 DEF ThreadsOf
<1>3. ASSUME NEW v \in Users \ muddled
      PROVE  Followed(v)'
  <2>1. Followed(v)
    BY DEF DialogueInv
  <2>2. ASSUME NEW s \in Pool, s \in ThreadsOf(v)
        PROVE  Knows(v, job[s].at)'
    <3>1. job[s].at \in Steps /\ Knows(v, job[s].at)
      BY <2>1, <2>2 DEF DialogueInv, DialogueTyped, Handler, ThreadsOf, Followed
    <3>2. PICK step \in Steps : step = job[s].at
      BY <3>1
    <3> QED BY <1>1, <3>1, <3>2
  <2> QED BY <1>1, <1>2, <2>1, <2>2 DEF Followed, Alone
<1> QED BY <1>1, <1>3 DEF DialogueInv, DialogueTyped

\* A post that finds the user without a handler and has one event begins the
\* only handler of its user; any other muddles it.
LEMMA PostFollowed ==
  ASSUME DialogueInv, NEW u \in Users, NEW says \in Kinds, NEW mention \in BOOLEAN,
         NEW inThread \in BOOLEAN, Post(u, says, mention, inThread)
  PROVE  DialogueInv'
<1> DEFINE events == Events(u, says, mention, inThread)
<1>1. \A e \in events : e \in Handler /\ e.user = u /\ e.at \in {"route", "reply"}
  <2>1. AsReply(says) \in Kinds /\ {"route", "reply"} \subseteq Steps /\ Kinds \subseteq Kinds \cup {"-"}
    BY DEF AsReply, Kinds, Steps
  <2>2. ASSUME NEW step \in {"route", "reply"}, NEW words \in Kinds, NEW below \in BOOLEAN
        PROVE  /\ Event(u, step, words, below) \in Handler
               /\ Event(u, step, words, below).user = u
               /\ Event(u, step, words, below).at = step
    BY <2>1 DEF Event, Handler
  <2>3. \A e \in events : e = Event(u, "route", says, inThread) \/ e = Event(u, "reply", AsReply(says), TRUE)
    BY DEF Events
  <2>4. /\ Event(u, "route", says, inThread) \in Handler /\ Event(u, "route", says, inThread).user = u
        /\ Event(u, "route", says, inThread).at = "route"
    BY <2>2
  <2>5. /\ Event(u, "reply", AsReply(says), TRUE) \in Handler
        /\ Event(u, "reply", AsReply(says), TRUE).user = u
        /\ Event(u, "reply", AsReply(says), TRUE).at = "reply"
    BY <2>1, <2>2
  <2> HIDE DEF events
  <2> QED BY <2>3, <2>4, <2>5
<1>2. PICK f \in [events -> {t \in Pool : job[t] = Nil}] :
        /\ \A d, e \in events : f[d] = f[e] => d = e
        /\ job' = [t \in Pool |-> IF \E e \in events : f[e] = t
                                  THEN CHOOSE e \in events : f[e] = t ELSE job[t]]
  BY DEF Post
<1>3. /\ IF ThreadsOf(u) # {} \/ Cardinality(events) > 1
         THEN muddled' = muddled \cup {u} /\ asked' = [asked EXCEPT ![u] = "nothing"]
         ELSE UNCHANGED <<muddled, asked>>
      /\ convo' = convo
  BY DEF Post
<1>4. Cardinality(events) <= 1 => \A d, e \in events : d = e
  <2> DEFINE a == Event(u, "route", says, inThread)
             b == Event(u, "reply", AsReply(says), TRUE)
  <2>1. events \subseteq {a, b}
    BY DEF Events
  <2> HIDE DEF events, a, b
  <2>2. ASSUME NEW d \in events, NEW e \in events, d # e
        PROVE  Cardinality(events) = 2
    <3>1. events = {d} \cup {e}
      BY <2>1, <2>2
    <3>2. IsFiniteSet({d}) /\ Cardinality({d}) = 1
      BY FS_Singleton
    <3>3. e \notin {d} /\ Cardinality({d} \cup {e}) = 1 + 1
      BY <2>2, <3>2, FS_AddElement
    <3> QED BY <3>1, <3>3
  <2> QED BY <2>2
<1> HIDE DEF events
<1>5. /\ \A t \in Pool : (\E e \in events : f[e] = t /\ job'[t] = e /\ job[t] = Nil) \/ job'[t] = job[t]
      /\ job' \in [Pool -> Handler \cup {Nil}]
  <2>1. ASSUME NEW t \in Pool, NEW e \in events, f[e] = t
        PROVE  job'[t] = e /\ job[t] = Nil
    BY <1>2, <2>1
  <2>2. ASSUME NEW t \in Pool, ~ \E e \in events : f[e] = t
        PROVE  job'[t] = job[t]
    BY <1>2, <2>2
  <2>3. \A t \in Pool : job'[t] \in Handler \cup {Nil}
    BY <1>1, <2>1, <2>2 DEF DialogueInv, DialogueTyped
  <2>4. job' = [t \in Pool |-> job'[t]]
    BY <1>2
  <2> QED BY <2>1, <2>2, <2>3, <2>4
<1>6. DialogueTyped'
  BY <1>3, <1>5 DEF DialogueInv, DialogueTyped
<1>7. ASSUME NEW v \in Users \ muddled', v # u
      PROVE  Followed(v)'
  <2>1. v \notin muddled /\ asked'[v] = asked[v]
    BY <1>3, <1>7 DEF DialogueInv, DialogueTyped
  <2>2. ThreadsOf(v)' = ThreadsOf(v)
    BY <1>1, <1>5, <1>7 DEF ThreadsOf
  <2>3. \A t \in ThreadsOf(v) : job'[t] = job[t]
    BY <1>5 DEF ThreadsOf
  <2>4. /\ Expected(v) => Expected(v)'
        /\ \A step : Knows(v, step) => Knows(v, step)'
    BY <1>3, <2>1 DEF Expected, Knows, Own
  <2> QED BY <2>1, <2>2, <2>3, <2>4 DEF DialogueInv, Followed, Alone
<1>8. ASSUME u \notin muddled'
      PROVE  Followed(u)'
  <2>1. ThreadsOf(u) = {} /\ ~(Cardinality(events) > 1) /\ UNCHANGED <<muddled, asked>>
    BY <1>3, <1>8
  <2>2. \A d, e \in events : d = e
    <3>1. IsFiniteSet(events)
      BY FS_EmptySet, FS_Singleton, FS_Union DEF events, Events
    <3> QED BY <1>4, <2>1, <3>1, FS_CardinalityType
  <2>3. Expected(u)'
    BY <1>3, <1>8, <2>1 DEF DialogueInv, Followed, Expected, Own
  <2>4. \A t \in Pool : t \in ThreadsOf(u)' => \E e \in events : f[e] = t /\ job'[t] = e
    BY <1>5, <2>1 DEF ThreadsOf
  <2>5. Alone(u)'
    BY <2>2, <2>4 DEF Alone
  <2>6. (\A t \in Pool : t \in ThreadsOf(u) => Knows(u, job[t].at))'
    BY <1>1, <2>3, <2>4 DEF Knows
  <2> QED BY <2>3, <2>5, <2>6 DEF Followed
<1> QED BY <1>6, <1>7, <1>8 DEF DialogueInv

LEMMA DialogueStepsFollowed ==
  ASSUME DialogueInv, [Next]_vars
  PROVE  DialogueInv'
<1>1. CASE UNCHANGED vars
  BY <1>1 DEF vars, DialogueInv, DialogueTyped, Followed, Alone, ThreadsOf, Expected, Knows, Own
<1>2. CASE Next
  BY <1>2, PostFollowed, RouteFollowed, StartFollowed, ReplyFollowed, DialogueStep, AnswerFollowed,
     AgeFollowed DEF Next
<1> QED BY <1>1, <1>2

\* The inductive invariant of the dialogue, for the bot with all its commands.
THEOREM DialogueIsFollowed == BotSpec => []DialogueInv
<1>1. CommandsInit => DialogueInv
  <2> SUFFICES ASSUME CommandsInit PROVE DialogueInv
    OBVIOUS
  <2>1. \A u \in Users : ThreadsOf(u) = {}
    BY DEF CommandsInit, Init, ThreadsOf
  <2> QED BY <2>1 DEF CommandsInit, Init, DialogueInv, DialogueTyped, Followed, Alone, Expected, Own
<1>2. DialogueInv /\ [BotNext]_<<vars, commands>> => DialogueInv'
  <2> SUFFICES ASSUME DialogueInv, [BotNext]_<<vars, commands>> PROVE DialogueInv'
    OBVIOUS
  <2>1. [Next]_vars
    BY DEF BotNext
  <2> QED BY <2>1, DialogueStepsFollowed
<1> QED BY <1>1, <1>2, PTL DEF BotSpec

\* Also after a call that failed, and whatever others do in the thread, the
\* state of a conversation is the one its owner was told of (handlers.py:139-202,
\* conversation.py:19-69).
THEOREM ConversationsAreExpected == BotSpec => []AskedIsExpected
<1>1. DialogueInv => AskedIsExpected
  BY DEF DialogueInv, Followed, Expected, Own, AskedIsExpected
<1> QED BY <1>1, DialogueIsFollowed, PTL

\* The commands that are no dialogue leave it alone: what holds of the dialogue
\* holds of the bot.
THEOREM CommandsKeepTheDialogue == BotSpec => Spec
<1>1. CommandsInit => Init
  BY DEF CommandsInit
<1>2. [BotNext]_<<vars, commands>> => [Next]_vars
  BY DEF BotNext
<1> QED BY <1>1, <1>2, PTL DEF BotSpec, Spec
=============================================================================
