------------------------------- MODULE Accounts -------------------------------
(***************************************************************************)
(* The user accounts (web/auth.py, web/app.py): the table of users, which  *)
(* the start of the server seeds and prunes from its environment, which    *)
(* users change through their profile and password, which administrators   *)
(* change through the console, and which a script fills from outside.      *)
(*                                                                         *)
(* A step is one hold of the lock of UserStore: a handler reads its caller *)
(* in one step and its target in another, counts the administrators in a   *)
(* third and writes in a fourth.  A login token is signed and not stored,  *)
(* and names a user: whoever has a row may hold one.                       *)
(***************************************************************************)
EXTENDS Naturals, FiniteSets, TLC

CONSTANTS
  Users,         \* usernames
  Root,          \* "admin", the account made when there is none
  Listings,      \* sets the operator may write into WEB_AUTH_USERS
  AdminLists,    \* and into WEB_AUTH_ADMINS
  Prunings,      \* and values of WEB_AUTH_PRUNE
  Participants,  \* users of config/participants.json
  Passwords,
  Handed,        \* the password of env, console and script
  Clients,       \* requests in progress
  Nobody         \* no row, no request

ASSUME UsersAssumption == IsFiniteSet(Users) /\ Root \in Users
ASSUME HandedAssumption == Handed \in Passwords
ASSUME EnvsAssumption ==
  /\ Listings \subseteq SUBSET Users /\ AdminLists \subseteq SUBSET Users
  /\ Prunings \subseteq BOOLEAN

\* role: no code tells "developer" from "user".  name is the display name, the
\* only profile field the start writes.  by is a history field: who has set the
\* password.
Row == [pw : Passwords, must : BOOLEAN, role : {"admin", "user"},
        name : {"username", "chosen"}, source : {"seed", "user"},
        by : {"self", "other"}]

ASSUME NobodyAssumption == Nobody \notin Row

\* A request past the check of its caller, which is kept until its target has
\* been read.  seen is a history field: the administrators when the request was
\* found to be allowed.
Request == [op : {"change", "profile", "reset", "create", "update", "delete"},
            at : {"target", "count", "write"}, caller : Users, user : Users,
            pw : Passwords, role : {"keep", "user", "admin"}, named : BOOLEAN,
            seen : SUBSET Users]

Envs == [listed : Listings, admins : AdminLists, prune : Prunings]

VARIABLES
  users,    \* the table
  env,      \* the environment of the running server
  phase,    \* of the start: seeding, pruning, then up
  todo,     \* users this phase has yet to seed or to prune
  req,      \* the request of each client
  raced     \* history: an administrator went although the guard did not look
            \* at the table as it was then

vars == <<users, env, phase, todo, req, raced>>

Known(u) == users[u] # Nobody
Admins == {u \in Users : Known(u) /\ users[u].role = "admin"}

NewRow(role, name) ==
  [pw |-> Handed, must |-> TRUE, role |-> role, name |-> name, source |-> "seed",
   by |-> "other"]

Init ==
  /\ users = [u \in Users |-> Nobody]
  /\ env \in Envs /\ phase = "seeding" /\ todo = env.listed
  /\ req = [c \in Clients |-> Nobody]
  /\ raced = FALSE

-----------------------------------------------------------------------------
\* The start of the server: init.

\* The server stops at any point and starts again, with the same table.
Restart(e) ==
  /\ env' = e /\ phase' = "seeding" /\ todo' = e.listed
  /\ req' = [c \in Clients |-> Nobody]
  /\ raced' = FALSE
  /\ UNCHANGED users

ListedRole(u) == IF u \in env.admins THEN "admin" ELSE "user"

\* Mistaken starts, for the mutants: one resets a password as upsert does, the
\* other writes over a chosen name.
SeededAnew(u) ==
  IF ~Known(u) THEN NewRow(ListedRole(u), "username")
  ELSE [users[u] EXCEPT !.role = ListedRole(u), !.pw = Handed, !.by = "other"]
SeededName(u) ==
  IF ~Known(u) THEN NewRow(ListedRole(u), "username")
  ELSE [users[u] EXCEPT !.role = ListedRole(u), !.name = "username"]

\* seed_user: a known user keeps its password and a name it has edited.
Seeded(u) ==
  IF ~Known(u) THEN NewRow(ListedRole(u), "username")
  ELSE [users[u] EXCEPT !.role = ListedRole(u),
                        !.name = IF users[u].source = "user" THEN @ ELSE "username"]

Seed(u) ==
  /\ phase = "seeding" /\ u \in todo
  /\ users' = [users EXCEPT ![u] = Seeded(u)]
  /\ todo' = todo \ {u}
  /\ UNCHANGED <<env, phase, req, raced>>

Unlisted == IF env.listed # {} /\ env.prune THEN {u \in Users \ env.listed : Known(u)} ELSE {}

EndSeed ==
  /\ phase = "seeding" /\ todo = {}
  /\ phase' = "pruning" /\ todo' = Unlisted
  /\ UNCHANGED <<users, env, req, raced>>

Prune(u) ==
  /\ phase = "pruning" /\ u \in todo
  /\ users' = [users EXCEPT ![u] = Nobody]
  /\ todo' = todo \ {u}
  /\ UNCHANGED <<env, phase, req, raced>>

\* The account made when the table is empty.
Ready ==
  /\ phase = "pruning" /\ todo = {}
  /\ users' = IF \E u \in Users : Known(u) THEN users
              ELSE [users EXCEPT ![Root] = NewRow("admin", "username")]
  /\ phase' = "up"
  /\ UNCHANGED <<env, todo, req, raced>>

-----------------------------------------------------------------------------
\* Callers: require_user, require_user_active, require_admin.
Caller(u) == phase = "up" /\ Known(u)
ActiveCaller(u) == Caller(u) /\ ~users[u].must
AdminCaller(u) == ActiveCaller(u) /\ users[u].role = "admin"

Start(c, r) ==
  /\ req[c] = Nobody
  /\ req' = [req EXCEPT ![c] = r]
  /\ UNCHANGED <<users, env, phase, todo, raced>>

Asked(op, at, a, u) ==
  [op |-> op, at |-> at, caller |-> a, user |-> u, pw |-> Handed, role |-> "keep",
   named |-> FALSE, seen |-> {}]

\* change_password, up to the check of the current password.
AskChange(c, u, current, new) ==
  /\ Caller(u) /\ users[u].pw = current /\ new # current
  /\ Start(c, [Asked("change", "write", u, u) EXCEPT !.pw = new])

\* patch_profile with a display name.
AskProfile(c, u) == Caller(u) /\ Start(c, Asked("profile", "write", u, u))

AskReset(c, a, u) == AdminCaller(a) /\ Start(c, Asked("reset", "write", u, u))

AskCreate(c, a, u, role, named) ==
  /\ AdminCaller(a)
  /\ Start(c, [Asked("create", "write", u, u) EXCEPT !.role = role, !.named = named])

\* admin_update_user reads its target only when it takes a role away.
AskUpdate(c, a, u, role, named) ==
  /\ AdminCaller(a)
  /\ role = "keep" => named
  /\ Start(c, [IF role = "user" THEN Asked("update", "target", a, u) ELSE Asked("update", "write", u, u)
                 EXCEPT !.role = role, !.named = named])

AskDelete(c, a, u) == AdminCaller(a) /\ a # u /\ Start(c, Asked("delete", "target", a, u))

-----------------------------------------------------------------------------
\* The guards of a demotion and of a deletion.

At(c, at) == req[c] # Nobody /\ req[c].at = at
Free(c) == req' = [req EXCEPT ![c] = Nobody]
To(c, at) ==
  req' = [req EXCEPT ![c].at = at, ![c].caller = req[c].user,
                     ![c].seen = IF at = "write" THEN Admins ELSE {}]

\* users.get: no such user, or the caller itself, ends the request.
ReadTarget(c) ==
  /\ At(c, "target")
  /\ LET u == req[c].user IN
       IF ~Known(u) \/ (u \in Admins /\ u = req[c].caller) THEN Free(c)
       ELSE To(c, IF u \in Admins THEN "count" ELSE "write")
  /\ UNCHANGED <<users, env, phase, todo, raced>>

\* Mutant: the guard counts one administrator too few.
LastAdminLoose == Cardinality(Admins) < 1

\* count_admins: the last administrator stays.
LastAdmin == Cardinality(Admins) <= 1

CountAdmins(c) ==
  /\ At(c, "count")
  /\ IF LastAdmin THEN Free(c) ELSE To(c, "write")
  /\ UNCHANGED <<users, env, phase, todo, raced>>

-----------------------------------------------------------------------------
\* The writes.  Each ends its request; one whose row is gone is a 404.

Put(c, row) == users' = [users EXCEPT ![req[c].user] = row]

WithPassword(row, pw) == [row EXCEPT !.pw = pw, !.must = FALSE, !.by = "self"]
WithReset(row) == [row EXCEPT !.pw = Handed, !.must = TRUE, !.by = "other"]

\* update_profile: the user becomes the source of its name.
WithProfile(row) == [row EXCEPT !.name = "chosen", !.source = "user"]

\* admin_update_user of the store.
WithUpdate(row, r) ==
  [row EXCEPT !.role = IF r.role = "keep" THEN @ ELSE r.role,
              !.name = IF r.named THEN "chosen" ELSE @,
              !.source = IF r.named THEN "user" ELSE @]

\* create_user: a name that is taken is a 409.
Created(r) == NewRow(r.role, IF r.named THEN "chosen" ELSE "username")

Written(r) ==
  LET row == users[r.user] IN
  CASE r.op = "change"  -> WithPassword(row, r.pw)
    [] r.op = "reset"   -> WithReset(row)
    [] r.op = "profile" -> WithProfile(row)
    [] r.op = "update"  -> WithUpdate(row, r)
    [] r.op = "delete"  -> Nobody
    [] r.op = "create"  -> row

Removes(r) == r.op = "delete" \/ (r.op = "update" /\ r.role = "user")

Write(c) ==
  /\ At(c, "write")
  /\ LET r == req[c]
         row == IF Known(r.user) THEN Written(r) ELSE IF r.op = "create" THEN Created(r) ELSE Nobody
     IN /\ Put(c, row)
        /\ raced' = (raced \/ (Removes(r) /\ r.user \in Admins /\ Admins # r.seen))
  /\ Free(c)
  /\ UNCHANGED <<env, phase, todo>>

\* tools/bulk_create_users.py, a process of its own: upsert, with role user.
Bulk(u) ==
  /\ u \in Participants
  /\ users' = [users EXCEPT ![u] =
                 IF Known(u) THEN [NewRow("user", "chosen") EXCEPT !.source = users[u].source]
                 ELSE NewRow("user", "chosen")]
  /\ raced' = (raced \/ u \in Admins)
  /\ UNCHANGED <<env, phase, todo, req>>

-----------------------------------------------------------------------------
Boot == (\E u \in Users : Seed(u) \/ Prune(u)) \/ EndSeed \/ Ready

Ask(c) ==
  \E u \in Users :
    \/ \E old, new \in Passwords : AskChange(c, u, old, new)
    \/ AskProfile(c, u)
    \/ \E a \in Users :
         \/ AskReset(c, a, u)
         \/ AskDelete(c, a, u)
         \/ \E named \in BOOLEAN :
              \/ \E role \in {"user", "admin"} : AskCreate(c, a, u, role, named)
              \/ \E role \in {"keep", "user", "admin"} : AskUpdate(c, a, u, role, named)

Next ==
  \/ Boot
  \/ \E e \in Envs : Restart(e)
  \/ \E c \in Clients : Ask(c) \/ ReadTarget(c) \/ CountAdmins(c) \/ Write(c)
  \/ \E u \in Users : Bulk(u)

Spec == Init /\ [][Next]_vars

\* Clients are alike.
ClientSymmetry == Permutations(Clients)

-----------------------------------------------------------------------------
TypeOK ==
  /\ users \in [Users -> Row \cup {Nobody}]
  /\ env \in Envs
  /\ phase \in {"seeding", "pruning", "up"}
  /\ todo \in SUBSET Users
  /\ req \in [Clients -> Request \cup {Nobody}]
  /\ raced \in BOOLEAN

\* An account that is not asked to change its password has one its owner has
\* chosen: no order of resets, restarts, deletions, new accounts and runs of
\* the script leaves a handed-out password on an account that passes the gate.
GateNeedsOwnPassword == \A u \in Users : Known(u) /\ ~users[u].must => users[u].by = "self"

\* A start, also one that a stop has cut short and another environment takes
\* up, leaves the passwords and edited names of the listed users alone.
ChoicesOutliveStarts ==
  [][\A u \in Users :
       phase # "up" /\ Known(u) /\ u \in env.listed /\ ~Bulk(u) =>
         /\ users'[u] # Nobody /\ users'[u].pw = users[u].pw /\ users'[u].must = users[u].must
         /\ users[u].source = "user" => users'[u].name = users[u].name]_vars

\* When the server comes up, every listed user exists with the role the
\* environment gives it, there is an account to log in with, and with pruning
\* on there is no other one.
UpMatchesEnv ==
  [][phase # "up" /\ phase' = "up" =>
       /\ \A u \in env.listed :
            users'[u] # Nobody /\ (u \notin Participants => users'[u].role = ListedRole(u))
       /\ \E u \in Users : users'[u] # Nobody
       /\ env.prune /\ env.listed # {} =>
            \A u \in Users \ (env.listed \cup Participants) : users'[u] = Nobody]_vars

\* The console never takes the last administrator away, as long as no other
\* write changed who is one between the count of a request and its write.
AdminRemains ==
  phase = "up" /\ env.listed \cap env.admins # {} /\ ~raced => Admins # {}
=============================================================================
