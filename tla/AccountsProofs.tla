---------------------------- MODULE AccountsProofs ----------------------------
(***************************************************************************)
(* Theorems about Accounts, for any users, clients and environments: who   *)
(* passes the gate has chosen its password, a start keeps what users have  *)
(* chosen, and it ends with the accounts that its environment lists.       *)
(***************************************************************************)
EXTENDS Accounts, FiniteSetTheorems, TLAPS

LEMMA RowFields ==
  ASSUME NEW r \in Row
  PROVE  /\ r.pw \in Passwords /\ r.must \in BOOLEAN /\ r.role \in {"admin", "user"}
         /\ r.name \in {"username", "chosen"} /\ r.source \in {"seed", "user"}
         /\ r.by \in {"self", "other"}
  BY DEF Row

LEMMA NewRowType ==
  ASSUME NEW role \in {"admin", "user"}, NEW name \in {"username", "chosen"}
  PROVE  /\ NewRow(role, name) \in Row
         /\ NewRow(role, name).must = TRUE /\ NewRow(role, name).role = role
  BY HandedAssumption DEF NewRow, Row

LEMMA EnvFields ==
  ASSUME NEW e \in Envs
  PROVE  /\ e.listed \in SUBSET Users /\ e.admins \in SUBSET Users /\ e.prune \in BOOLEAN
  BY EnvsAssumption DEF Envs

\* What a start makes of an account.
LEMMA SeededRow ==
  ASSUME TypeOK, NEW u \in Users
  PROVE  /\ Seeded(u) \in Row
         /\ Seeded(u).role = ListedRole(u)
         /\ ~Seeded(u).must => Known(u) /\ Seeded(u).by = users[u].by /\ ~users[u].must
         /\ Known(u) => /\ Seeded(u).pw = users[u].pw /\ Seeded(u).must = users[u].must
                        /\ users[u].source = "user" => Seeded(u).name = users[u].name
<1>1. ListedRole(u) \in {"admin", "user"}
  BY DEF ListedRole
<1>2. CASE ~Known(u)
  BY <1>1, <1>2, NewRowType DEF Seeded
<1>3. CASE Known(u)
  <2>1. users[u] \in Row
    BY <1>3 DEF TypeOK, Known
  <2>2. Seeded(u) = [users[u] EXCEPT !.role = ListedRole(u),
                        !.name = IF users[u].source = "user" THEN @ ELSE "username"]
    BY <1>3 DEF Seeded
  <2> QED BY <1>1, <1>3, <2>1, <2>2 DEF Row
<1> QED BY <1>2, <1>3

LEMMA RequestFields ==
  ASSUME NEW r \in Request
  PROVE  /\ r.op \in {"change", "profile", "reset", "create", "update", "delete"}
         /\ r.at \in {"target", "count", "write"} /\ r.caller \in Users /\ r.user \in Users
         /\ r.pw \in Passwords /\ r.role \in {"keep", "user", "admin"} /\ r.named \in BOOLEAN
         /\ r.seen \in SUBSET Users
  BY DEF Request

\* What a request makes of the row it writes.
LEMMA WrittenRow ==
  ASSUME NEW r \in Request, TypeOK, Known(r.user)
  PROVE  /\ Written(r) \in Row \cup {Nobody}
         /\ Written(r) # Nobody /\ ~Written(r).must =>
              Written(r).by = "self" \/ (Written(r).by = users[r.user].by /\ ~users[r.user].must)
<1>1. r.user \in Users /\ users[r.user] \in Row
  BY RequestFields DEF TypeOK, Known
<1> DEFINE row == users[r.user]
<1>2. /\ row \in Row /\ r.pw \in Passwords /\ r.role \in {"keep", "user", "admin"}
      /\ r.op \in {"change", "profile", "reset", "create", "update", "delete"}
  BY <1>1, RequestFields
<1> HIDE DEF row
<1>3. /\ WithPassword(row, r.pw) \in Row /\ WithPassword(row, r.pw).by = "self"
      /\ WithReset(row) \in Row /\ WithReset(row).must = TRUE
      /\ WithProfile(row) \in Row /\ WithProfile(row).must = row.must /\ WithProfile(row).by = row.by
      /\ WithUpdate(row, r) \in Row /\ WithUpdate(row, r).must = row.must
      /\ WithUpdate(row, r).by = row.by
  BY <1>2, HandedAssumption DEF WithPassword, WithReset, WithProfile, WithUpdate, Row
<1>4. \/ Written(r) = WithPassword(row, r.pw)
      \/ Written(r) = WithReset(row)
      \/ Written(r) = WithProfile(row)
      \/ Written(r) = WithUpdate(row, r)
      \/ Written(r) = Nobody
      \/ Written(r) = row
  BY <1>2 DEF Written, row
<1> QED BY <1>2, <1>3, <1>4 DEF row

LEMMA CreatedRow ==
  ASSUME NEW r \in Request, r.role \in {"user", "admin"}
  PROVE  Created(r) \in Row /\ Created(r).must = TRUE
  BY NewRowType DEF Created

\* A request to create names a role.
RolesNamed == \A c \in Clients : req[c] # Nobody /\ req[c].op = "create" => req[c].role # "keep"

\* The row a write leaves is a row or none, and only its owner's change opens it.
LEMMA WriteRow ==
  ASSUME TypeOK, RolesNamed, NEW c \in Clients, Write(c)
  PROVE  \E u \in Users, row \in Row \cup {Nobody} :
           /\ users' = [users EXCEPT ![u] = row]
           /\ row # Nobody /\ ~row.must =>
                row.by = "self" \/ (Known(u) /\ row.by = users[u].by /\ ~users[u].must)
<1> DEFINE r == req[c]
<1> DEFINE new == IF Known(r.user) THEN Written(r) ELSE IF r.op = "create" THEN Created(r) ELSE Nobody
<1>1. r \in Request /\ r.user \in Users /\ (r.op = "create" => r.role \in {"user", "admin"})
  BY RequestFields DEF Write, At, TypeOK, RolesNamed
<1>2. users' = [users EXCEPT ![r.user] = new]
  BY DEF Write, Put
<1>3. CASE Known(r.user)
  BY <1>1, <1>2, <1>3, WrittenRow
<1>4. CASE ~Known(r.user) /\ r.op = "create"
  BY <1>1, <1>2, <1>4, CreatedRow
<1>5. CASE ~Known(r.user) /\ r.op # "create"
  BY <1>1, <1>2, <1>5
<1> QED BY <1>3, <1>4, <1>5

-----------------------------------------------------------------------------
\* Types, with the roles of requests that create.
Typed == TypeOK /\ RolesNamed

LEMMA AskedType ==
  ASSUME NEW op \in {"change", "profile", "reset", "create", "update", "delete"},
         NEW at \in {"target", "count", "write"}, NEW a \in Users, NEW u \in Users
  PROVE  /\ Asked(op, at, a, u) \in Request
         /\ Asked(op, at, a, u).op = op /\ Asked(op, at, a, u).at = at
  BY HandedAssumption DEF Asked, Request

\* Whatever a client asks, it is a request, and the table stays as it is.
LEMMA AskStep ==
  ASSUME NEW c \in Clients, Ask(c)
  PROVE  /\ UNCHANGED <<users, env, phase, todo, raced>> /\ phase = "up"
         /\ \E r \in Request : /\ req' = [req EXCEPT ![c] = r]
                             /\ (r.op = "create" => r.role # "keep")
                             /\ (r.at = "write" => ~Removes(r))
<1> PICK u \in Users :
    \/ \E old, new \in Passwords : AskChange(c, u, old, new)
    \/ AskProfile(c, u)
    \/ \E a \in Users :
         \/ AskReset(c, a, u)
         \/ AskDelete(c, a, u)
         \/ \E named \in BOOLEAN :
              \/ \E role \in {"user", "admin"} : AskCreate(c, a, u, role, named)
              \/ \E role \in {"keep", "user", "admin"} : AskUpdate(c, a, u, role, named)
  BY DEF Ask
<1> USE DEF Start, Caller, ActiveCaller, AdminCaller, Removes
<1> DEFINE Asks(r) ==
      /\ UNCHANGED <<users, env, phase, todo, raced>> /\ phase = "up"
      /\ r \in Request /\ req' = [req EXCEPT ![c] = r]
      /\ r.op = "create" => r.role # "keep"
      /\ r.at = "write" => ~Removes(r)
<1>1. ASSUME NEW old \in Passwords, NEW new \in Passwords, AskChange(c, u, old, new)
      PROVE  \E r : Asks(r)
  <2> DEFINE q == Asked("change", "write", u, u)
  <2>1. q \in Request /\ q.op = "change"
    BY AskedType
  <2> HIDE DEF q
  <2>2. [q EXCEPT !.pw = new] \in Request /\ [q EXCEPT !.pw = new].op = "change"
    BY <2>1 DEF Request
  <2>3. Asks([q EXCEPT !.pw = new])
    BY <1>1, <2>2 DEF AskChange, q
  <2> QED BY <2>3
<1>2. ASSUME AskProfile(c, u) PROVE \E r : Asks(r)
  <2>1. Asks(Asked("profile", "write", u, u))
    BY <1>2, AskedType DEF AskProfile
  <2> QED BY <2>1
<1>3. ASSUME NEW a \in Users, AskReset(c, a, u) PROVE \E r : Asks(r)
  <2>1. Asks(Asked("reset", "write", u, u))
    BY <1>3, AskedType DEF AskReset
  <2> QED BY <2>1
<1>4. ASSUME NEW a \in Users, AskDelete(c, a, u) PROVE \E r : Asks(r)
  <2>1. Asks(Asked("delete", "target", a, u))
    BY <1>4, AskedType DEF AskDelete
  <2> QED BY <2>1
<1>5. ASSUME NEW a \in Users, NEW named \in BOOLEAN, NEW role \in {"user", "admin"},
             AskCreate(c, a, u, role, named)
      PROVE  \E r : Asks(r)
  <2> DEFINE q == Asked("create", "write", u, u)
  <2>1. q \in Request /\ q.op = "create"
    BY AskedType
  <2> HIDE DEF q
  <2>2. /\ [q EXCEPT !.role = role, !.named = named] \in Request
        /\ [q EXCEPT !.role = role, !.named = named].role = role
        /\ [q EXCEPT !.role = role, !.named = named].op = "create"
    BY <2>1 DEF Request
  <2>3. Asks([q EXCEPT !.role = role, !.named = named])
    BY <1>5, <2>2 DEF AskCreate, q
  <2> QED BY <2>3
<1>6. ASSUME NEW a \in Users, NEW named \in BOOLEAN, NEW role \in {"keep", "user", "admin"},
             AskUpdate(c, a, u, role, named)
      PROVE  \E r : Asks(r)
  <2> DEFINE q == IF role = "user" THEN Asked("update", "target", a, u) ELSE Asked("update", "write", u, u)
  <2>1. q \in Request /\ q.op = "update" /\ (role = "user" => q.at = "target")
    BY AskedType
  <2> HIDE DEF q
  <2>2. /\ [q EXCEPT !.role = role, !.named = named] \in Request
        /\ [q EXCEPT !.role = role, !.named = named].op = "update"
        /\ [q EXCEPT !.role = role, !.named = named].role = role
        /\ [q EXCEPT !.role = role, !.named = named].at = q.at
    BY <2>1 DEF Request
  <2> DEFINE r == [q EXCEPT !.role = role, !.named = named]
  <2>3. /\ UNCHANGED <<users, env, phase, todo, raced>> /\ phase = "up"
        /\ req' = [req EXCEPT ![c] = r]
    BY <1>6 DEF AskUpdate, q
  <2>4. r \in Request /\ r.op = "update" /\ r.role = role /\ r.at = q.at
    BY <2>2
  <2> HIDE DEF r
  <2>5. r.at = "write" => ~Removes(r)
    BY <2>1, <2>4
  <2> QED BY <2>3, <2>4, <2>5
<1> QED BY <1>1, <1>2, <1>3, <1>4, <1>5, <1>6

\* A guard keeps the request, or ends it.
LEMMA GuardStep ==
  ASSUME Typed, NEW c \in Clients, ReadTarget(c) \/ CountAdmins(c)
  PROVE  Typed' /\ UNCHANGED <<users, env, phase, todo>> /\ req[c] # Nobody
<1> USE DEF Typed, TypeOK, RolesNamed
<1>1. req[c] \in Request /\ req[c].user \in Users
  BY RequestFields DEF ReadTarget, CountAdmins, At
<1>2. Admins \in SUBSET Users
  BY DEF Admins
<1>3. ASSUME NEW at \in {"target", "count", "write"}
      PROVE  LET r == [req[c] EXCEPT !.at = at, !.caller = req[c].user,
                                     !.seen = IF at = "write" THEN Admins ELSE {}]
             IN  r \in Request /\ r.op = req[c].op /\ r.role = req[c].role
  BY <1>1, <1>2 DEF Request
<1>4. ASSUME NEW at \in {"target", "count", "write"}, To(c, at)
      PROVE  /\ req' \in [Clients -> Request \cup {Nobody}]
             /\ RolesNamed'
  <2> DEFINE r == [req[c] EXCEPT !.at = at, !.caller = req[c].user,
                                 !.seen = IF at = "write" THEN Admins ELSE {}]
  <2>1. r \in Request /\ r.op = req[c].op /\ r.role = req[c].role
    BY <1>3
  <2>2. req' = [req EXCEPT ![c] = r]
    BY <1>4 DEF To
  <2> HIDE DEF r
  <2>3. req[c] # Nobody
    BY DEF ReadTarget, CountAdmins, At
  <2> QED BY <2>1, <2>2, <2>3
<1>5. ASSUME Free(c)
      PROVE  req' \in [Clients -> Request \cup {Nobody}] /\ RolesNamed'
  BY <1>5 DEF Free
<1>6. CASE ReadTarget(c)
  <2>1. Free(c) \/ To(c, "count") \/ To(c, "write")
    BY <1>6 DEF ReadTarget
  <2> QED BY <2>1, <1>4, <1>5, <1>6 DEF ReadTarget, At
<1>7. CASE CountAdmins(c)
  <2>1. Free(c) \/ To(c, "write")
    BY <1>7 DEF CountAdmins
  <2> QED BY <2>1, <1>4, <1>5, <1>7 DEF CountAdmins, At
<1> QED BY <1>6, <1>7

LEMMA TypeInit == Init => Typed
  BY EnvFields DEF Init, Typed, TypeOK, RolesNamed

LEMMA TypeStep == Typed /\ [Next]_vars => Typed'
<1> SUFFICES ASSUME Typed, [Next]_vars PROVE Typed'
  OBVIOUS
<1> USE DEF Typed
<1>1. ASSUME NEW u \in Users, Seed(u) PROVE Typed'
  BY <1>1, SeededRow DEF Seed, TypeOK, RolesNamed
<1>2. ASSUME NEW u \in Users, Prune(u) PROVE Typed'
  BY <1>2 DEF Prune, TypeOK, RolesNamed
<1>3. CASE EndSeed
  BY <1>3 DEF EndSeed, TypeOK, RolesNamed, Unlisted
<1>4. CASE Ready
  BY <1>4, UsersAssumption, NewRowType DEF Ready, TypeOK, RolesNamed
<1>5. ASSUME NEW e \in Envs, Restart(e) PROVE Typed'
  BY <1>5, EnvFields DEF Restart, TypeOK, RolesNamed
<1>6. ASSUME NEW c \in Clients, Ask(c) PROVE Typed'
  BY <1>6, AskStep DEF TypeOK, RolesNamed
<1>7. ASSUME NEW c \in Clients, ReadTarget(c) \/ CountAdmins(c) PROVE Typed'
  BY <1>7, GuardStep
<1>8. ASSUME NEW c \in Clients, Write(c) PROVE Typed'
  <2>1. users' \in [Users -> Row \cup {Nobody}]
    BY <1>8, WriteRow DEF TypeOK
  <2>2. raced' \in BOOLEAN
    BY <1>8 DEF Write, TypeOK
  <2>3. req' = [req EXCEPT ![c] = Nobody] /\ UNCHANGED <<env, phase, todo>>
    BY <1>8 DEF Write, Free
  <2> QED BY <2>1, <2>2, <2>3 DEF TypeOK, RolesNamed
<1>9. ASSUME NEW u \in Users, Bulk(u) PROVE Typed'
  <2>1. NewRow("user", "chosen") \in Row
    BY NewRowType
  <2>2. Known(u) => [NewRow("user", "chosen") EXCEPT !.source = users[u].source] \in Row
    BY <2>1 DEF Known, TypeOK, Row
  <2>3. users' \in [Users -> Row \cup {Nobody}]
    BY <1>9, <2>1, <2>2 DEF Bulk, TypeOK
  <2>4. raced' \in BOOLEAN
    BY <1>9 DEF Bulk, TypeOK
  <2> QED BY <1>9, <2>3, <2>4 DEF Bulk, TypeOK, RolesNamed
<1>10. CASE UNCHANGED vars
  BY <1>10 DEF vars, TypeOK, RolesNamed
<1> QED BY <1>1, <1>2, <1>3, <1>4, <1>5, <1>6, <1>7, <1>8, <1>9, <1>10 DEF Next, Boot

\* Every variable keeps its type.
THEOREM Typing == Spec => []TypeOK
<1>1. Typed => TypeOK
  BY DEF Typed
<1> QED BY TypeInit, TypeStep, <1>1, PTL DEF Spec

-----------------------------------------------------------------------------
\* A row of a later state is an old one, an opened one, or a closed one.
LEMMA GateStep == Typed /\ GateNeedsOwnPassword /\ [Next]_vars => GateNeedsOwnPassword'
<1> SUFFICES ASSUME Typed, GateNeedsOwnPassword, [Next]_vars PROVE GateNeedsOwnPassword'
  OBVIOUS
<1> USE DEF Typed, GateNeedsOwnPassword, Known
<1>1. ASSUME NEW u \in Users, Seed(u) PROVE GateNeedsOwnPassword'
  <2>1. users' = [users EXCEPT ![u] = Seeded(u)] /\ users \in [Users -> Row \cup {Nobody}]
    BY <1>1 DEF Seed, TypeOK
  <2>2. ~Seeded(u).must => Seeded(u).by = "self"
    BY SeededRow
  <2> QED BY <2>1, <2>2
<1>2. ASSUME NEW u \in Users, Prune(u) PROVE GateNeedsOwnPassword'
  BY <1>2 DEF Prune, TypeOK
<1>3. CASE Ready
  <2>1. NewRow("admin", "username").must = TRUE
    BY NewRowType
  <2> QED BY <1>3, <2>1 DEF Ready, TypeOK
<1>4. CASE UNCHANGED users
  BY <1>4
<1>5. ASSUME NEW c \in Clients, Write(c) PROVE GateNeedsOwnPassword'
  <2>1. PICK u \in Users, row \in Row \cup {Nobody} :
           /\ users' = [users EXCEPT ![u] = row]
           /\ row # Nobody /\ ~row.must =>
                row.by = "self" \/ (Known(u) /\ row.by = users[u].by /\ ~users[u].must)
    BY <1>5, WriteRow
  <2>2. row # Nobody /\ ~row.must => row.by = "self"
    BY <2>1
  <2> QED BY <2>1, <2>2 DEF TypeOK
<1>6. ASSUME NEW u \in Users, Bulk(u) PROVE GateNeedsOwnPassword'
  <2>1. NewRow("user", "chosen").must = TRUE /\ NewRow("user", "chosen") \in Row
    BY NewRowType
  <2>2. [NewRow("user", "chosen") EXCEPT !.source = users[u].source].must = TRUE
    BY <2>1 DEF Row
  <2>3. \E row : row.must = TRUE /\ users' = [users EXCEPT ![u] = row]
    BY <1>6, <2>1, <2>2 DEF Bulk
  <2> QED BY <2>3 DEF TypeOK
<1>7. CASE EndSeed \/ (\E e \in Envs : Restart(e)) \/ (\E c \in Clients : Ask(c)) \/ UNCHANGED vars
  BY <1>7, <1>4, AskStep DEF EndSeed, Restart, vars
<1>8. ASSUME NEW c \in Clients, ReadTarget(c) \/ CountAdmins(c) PROVE GateNeedsOwnPassword'
  BY <1>8, <1>4, GuardStep
<1> QED BY <1>1, <1>2, <1>3, <1>5, <1>6, <1>7, <1>8 DEF Next, Boot

\* No order of resets, restarts, deletions, new accounts and runs of the script
\* leaves a handed-out password on an account that require_user_active lets by.
THEOREM GateOpensToOwners == Spec => []GateNeedsOwnPassword
<1>1. Init => GateNeedsOwnPassword
  BY DEF Init, GateNeedsOwnPassword, Known
<1> QED BY <1>1, TypeInit, TypeStep, GateStep, PTL DEF Spec

-----------------------------------------------------------------------------
\* While the server starts there is no request, and what the start has done so
\* far is there.
Settled(u) == Known(u) /\ (u \notin Participants => users[u].role = ListedRole(u))

Quiet == phase # "up" => \A c \in Clients : req[c] = Nobody

SeedingDone == phase = "seeding" =>
  /\ todo \subseteq env.listed
  /\ \A u \in env.listed \ todo : Settled(u)

PruningDone == phase = "pruning" =>
  /\ todo \cap env.listed = {}
  /\ \A u \in env.listed : Settled(u)
  /\ env.prune /\ env.listed # {} =>
       \A u \in Users \ (env.listed \cup Participants) : Known(u) => u \in todo

Booting == Quiet /\ SeedingDone /\ PruningDone

LEMMA BootingStep == Typed /\ Booting /\ [Next]_vars => Booting'
<1> SUFFICES ASSUME Typed, Booting, [Next]_vars PROVE Booting'
  OBVIOUS
<1> USE DEF Typed, Booting, Quiet, SeedingDone, PruningDone, Settled, Known, ListedRole
<1>e. env.listed \in SUBSET Users /\ users \in [Users -> Row \cup {Nobody}]
  BY EnvFields DEF TypeOK
<1>1. ASSUME NEW u \in Users, Seed(u) PROVE Booting'
  <2>1. Seeded(u) # Nobody /\ Seeded(u).role = ListedRole(u)
    BY SeededRow, NobodyAssumption
  <2>2. /\ users' = [users EXCEPT ![u] = Seeded(u)] /\ todo' = todo \ {u}
        /\ phase' = "seeding" /\ phase = "seeding" /\ UNCHANGED <<env, req>>
    BY <1>1 DEF Seed
  <2> QED BY <1>e, <2>1, <2>2
<1>2. ASSUME NEW u \in Users, Prune(u) PROVE Booting'
  BY <1>2, <1>e DEF Prune
<1>3. CASE EndSeed
  <2>1. /\ phase = "seeding" /\ phase' = "pruning" /\ todo = {} /\ todo' = Unlisted
        /\ UNCHANGED <<users, env, req>>
    BY <1>3 DEF EndSeed
  <2>2. \A u \in env.listed : Settled(u) /\ u \notin Unlisted
    BY <2>1, <1>e DEF Unlisted
  <2>3. env.prune /\ env.listed # {} => \A u \in Users \ env.listed : Known(u) => u \in Unlisted
    BY DEF Unlisted
  <2> QED BY <2>1, <2>2, <2>3
<1>4. CASE Ready
  BY <1>4 DEF Ready
<1>5. ASSUME NEW e \in Envs, Restart(e) PROVE Booting'
  BY <1>5 DEF Restart
<1>6. CASE phase = "up" /\ phase' = "up"
  BY <1>6
<1>7. ASSUME NEW u \in Users, Bulk(u) PROVE Booting'
  <2>1. NewRow("user", "chosen") \in Row
    BY NewRowType
  <2>2. Known(u) => [NewRow("user", "chosen") EXCEPT !.source = users[u].source] \in Row
    BY <2>1, <1>e DEF Row
  <2>3. \E row \in Row : users' = [users EXCEPT ![u] = row]
    BY <1>7, <2>1, <2>2 DEF Bulk
  <2>4. u \in Participants /\ UNCHANGED <<env, phase, todo, req>>
    BY <1>7 DEF Bulk
  <2> QED BY <1>e, <2>3, <2>4, NobodyAssumption
<1>8. CASE \E c \in Clients : Ask(c)
  BY <1>8, AskStep, <1>6
<1>9. ASSUME NEW c \in Clients, ReadTarget(c) \/ CountAdmins(c) \/ Write(c) PROVE Booting'
  BY <1>9, <1>6 DEF ReadTarget, CountAdmins, Write, At
<1>10. CASE UNCHANGED vars
  BY <1>10 DEF vars
<1> QED BY <1>1, <1>2, <1>3, <1>4, <1>5, <1>7, <1>8, <1>9, <1>10 DEF Next, Boot

LEMMA BootingInit == Init => Booting
  BY EnvFields DEF Init, Booting, Quiet, SeedingDone, PruningDone

KeepsChoices ==
  \A u \in Users :
    phase # "up" /\ Known(u) /\ u \in env.listed /\ ~Bulk(u) =>
      /\ users'[u] # Nobody /\ users'[u].pw = users[u].pw /\ users'[u].must = users[u].must
      /\ users[u].source = "user" => users'[u].name = users[u].name

LEMMA KeepsStep == Typed /\ Booting /\ [Next]_vars => KeepsChoices
<1> SUFFICES ASSUME Typed, Booting, [Next]_vars, NEW u \in Users,
                    phase # "up", Known(u), u \in env.listed, ~Bulk(u)
             PROVE  /\ users'[u] # Nobody /\ users'[u].pw = users[u].pw
                    /\ users'[u].must = users[u].must
                    /\ users[u].source = "user" => users'[u].name = users[u].name
  BY DEF KeepsChoices
<1> USE DEF Typed, Known
<1>e. users \in [Users -> Row \cup {Nobody}]
  BY DEF TypeOK
<1>1. ASSUME NEW v \in Users, Seed(v)
      PROVE  /\ users'[u] # Nobody /\ users'[u].pw = users[u].pw /\ users'[u].must = users[u].must
             /\ users[u].source = "user" => users'[u].name = users[u].name
  <2>1. Seeded(u) # Nobody /\ Seeded(u).pw = users[u].pw /\ Seeded(u).must = users[u].must
        /\ (users[u].source = "user" => Seeded(u).name = users[u].name)
    BY SeededRow, NobodyAssumption
  <2>2. users' = [users EXCEPT ![v] = Seeded(v)]
    BY <1>1 DEF Seed
  <2> QED BY <1>e, <2>1, <2>2
<1>2. ASSUME NEW v \in Users, Prune(v) PROVE UNCHANGED users[u]
  <2>1. v # u
    BY <1>2 DEF Prune, Booting, PruningDone
  <2> QED BY <1>2, <2>1, <1>e DEF Prune
<1>3. CASE Ready
  BY <1>3 DEF Ready
<1>4. ASSUME NEW v \in Users, Bulk(v) PROVE UNCHANGED users[u]
  <2>1. v # u
    BY <1>4
  <2> QED BY <1>4, <2>1, <1>e DEF Bulk
<1>5. CASE EndSeed \/ (\E e \in Envs : Restart(e)) \/ UNCHANGED vars
  BY <1>5 DEF EndSeed, Restart, vars
<1>6. \A c \in Clients : ~Ask(c) /\ ~ReadTarget(c) /\ ~CountAdmins(c) /\ ~Write(c)
  BY AskStep DEF ReadTarget, CountAdmins, Write, At, Booting, Quiet
<1> QED BY <1>1, <1>2, <1>3, <1>4, <1>5, <1>6 DEF Next, Boot

\* A start, also one that a stop has cut short, leaves the passwords and the
\* edited names of the users it lists alone.
THEOREM StartKeepsChoices == Spec => ChoicesOutliveStarts
<1>1. Typed /\ Booting /\ [Next]_vars => [KeepsChoices]_vars
  BY KeepsStep
<1>2. [][KeepsChoices]_vars => ChoicesOutliveStarts
  BY PTL DEF ChoicesOutliveStarts, KeepsChoices
<1> QED BY <1>1, <1>2, TypeInit, TypeStep, BootingInit, BootingStep, PTL DEF Spec

ComesUp ==
  phase # "up" /\ phase' = "up" =>
    /\ \A u \in env.listed :
         users'[u] # Nobody /\ (u \notin Participants => users'[u].role = ListedRole(u))
    /\ \E u \in Users : users'[u] # Nobody
    /\ env.prune /\ env.listed # {} =>
         \A u \in Users \ (env.listed \cup Participants) : users'[u] = Nobody

LEMMA ComesUpStep == Typed /\ Booting /\ [Next]_vars => ComesUp
<1> SUFFICES ASSUME Typed, Booting, [Next]_vars, phase # "up", phase' = "up" PROVE ComesUp
  BY DEF ComesUp
<1> USE DEF Typed, Known
<1>1. Ready
  BY AskStep DEF Next, Boot, Seed, Prune, EndSeed, Restart, Bulk, ReadTarget, CountAdmins, Write, vars
<1>2. NewRow("admin", "username") # Nobody
  BY NewRowType, NobodyAssumption
<1>3. CASE \E u \in Users : Known(u)
  BY <1>1, <1>3 DEF Ready, ComesUp, Booting, PruningDone, Settled
<1>4. CASE ~ \E u \in Users : Known(u)
  <2>1. env.listed = {}
    BY <1>1, <1>4, EnvFields DEF Ready, Booting, PruningDone, Settled, TypeOK
  <2>2. users'[Root] # Nobody
    BY <1>1, <1>2, <1>4, UsersAssumption DEF Ready, TypeOK
  <2> QED BY <2>1, <2>2, UsersAssumption DEF ComesUp
<1> QED BY <1>3, <1>4

\* The server comes up with every account its environment lists, in the role it
\* gives, with an account to log in with, and, with pruning on, with no other.
THEOREM StartEndsAsListed == Spec => UpMatchesEnv
<1>1. Typed /\ Booting /\ [Next]_vars => [ComesUp]_vars
  BY ComesUpStep
<1>2. [][ComesUp]_vars => UpMatchesEnv
  BY PTL DEF UpMatchesEnv, ComesUp
<1> QED BY <1>1, <1>2, TypeInit, TypeStep, BootingInit, BootingStep, PTL DEF Spec

-----------------------------------------------------------------------------
\* A request that takes an administrator away has counted another one.
Counted ==
  \A c \in Clients :
    At(c, "write") /\ Removes(req[c]) =>
      req[c].user \notin req[c].seen \/ \E a \in req[c].seen : a # req[c].user

\* Administrators of the environment whose turn has come.
Appointed(u) == u \in env.listed /\ u \in env.admins

AdminBooting ==
  ~raced =>
    /\ phase = "seeding" => \A u \in Users : Appointed(u) /\ u \notin todo => u \in Admins
    /\ phase = "pruning" => \A u \in Users : Appointed(u) => u \in Admins /\ u \notin todo

AdminInv == Counted /\ AdminBooting /\ AdminRemains

LEMMA TwoAdmins ==
  ASSUME NEW S \in SUBSET Users, Cardinality(S) > 1, NEW u
  PROVE  \E a \in S : a # u
<1> SUFFICES ASSUME S \subseteq {u} PROVE FALSE
  OBVIOUS
<1>1. S = {} \/ S = {u}
  OBVIOUS
<1>2. Cardinality({}) = 0 /\ Cardinality({u}) = 1
  BY FS_EmptySet, FS_Singleton
<1> QED BY <1>1, <1>2

LEMMA CountedStep == Typed /\ Counted /\ [Next]_vars => Counted'
<1> SUFFICES ASSUME Typed, Counted, [Next]_vars PROVE Counted'
  OBVIOUS
<1> USE DEF Typed, Counted, At
<1>r. req \in [Clients -> Request \cup {Nobody}]
  BY DEF TypeOK
<1>1. CASE UNCHANGED req
  BY <1>1
<1>2. (\E u \in Users : Seed(u) \/ Prune(u) \/ Bulk(u)) \/ EndSeed \/ Ready \/ UNCHANGED vars => UNCHANGED req
  BY DEF Seed, Prune, Bulk, EndSeed, Ready, vars
<1>3. ASSUME NEW e \in Envs, Restart(e) PROVE Counted'
  BY <1>3 DEF Restart
<1>4. ASSUME NEW c \in Clients, NEW r \in Request, req' = [req EXCEPT ![c] = r],
             r.at = "write" => ~Removes(r)
      PROVE  Counted'
  BY <1>4, <1>r
<1>5. ASSUME NEW c \in Clients, Free(c) PROVE Counted'
  BY <1>5, <1>r DEF Free
<1>6. ASSUME NEW c \in Clients, NEW at \in {"target", "count", "write"}, To(c, at), req[c] # Nobody,
             at = "write" => req[c].user \notin Admins \/ \E a \in Admins : a # req[c].user
      PROVE  Counted'
  <2> DEFINE r == [req[c] EXCEPT !.at = at, !.caller = req[c].user,
                                 !.seen = IF at = "write" THEN Admins ELSE {}]
  <2>1. req[c] \in Request
    BY <1>6, <1>r
  <2>2. r.user = req[c].user /\ r.at = at /\ (at = "write" => r.seen = Admins)
    BY <2>1 DEF Request
  <2>3. req' = [req EXCEPT ![c] = r]
    BY <1>6 DEF To
  <2> HIDE DEF r
  <2>4. req'[c] = r /\ \A d \in Clients : d # c => req'[d] = req[d]
    BY <2>3, <1>r
  <2> QED BY <1>6, <2>2, <2>4
<1>7. ASSUME NEW c \in Clients, ReadTarget(c) PROVE Counted'
  <2>1. Free(c) \/ To(c, "count") \/ (To(c, "write") /\ req[c].user \notin Admins)
    BY <1>7 DEF ReadTarget
  <2>2. req[c] # Nobody
    BY <1>7 DEF ReadTarget
  <2> QED BY <2>1, <2>2, <1>5, <1>6
<1>8. ASSUME NEW c \in Clients, CountAdmins(c) PROVE Counted'
  <2>1. Free(c) \/ (To(c, "write") /\ Cardinality(Admins) > 1)
    <3>1. Admins \in SUBSET Users /\ IsFiniteSet(Admins)
      BY UsersAssumption, FS_Subset DEF Admins
    <3>2. Cardinality(Admins) \in Nat
      BY <3>1, FS_CardinalityType
    <3>3. LastAdmin \/ Cardinality(Admins) > 1
      BY <3>2 DEF LastAdmin
    <3> QED BY <1>8, <3>3 DEF CountAdmins
  <2>2. req[c] # Nobody /\ Admins \in SUBSET Users
    BY <1>8 DEF CountAdmins, Admins
  <2>3. CASE Free(c)
    BY <2>3, <1>5
  <2>4. CASE To(c, "write") /\ Cardinality(Admins) > 1
    <3>1. \E a \in Admins : a # req[c].user
      BY <2>2, <2>4, TwoAdmins
    <3> QED BY <2>2, <2>4, <3>1, <1>6
  <2> QED BY <2>1, <2>3, <2>4
<1>9. ASSUME NEW c \in Clients, Write(c) PROVE Counted'
  BY <1>9, <1>5 DEF Write
<1>10. ASSUME NEW c \in Clients, Ask(c) PROVE Counted'
  BY <1>10, <1>4, AskStep
<1> QED BY <1>1, <1>2, <1>3, <1>7, <1>8, <1>9, <1>10 DEF Next, Boot

\* A step of a request or of the script that removes nobody else keeps the
\* administrators, up to the one row that it writes.
LEMMA WriteKeeps ==
  ASSUME Typed, NEW c \in Clients, Write(c),
         ~(Removes(req[c]) /\ req[c].user \in Admins)
  PROVE  Admins \subseteq Admins'
<1> DEFINE r == req[c]
<1>1. r \in Request /\ r.user \in Users /\ users \in [Users -> Row \cup {Nobody}]
      /\ r.op \in {"change", "profile", "reset", "create", "update", "delete"}
      /\ r.role \in {"keep", "user", "admin"}
  BY RequestFields DEF Write, At, Typed, TypeOK
<1>2. CASE r.user \notin Admins
  BY <1>1, <1>2 DEF Write, Put, Admins, Known
<1>3. CASE r.user \in Admins
  <2>1. users[r.user] \in Row /\ Known(r.user) /\ users[r.user].role = "admin"
    BY <1>1, <1>3 DEF Admins, Known
  <2>2. ~Removes(r)
    BY <1>3
  <2>3. Written(r) \in Row /\ Written(r).role = "admin"
    <3> DEFINE row == users[r.user]
    <3>1. /\ WithPassword(row, r.pw) \in Row /\ WithPassword(row, r.pw).role = "admin"
          /\ WithReset(row) \in Row /\ WithReset(row).role = "admin"
          /\ WithProfile(row) \in Row /\ WithProfile(row).role = "admin"
          /\ r.role # "user" => WithUpdate(row, r) \in Row /\ WithUpdate(row, r).role = "admin"
      BY <1>1, <2>1, RequestFields, HandedAssumption
         DEF WithPassword, WithReset, WithProfile, WithUpdate, Row
    <3>2. \/ r.op = "change" /\ Written(r) = WithPassword(row, r.pw)
          \/ r.op = "reset" /\ Written(r) = WithReset(row)
          \/ r.op = "profile" /\ Written(r) = WithProfile(row)
          \/ r.op = "update" /\ r.role # "user" /\ Written(r) = WithUpdate(row, r)
          \/ r.op = "create" /\ Written(r) = row
      BY <1>1, <2>2 DEF Written, Removes
    <3> QED BY <2>1, <3>1, <3>2
  <2>4. users' = [users EXCEPT ![r.user] = Written(r)]
    BY <2>1 DEF Write, Put
  <2> QED BY <1>1, <2>1, <2>3, <2>4, NobodyAssumption DEF Admins, Known
<1> QED BY <1>2, <1>3

\* Only a removal that looked at another table, which is raced, or one that has
\* counted another administrator takes an administrator away.
LEMMA WriteSpares ==
  ASSUME Typed, Counted, NEW c \in Clients, Write(c), ~raced', Admins # {}
  PROVE  Admins' # {}
<1>1. CASE ~(Removes(req[c]) /\ req[c].user \in Admins)
  BY <1>1, WriteKeeps
<1>2. CASE Removes(req[c]) /\ req[c].user \in Admins
  <2>1. Admins = req[c].seen
    BY <1>2 DEF Write
  <2>2. PICK a \in Admins : a # req[c].user
    BY <1>2, <2>1 DEF Counted, Write
  <2>3. \E row : users' = [users EXCEPT ![req[c].user] = row]
    BY DEF Write, Put
  <2>4. a \in Admins'
    BY <2>2, <2>3 DEF Admins, Known, Typed, TypeOK
  <2> QED BY <2>4
<1> QED BY <1>1, <1>2

LEMMA AdminStep == Typed /\ Booting /\ AdminInv /\ [Next]_vars => AdminInv'
<1> SUFFICES ASSUME Typed, Booting, AdminInv, [Next]_vars PROVE AdminBooting' /\ AdminRemains'
  BY CountedStep DEF AdminInv
<1> USE DEF AdminInv, AdminBooting, AdminRemains, Appointed
<1>e. users \in [Users -> Row \cup {Nobody}] /\ env.listed \in SUBSET Users
  BY EnvFields DEF Typed, TypeOK
<1>1. ASSUME NEW u \in Users, Seed(u) PROVE AdminBooting' /\ AdminRemains'
  <2>1. Seeded(u) # Nobody /\ Seeded(u).role = ListedRole(u)
    BY SeededRow, NobodyAssumption DEF Typed
  <2>2. /\ users' = [users EXCEPT ![u] = Seeded(u)] /\ todo' = todo \ {u}
        /\ phase' = "seeding" /\ phase = "seeding" /\ UNCHANGED <<env, req, raced>>
    BY <1>1 DEF Seed
  <2>3. \A v \in Users : v # u => (v \in Admins' <=> v \in Admins)
    BY <2>2, <1>e DEF Admins, Known
  <2>4. Appointed(u) => u \in Admins'
    BY <2>1, <2>2, <1>e DEF Admins, Known, ListedRole
  <2> QED BY <2>2, <2>3, <2>4
<1>2. ASSUME NEW u \in Users, Prune(u) PROVE AdminBooting' /\ AdminRemains'
  <2>1. /\ users' = [users EXCEPT ![u] = Nobody] /\ todo' = todo \ {u} /\ u \in todo
        /\ phase' = "pruning" /\ phase = "pruning" /\ UNCHANGED <<env, req, raced>>
    BY <1>2 DEF Prune
  <2>2. \A v \in Users : v # u => (v \in Admins' <=> v \in Admins)
    BY <2>1, <1>e DEF Admins, Known
  <2> QED BY <2>1, <2>2
<1>3. CASE EndSeed
  <2>1. /\ phase = "seeding" /\ phase' = "pruning" /\ todo = {} /\ todo' = Unlisted
        /\ UNCHANGED <<users, env, raced>>
    BY <1>3 DEF EndSeed
  <2>2. Admins' = Admins
    BY <2>1 DEF Admins, Known
  <2> QED BY <2>1, <2>2 DEF Unlisted
<1>4. CASE Ready
  <2>1. phase' = "up" /\ UNCHANGED <<env, raced>> /\ phase = "pruning"
    BY <1>4 DEF Ready
  <2>2. CASE env.listed \cap env.admins # {} /\ ~raced
    <3>1. PICK u \in Users : u \in Admins
      BY <2>1, <2>2, <1>e
    <3>2. users' = users
      BY <1>4, <3>1 DEF Ready, Admins
    <3> QED BY <2>1, <3>1, <3>2 DEF Admins, Known
  <2> QED BY <2>1, <2>2
<1>5. ASSUME NEW e \in Envs, Restart(e) PROVE AdminBooting' /\ AdminRemains'
  BY <1>5 DEF Restart
<1>6. ASSUME NEW c \in Clients, Ask(c) \/ ReadTarget(c) \/ CountAdmins(c)
      PROVE  AdminBooting' /\ AdminRemains'
  <2>1. UNCHANGED <<users, env, phase, todo, raced>>
    BY <1>6, AskStep DEF ReadTarget, CountAdmins
  <2> QED BY <2>1 DEF Admins, Known
<1>7. ASSUME NEW c \in Clients, Write(c) PROVE AdminBooting' /\ AdminRemains'
  <2>1. phase = "up" /\ UNCHANGED <<env, phase>> /\ (raced => raced')
    BY <1>7 DEF Write, At, Booting, Quiet, Typed, TypeOK
  <2>2. ~raced' /\ Admins # {} => Admins' # {}
    BY <1>7, WriteSpares
  <2> QED BY <2>1, <2>2
<1>8. ASSUME NEW u \in Users, Bulk(u) PROVE AdminBooting' /\ AdminRemains'
  <2>1. \E row : users' = [users EXCEPT ![u] = row]
    BY <1>8 DEF Bulk
  <2>2. raced' = (raced \/ u \in Admins) /\ UNCHANGED <<env, phase, todo>>
    BY <1>8 DEF Bulk
  <2>3. ~raced' => \A v \in Admins : v \in Admins'
    BY <2>1, <2>2, <1>e DEF Admins, Known
  <2>4. ~raced' => ~raced
    BY <2>2
  <2> QED BY <2>2, <2>3, <2>4
<1>9. CASE UNCHANGED vars
  BY <1>9 DEF vars, Admins, Known
<1> QED BY <1>1, <1>2, <1>3, <1>4, <1>5, <1>6, <1>7, <1>8, <1>9 DEF Next, Boot

\* The guard of the last administrator is right whenever it saw the table it
\* wrote to.
THEOREM AdminStays == Spec => []AdminRemains
<1>1. Init => AdminInv
  BY EnvFields DEF Init, AdminInv, Counted, At, AdminBooting, AdminRemains, Appointed
<1>2. AdminInv => AdminRemains
  BY DEF AdminInv
<1> QED BY <1>1, <1>2, TypeInit, TypeStep, BootingInit, BootingStep, AdminStep, PTL DEF Spec
=============================================================================
