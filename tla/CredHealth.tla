------------------------------ MODULE CredHealth ------------------------------
(***************************************************************************)
(* The cached health of the users' claude credentials (web/app.py): what   *)
(* the periodic sweep, the verify endpoint, a re-registration, a deletion  *)
(* and a job that fails with an authentication error write into            *)
(* _claude_cred_health, and what summary-availability answers from it.     *)
(*                                                                         *)
(* A step is one call of the credential table (auth.py, under its own      *)
(* lock), one hold of _cred_health_lock, or one ping of claude.  Waiting   *)
(* for _llm_semaphore only delays the next step and is left out.           *)
(***************************************************************************)
EXTENDS Naturals, Sequences, FiniteSets

CONSTANTS
  Users,
  Workers,     \* threads that serve requests and run jobs
  Sweeper,     \* the thread of the sweep
  EncKeys, NoKey, \* values CRED_ENC_KEY may have; it is not set
  Kinds,       \* credential kinds that are registered
  None,        \* no row, no cached health, an idle thread
  MaxCreds, MaxRestarts, MaxFaults   \* bounds

ASSUME SweeperAssumption == Sweeper \notin Workers
ASSUME KeysAssumption == NoKey \notin EncKeys
ASSUME NoneAssumption ==
  None \notin [valid : BOOLEAN, reason : {"api_key", "ok", "verify_failed", "decrypt_failed"}]
ASSUME KindsAssumption == Kinds \subseteq {"api_key", "oauth_token"}
ASSUME CredBoundsAssumption == MaxCreds \in Nat /\ MaxRestarts \in Nat /\ MaxFaults \in Nat

Threads == Workers \cup {Sweeper}

VARIABLES
  cred,      \* claude_credentials: the row of each user [id, kind, seal], id
             \* numbering the registrations and seal the keys its secret is
             \* encrypted under, the last one outermost
  ids, dead, \* registrations so far; those that expired or were revoked
  encKey,    \* CRED_ENC_KEY of the running process
  cache,     \* _claude_cred_health: [valid, reason]
  cooled,    \* users whose _cred_verify_last is within the cooldown
  left,      \* users the running sweep has yet to check
  run,       \* what each thread does: for whom, its next step, the credential
             \* it has read and the verdict it is to write
  restarts, faults

healthVars == <<cred, ids, dead, encKey, cache, cooled, left, run, restarts, faults>>

HealthInit ==
  /\ cred = [u \in Users |-> None] /\ ids = 0 /\ dead = {}
  /\ encKey \in EncKeys \cup {NoKey}
  /\ cache = [u \in Users |-> None] /\ cooled = {} /\ left = {}
  /\ run = [t \in Threads |-> None]
  /\ restarts = 0 /\ faults = 0

-----------------------------------------------------------------------------
\* _enc_secret: what the process with key k makes of a plain secret.
Sealed(k) == IF k = NoKey THEN <<>> ELSE <<k>>

\* _dec_secret: without the prefix of a cipher text it is plain already.
Opens(seal) == seal = <<>> \/ seal[Len(seal)] = encKey

\* get_credential: the row, if its secret can be decrypted.
Usable(u) == IF cred[u] # None /\ Opens(cred[u].seal) THEN cred[u] ELSE None

\* set_credential: the row of a new registration.
StoredCred(kind) == [id |-> ids + 1, kind |-> kind, seal |-> Sealed(encKey)]

\* list_credential_owners, which decrypts nothing.
Owners == {u \in Users : cred[u] # None}

\* Variant: a secret this key does not open is taken for a plain one.
MigratedAgain(row, k) ==
  [row EXCEPT !.seal = IF @ = Sealed(k) THEN @ ELSE @ \o Sealed(k)]

\* migrate_encrypt_credentials: only what has no prefix is encrypted.
Migrated(row, k) == [row EXCEPT !.seal = IF @ = <<>> THEN Sealed(k) ELSE @]

TakeUp(t, op, u, at) ==
  run' = [run EXCEPT ![t] = [op |-> op, user |-> u, at |-> at, cred |-> None, verdict |-> None]]

\* The work is over: a sweep goes on with the next user, verify has its
\* cooldown to note.
Finish(t) ==
  /\ run' = [run EXCEPT ![t] = IF @.op = "verify" THEN [@ EXCEPT !.at = "note"] ELSE None]
  /\ left' = IF run[t].op = "sweep" THEN left \ {run[t].user} ELSE left

On(t, at) == run[t] # None /\ run[t].at = at

Settle(t, valid, reason) ==
  run' = [run EXCEPT ![t].at = "write",
                     ![t].verdict = [valid |-> valid, reason |-> reason]]

-----------------------------------------------------------------------------
(* _evaluate_credential_health, for the sweep and for verify.              *)

\* _credential_owner_type.
ReadType(t) ==
  /\ On(t, "type")
  /\ run' = [run EXCEPT ![t].at = IF cred[run[t].user] = None THEN "pop" ELSE "get"]
  /\ UNCHANGED <<cred, ids, dead, encKey, cache, cooled, left, restarts, faults>>

\* get_credential, for an evaluation (which tells an API key without a call)
\* and for the PUT (which pings any credential).
ReadCred(t) ==
  /\ On(t, "get")
  /\ LET c == Usable(run[t].user) IN
       \/ /\ c = None
          /\ run' = [run EXCEPT ![t].at = IF run[t].op = "put" THEN "pop" ELSE "recheck"]
       \/ /\ c # None /\ c.kind = "api_key" /\ run[t].op # "put"
          /\ Settle(t, TRUE, "api_key")
       \/ /\ c # None /\ (c.kind = "oauth_token" \/ run[t].op = "put")
          /\ run' = [run EXCEPT ![t].at = "ping", ![t].cred = c]
  /\ UNCHANGED <<cred, ids, dead, encKey, cache, cooled, left, restarts, faults>>

\* No credential: gone meanwhile, or not decryptable.
Recheck(t) ==
  /\ On(t, "recheck")
  /\ LET row == cred[run[t].user] IN
       \/ row = None /\ run' = [run EXCEPT ![t].at = "pop"]
       \/ row # None /\ Settle(t, FALSE, "decrypt_failed")
  /\ UNCHANGED <<cred, ids, dead, encKey, cache, cooled, left, restarts, faults>>

\* _verify_credential: a live credential may fail too (network, empty reply).
Ping(t) ==
  /\ On(t, "ping")
  /\ LET c == run[t].cred IN
       \/ /\ c.id \notin dead /\ UNCHANGED faults
          /\ Settle(t, TRUE, IF c.kind = "api_key" THEN "api_key" ELSE "ok")
       \/ /\ c.id \in dead \/ faults < MaxFaults
          /\ faults' = IF c.id \in dead THEN faults ELSE faults + 1
          /\ Settle(t, FALSE, "verify_failed")
  /\ UNCHANGED <<cred, ids, dead, encKey, cache, cooled, left, restarts>>

\* The verdict is cached, whatever has happened to the credential meanwhile.
Write(t) ==
  /\ On(t, "write")
  /\ cache' = [cache EXCEPT ![run[t].user] = run[t].verdict]
  /\ Finish(t)
  /\ UNCHANGED <<cred, ids, dead, encKey, cooled, restarts, faults>>

\* No credential: the cached health is dropped, by DELETE the cooldown too.
Pop(t) ==
  /\ On(t, "pop")
  /\ cache' = [cache EXCEPT ![run[t].user] = None]
  /\ cooled' = IF run[t].op = "delete" THEN cooled \ {run[t].user} ELSE cooled
  /\ Finish(t)
  /\ UNCHANGED <<cred, ids, dead, encKey, restarts, faults>>

\* The credential table raises: one user of the sweep is skipped, a verify or
\* a PUT ends in an error.
Raise(t) ==
  /\ On(t, "type") \/ On(t, "get") \/ On(t, "recheck")
  /\ faults < MaxFaults /\ faults' = faults + 1
  /\ run' = [run EXCEPT ![t] = None]
  /\ left' = IF run[t].op = "sweep" THEN left \ {run[t].user} ELSE left
  /\ UNCHANGED <<cred, ids, dead, encKey, cache, cooled, restarts>>

-----------------------------------------------------------------------------
(* The sweep.                                                              *)

\* Variant: only users whose health is not known are swept.
SweepUnchecked ==
  /\ run[Sweeper] = None /\ left = {}
  /\ left' = {u \in Owners : cache[u] = None}
  /\ UNCHANGED <<cred, ids, dead, encKey, cache, cooled, run, restarts, faults>>

SweepStart ==
  /\ run[Sweeper] = None /\ left = {}
  /\ left' = Owners
  /\ UNCHANGED <<cred, ids, dead, encKey, cache, cooled, run, restarts, faults>>

SweepUser ==
  /\ run[Sweeper] = None
  /\ \E u \in left : TakeUp(Sweeper, "sweep", u, "type")
  /\ UNCHANGED <<cred, ids, dead, encKey, cache, cooled, left, restarts, faults>>

-----------------------------------------------------------------------------
(* Requests and jobs.                                                      *)

\* GET .../verify beyond the cooldown or without a cached health; within it the
\* request changes nothing.
VerifyCred(w, u) ==
  /\ run[w] = None
  /\ cache[u] = None \/ u \notin cooled
  /\ TakeUp(w, "verify", u, "type")
  /\ UNCHANGED <<cred, ids, dead, encKey, cache, cooled, left, restarts, faults>>

Note(w) ==
  /\ On(w, "note")
  /\ cooled' = cooled \cup {run[w].user}
  /\ run' = [run EXCEPT ![w] = None]
  /\ UNCHANGED <<cred, ids, dead, encKey, cache, left, restarts, faults>>

CooldownEnds ==
  /\ \E u \in cooled : cooled' = cooled \ {u}
  /\ UNCHANGED <<cred, ids, dead, encKey, cache, left, run, restarts, faults>>

\* PUT: the row is stored, read back, pinged; the verdict is cached.
Put(w, u) ==
  /\ run[w] = None /\ ids < MaxCreds
  /\ ids' = ids + 1
  /\ \E kind \in Kinds : cred' = [cred EXCEPT ![u] = StoredCred(kind)]
  /\ TakeUp(w, "put", u, "get")
  /\ UNCHANGED <<dead, encKey, cache, cooled, left, restarts, faults>>

\* DELETE: the row, then (Pop) the cached health.
Delete(w, u) ==
  /\ run[w] = None
  /\ cred' = [cred EXCEPT ![u] = None]
  /\ TakeUp(w, "delete", u, "pop")
  /\ UNCHANGED <<ids, dead, encKey, cache, cooled, left, restarts, faults>>

\* A job takes the credential at its submission.
JobStart(w, u) ==
  /\ run[w] = None
  /\ run' = [run EXCEPT ![w] = [op |-> "job", user |-> u, at |-> "job", cred |-> Usable(u),
                                verdict |-> None]]
  /\ UNCHANGED <<cred, ids, dead, encKey, cache, cooled, left, restarts, faults>>

\* _mark_cred_health_invalid, after a job's AgentCLIAuthError.
JobAuthFails(w) ==
  /\ On(w, "job")
  /\ run[w].cred # None => run[w].cred.id \in dead
  /\ cache' = [cache EXCEPT ![run[w].user] = [valid |-> FALSE, reason |-> "verify_failed"]]
  /\ run' = [run EXCEPT ![w] = None]
  /\ UNCHANGED <<cred, ids, dead, encKey, cooled, left, restarts, faults>>

JobEnds(w) ==
  /\ On(w, "job")
  /\ run' = [run EXCEPT ![w] = None]
  /\ UNCHANGED <<cred, ids, dead, encKey, cache, cooled, left, restarts, faults>>

-----------------------------------------------------------------------------
(* The surroundings.                                                       *)

\* A credential expires or is revoked.
Expire ==
  /\ \E i \in (1..ids) \ dead : dead' = dead \cup {i}
  /\ UNCHANGED <<cred, ids, encKey, cache, cooled, left, run, restarts, faults>>

\* The process is restarted, perhaps with another CRED_ENC_KEY or without one:
\* the table stays, its plain secrets are encrypted if there is a key; the
\* cache and all work are gone.
ProcessRestart ==
  /\ restarts < MaxRestarts /\ restarts' = restarts + 1
  /\ encKey' \in EncKeys \cup {NoKey}
  /\ cred' = [u \in Users |-> IF cred[u] = None THEN None ELSE Migrated(cred[u], encKey')]
  /\ cache' = [u \in Users |-> None] /\ cooled' = {} /\ left' = {}
  /\ run' = [t \in Threads |-> None]
  /\ UNCHANGED <<ids, dead, faults>>

Evaluate(t) ==
  \/ ReadType(t) \/ ReadCred(t) \/ Recheck(t) \/ Ping(t) \/ Write(t) \/ Pop(t) \/ Raise(t)

Request(w) ==
  \E u \in Users : VerifyCred(w, u) \/ Put(w, u) \/ Delete(w, u) \/ JobStart(w, u)

Proceed(w) == Evaluate(w) \/ Note(w) \/ JobAuthFails(w) \/ JobEnds(w)

Sweep == SweepStart \/ SweepUser \/ Evaluate(Sweeper)

HealthNext ==
  \/ Sweep \/ CooldownEnds \/ Expire \/ ProcessRestart
  \/ \E w \in Workers : Request(w) \/ Proceed(w)

\* The sweep's loop goes on for ever, and what has begun goes on.
Fairness == WF_healthVars(Sweep) /\ \A w \in Workers : WF_healthVars(Proceed(w))

HealthSpec == HealthInit /\ [][HealthNext]_healthVars /\ Fairness

-----------------------------------------------------------------------------
\* The reason summary-availability gives, when the backend is agent_cli.
Availability(u) ==
  CASE Usable(u) = None -> "not_configured"
    [] Usable(u) # None /\ cache[u] = None -> "unchecked"
    [] Usable(u) # None /\ cache[u] # None ->
         IF cache[u].reason = "decrypt_failed" THEN "decrypt_failed"
         ELSE IF cache[u].valid THEN "ok" ELSE "invalid"

-----------------------------------------------------------------------------
(* Properties.                                                             *)

\* Whatever keys the process was restarted with, and in whatever order, every
\* stored secret is one a single key opens (what _dec_secret promises: a wrong
\* key loses nothing, the right one reads it again), and while there is a key
\* none is left in plain text.
SecretsStayReadable ==
  \A u \in Users : cred[u] # None =>
    /\ Len(cred[u].seal) <= 1
    /\ encKey # NoKey => cred[u].seal # <<>>

\* The stored credential opens and has not expired.
Works(u) == Usable(u) # None /\ cred[u].id \notin dead

\* The cached health and the answer summary-availability gives are those of the
\* stored credential.  (An API key that was revoked has no right verdict: the
\* sweep takes it as valid, jobs fail with it.)
Right(u) ==
  cache[u] # None /\ cache[u].valid = Works(u) /\ (Availability(u) = "ok") = Works(u)

HasVerdict(u) ==
  cred[u] # None /\ ~(Usable(u) # None /\ cred[u].kind = "api_key" /\ cred[u].id \in dead)

\* Whatever was cached late, dropped or lost with the process: once users stop
\* changing credentials and calls stop failing for other reasons, the sweep
\* makes the health of every registered credential right, and it stays right.
VerdictsHeal == <>[](\A u \in Users : HasVerdict(u) => Right(u))
=============================================================================
