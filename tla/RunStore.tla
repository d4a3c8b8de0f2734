------------------------------ MODULE RunStore ------------------------------
(***************************************************************************)
(* The Redis run ledger: the seven Lua scripts of persistence/scripts.py   *)
(* as RedisRunStore calls them.  Redis runs a script in one step, so each  *)
(* script is one action (a disjunct per reply that changes a key).         *)
(*                                                                         *)
(* Four kinds of keys are kept:                                            *)
(*   run hash       per run, with the retention TTL;                       *)
(*   lease          per conversation, holds a raw token, with the lease    *)
(*                  TTL;                                                   *)
(*   active-run     per conversation, refers to a run hash, has no TTL;    *)
(*   cleanup guard  per conversation, holds a token, with the guard TTL.   *)
(*                                                                         *)
(* Around the store: executors that hold tokens (and may keep using one    *)
(* long after it stopped being valid), callers that ask to cancel,         *)
(* cleaners that hold guard tokens, and time.                              *)
(***************************************************************************)
EXTENDS Integers

CONSTANTS
  Runs,            \* run ids
  Convs,           \* conversation ids
  Requests,        \* whole requests; a request is its canonical digest
  RunOf,           \* the run id a request carries
  ConvOf,          \* the conversation id a request carries
  Tokens,          \* lease tokens (secrets.token_urlsafe: never repeated)
  GuardTokens,     \* cleanup guard tokens
  Results,         \* a checkpoint id with the digest of its terminal event
  ErrorCodes,      \* stable error codes of FAILED runs
  LeaseTicks, RetentionTicks, GuardTicks,   \* the three TTLs, in clock ticks
  None             \* an absent key or an unset field

ASSUME RequestAssumption ==
  /\ RunOf \in [Requests -> Runs]
  /\ ConvOf \in [Requests -> Convs]

\* What the constructor of RedisRunStore checks.
ASSUME TTLAssumption ==
  /\ LeaseTicks \in Nat \ {0}
  /\ GuardTicks \in Nat \ {0}
  /\ RetentionTicks \in Nat
  /\ LeaseTicks <= RetentionTicks

VARIABLES
  run,        \* run hash, None when the key does not exist
  runTTL,     \* ticks until the run hash expires
  lease,      \* raw token in the conversation's lease key
  leaseTTL,
  activeRun,  \* run the conversation's active-run key refers to
  guard,      \* token in the conversation's cleanup guard key
  guardTTL,
  held,       \* the request a lease token was returned for, while its
              \* executor lives
  cleaning    \* the conversation a guard token was returned for

storeVars == <<run, runTTL, lease, leaseTTL, activeRun, guard, guardTTL>>
vars == <<run, runTTL, lease, leaseTTL, activeRun, guard, guardTTL,
          held, cleaning>>

-----------------------------------------------------------------------------
(* RunStatus, and the arguments TERMINATE_RUN_LUA compares: COMPLETED with *)
(* checkpoint and digest, FAILED with an error code, CANCELLED with none.  *)
Running == "RUNNING"
Status == {Running, "COMPLETED", "FAILED", "CANCELLED"}

Outcomes == Results \cup ErrorCodes \cup {None}

Finals == [status : {"COMPLETED"}, outcome : Results]
            \cup [status : {"FAILED"}, outcome : ErrorCodes]
            \cup [status : {"CANCELLED"}, outcome : {None}]

RunRecord == [req : Requests,
              status : Status,
              leaseDigest : Tokens \cup {None},
              cancelRequested : BOOLEAN,
              outcome : Outcomes]

\* None is no id, no token and no record.
ASSUME NoneAssumption ==
  /\ None \notin Runs \cup Convs \cup Requests \cup Tokens \cup GuardTokens
  /\ None \notin RunRecord
  /\ None \notin [status : Status, outcome : Outcomes]
  /\ None \notin [req : Requests,
                  final : [status : Status, outcome : Outcomes] \cup {None},
                  cancel : BOOLEAN]

Exists(r) == run[r] # None
IsRunning(r) == Exists(r) /\ run[r].status = Running
RunConv(r) == ConvOf[run[r].req]

\* A token nobody holds and no lease contains: what token_urlsafe returns.
FreshToken(t) == held[t] = None /\ \A c \in Convs : lease[c] # t
FreshGuardToken(g) == cleaning[g] = None /\ \A c \in Convs : guard[c] # g

\* Mutant: a dangling reference is not deleted.
UnhealedActiveRun(c) == activeRun[c]

\* The active-run key after the scripts' self-healing: a reference to a run
\* hash that expired is deleted, a live one is kept.
HealedActiveRun(c) ==
  IF activeRun[c] # None /\ Exists(activeRun[c]) THEN activeRun[c] ELSE None

-----------------------------------------------------------------------------
Init ==
  /\ run = [r \in Runs |-> None]
  /\ runTTL = [r \in Runs |-> 0]
  /\ lease = [c \in Convs |-> None]
  /\ leaseTTL = [c \in Convs |-> 0]
  /\ activeRun = [c \in Convs |-> None]
  /\ guard = [c \in Convs |-> None]
  /\ guardTTL = [c \in Convs |-> 0]
  /\ held = [t \in Tokens |-> None]
  /\ cleaning = [g \in GuardTokens |-> None]

-----------------------------------------------------------------------------
(* BEGIN_RUN_LUA.  Its replies, as predicates of the state it finds.       *)

\* Mutant: begin does not look at the cleanup guard.
UnguardedAlways(q) == TRUE

Unguarded(q) == guard[ConvOf[q]] = None
Known(q) == Exists(RunOf[q]) /\ run[RunOf[q]].req = q

\* Mutant: only the lease is checked, not the active-run reference.
CanStartUnlessLeased(q) ==
  /\ Unguarded(q)
  /\ ~Exists(RunOf[q])
  /\ lease[ConvOf[q]] = None

CanStart(q) ==
  /\ Unguarded(q)
  /\ ~Exists(RunOf[q])
  /\ lease[ConvOf[q]] = None
  /\ HealedActiveRun(ConvOf[q]) = None

CanResume(q) ==
  /\ Unguarded(q)
  /\ Known(q)
  /\ run[RunOf[q]].status = Running
  /\ lease[ConvOf[q]] = None

CanReplay(q) == Unguarded(q) /\ Known(q) /\ run[RunOf[q]].status = "COMPLETED"

Conflicts(q) ==
  /\ Unguarded(q)
  /\ Exists(RunOf[q])
  /\ \/ run[RunOf[q]].req # q
     \/ run[RunOf[q]].status \in {"FAILED", "CANCELLED"}

InProgress(q) ==
  ~(CanStart(q) \/ CanResume(q) \/ CanReplay(q) \/ Conflicts(q))

\* Mutant: SET NX without PX.
GrantLeaseWithoutTTL(c, t) ==
  /\ lease' = [lease EXCEPT ![c] = t]
  /\ UNCHANGED leaseTTL

GrantLease(c, t) ==
  /\ lease' = [lease EXCEPT ![c] = t]
  /\ leaseTTL' = [leaseTTL EXCEPT ![c] = LeaseTicks]

\* STARTED: the hash is created, RUNNING, and becomes the active run.
BeginStarted(q, t) ==
  LET r == RunOf[q]
      c == ConvOf[q]
  IN  /\ CanStart(q)
      /\ FreshToken(t)
      /\ GrantLease(c, t)
      /\ run' = [run EXCEPT ![r] = [req |-> q, status |-> Running,
                                    leaseDigest |-> t,
                                    cancelRequested |-> FALSE,
                                    outcome |-> None]]
      /\ runTTL' = [runTTL EXCEPT ![r] = RetentionTicks]
      /\ activeRun' = [activeRun EXCEPT ![c] = r]
      /\ held' = [held EXCEPT ![t] = q]
      /\ UNCHANGED <<guard, guardTTL, cleaning>>

\* Mutant: a takeover does not refresh the retention of the hash.
BeginResumedWithoutExpire(q, t) ==
  /\ CanResume(q)
  /\ FreshToken(t)
  /\ GrantLease(ConvOf[q], t)
  /\ run' = [run EXCEPT ![RunOf[q]].leaseDigest = t]
  /\ activeRun' = [activeRun EXCEPT ![ConvOf[q]] = RunOf[q]]
  /\ held' = [held EXCEPT ![t] = q]
  /\ UNCHANGED <<runTTL, guard, guardTTL, cleaning>>

\* Mutant: a takeover writes the hash as a new run does.
BeginResumedAfresh(q, t) ==
  /\ CanResume(q)
  /\ FreshToken(t)
  /\ GrantLease(ConvOf[q], t)
  /\ run' = [run EXCEPT ![RunOf[q]].leaseDigest = t,
                        ![RunOf[q]].cancelRequested = FALSE]
  /\ runTTL' = [runTTL EXCEPT ![RunOf[q]] = RetentionTicks]
  /\ activeRun' = [activeRun EXCEPT ![ConvOf[q]] = RunOf[q]]
  /\ held' = [held EXCEPT ![t] = q]
  /\ UNCHANGED <<guard, guardTTL, cleaning>>

\* RESUMED: the lease ran out under a RUNNING hash, and the next caller with
\* the same request takes it over.  A recorded cancel intent stays.
BeginResumed(q, t) ==
  LET r == RunOf[q]
      c == ConvOf[q]
  IN  /\ CanResume(q)
      /\ FreshToken(t)
      /\ GrantLease(c, t)
      /\ run' = [run EXCEPT ![r].leaseDigest = t]
      /\ runTTL' = [runTTL EXCEPT ![r] = RetentionTicks]
      /\ activeRun' = [activeRun EXCEPT ![c] = r]
      /\ held' = [held EXCEPT ![t] = q]
      /\ UNCHANGED <<guard, guardTTL, cleaning>>

-----------------------------------------------------------------------------
(* RENEW_LEASE_LUA, called with the run and the token of an executor.      *)

\* Mutant: the token is not compared with the lease.
LeaseOfAnyone(t) ==
  /\ held[t] # None
  /\ IsRunning(RunOf[held[t]])

LeaseOf(t) ==     \* the executor's run is RUNNING and its token is the lease
  /\ held[t] # None
  /\ IsRunning(RunOf[held[t]])
  /\ lease[RunConv(RunOf[held[t]])] = t

\* Mutant: only the lease is renewed, not the retention of the hash.
RenewWithoutExpire(t) ==
  /\ LeaseOf(t)
  /\ leaseTTL' = [leaseTTL EXCEPT ![RunConv(RunOf[held[t]])] = LeaseTicks]
  /\ UNCHANGED <<run, runTTL, lease, activeRun, guard, guardTTL,
                 held, cleaning>>

Renew(t) ==
  LET r == RunOf[held[t]]
  IN  /\ LeaseOf(t)
      /\ leaseTTL' = [leaseTTL EXCEPT ![RunConv(r)] = LeaseTicks]
      /\ runTTL' = [runTTL EXCEPT ![r] = RetentionTicks]
      /\ UNCHANGED <<run, lease, activeRun, guard, guardTTL, held, cleaning>>

-----------------------------------------------------------------------------
(* REQUEST_CANCEL_LUA.  A second request (ALREADY_REQUESTED) changes       *)
(* nothing: it does not extend the hash's life either.                     *)

\* Mutant: EXPIRE before the HEXISTS check.
RequestCancelRefreshing(r) ==
  /\ IsRunning(r)
  /\ run' = [run EXCEPT ![r].cancelRequested = TRUE]
  /\ runTTL' = [runTTL EXCEPT ![r] = RetentionTicks]
  /\ UNCHANGED <<lease, leaseTTL, activeRun, guard, guardTTL, held, cleaning>>

RequestCancel(r) ==
  /\ IsRunning(r)
  /\ ~run[r].cancelRequested
  /\ run' = [run EXCEPT ![r].cancelRequested = TRUE]
  /\ runTTL' = [runTTL EXCEPT ![r] = RetentionTicks]
  /\ UNCHANGED <<lease, leaseTTL, activeRun, guard, guardTTL, held, cleaning>>

-----------------------------------------------------------------------------
(* TERMINATE_RUN_LUA, as complete, fail and cancel call it.  What is        *)
(* already terminal stays as it is, whatever the reply.                    *)

Terminate(t, f) ==
  LET r == RunOf[held[t]]
      c == RunConv(r)
  IN  /\ LeaseOf(t)
      /\ run' = [run EXCEPT ![r] = [req |-> run[r].req, status |-> f.status,
                                    leaseDigest |-> None,
                                    cancelRequested |-> FALSE,
                                    outcome |-> f.outcome]]
      /\ runTTL' = [runTTL EXCEPT ![r] = RetentionTicks]
      /\ lease' = [lease EXCEPT ![c] = None]
      /\ leaseTTL' = [leaseTTL EXCEPT ![c] = 0]
      /\ activeRun' = IF activeRun[c] = r
                        THEN [activeRun EXCEPT ![c] = None]
                        ELSE activeRun
      /\ UNCHANGED <<guard, guardTTL, held, cleaning>>

-----------------------------------------------------------------------------
(* CHECK_CONVERSATION_ACTIVE_LUA and the two cleanup guard scripts.        *)

ConversationActive(c) == HealedActiveRun(c) # None \/ lease[c] # None

CheckActive(c) ==
  /\ activeRun' = [activeRun EXCEPT ![c] = HealedActiveRun(c)]
  /\ UNCHANGED <<run, runTTL, lease, leaseTTL, guard, guardTTL,
                 held, cleaning>>

\* Mutant: the guard is taken without looking again at run and lease.
AcquireGuardBlindly(c, g) ==
  /\ guard[c] = None
  /\ FreshGuardToken(g)
  /\ guard' = [guard EXCEPT ![c] = g]
  /\ guardTTL' = [guardTTL EXCEPT ![c] = GuardTicks]
  /\ cleaning' = [cleaning EXCEPT ![g] = c]
  /\ UNCHANGED <<run, runTTL, lease, leaseTTL, activeRun, held>>

AcquireGuard(c, g) ==
  /\ guard[c] = None
  /\ ~ConversationActive(c)
  /\ FreshGuardToken(g)
  /\ guard' = [guard EXCEPT ![c] = g]
  /\ guardTTL' = [guardTTL EXCEPT ![c] = GuardTicks]
  /\ activeRun' = [activeRun EXCEPT ![c] = HealedActiveRun(c)]
  /\ cleaning' = [cleaning EXCEPT ![g] = c]
  /\ UNCHANGED <<run, runTTL, lease, leaseTTL, held>>

\* Mutant: delete without comparing.
ReleaseAnyGuard(g) ==
  LET c == cleaning[g]
  IN  /\ c # None
      /\ guard' = [guard EXCEPT ![c] = None]
      /\ guardTTL' = [guardTTL EXCEPT ![c] = 0]
      /\ cleaning' = [cleaning EXCEPT ![g] = None]
      /\ UNCHANGED <<run, runTTL, lease, leaseTTL, activeRun, held>>

\* Compare and delete: a guard that expired and was taken by another cleaner
\* is left alone.
ReleaseGuard(g) ==
  LET c == cleaning[g]
  IN  /\ c # None
      /\ guard' = IF guard[c] = g THEN [guard EXCEPT ![c] = None] ELSE guard
      /\ guardTTL' = IF guard[c] = g THEN [guardTTL EXCEPT ![c] = 0]
                                     ELSE guardTTL
      /\ cleaning' = [cleaning EXCEPT ![g] = None]
      /\ UNCHANGED <<run, runTTL, lease, leaseTTL, activeRun, held>>

-----------------------------------------------------------------------------
(* The processes around the store, and time.                               *)

\* An executor returns or dies: nobody will use its token again.
ForgetToken(t) ==
  /\ held[t] # None
  /\ held' = [held EXCEPT ![t] = None]
  /\ UNCHANGED <<storeVars, cleaning>>

ForgetGuardToken(g) ==
  /\ cleaning[g] # None
  /\ cleaning' = [cleaning EXCEPT ![g] = None]
  /\ UNCHANGED <<storeVars, held>>

Elapse(ttl) == IF ttl > 0 THEN ttl - 1 ELSE 0

\* One tick of Redis' clock: a key whose time is up is gone.  The active-run
\* key has no TTL.
Tick ==
  /\ runTTL' = [r \in Runs |-> Elapse(runTTL[r])]
  /\ run' = [r \in Runs |-> IF runTTL[r] > 1 THEN run[r] ELSE None]
  /\ leaseTTL' = [c \in Convs |-> Elapse(leaseTTL[c])]
  /\ lease' = [c \in Convs |-> IF leaseTTL[c] > 1 THEN lease[c] ELSE None]
  /\ guardTTL' = [c \in Convs |-> Elapse(guardTTL[c])]
  /\ guard' = [c \in Convs |-> IF guardTTL[c] > 1 THEN guard[c] ELSE None]
  /\ UNCHANGED <<activeRun, held, cleaning>>

Executor(t) ==
  \/ \E q \in Requests : BeginStarted(q, t) \/ BeginResumed(q, t)
  \/ Renew(t)
  \/ \E f \in Finals : Terminate(t, f)
  \/ ForgetToken(t)

Cleaner(g) ==
  \/ \E c \in Convs : AcquireGuard(c, g)
  \/ ReleaseGuard(g)
  \/ ForgetGuardToken(g)

Next ==
  \/ \E t \in Tokens : Executor(t)
  \/ \E r \in Runs : RequestCancel(r)
  \/ \E c \in Convs : CheckActive(c)
  \/ \E g \in GuardTokens : Cleaner(g)
  \/ Tick

Spec == Init /\ [][Next]_vars

(* Time passes, and no executor lives for ever: execute() gives every run  *)
(* timeout_seconds and then stops using its token.  Nothing obliges anyone *)
(* to begin, renew, cancel or clean.                                       *)
Fairness ==
  /\ WF_vars(Tick)
  /\ \A t \in Tokens : WF_vars(ForgetToken(t))

FairSpec == Spec /\ Fairness

-----------------------------------------------------------------------------
(* Each key holds a value of its type, and a key with a TTL exists exactly *)
(* while its TTL runs.                                                     *)
TypeOK ==
  /\ run \in [Runs -> RunRecord \cup {None}]
  /\ runTTL \in [Runs -> 0..RetentionTicks]
  /\ lease \in [Convs -> Tokens \cup {None}]
  /\ leaseTTL \in [Convs -> 0..LeaseTicks]
  /\ activeRun \in [Convs -> Runs \cup {None}]
  /\ guard \in [Convs -> GuardTokens \cup {None}]
  /\ guardTTL \in [Convs -> 0..GuardTicks]
  /\ held \in [Tokens -> Requests \cup {None}]
  /\ cleaning \in [GuardTokens -> Convs \cup {None}]
  /\ \A r \in Runs : run[r] = None <=> runTTL[r] = 0
  /\ \A c \in Convs : lease[c] = None <=> leaseTTL[c] = 0
  /\ \A c \in Convs : guard[c] = None <=> guardTTL[c] = 0

(* A RUNNING hash is its conversation's active run, so a conversation never *)
(* has two runs in flight, however leases expire and are taken over.        *)
SingleFlight ==
  \A r \in Runs : IsRunning(r) => activeRun[RunConv(r)] = r

(* A lease never outlives the run it protects: while a lease exists, the    *)
(* active run is RUNNING in that conversation, records this very token, and *)
(* its hash expires no earlier than the lease.  Hence renew and terminate   *)
(* never answer NOT_FOUND or INVALID_TRANSITION to the holder of the lease. *)
LeaseBacked ==
  \A c \in Convs : lease[c] # None =>
    LET r == activeRun[c]
    IN  /\ r # None
        /\ IsRunning(r)
        /\ RunConv(r) = c
        /\ run[r].leaseDigest = lease[c]
        /\ leaseTTL[c] <= runTTL[r]

(* While a cleanup guard exists its conversation has no lease and no        *)
(* RUNNING run: begin and the cleaner exclude each other both ways.         *)
GuardExcludesRuns ==
  \A c \in Convs : guard[c] # None =>
    /\ lease[c] = None
    /\ \A r \in Runs : IsRunning(r) => RunConv(r) # c

(* A token that is still a lease is the lease of the request it was         *)
(* returned for: a late renew or commit cannot land on another request,     *)
(* although run ids are reused after the hash expired.                      *)
GrantMatchesRecord ==
  \A t \in Tokens, c \in Convs :
    held[t] # None /\ lease[c] = t =>
      /\ ConvOf[held[t]] = c
      /\ activeRun[c] = RunOf[held[t]]
      /\ run[RunOf[held[t]]] # None
      /\ run[RunOf[held[t]]].req = held[t]

(* An accepted cancel is not lost by a takeover: it stays on the hash until *)
(* the run is terminal or the hash is gone.                                 *)
CancelIntentKept ==
  [][\A r \in Runs :
       (IsRunning(r) /\ run[r].cancelRequested) =>
         \/ ~IsRunning(r)'
         \/ run'[r].cancelRequested]_vars

(* The store keeps every promise of RunLedger: an entry is the run hash     *)
(* without its lease bookkeeping, the owner is the raw token in the lease   *)
(* key, the cleaner is the token in the guard key.                          *)
EntryOf(r) ==
  IF Exists(r)
    THEN [req |-> run[r].req,
          final |-> IF run[r].status = Running THEN None
                    ELSE [status |-> run[r].status,
                          outcome |-> run[r].outcome],
          cancel |-> run[r].cancelRequested]
    ELSE None

Ledger == INSTANCE RunLedger WITH
  entry <- [r \in Runs |-> EntryOf(r)], owner <- lease, cleaner <- guard

ImplementsLedger == Ledger!Spec

(* A conversation is not blocked for ever by executors that died: every     *)
(* request is again and again answered with something else than             *)
(* IN_PROGRESS, unless its conversation's run loses its lease and is taken  *)
(* over again and again.  Repeated cancel requests do not keep a stranded   *)
(* run alive, and a reference to an expired hash blocks nobody.             *)
BlockedRequestFreed ==
  \A q \in Requests :
    \/ []<>(~InProgress(q))
    \/ []<>(lease[ConvOf[q]] # None) /\ []<>(lease[ConvOf[q]] = None)
=============================================================================
