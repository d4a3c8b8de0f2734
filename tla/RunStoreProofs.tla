--------------------------- MODULE RunStoreProofs ---------------------------
(***************************************************************************)
(* Machine-checked proofs about RunStore, for any number of runs,          *)
(* conversations, requests and tokens and any TTLs with                    *)
(* LeaseTicks <= RetentionTicks.                                           *)
(***************************************************************************)
EXTENDS RunStore, TLAPS

LEMMA Ticks ==
  /\ LeaseTicks \in 1..RetentionTicks
  /\ RetentionTicks \in Nat \ {0}
  /\ GuardTicks \in Nat \ {0}
  BY TTLAssumption

(* A write of a key with its TTL keeps the type of both. *)
LEMMA WriteRun ==
  ASSUME TypeOK, NEW r \in Runs, NEW rec \in RunRecord,
         run' = [run EXCEPT ![r] = rec],
         runTTL' = [runTTL EXCEPT ![r] = RetentionTicks]
  PROVE  /\ run' \in [Runs -> RunRecord \cup {None}]
         /\ runTTL' \in [Runs -> 0..RetentionTicks]
         /\ \A s \in Runs : run'[s] = None <=> runTTL'[s] = 0
<1>1. rec # None
  BY NoneAssumption
<1>2. RetentionTicks \in 0..RetentionTicks /\ RetentionTicks # 0
  BY Ticks
<1>3. ASSUME NEW s \in Runs
      PROVE  run'[s] = None <=> runTTL'[s] = 0
  <2>1. CASE s = r
    BY <1>1, <1>2, <2>1 DEF TypeOK
  <2>2. CASE s # r
    BY <2>2 DEF TypeOK
  <2>3. QED
    BY <2>1, <2>2
<1>4. QED
  BY <1>2, <1>3 DEF TypeOK

LEMMA WriteLease ==
  ASSUME TypeOK, NEW c \in Convs, NEW t \in Tokens, GrantLease(c, t)
  PROVE  /\ lease' \in [Convs -> Tokens \cup {None}]
         /\ leaseTTL' \in [Convs -> 0..LeaseTicks]
         /\ \A d \in Convs : lease'[d] = None <=> leaseTTL'[d] = 0
<1>1. t # None
  BY NoneAssumption
<1>2. LeaseTicks \in 0..LeaseTicks /\ LeaseTicks # 0
  BY Ticks
<1>3. ASSUME NEW d \in Convs
      PROVE  lease'[d] = None <=> leaseTTL'[d] = 0
  <2>1. CASE d = c
    BY <1>1, <1>2, <2>1 DEF TypeOK, GrantLease
  <2>2. CASE d # c
    BY <2>2 DEF TypeOK, GrantLease
  <2>3. QED
    BY <2>1, <2>2
<1>4. QED
  BY <1>2, <1>3 DEF TypeOK, GrantLease

LEMMA TypeBeginStarted ==
  ASSUME TypeOK, NEW q \in Requests, NEW t \in Tokens, BeginStarted(q, t)
  PROVE  TypeOK'
<1>1. RunOf[q] \in Runs /\ ConvOf[q] \in Convs
  BY RequestAssumption
<1> DEFINE rec == [req |-> q, status |-> Running, leaseDigest |-> t,
                   cancelRequested |-> FALSE, outcome |-> None]
<1>2. rec \in RunRecord
  BY DEF RunRecord, Status, Outcomes
<1>3. /\ run' = [run EXCEPT ![RunOf[q]] = rec]
      /\ runTTL' = [runTTL EXCEPT ![RunOf[q]] = RetentionTicks]
      /\ GrantLease(ConvOf[q], t)
  BY DEF BeginStarted
<1> HIDE DEF rec
<1>4. QED
  BY <1>1, <1>2, <1>3, WriteRun, WriteLease DEF BeginStarted, TypeOK

LEMMA TypeBeginResumed ==
  ASSUME TypeOK, NEW q \in Requests, NEW t \in Tokens, BeginResumed(q, t)
  PROVE  TypeOK'
<1>1. RunOf[q] \in Runs /\ ConvOf[q] \in Convs
  BY RequestAssumption
<1> DEFINE rec == [run[RunOf[q]] EXCEPT !.leaseDigest = t]
<1>2. run[RunOf[q]] \in RunRecord
  BY <1>1 DEF BeginResumed, CanResume, Known, Exists, TypeOK
<1>3. rec \in RunRecord
  BY <1>2 DEF RunRecord
<1>4. /\ run' = [run EXCEPT ![RunOf[q]] = rec]
      /\ runTTL' = [runTTL EXCEPT ![RunOf[q]] = RetentionTicks]
      /\ GrantLease(ConvOf[q], t)
  BY DEF BeginResumed
<1> HIDE DEF rec
<1>5. QED
  BY <1>1, <1>3, <1>4, WriteRun, WriteLease DEF BeginResumed, TypeOK

\* The executor that holds the lease: its run, conversation and record.
LEMMA HolderFacts ==
  ASSUME TypeOK, NEW t \in Tokens, LeaseOf(t)
  PROVE  LET r == RunOf[held[t]]
         IN  /\ held[t] \in Requests
             /\ r \in Runs
             /\ run[r] \in RunRecord
             /\ run[r].status = Running
             /\ RunConv(r) \in Convs
             /\ lease[RunConv(r)] = t
             /\ t # None
  BY RequestAssumption, NoneAssumption
     DEF LeaseOf, IsRunning, Exists, RunConv, TypeOK, RunRecord

LEMMA TypeRenew ==
  ASSUME TypeOK, NEW t \in Tokens, Renew(t)
  PROVE  TypeOK'
<1> DEFINE r == RunOf[held[t]]
           c == RunConv(r)
<1>1. /\ r \in Runs /\ run[r] # None
      /\ c \in Convs /\ lease[c] # None
  BY HolderFacts, NoneAssumption DEF Renew
<1>2. /\ leaseTTL' = [leaseTTL EXCEPT ![c] = LeaseTicks]
      /\ runTTL' = [runTTL EXCEPT ![r] = RetentionTicks]
      /\ UNCHANGED <<run, lease, activeRun, guard, guardTTL, held, cleaning>>
  BY DEF Renew
<1> HIDE DEF r, c
<1>3. /\ LeaseTicks \in 0..LeaseTicks /\ LeaseTicks # 0
      /\ RetentionTicks \in 0..RetentionTicks /\ RetentionTicks # 0
  BY Ticks
<1>4. \A s \in Runs : run'[s] = None <=> runTTL'[s] = 0
  BY <1>1, <1>2, <1>3 DEF TypeOK
<1>5. \A d \in Convs : lease'[d] = None <=> leaseTTL'[d] = 0
  BY <1>1, <1>2, <1>3 DEF TypeOK
<1>6. QED
  BY <1>2, <1>3, <1>4, <1>5 DEF TypeOK

LEMMA TypeRequestCancel ==
  ASSUME TypeOK, NEW r \in Runs, RequestCancel(r)
  PROVE  TypeOK'
<1> DEFINE rec == [run[r] EXCEPT !.cancelRequested = TRUE]
<1>1. run[r] \in RunRecord
  BY DEF RequestCancel, IsRunning, Exists, TypeOK
<1>2. rec \in RunRecord
  BY <1>1 DEF RunRecord
<1>3. /\ run' = [run EXCEPT ![r] = rec]
      /\ runTTL' = [runTTL EXCEPT ![r] = RetentionTicks]
  BY DEF RequestCancel
<1> HIDE DEF rec
<1>4. QED
  BY <1>2, <1>3, WriteRun DEF RequestCancel, TypeOK

LEMMA TypeTerminate ==
  ASSUME TypeOK, NEW t \in Tokens, NEW f \in Finals, Terminate(t, f)
  PROVE  TypeOK'
<1> DEFINE r == RunOf[held[t]]
           c == RunConv(r)
           rec == [req |-> run[r].req, status |-> f.status,
                   leaseDigest |-> None, cancelRequested |-> FALSE,
                   outcome |-> f.outcome]
<1>1. r \in Runs /\ run[r] \in RunRecord /\ c \in Convs
  BY HolderFacts DEF Terminate
<1>2. /\ f.status \in Status
      /\ f.outcome \in Outcomes
  BY DEF Finals, Status, Outcomes
<1>3. rec \in RunRecord
  BY <1>1, <1>2 DEF RunRecord
<1>4. /\ run' = [run EXCEPT ![r] = rec]
      /\ runTTL' = [runTTL EXCEPT ![r] = RetentionTicks]
      /\ lease' = [lease EXCEPT ![c] = None]
      /\ leaseTTL' = [leaseTTL EXCEPT ![c] = 0]
      /\ activeRun' \in {activeRun, [activeRun EXCEPT ![c] = None]}
      /\ UNCHANGED <<guard, guardTTL, held, cleaning>>
  BY DEF Terminate
<1> HIDE DEF r, c, rec
<1>5. \A d \in Convs : lease'[d] = None <=> leaseTTL'[d] = 0
  BY <1>1, <1>4 DEF TypeOK
<1>6. /\ run' \in [Runs -> RunRecord \cup {None}]
      /\ runTTL' \in [Runs -> 0..RetentionTicks]
      /\ \A s \in Runs : run'[s] = None <=> runTTL'[s] = 0
  BY <1>1, <1>3, <1>4, WriteRun
<1>7. 0 \in 0..LeaseTicks
  BY Ticks
<1>8. QED
  BY <1>1, <1>4, <1>5, <1>6, <1>7 DEF TypeOK

LEMMA TypeHealed ==
  ASSUME TypeOK, NEW c \in Convs
  PROVE  HealedActiveRun(c) \in Runs \cup {None}
  BY DEF HealedActiveRun, TypeOK

LEMMA TypeAcquireGuard ==
  ASSUME TypeOK, NEW c \in Convs, NEW g \in GuardTokens, AcquireGuard(c, g)
  PROVE  TypeOK'
<1>1. g # None /\ GuardTicks \in 0..GuardTicks /\ GuardTicks # 0
  BY NoneAssumption, Ticks
<1>2. \A d \in Convs : guard'[d] = None <=> guardTTL'[d] = 0
  BY <1>1 DEF AcquireGuard, TypeOK
<1>3. QED
  BY <1>1, <1>2, TypeHealed DEF AcquireGuard, TypeOK

LEMMA TypeReleaseGuard ==
  ASSUME TypeOK, NEW g \in GuardTokens, ReleaseGuard(g)
  PROVE  TypeOK'
<1>1. cleaning[g] \in Convs
  BY DEF ReleaseGuard, TypeOK
<1>2. 0 \in 0..GuardTicks
  BY Ticks
<1>3. \A d \in Convs : guard'[d] = None <=> guardTTL'[d] = 0
  BY <1>1 DEF ReleaseGuard, TypeOK
<1>4. QED
  BY <1>1, <1>2, <1>3 DEF ReleaseGuard, TypeOK

\* Elapsing keeps a TTL in its range, and ends the key exactly at zero.
LEMMA TypeElapse ==
  ASSUME NEW n \in Nat, NEW ttl \in 0..n
  PROVE  /\ Elapse(ttl) \in 0..n
         /\ Elapse(ttl) = 0 <=> ~(ttl > 1)
  BY DEF Elapse

LEMMA TypeTick ==
  ASSUME TypeOK, Tick
  PROVE  TypeOK'
<1>1. RetentionTicks \in Nat /\ LeaseTicks \in Nat /\ GuardTicks \in Nat
  BY Ticks
<1>2. /\ run' \in [Runs -> RunRecord \cup {None}]
      /\ runTTL' \in [Runs -> 0..RetentionTicks]
      /\ \A r \in Runs : run'[r] = None <=> runTTL'[r] = 0
  <2>1. ASSUME NEW r \in Runs
        PROVE  /\ Elapse(runTTL[r]) \in 0..RetentionTicks
               /\ Elapse(runTTL[r]) = 0 <=> ~(runTTL[r] > 1)
               /\ runTTL[r] > 1 => run[r] # None
               /\ run[r] \in RunRecord \cup {None}
    BY <1>1, TypeElapse DEF TypeOK
  <2>2. QED
    BY <2>1 DEF Tick
<1>3. /\ lease' \in [Convs -> Tokens \cup {None}]
      /\ leaseTTL' \in [Convs -> 0..LeaseTicks]
      /\ \A c \in Convs : lease'[c] = None <=> leaseTTL'[c] = 0
  <2>1. ASSUME NEW c \in Convs
        PROVE  /\ Elapse(leaseTTL[c]) \in 0..LeaseTicks
               /\ Elapse(leaseTTL[c]) = 0 <=> ~(leaseTTL[c] > 1)
               /\ leaseTTL[c] > 1 => lease[c] # None
               /\ lease[c] \in Tokens \cup {None}
    BY <1>1, TypeElapse DEF TypeOK
  <2>2. QED
    BY <2>1 DEF Tick
<1>4. /\ guard' \in [Convs -> GuardTokens \cup {None}]
      /\ guardTTL' \in [Convs -> 0..GuardTicks]
      /\ \A c \in Convs : guard'[c] = None <=> guardTTL'[c] = 0
  <2>1. ASSUME NEW c \in Convs
        PROVE  /\ Elapse(guardTTL[c]) \in 0..GuardTicks
               /\ Elapse(guardTTL[c]) = 0 <=> ~(guardTTL[c] > 1)
               /\ guardTTL[c] > 1 => guard[c] # None
               /\ guard[c] \in GuardTokens \cup {None}
    BY <1>1, TypeElapse DEF TypeOK
  <2>2. QED
    BY <2>1 DEF Tick
<1>5. QED
  BY <1>2, <1>3, <1>4 DEF Tick, TypeOK

LEMMA TypeNext == TypeOK /\ [Next]_vars => TypeOK'
<1> SUFFICES ASSUME TypeOK, [Next]_vars
             PROVE  TypeOK'
  OBVIOUS
<1>1. ASSUME NEW t \in Tokens, Executor(t)
      PROVE  TypeOK'
  <2>1. CASE ForgetToken(t)
    BY <2>1 DEF ForgetToken, storeVars, TypeOK
  <2>2. QED
    BY <1>1, <2>1, TypeBeginStarted, TypeBeginResumed, TypeRenew,
       TypeTerminate DEF Executor
<1>2. ASSUME NEW c \in Convs, CheckActive(c)
      PROVE  TypeOK'
  BY <1>2, TypeHealed DEF CheckActive, TypeOK
<1>3. ASSUME NEW g \in GuardTokens, Cleaner(g)
      PROVE  TypeOK'
  <2>1. CASE ForgetGuardToken(g)
    BY <2>1 DEF ForgetGuardToken, storeVars, TypeOK
  <2>2. QED
    BY <1>3, <2>1, TypeAcquireGuard, TypeReleaseGuard DEF Cleaner
<1>4. CASE UNCHANGED vars
  BY <1>4 DEF vars, TypeOK
<1>5. QED
  BY <1>1, <1>2, <1>3, <1>4, TypeRequestCancel, TypeTick DEF Next

(* Every key keeps a value of its type and exists exactly while its TTL     *)
(* runs, whatever scripts are called in whatever order.                     *)
THEOREM TypeCorrect == Spec => []TypeOK
<1>1. Init => TypeOK
  BY RequestAssumption, Ticks, NoneAssumption DEF Init, TypeOK
<1>2. QED
  BY <1>1, TypeNext, PTL DEF Spec

-----------------------------------------------------------------------------
(* The inductive invariant.  SingleFlight needs LeaseBacked nowhere, but    *)
(* LeaseBacked needs SingleFlight (the run a lease protects is the one the  *)
(* holder renews), and GrantMatchesRecord needs LeaseBacked (a hash cannot  *)
(* expire, and its id be reused, under a live lease).                       *)
Consistent ==
  /\ SingleFlight
  /\ LeaseBacked
  /\ GuardExcludesRuns
  /\ GrantMatchesRecord

\* Where a run can start, nothing runs: an existing RUNNING hash of the
\* conversation would be its active run, which healing keeps.
LEMMA StartIsQuiet ==
  ASSUME TypeOK, SingleFlight, NEW c \in Convs, HealedActiveRun(c) = None
  PROVE  \A r \in Runs : IsRunning(r) => RunConv(r) # c
  BY NoneAssumption DEF SingleFlight, HealedActiveRun, IsRunning

LEMMA RunningConv ==
  ASSUME TypeOK, NEW s \in Runs, IsRunning(s)
  PROVE  RunConv(s) \in Convs
  BY RequestAssumption DEF TypeOK, IsRunning, Exists, RunConv, RunRecord

LEMMA InvBeginStarted ==
  ASSUME TypeOK, Consistent, NEW q \in Requests, NEW t \in Tokens,
         BeginStarted(q, t)
  PROVE  Consistent'
<1> DEFINE r == RunOf[q]
           c == ConvOf[q]
           rec == [req |-> q, status |-> Running, leaseDigest |-> t,
                   cancelRequested |-> FALSE, outcome |-> None]
<1>1. /\ r \in Runs /\ c \in Convs
      /\ rec # None /\ r # None /\ t # None
      /\ rec.status = Running /\ rec.req = q /\ rec.leaseDigest = t
      /\ ConvOf[q] = c /\ RunOf[q] = r
  <2>1. rec \in RunRecord
    BY DEF RunRecord, Status, Outcomes
  <2>2. QED
    BY <2>1, RequestAssumption, NoneAssumption
<1>2. /\ run[r] = None /\ lease[c] = None /\ guard[c] = None
      /\ \A s \in Runs : IsRunning(s) => RunConv(s) # c
  BY <1>1, StartIsQuiet
     DEF BeginStarted, CanStart, Unguarded, Exists, Consistent
<1>3. /\ held[t] = None /\ \A d \in Convs : lease[d] # t
      /\ run'[r] = rec /\ runTTL'[r] = RetentionTicks
      /\ lease'[c] = t /\ leaseTTL'[c] = LeaseTicks
      /\ activeRun'[c] = r /\ held'[t] = q
      /\ \A s \in Runs \ {r} : run'[s] = run[s] /\ runTTL'[s] = runTTL[s]
      /\ \A d \in Convs \ {c} : /\ lease'[d] = lease[d]
                               /\ leaseTTL'[d] = leaseTTL[d]
                               /\ activeRun'[d] = activeRun[d]
      /\ \A u \in Tokens \ {t} : held'[u] = held[u]
      /\ guard' = guard
  BY <1>1 DEF BeginStarted, GrantLease, FreshToken, TypeOK
<1> HIDE DEF r, c, rec
<1>4. SingleFlight'
  <2> SUFFICES ASSUME NEW s \in Runs, IsRunning(s)'
               PROVE  activeRun'[RunConv(s)'] = s
    BY DEF SingleFlight
  <2>1. CASE s = r
    BY <1>1, <1>3, <2>1 DEF RunConv
  <2>2. CASE s # r
    <3>1. /\ run'[s] = run[s] /\ IsRunning(s) /\ RunConv(s)' = RunConv(s)
      BY <1>3, <2>2 DEF IsRunning, Exists, RunConv
    <3>2. RunConv(s) \in Convs /\ activeRun[RunConv(s)] = s
      BY <3>1, RunningConv DEF Consistent, SingleFlight
    <3>3. RunConv(s) # c
      BY <1>2, <3>1
    <3>4. QED
      BY <1>3, <3>1, <3>2, <3>3
  <2>3. QED
    BY <2>1, <2>2
<1>5. LeaseBacked'
  <2> SUFFICES ASSUME NEW d \in Convs, lease'[d] # None
               PROVE  /\ activeRun'[d] # None
                      /\ IsRunning(activeRun[d])'
                      /\ RunConv(activeRun[d])' = d
                      /\ run'[activeRun'[d]].leaseDigest = lease'[d]
                      /\ leaseTTL'[d] <= runTTL'[activeRun'[d]]
    BY DEF LeaseBacked
  <2>1. CASE d = c
    BY <1>1, <1>3, <2>1, Ticks DEF IsRunning, Exists, RunConv
  <2>2. CASE d # c
    <3>1. /\ activeRun[d] # None
          /\ IsRunning(activeRun[d])
          /\ RunConv(activeRun[d]) = d
          /\ run[activeRun[d]].leaseDigest = lease[d]
          /\ leaseTTL[d] <= runTTL[activeRun[d]]
      BY <1>3, <2>2 DEF Consistent, LeaseBacked
    <3>2. activeRun[d] \in Runs \ {r}
      BY <1>2, <3>1 DEF IsRunning, Exists, TypeOK
    <3>3. QED
      BY <1>3, <2>2, <3>1, <3>2 DEF IsRunning, Exists, RunConv
  <2>3. QED
    BY <2>1, <2>2
<1>6. GuardExcludesRuns'
  BY <1>1, <1>2, <1>3
     DEF Consistent, GuardExcludesRuns, IsRunning, Exists, RunConv
<1>7. GrantMatchesRecord'
  <2> SUFFICES ASSUME NEW u \in Tokens, NEW d \in Convs,
                      held'[u] # None, lease'[d] = u
               PROVE  /\ ConvOf[held'[u]] = d
                      /\ activeRun'[d] = RunOf[held'[u]]
                      /\ run'[RunOf[held'[u]]] # None
                      /\ run'[RunOf[held'[u]]].req = held'[u]
    BY DEF GrantMatchesRecord
  <2>1. CASE u = t
    BY <1>1, <1>3, <2>1
  <2>2. CASE u # t
    <3>1. d # c /\ held'[u] = held[u] /\ lease[d] = u
      BY <1>3, <2>2
    <3>2. /\ ConvOf[held[u]] = d
          /\ activeRun[d] = RunOf[held[u]]
          /\ run[RunOf[held[u]]] # None
          /\ run[RunOf[held[u]]].req = held[u]
      BY <3>1 DEF Consistent, GrantMatchesRecord
    <3>3. RunOf[held[u]] \in Runs \ {r}
      BY <1>2, <3>1, <3>2, RequestAssumption DEF TypeOK
    <3>4. QED
      BY <1>3, <3>1, <3>2, <3>3
  <2>3. QED
    BY <2>1, <2>2
<1>8. QED
  BY <1>4, <1>5, <1>6, <1>7 DEF Consistent

LEMMA InvBeginResumed ==
  ASSUME TypeOK, Consistent, NEW q \in Requests, NEW t \in Tokens,
         BeginResumed(q, t)
  PROVE  Consistent'
<1> DEFINE r == RunOf[q]
           c == ConvOf[q]
           rec == [run[r] EXCEPT !.leaseDigest = t]
<1>1. /\ r \in Runs /\ c \in Convs /\ r # None /\ t # None
      /\ run[r] # None /\ run[r] \in RunRecord
      /\ run[r].status = Running /\ run[r].req = q
      /\ lease[c] = None /\ guard[c] = None
  BY RequestAssumption, NoneAssumption
     DEF BeginResumed, CanResume, Unguarded, Known, Exists, TypeOK
<1>2. /\ rec # None /\ rec.status = Running /\ rec.req = q
      /\ rec.leaseDigest = t /\ ConvOf[q] = c /\ RunOf[q] = r
  <2>1. rec \in RunRecord
    BY <1>1 DEF RunRecord
  <2>2. QED
    BY <1>1, <2>1, NoneAssumption DEF RunRecord
<1>3. /\ held[t] = None /\ \A d \in Convs : lease[d] # t
      /\ run'[r] = rec /\ runTTL'[r] = RetentionTicks
      /\ lease'[c] = t /\ leaseTTL'[c] = LeaseTicks
      /\ activeRun'[c] = r /\ held'[t] = q
      /\ \A s \in Runs \ {r} : run'[s] = run[s] /\ runTTL'[s] = runTTL[s]
      /\ \A d \in Convs \ {c} : /\ lease'[d] = lease[d]
                               /\ leaseTTL'[d] = leaseTTL[d]
                               /\ activeRun'[d] = activeRun[d]
      /\ \A u \in Tokens \ {t} : held'[u] = held[u]
      /\ guard' = guard
  BY <1>1 DEF BeginResumed, GrantLease, FreshToken, TypeOK
<1> HIDE DEF r, c, rec
<1>4. activeRun[c] = r
  BY <1>1, <1>2 DEF Consistent, SingleFlight, IsRunning, Exists, RunConv
<1>5. SingleFlight'
  <2> SUFFICES ASSUME NEW s \in Runs, IsRunning(s)'
               PROVE  activeRun'[RunConv(s)'] = s
    BY DEF SingleFlight
  <2>1. CASE s = r
    BY <1>1, <1>2, <1>3, <2>1 DEF RunConv
  <2>2. CASE s # r
    <3>1. /\ run'[s] = run[s] /\ IsRunning(s) /\ RunConv(s)' = RunConv(s)
      BY <1>3, <2>2 DEF IsRunning, Exists, RunConv
    <3>2. RunConv(s) \in Convs /\ activeRun[RunConv(s)] = s
      BY <3>1, RunningConv DEF Consistent, SingleFlight
    <3>3. RunConv(s) # c
      BY <1>4, <2>2, <3>2
    <3>4. QED
      BY <1>3, <3>1, <3>2, <3>3
  <2>3. QED
    BY <2>1, <2>2
<1>6. \A d \in Convs \ {c} : lease[d] # None => activeRun[d] \in Runs \ {r}
  BY <1>1, <1>2 DEF Consistent, LeaseBacked, RunConv, TypeOK
<1>7. LeaseBacked'
  <2> SUFFICES ASSUME NEW d \in Convs, lease'[d] # None
               PROVE  /\ activeRun'[d] # None
                      /\ IsRunning(activeRun[d])'
                      /\ RunConv(activeRun[d])' = d
                      /\ run'[activeRun'[d]].leaseDigest = lease'[d]
                      /\ leaseTTL'[d] <= runTTL'[activeRun'[d]]
    BY DEF LeaseBacked
  <2>1. CASE d = c
    BY <1>1, <1>2, <1>3, <2>1, Ticks DEF IsRunning, Exists, RunConv
  <2>2. CASE d # c
    <3>1. /\ activeRun[d] # None
          /\ IsRunning(activeRun[d])
          /\ RunConv(activeRun[d]) = d
          /\ run[activeRun[d]].leaseDigest = lease[d]
          /\ leaseTTL[d] <= runTTL[activeRun[d]]
      BY <1>3, <2>2 DEF Consistent, LeaseBacked
    <3>2. activeRun[d] \in Runs \ {r}
      BY <1>3, <1>6, <2>2
    <3>3. QED
      BY <1>3, <2>2, <3>1, <3>2 DEF IsRunning, Exists, RunConv
  <2>3. QED
    BY <2>1, <2>2
<1>8. GuardExcludesRuns'
  BY <1>1, <1>2, <1>3
     DEF Consistent, GuardExcludesRuns, IsRunning, Exists, RunConv
<1>9. GrantMatchesRecord'
  <2> SUFFICES ASSUME NEW u \in Tokens, NEW d \in Convs,
                      held'[u] # None, lease'[d] = u
               PROVE  /\ ConvOf[held'[u]] = d
                      /\ activeRun'[d] = RunOf[held'[u]]
                      /\ run'[RunOf[held'[u]]] # None
                      /\ run'[RunOf[held'[u]]].req = held'[u]
    BY DEF GrantMatchesRecord
  <2>1. CASE u = t
    BY <1>1, <1>2, <1>3, <2>1
  <2>2. CASE u # t
    <3>1. d # c /\ held'[u] = held[u] /\ lease[d] = u
      BY <1>3, <2>2
    <3>2. /\ ConvOf[held[u]] = d
          /\ activeRun[d] = RunOf[held[u]]
          /\ run[RunOf[held[u]]] # None
          /\ run[RunOf[held[u]]].req = held[u]
      BY <3>1 DEF Consistent, GrantMatchesRecord
    <3>3. RunOf[held[u]] \in Runs \ {r}
      BY <1>6, <3>1, <3>2, NoneAssumption
    <3>4. QED
      BY <1>3, <3>1, <3>2, <3>3
  <2>3. QED
    BY <2>1, <2>2
<1>10. QED
  BY <1>5, <1>7, <1>8, <1>9 DEF Consistent

\* The lease holder's run is the active run, and no other conversation with
\* a lease has it as its active run.
LEMMA HolderIsActive ==
  ASSUME TypeOK, Consistent, NEW t \in Tokens, LeaseOf(t)
  PROVE  LET r == RunOf[held[t]]
         IN  /\ activeRun[RunConv(r)] = r
             /\ \A d \in Convs \ {RunConv(r)} :
                  lease[d] # None => activeRun[d] # r
  BY HolderFacts DEF LeaseOf, Consistent, SingleFlight, LeaseBacked

LEMMA InvRenew ==
  ASSUME TypeOK, Consistent, NEW t \in Tokens, Renew(t)
  PROVE  Consistent'
<1> DEFINE r == RunOf[held[t]]
           c == RunConv(r)
<1>1. /\ r \in Runs /\ c \in Convs /\ activeRun[c] = r
      /\ \A d \in Convs \ {c} : lease[d] # None => activeRun[d] # r
  BY HolderFacts, HolderIsActive DEF Renew
<1>2. /\ UNCHANGED <<run, lease, activeRun, guard, held>>
      /\ leaseTTL'[c] = LeaseTicks /\ runTTL'[r] = RetentionTicks
      /\ \A d \in Convs \ {c} : leaseTTL'[d] = leaseTTL[d]
      /\ \A s \in Runs \ {r} : runTTL'[s] = runTTL[s]
  BY <1>1 DEF Renew, TypeOK
<1> HIDE DEF r, c
<1>3. SingleFlight' /\ GuardExcludesRuns' /\ GrantMatchesRecord'
  BY <1>2 DEF Consistent, SingleFlight, GuardExcludesRuns,
              GrantMatchesRecord, IsRunning, Exists, RunConv
<1>4. LeaseBacked'
  <2> SUFFICES ASSUME NEW d \in Convs, lease[d] # None
               PROVE  leaseTTL'[d] <= runTTL'[activeRun[d]]
    BY <1>2 DEF Consistent, LeaseBacked, IsRunning, Exists, RunConv
  <2>1. CASE d = c
    BY <1>1, <1>2, <2>1, Ticks
  <2>2. CASE d # c
    <3>1. activeRun[d] \in Runs \ {r} /\ leaseTTL[d] <= runTTL[activeRun[d]]
      BY <1>1, <2>2 DEF Consistent, LeaseBacked, TypeOK
    <3>2. QED
      BY <1>2, <2>2, <3>1
  <2>3. QED
    BY <2>1, <2>2
<1>5. QED
  BY <1>3, <1>4 DEF Consistent

LEMMA InvRequestCancel ==
  ASSUME TypeOK, Consistent, NEW r \in Runs, RequestCancel(r)
  PROVE  Consistent'
<1>1. run[r] \in RunRecord /\ run[r] # None
  BY DEF RequestCancel, IsRunning, Exists, TypeOK
<1>2. /\ run'[r] = [run[r] EXCEPT !.cancelRequested = TRUE]
      /\ runTTL'[r] = RetentionTicks
      /\ \A s \in Runs \ {r} : run'[s] = run[s] /\ runTTL'[s] = runTTL[s]
      /\ UNCHANGED <<lease, leaseTTL, activeRun, guard, held>>
  BY DEF RequestCancel, TypeOK
<1>3. run'[r] # None
  <2>1. run'[r] \in RunRecord
    BY <1>1, <1>2 DEF RunRecord
  <2>2. QED
    BY <2>1, NoneAssumption
<1>4. \A s \in Runs :
        /\ run'[s] # None <=> run[s] # None
        /\ run[s] # None => /\ run'[s].status = run[s].status
                            /\ run'[s].req = run[s].req
                            /\ run'[s].leaseDigest = run[s].leaseDigest
        /\ runTTL'[s] >= runTTL[s]
  <2> TAKE s \in Runs
  <2>1. CASE s = r
    <3>1. runTTL[r] \in 0..RetentionTicks
      BY DEF TypeOK
    <3>2. QED
      BY <1>1, <1>2, <1>3, <2>1, <3>1, Ticks DEF RunRecord
  <2>2. CASE s # r
    BY <1>2, <2>2, Ticks DEF TypeOK
  <2>3. QED
    BY <2>1, <2>2
<1>5. SingleFlight' /\ GuardExcludesRuns'
  BY <1>2, <1>4 DEF Consistent, SingleFlight, GuardExcludesRuns, IsRunning,
                    Exists, RunConv
<1>6. GrantMatchesRecord'
  <2>1. \A u \in Tokens : held[u] # None => RunOf[held[u]] \in Runs
    BY RequestAssumption DEF TypeOK
  <2>2. QED
    BY <1>2, <1>4, <2>1 DEF Consistent, GrantMatchesRecord
<1>7. LeaseBacked'
  <2> SUFFICES ASSUME NEW d \in Convs, lease[d] # None
               PROVE  /\ activeRun[d] # None
                      /\ IsRunning(activeRun[d])'
                      /\ RunConv(activeRun[d])' = d
                      /\ run'[activeRun[d]].leaseDigest = lease[d]
                      /\ leaseTTL[d] <= runTTL'[activeRun[d]]
    BY <1>2 DEF LeaseBacked, IsRunning, Exists, RunConv
  <2>1. /\ activeRun[d] \in Runs /\ IsRunning(activeRun[d])
        /\ activeRun[d] # None
        /\ RunConv(activeRun[d]) = d
        /\ run[activeRun[d]].leaseDigest = lease[d]
        /\ leaseTTL[d] <= runTTL[activeRun[d]]
    BY DEF Consistent, LeaseBacked, TypeOK
  <2>2. leaseTTL[d] \in Int /\ runTTL[activeRun[d]] \in Int
        /\ runTTL'[activeRun[d]] \in Int
    BY <2>1, TypeRequestCancel, Ticks DEF TypeOK
  <2>3. QED
    BY <1>2, <1>4, <2>1, <2>2 DEF IsRunning, Exists, RunConv
<1>8. QED
  BY <1>5, <1>6, <1>7 DEF Consistent

LEMMA InvTerminate ==
  ASSUME TypeOK, Consistent, NEW t \in Tokens, NEW f \in Finals,
         Terminate(t, f)
  PROVE  Consistent'
<1> DEFINE r == RunOf[held[t]]
           c == RunConv(r)
           rec == [req |-> run[r].req, status |-> f.status,
                   leaseDigest |-> None, cancelRequested |-> FALSE,
                   outcome |-> f.outcome]
<1>1. /\ r \in Runs /\ c \in Convs /\ activeRun[c] = r
      /\ \A d \in Convs \ {c} : lease[d] # None => activeRun[d] # r
      /\ lease[c] = t /\ t # None
      /\ RunConv(r) = c
  BY HolderFacts, HolderIsActive DEF Terminate
<1>2. /\ run' = [run EXCEPT ![r] = rec]
      /\ runTTL' = [runTTL EXCEPT ![r] = RetentionTicks]
      /\ lease' = [lease EXCEPT ![c] = None]
      /\ leaseTTL' = [leaseTTL EXCEPT ![c] = 0]
      /\ activeRun' = [activeRun EXCEPT ![c] = None]
      /\ UNCHANGED <<guard, held>>
  BY <1>1 DEF Terminate
<1>3. rec.status # Running
  BY DEF Finals, Running
<1> HIDE DEF r, c, rec
<1>4. /\ run'[r] = rec /\ lease'[c] = None
      /\ \A s \in Runs \ {r} : run'[s] = run[s] /\ runTTL'[s] = runTTL[s]
      /\ \A d \in Convs \ {c} : /\ lease'[d] = lease[d]
                               /\ leaseTTL'[d] = leaseTTL[d]
                               /\ activeRun'[d] = activeRun[d]
  BY <1>1, <1>2 DEF TypeOK
<1>5. \A s \in Runs : IsRunning(s)' =>
        /\ s # r /\ IsRunning(s) /\ RunConv(s)' = RunConv(s)
        /\ RunConv(s) \in Convs \ {c} /\ activeRun[RunConv(s)] = s
  <2> TAKE s \in Runs
  <2> HAVE IsRunning(s)'
  <2>1. s # r
    BY <1>3, <1>4 DEF IsRunning
  <2>2. IsRunning(s) /\ RunConv(s)' = RunConv(s)
    BY <1>4, <2>1 DEF IsRunning, Exists, RunConv
  <2>3. RunConv(s) \in Convs /\ activeRun[RunConv(s)] = s
    BY <2>2, RunningConv DEF Consistent, SingleFlight
  <2>4. QED
    BY <1>1, <2>1, <2>2, <2>3
<1>6. SingleFlight'
  BY <1>4, <1>5 DEF SingleFlight
<1>7. LeaseBacked'
  <2> SUFFICES ASSUME NEW d \in Convs \ {c}, lease'[d] # None
               PROVE  /\ activeRun'[d] # None
                      /\ IsRunning(activeRun[d])'
                      /\ RunConv(activeRun[d])' = d
                      /\ run'[activeRun'[d]].leaseDigest = lease'[d]
                      /\ leaseTTL'[d] <= runTTL'[activeRun'[d]]
    BY <1>4 DEF LeaseBacked
  <2>1. /\ activeRun[d] \in Runs \ {r} /\ IsRunning(activeRun[d])
        /\ activeRun[d] # None
        /\ RunConv(activeRun[d]) = d
        /\ run[activeRun[d]].leaseDigest = lease[d]
        /\ leaseTTL[d] <= runTTL[activeRun[d]]
    BY <1>1, <1>4 DEF Consistent, LeaseBacked, TypeOK
  <2>2. QED
    BY <1>4, <2>1 DEF IsRunning, Exists, RunConv
<1>8. GuardExcludesRuns'
  BY <1>2, <1>4, <1>5 DEF Consistent, GuardExcludesRuns
<1>9. GrantMatchesRecord'
  <2> SUFFICES ASSUME NEW u \in Tokens, NEW d \in Convs,
                      held[u] # None, lease'[d] = u
               PROVE  /\ ConvOf[held[u]] = d
                      /\ activeRun'[d] = RunOf[held[u]]
                      /\ run'[RunOf[held[u]]] # None
                      /\ run'[RunOf[held[u]]].req = held[u]
    BY <1>2 DEF GrantMatchesRecord
  <2>1. d # c /\ lease[d] = u /\ lease[d] # None
    BY <1>4, NoneAssumption
  <2>2. /\ ConvOf[held[u]] = d
        /\ activeRun[d] = RunOf[held[u]]
        /\ run[RunOf[held[u]]] # None
        /\ run[RunOf[held[u]]].req = held[u]
    BY <2>1 DEF Consistent, GrantMatchesRecord
  <2>3. RunOf[held[u]] \in Runs \ {r}
    BY <1>1, <2>1, <2>2, RequestAssumption DEF TypeOK
  <2>4. QED
    BY <1>4, <2>1, <2>2, <2>3
<1>10. QED
  BY <1>6, <1>7, <1>8, <1>9 DEF Consistent

\* Healing an active-run key deletes only references to absent hashes, and
\* no part of the invariant is about those.
LEMMA Healing ==
  ASSUME TypeOK, Consistent, NEW c \in Convs,
         activeRun' = [activeRun EXCEPT ![c] = HealedActiveRun(c)],
         UNCHANGED <<run, runTTL, lease, leaseTTL, held>>
  PROVE  SingleFlight' /\ LeaseBacked' /\ GrantMatchesRecord'
<1>1. \A d \in Convs : activeRun[d] # None /\ Exists(activeRun[d])
                          => activeRun'[d] = activeRun[d]
  BY DEF HealedActiveRun, TypeOK
<1>2. SingleFlight'
  <2> SUFFICES ASSUME NEW s \in Runs, IsRunning(s)
               PROVE  activeRun'[RunConv(s)] = s
    BY DEF SingleFlight, IsRunning, Exists, RunConv
  <2>1. /\ RunConv(s) \in Convs /\ activeRun[RunConv(s)] = s
        /\ Exists(s) /\ s # None
    BY RunningConv, NoneAssumption DEF Consistent, SingleFlight, IsRunning
  <2>2. QED
    BY <1>1, <2>1
<1>3. \A d \in Convs : lease[d] # None => activeRun'[d] = activeRun[d]
  BY <1>1 DEF Consistent, LeaseBacked, IsRunning
<1>4. LeaseBacked'
  BY <1>3 DEF Consistent, LeaseBacked, IsRunning, Exists, RunConv
<1>5. GrantMatchesRecord'
  BY <1>3, NoneAssumption DEF Consistent, GrantMatchesRecord
<1>6. QED
  BY <1>2, <1>4, <1>5

LEMMA InvCheckActive ==
  ASSUME TypeOK, Consistent, NEW c \in Convs, CheckActive(c)
  PROVE  Consistent'
<1>1. GuardExcludesRuns'
  BY DEF CheckActive, Consistent, GuardExcludesRuns, IsRunning, Exists,
         RunConv
<1>2. QED
  BY <1>1, Healing DEF CheckActive, Consistent

LEMMA InvAcquireGuard ==
  ASSUME TypeOK, Consistent, NEW c \in Convs, NEW g \in GuardTokens,
         AcquireGuard(c, g)
  PROVE  Consistent'
<1>1. /\ lease[c] = None
      /\ \A s \in Runs : IsRunning(s) => RunConv(s) # c
  BY StartIsQuiet DEF AcquireGuard, ConversationActive, Consistent
<1>2. \A d \in Convs \ {c} : guard'[d] = guard[d]
  BY DEF AcquireGuard, TypeOK
<1>3. GuardExcludesRuns'
  BY <1>1, <1>2 DEF AcquireGuard, Consistent, GuardExcludesRuns, IsRunning,
                    Exists, RunConv
<1>4. QED
  BY <1>3, Healing DEF AcquireGuard, Consistent

\* Dropping guards, tokens and nothing else disturbs no part.
LEMMA InvForget ==
  ASSUME TypeOK, Consistent,
         UNCHANGED <<run, runTTL, lease, leaseTTL, activeRun>>,
         \A c \in Convs : guard'[c] \in {guard[c], None},
         \A t \in Tokens : held'[t] \in {held[t], None}
  PROVE  Consistent'
<1>1. SingleFlight' /\ LeaseBacked' /\ GuardExcludesRuns'
  BY DEF Consistent, SingleFlight, LeaseBacked, GuardExcludesRuns,
         IsRunning, Exists, RunConv
<1>2. GrantMatchesRecord'
  BY DEF Consistent, GrantMatchesRecord
<1>3. QED
  BY <1>1, <1>2 DEF Consistent

\* A lease ends no later than the hash of the run it protects, so whatever
\* a tick leaves of the leases is still backed.
LEMMA InvTick ==
  ASSUME TypeOK, Consistent, Tick
  PROVE  Consistent'
<1>1. /\ UNCHANGED <<activeRun, held>>
      /\ \A r \in Runs : IsRunning(r)' =>
           /\ IsRunning(r) /\ run'[r] = run[r] /\ RunConv(r)' = RunConv(r)
      /\ \A c \in Convs : guard'[c] # None => guard'[c] = guard[c]
  BY DEF Tick, IsRunning, Exists, RunConv
<1>2. \A c \in Convs : lease'[c] # None =>
        /\ lease'[c] = lease[c]
        /\ leaseTTL[c] > 1 /\ leaseTTL'[c] = leaseTTL[c] - 1
  <2>1. \A c \in Convs : leaseTTL[c] \in Int
    BY Ticks DEF TypeOK
  <2>2. QED
    BY <2>1 DEF Tick, Elapse
<1>3. \A c \in Convs : lease'[c] # None =>
        LET r == activeRun[c]
        IN  /\ r \in Runs /\ r # None
            /\ IsRunning(r)
            /\ RunConv(r) = c
            /\ run[r].leaseDigest = lease[c]
            /\ run'[r] = run[r]
            /\ leaseTTL'[c] <= runTTL'[r]
  <2> SUFFICES ASSUME NEW c \in Convs, lease'[c] # None,
                      NEW r, r = activeRun[c]
               PROVE  /\ r \in Runs /\ r # None
                      /\ IsRunning(r)
                      /\ RunConv(r) = c
                      /\ run[r].leaseDigest = lease[c]
                      /\ run'[r] = run[r]
                      /\ leaseTTL'[c] <= runTTL'[r]
    OBVIOUS
  <2>1. /\ r \in Runs /\ r # None /\ IsRunning(r) /\ RunConv(r) = c
        /\ run[r].leaseDigest = lease[c] /\ leaseTTL[c] <= runTTL[r]
    BY <1>2 DEF Consistent, LeaseBacked, TypeOK
  <2>2. leaseTTL[c] \in Int /\ runTTL[r] \in Int
    BY <2>1, Ticks DEF TypeOK
  <2>3. runTTL[r] > 1
    BY <1>2, <2>1, <2>2
  <2>4. run'[r] = run[r] /\ runTTL'[r] = runTTL[r] - 1
    BY <2>1, <2>2, <2>3 DEF Tick, Elapse
  <2>5. QED
    BY <1>2, <2>1, <2>2, <2>4
<1>4. SingleFlight'
  BY <1>1 DEF Consistent, SingleFlight
<1>5. LeaseBacked'
  BY <1>1, <1>2, <1>3 DEF LeaseBacked, IsRunning, Exists, RunConv
<1>6. GuardExcludesRuns'
  <2> SUFFICES ASSUME NEW c \in Convs, guard'[c] # None
               PROVE  /\ lease'[c] = None
                      /\ \A r \in Runs : IsRunning(r)' => RunConv(r)' # c
    BY DEF GuardExcludesRuns
  <2>1. /\ lease[c] = None
        /\ \A r \in Runs : IsRunning(r) => RunConv(r) # c
    BY <1>1 DEF Consistent, GuardExcludesRuns
  <2>2. QED
    BY <1>1, <1>2, <2>1
<1>7. GrantMatchesRecord'
  <2> SUFFICES ASSUME NEW t \in Tokens, NEW c \in Convs,
                      held[t] # None, lease'[c] = t
               PROVE  /\ ConvOf[held[t]] = c
                      /\ activeRun[c] = RunOf[held[t]]
                      /\ run'[RunOf[held[t]]] # None
                      /\ run'[RunOf[held[t]]].req = held[t]
    BY <1>1 DEF GrantMatchesRecord
  <2>1. lease'[c] # None /\ lease[c] = t
    BY <1>2, NoneAssumption
  <2>2. QED
    BY <1>3, <2>1 DEF Consistent, GrantMatchesRecord
<1>8. QED
  BY <1>4, <1>5, <1>6, <1>7 DEF Consistent

LEMMA InvNext == TypeOK /\ Consistent /\ [Next]_vars => Consistent'
<1> SUFFICES ASSUME TypeOK, Consistent, [Next]_vars
             PROVE  Consistent'
  OBVIOUS
<1>1. ASSUME NEW t \in Tokens, Executor(t)
      PROVE  Consistent'
  <2>1. CASE ForgetToken(t)
    BY <2>1, InvForget DEF ForgetToken, storeVars, TypeOK
  <2>2. QED
    BY <1>1, <2>1, InvBeginStarted, InvBeginResumed, InvRenew, InvTerminate
       DEF Executor
<1>2. ASSUME NEW g \in GuardTokens, Cleaner(g)
      PROVE  Consistent'
  <2>1. CASE ReleaseGuard(g)
    BY <2>1, InvForget DEF ReleaseGuard, TypeOK
  <2>2. CASE ForgetGuardToken(g)
    BY <2>2, InvForget DEF ForgetGuardToken, storeVars
  <2>3. QED
    BY <1>2, <2>1, <2>2, InvAcquireGuard DEF Cleaner
<1>3. CASE UNCHANGED vars
  BY <1>3, InvForget DEF vars
<1>4. QED
  BY <1>1, <1>2, <1>3, InvRequestCancel, InvCheckActive, InvTick DEF Next

(* The invariant holds in every reachable state: a lease always protects    *)
(* the one RUNNING run of its conversation.                                 *)
THEOREM Consistency == Spec => []Consistent
<1>1. Init => Consistent
  BY NoneAssumption
     DEF Init, Consistent, SingleFlight, LeaseBacked, GuardExcludesRuns,
         GrantMatchesRecord, IsRunning, Exists
<1>2. QED
  BY <1>1, InvNext, TypeCorrect, PTL DEF Spec

(* A conversation never has two RUNNING runs, however many executors,       *)
(* cancellers and cleaners call the scripts and whenever leases expire.     *)
THEOREM SingleFlightHolds == Spec => []SingleFlight
  BY Consistency, PTL DEF Consistent

(* A lease never outlives the RUNNING hash it protects, for all TTLs that   *)
(* the constructor of RedisRunStore accepts.                                *)
THEOREM LeaseBackedHolds == Spec => []LeaseBacked
  BY Consistency, PTL DEF Consistent

(* begin and the checkpoint cleaner exclude each other.                     *)
THEOREM GuardExcludesRunsHolds == Spec => []GuardExcludesRuns
  BY Consistency, PTL DEF Consistent

(* A token in a lease key belongs to the request recorded in the hash, even *)
(* when run ids are reused after their hash expired.                        *)
THEOREM GrantMatchesRecordHolds == Spec => []GrantMatchesRecord
  BY Consistency, PTL DEF Consistent

-----------------------------------------------------------------------------
\* The only writes of a hash that exists and stays RUNNING keep its intent.
LEMMA IntentNext ==
  ASSUME TypeOK, [Next]_vars, NEW r \in Runs,
         IsRunning(r), run[r].cancelRequested
  PROVE  ~IsRunning(r)' \/ run'[r].cancelRequested
<1> USE DEF IsRunning, Exists
<1>1. ASSUME NEW t \in Tokens, NEW q \in Requests, BeginStarted(q, t)
      PROVE  run'[r] = run[r]
  BY <1>1 DEF BeginStarted, CanStart, TypeOK
<1>2. ASSUME NEW t \in Tokens, NEW q \in Requests, BeginResumed(q, t)
      PROVE  run'[r].cancelRequested
  BY <1>2 DEF BeginResumed, TypeOK, RunRecord
<1>3. ASSUME NEW t \in Tokens, NEW f \in Finals, Terminate(t, f)
      PROVE  ~IsRunning(r)' \/ run'[r].cancelRequested
  BY <1>3 DEF Terminate, TypeOK, Finals, Running
<1>4. ASSUME NEW s \in Runs, RequestCancel(s)
      PROVE  run'[r].cancelRequested
  BY <1>4 DEF RequestCancel, TypeOK, RunRecord
<1>5. CASE Tick
  BY <1>5 DEF Tick
<1>6. CASE UNCHANGED run
  BY <1>6
<1>7. QED
  BY <1>1, <1>2, <1>3, <1>4, <1>5, <1>6
     DEF Next, Executor, Cleaner, Renew, ForgetToken, CheckActive,
         AcquireGuard, ReleaseGuard, ForgetGuardToken, vars, storeVars

(* No takeover, renewal or second request drops a recorded cancel: it stays *)
(* on the hash until the run is terminal or forgotten.                      *)
THEOREM CancelIntentKeptHolds == Spec => CancelIntentKept
<1>1. TypeOK /\ [Next]_vars =>
        [\A r \in Runs :
           (IsRunning(r) /\ run[r].cancelRequested) =>
             \/ ~IsRunning(r)'
             \/ run'[r].cancelRequested]_vars
  BY IntentNext
<1>2. QED
  BY <1>1, TypeCorrect, PTL DEF Spec, CancelIntentKept

(***************************************************************************)
(* The scripts implement RunLedger: every step of RunStore is a step of    *)
(* the ledger or leaves it alone, for every instance of the constants.     *)
(***************************************************************************)

entry == [r \in Runs |-> EntryOf(r)]

EntryRecords == [req : Requests,
            final : [status : Status, outcome : Outcomes] \cup {None},
            cancel : BOOLEAN]

\* Updating a field of an entry, written as the record it gives.
LEMMA EntryUpdate ==
  ASSUME NEW e \in EntryRecords
  PROVE  /\ [e EXCEPT !.cancel = TRUE]
              = [req |-> e.req, final |-> e.final, cancel |-> TRUE]
         /\ \A f \in [status : Status, outcome : Outcomes] :
              [e EXCEPT !.final = f, !.cancel = FALSE]
                = [req |-> e.req, final |-> f, cancel |-> FALSE]
<1>1. [e EXCEPT !.cancel = TRUE]
        = [req |-> e.req, final |-> e.final, cancel |-> TRUE]
  <2> DEFINE y == [e EXCEPT !.cancel = TRUE]
  <2>1. /\ y \in EntryRecords
        /\ y.req = e.req /\ y.final = e.final /\ y.cancel = TRUE
    BY DEF EntryRecords
  <2> HIDE DEF y
  <2>2. y = [req |-> y.req, final |-> y.final, cancel |-> y.cancel]
    BY <2>1 DEF EntryRecords
  <2>3. QED
    BY <2>1, <2>2 DEF y
<1>2. ASSUME NEW f \in [status : Status, outcome : Outcomes]
      PROVE  [e EXCEPT !.final = f, !.cancel = FALSE]
               = [req |-> e.req, final |-> f, cancel |-> FALSE]
  <2> DEFINE y == [e EXCEPT !.final = f, !.cancel = FALSE]
  <2>1. /\ y \in EntryRecords
        /\ y.req = e.req /\ y.final = f /\ y.cancel = FALSE
    BY DEF EntryRecords
  <2> HIDE DEF y
  <2>2. y = [req |-> y.req, final |-> y.final, cancel |-> y.cancel]
    BY <2>1 DEF EntryRecords
  <2>3. QED
    BY <2>1, <2>2 DEF y
<1>3. QED
  BY <1>1, <1>2

\* The entry of a hash is an entry, in flight exactly while it is RUNNING.
LEMMA EntryIsRecord ==
  ASSUME NEW rec \in RunRecord
  PROVE  LET e == [req |-> rec.req,
                   final |-> IF rec.status = Running THEN None
                             ELSE [status |-> rec.status,
                                   outcome |-> rec.outcome],
                   cancel |-> rec.cancelRequested]
         IN  /\ e \in EntryRecords /\ e # None
             /\ e.req = rec.req
             /\ e.final = None <=> rec.status = Running
<1> DEFINE fin == [status |-> rec.status, outcome |-> rec.outcome]
           e == [req |-> rec.req,
                 final |-> IF rec.status = Running THEN None ELSE fin,
                 cancel |-> rec.cancelRequested]
<1>1. fin \in [status : Status, outcome : Outcomes]
  BY DEF RunRecord
<1>2. fin # None
  BY <1>1, NoneAssumption
<1> HIDE DEF fin
<1>3. /\ e \in EntryRecords
      /\ e.req = rec.req /\ (e.final = None <=> rec.status = Running)
  BY <1>1, <1>2 DEF RunRecord, EntryRecords
<1>4. e # None
  BY <1>3, NoneAssumption DEF EntryRecords
<1>5. QED
  BY <1>3, <1>4 DEF fin

\* The ledger's view of a run is what the scripts decide on.
LEMMA EntryFacts ==
  ASSUME TypeOK, NEW r \in Runs
  PROVE  /\ entry[r] = None <=> run[r] = None
         /\ Ledger!InFlight(r) <=> IsRunning(r)
         /\ run[r] # None => /\ entry[r] \in EntryRecords
                             /\ entry[r].req = run[r].req
                             /\ Ledger!EntryConv(r) = RunConv(r)
<1>1. CASE run[r] = None
  BY <1>1 DEF entry, EntryOf, Exists, Ledger!InFlight, IsRunning
<1>2. CASE run[r] # None
  <2> DEFINE e == [req |-> run[r].req,
                   final |-> IF run[r].status = Running THEN None
                             ELSE [status |-> run[r].status,
                                   outcome |-> run[r].outcome],
                   cancel |-> run[r].cancelRequested]
  <2>1. /\ e \in EntryRecords /\ e # None
        /\ e.req = run[r].req /\ (e.final = None <=> run[r].status = Running)
    BY <1>2, EntryIsRecord DEF TypeOK
  <2>2. entry[r] = e
    BY <1>2 DEF entry, EntryOf, Exists
  <2> HIDE DEF e
  <2>3. QED
    BY <1>2, <2>1, <2>2
       DEF entry, Ledger!InFlight, Ledger!EntryConv, IsRunning, Exists,
           RunConv
<1>3. QED
  BY <1>1, <1>2

\* A write of one hash is a write of one entry.
LEMMA EntryWrite ==
  ASSUME TypeOK, NEW r \in Runs, NEW rec \in RunRecord,
         run' = [run EXCEPT ![r] = rec]
  PROVE  entry' = [entry EXCEPT ![r] =
           [req |-> rec.req,
            final |-> IF rec.status = Running THEN None
                      ELSE [status |-> rec.status, outcome |-> rec.outcome],
            cancel |-> rec.cancelRequested]]
<1>1. run'[r] = rec /\ \A s \in Runs \ {r} : run'[s] = run[s]
  BY DEF TypeOK
<1>2. rec # None
  BY NoneAssumption
<1>3. QED
  BY <1>1, <1>2 DEF entry, EntryOf, Exists

LEMMA EntryKept ==
  ASSUME UNCHANGED run
  PROVE  UNCHANGED entry
  BY DEF entry, EntryOf, Exists

LEMMA StepBeginStarted ==
  ASSUME TypeOK, Consistent, NEW q \in Requests, NEW t \in Tokens,
         BeginStarted(q, t)
  PROVE  Ledger!Start(q, t)
<1> DEFINE r == RunOf[q]
           c == ConvOf[q]
           rec == [req |-> q, status |-> Running, leaseDigest |-> t,
                   cancelRequested |-> FALSE, outcome |-> None]
<1>1. r \in Runs /\ c \in Convs /\ rec \in RunRecord
  BY RequestAssumption DEF RunRecord, Status, Outcomes
<1>2. /\ run[r] = None /\ guard[c] = None /\ lease[c] = None
      /\ HealedActiveRun(c) = None
      /\ run' = [run EXCEPT ![r] = rec]
      /\ lease' = [lease EXCEPT ![c] = t]
      /\ guard' = guard
  BY DEF BeginStarted, CanStart, Unguarded, Exists, GrantLease
<1>3. entry' = [entry EXCEPT ![r] = [req |-> q, final |-> None,
                                     cancel |-> FALSE]]
  <2>1. rec.req = q /\ rec.status = Running /\ rec.cancelRequested = FALSE
    OBVIOUS
  <2> HIDE DEF rec, r
  <2>2. QED
    BY <1>1, <1>2, <2>1, EntryWrite
<1>4. entry[r] = None
  BY <1>1, <1>2, EntryFacts
<1>5. Ledger!Quiet(c)
  BY <1>1, <1>2, EntryFacts, StartIsQuiet
     DEF Ledger!Quiet, Consistent, IsRunning, Exists
<1>6. Ledger!Own(c, t)
  BY <1>2 DEF Ledger!Own
<1>7. QED
  BY <1>3, <1>4, <1>5, <1>6 DEF Ledger!Start, entry

LEMMA StepBeginResumed ==
  ASSUME TypeOK, Consistent, NEW q \in Requests, NEW t \in Tokens,
         BeginResumed(q, t)
  PROVE  Ledger!TakeOver(q, t)
<1> DEFINE r == RunOf[q]
           c == ConvOf[q]
           rec == [run[r] EXCEPT !.leaseDigest = t]
<1>1. /\ r \in Runs /\ IsRunning(r) /\ run[r].req = q
      /\ run[r] \in RunRecord
      /\ guard[c] = None /\ lease[c] = None
      /\ run' = [run EXCEPT ![r] = rec]
      /\ lease' = [lease EXCEPT ![c] = t]
      /\ guard' = guard
  BY RequestAssumption
     DEF BeginResumed, CanResume, Unguarded, Known, Exists, IsRunning,
         GrantLease, TypeOK
<1>2. UNCHANGED entry
  <2>1. /\ run'[r].req = run[r].req
        /\ run'[r].status = run[r].status
        /\ run'[r].outcome = run[r].outcome
        /\ run'[r].cancelRequested = run[r].cancelRequested
        /\ run'[r] # None /\ run[r] # None
        /\ \A s \in Runs \ {r} : run'[s] = run[s]
    <3>1. rec \in RunRecord
      BY <1>1 DEF RunRecord
    <3>2. QED
      BY <1>1, <3>1, NoneAssumption DEF RunRecord, TypeOK
  <2> HIDE DEF r
  <2>2. \A s \in Runs : EntryOf(s)' = EntryOf(s)
    BY <2>1 DEF EntryOf, Exists
  <2>3. QED
    BY <2>2 DEF entry
<1>3. Ledger!InFlight(r) /\ entry[r].req = q
  BY <1>1, EntryFacts DEF IsRunning, Exists
<1>4. Ledger!Own(c, t)
  BY <1>1 DEF Ledger!Own
<1>5. QED
  BY <1>2, <1>3, <1>4 DEF Ledger!TakeOver, entry

LEMMA StepRequestCancel ==
  ASSUME TypeOK, NEW r \in Runs, RequestCancel(r)
  PROVE  Ledger!RequestCancel(r)
<1> DEFINE rec == [run[r] EXCEPT !.cancelRequested = TRUE]
<1>1. /\ IsRunning(r) /\ run[r] # None /\ run[r].status = Running
      /\ run[r] \in RunRecord
      /\ run' = [run EXCEPT ![r] = rec]
      /\ UNCHANGED <<lease, guard>>
  BY DEF RequestCancel, IsRunning, Exists, TypeOK
<1>2. /\ rec \in RunRecord /\ rec.req = run[r].req
      /\ rec.status = Running /\ rec.cancelRequested = TRUE
  BY <1>1 DEF RunRecord
<1> HIDE DEF rec
<1>3. entry' = [entry EXCEPT ![r] = [req |-> run[r].req, final |-> None,
                                     cancel |-> TRUE]]
  BY <1>1, <1>2, EntryWrite
<1>4. entry[r] = [req |-> run[r].req, final |-> None,
                  cancel |-> run[r].cancelRequested]
  BY <1>1 DEF entry, EntryOf, Exists
<1>5. entry' = [entry EXCEPT ![r].cancel = TRUE]
  <2>1. /\ entry[r] \in EntryRecords
        /\ entry[r].req = run[r].req /\ entry[r].final = None
    BY <1>1, <1>4, EntryFacts
  <2>2. [entry[r] EXCEPT !.cancel = TRUE]
          = [req |-> run[r].req, final |-> None, cancel |-> TRUE]
    BY <2>1, EntryUpdate
  <2>3. QED
    BY <1>3, <2>2
<1>6. QED
  BY <1>1, <1>5, EntryFacts DEF Ledger!RequestCancel, entry

LEMMA StepTerminate ==
  ASSUME TypeOK, NEW t \in Tokens, NEW f \in Finals, Terminate(t, f)
  PROVE  Ledger!Commit(t, RunOf[held[t]], f)
<1> DEFINE r == RunOf[held[t]]
           c == RunConv(r)
           rec == [req |-> run[r].req, status |-> f.status,
                   leaseDigest |-> None, cancelRequested |-> FALSE,
                   outcome |-> f.outcome]
<1>1. /\ r \in Runs /\ run[r] \in RunRecord /\ run[r] # None
      /\ IsRunning(r) /\ run[r].status = Running /\ lease[c] = t
  BY HolderFacts, NoneAssumption DEF Terminate, IsRunning, Exists
<1>2. /\ f.status \in Status \ {Running} /\ f.outcome \in Outcomes
      /\ f = [status |-> f.status, outcome |-> f.outcome]
  BY DEF Finals, Status, Running, Outcomes
<1>3. /\ rec \in RunRecord /\ rec.req = run[r].req
      /\ rec.status = f.status /\ rec.outcome = f.outcome
      /\ rec.cancelRequested = FALSE
  BY <1>1, <1>2 DEF RunRecord
<1>4. /\ run' = [run EXCEPT ![r] = rec]
      /\ lease' = [lease EXCEPT ![c] = None]
      /\ guard' = guard
  BY DEF Terminate
<1> HIDE DEF rec, r, c
<1>5. entry' = [entry EXCEPT ![r] = [req |-> run[r].req, final |-> f,
                                     cancel |-> FALSE]]
  BY <1>1, <1>2, <1>3, <1>4, EntryWrite
<1>6. entry[r] = [req |-> run[r].req, final |-> None,
                  cancel |-> run[r].cancelRequested]
  BY <1>1 DEF entry, EntryOf, Exists
<1>7. entry' = [entry EXCEPT ![r].final = f, ![r].cancel = FALSE]
  <2> DEFINE e == entry[r]
  <2>1. /\ e \in EntryRecords /\ e.req = run[r].req
        /\ f \in [status : Status, outcome : Outcomes]
    BY <1>1, <1>2, EntryFacts
  <2>2. [e EXCEPT !.final = f, !.cancel = FALSE]
          = [req |-> run[r].req, final |-> f, cancel |-> FALSE]
    <3> HIDE DEF e
    <3>1. [e EXCEPT !.final = f, !.cancel = FALSE]
            = [req |-> e.req, final |-> f, cancel |-> FALSE]
      BY <2>1, EntryUpdate
    <3>2. QED
      BY <2>1, <3>1
  <2>3. [entry EXCEPT ![r].final = f, ![r].cancel = FALSE]
          = [entry EXCEPT ![r] = [@ EXCEPT !.final = f, !.cancel = FALSE]]
    BY <1>1 DEF entry
  <2>4. QED
    BY <1>5, <2>2, <2>3
<1>8. Ledger!InFlight(r) /\ Ledger!EntryConv(r) = c
  BY <1>1, EntryFacts DEF c
<1>9. QED
  BY <1>1, <1>4, <1>7, <1>8 DEF Ledger!Commit, entry, r

LEMMA StepAcquireGuard ==
  ASSUME TypeOK, Consistent, NEW c \in Convs, NEW g \in GuardTokens,
         AcquireGuard(c, g)
  PROVE  Ledger!Clean(c, g)
<1>1. /\ lease[c] = None /\ guard[c] = None
      /\ guard' = [guard EXCEPT ![c] = g]
      /\ UNCHANGED <<run, lease>>
  BY DEF AcquireGuard, ConversationActive
<1>2. \A s \in Runs : IsRunning(s) => RunConv(s) # c
  BY StartIsQuiet DEF AcquireGuard, ConversationActive, Consistent
<1>3. Ledger!Quiet(c)
  BY <1>2, EntryFacts DEF Ledger!Quiet, IsRunning, Exists
<1>4. UNCHANGED entry
  BY <1>1, EntryKept
<1>5. QED
  BY <1>1, <1>3, <1>4 DEF Ledger!Clean, entry

\* What the ledger calls a loss: keys go, and no RUNNING hash before its
\* conversation's lease.
LEMMA StepLose ==
  ASSUME TypeOK, TypeOK',
         \A r \in Runs : run'[r] \in {run[r], None},
         \A c \in Convs : lease'[c] \in {lease[c], None},
         \A c \in Convs : guard'[c] \in {guard[c], None},
         \A r \in Runs : IsRunning(r) /\ run'[r] = None
                          => lease'[RunConv(r)] = None
  PROVE  Ledger!Lose
<1>1. \A r \in Runs : entry'[r] \in {entry[r], None}
  BY DEF entry, EntryOf, Exists
<1>2. \A r \in Runs : entry'[r] = None => run'[r] = None
  <2> SUFFICES ASSUME NEW r \in Runs, run'[r] # None
               PROVE  entry'[r] # None
    OBVIOUS
  <2>1. run'[r] \in RunRecord
    BY DEF TypeOK
  <2>2. entry'[r] = [req |-> run'[r].req,
                     final |-> IF run'[r].status = Running THEN None
                               ELSE [status |-> run'[r].status,
                                     outcome |-> run'[r].outcome],
                     cancel |-> run'[r].cancelRequested]
    BY DEF entry, EntryOf, Exists
  <2>3. QED
    BY <2>1, <2>2, EntryIsRecord
<1>3. \A r \in Runs : Ledger!InFlight(r) /\ entry'[r] = None
                          => lease'[Ledger!EntryConv(r)] = None
  BY <1>2, EntryFacts DEF IsRunning, Exists
<1>4. /\ entry' = [r \in Runs |-> entry'[r]]
      /\ lease' = [c \in Convs |-> lease'[c]]
      /\ guard' = [c \in Convs |-> guard'[c]]
  BY DEF entry, TypeOK
<1>5. QED
  BY <1>1, <1>3, <1>4 DEF Ledger!Lose, entry

LEMMA StepTick ==
  ASSUME TypeOK, TypeOK', Consistent, Tick
  PROVE  Ledger!Lose
<1>1. /\ \A r \in Runs : run'[r] \in {run[r], None}
      /\ \A c \in Convs : lease'[c] \in {lease[c], None}
      /\ \A c \in Convs : guard'[c] \in {guard[c], None}
  BY DEF Tick
<1>2. ASSUME NEW r \in Runs, IsRunning(r), run'[r] = None
      PROVE  lease'[RunConv(r)] = None
  <2> DEFINE c == RunConv(r)
  <2>1. c \in Convs /\ activeRun[c] = r
    BY <1>2, RunningConv DEF Consistent, SingleFlight
  <2>2. run[r] # None /\ ~(runTTL[r] > 1)
    BY <1>2 DEF Tick, IsRunning, Exists
  <2>3. lease[c] # None => leaseTTL[c] <= runTTL[r]
    BY <2>1 DEF Consistent, LeaseBacked
  <2>4. leaseTTL[c] \in Int /\ runTTL[r] \in Int
    BY <2>1, Ticks DEF TypeOK
  <2>5. lease'[c] = IF leaseTTL[c] > 1 THEN lease[c] ELSE None
    BY <2>1 DEF Tick
  <2> HIDE DEF c
  <2>6. QED
    BY <2>2, <2>3, <2>4, <2>5 DEF c
<1>3. QED
  BY <1>1, <1>2, StepLose

LEMMA StepReleaseGuard ==
  ASSUME TypeOK, TypeOK', NEW g \in GuardTokens, ReleaseGuard(g)
  PROVE  Ledger!Lose
<1>1. /\ UNCHANGED <<run, lease>>
      /\ \A c \in Convs : guard'[c] \in {guard[c], None}
  BY DEF ReleaseGuard, TypeOK
<1>2. QED
  BY <1>1, StepLose DEF IsRunning, Exists

LEMMA LedgerStutter ==
  ASSUME UNCHANGED <<run, lease, guard>>
  PROVE  UNCHANGED Ledger!ledgerVars
  BY EntryKept DEF Ledger!ledgerVars, entry

LEMMA LedgerNext ==
  ASSUME TypeOK, TypeOK', Consistent, [Next]_vars
  PROVE  [Ledger!Next]_(Ledger!ledgerVars)
<1>1. ASSUME NEW t \in Tokens, Executor(t)
      PROVE  [Ledger!Next]_(Ledger!ledgerVars)
  <2>1. ASSUME NEW q \in Requests, BeginStarted(q, t) \/ BeginResumed(q, t)
        PROVE  Ledger!Next
    BY <2>1, StepBeginStarted, StepBeginResumed DEF Ledger!Next
  <2>2. ASSUME NEW f \in Finals, Terminate(t, f)
        PROVE  Ledger!Next
    <3>1. RunOf[held[t]] \in Runs
      BY <2>2, HolderFacts DEF Terminate
    <3>2. QED
      BY <2>2, <3>1, StepTerminate DEF Ledger!Next
  <2>3. CASE Renew(t) \/ ForgetToken(t)
    BY <2>3, LedgerStutter DEF Renew, ForgetToken, storeVars
  <2>4. QED
    BY <1>1, <2>1, <2>2, <2>3 DEF Executor
<1>2. ASSUME NEW r \in Runs, RequestCancel(r)
      PROVE  Ledger!Next
  BY <1>2, StepRequestCancel DEF Ledger!Next
<1>3. ASSUME NEW g \in GuardTokens, Cleaner(g)
      PROVE  [Ledger!Next]_(Ledger!ledgerVars)
  <2>1. CASE \E c \in Convs : AcquireGuard(c, g)
    BY <2>1, StepAcquireGuard DEF Ledger!Next
  <2>2. CASE ReleaseGuard(g)
    BY <2>2, StepReleaseGuard DEF Ledger!Next
  <2>3. CASE ForgetGuardToken(g)
    BY <2>3, LedgerStutter DEF ForgetGuardToken, storeVars
  <2>4. QED
    BY <1>3, <2>1, <2>2, <2>3 DEF Cleaner
<1>4. CASE (\E c \in Convs : CheckActive(c)) \/ UNCHANGED vars
  BY <1>4, LedgerStutter DEF CheckActive, vars
<1>5. CASE Tick
  BY <1>5, StepTick DEF Ledger!Next
<1>6. QED
  BY <1>1, <1>2, <1>3, <1>4, <1>5 DEF Next

(* The seven scripts keep the store's promises to its callers: with the     *)
(* entries read from the run hashes, the owners from the lease keys and the *)
(* cleaners from the guard keys, every behaviour of RunStore is one of      *)
(* RunLedger, which RunLifecycle is built on.                               *)
THEOREM LedgerImplemented == Spec => ImplementsLedger
<1>1. Init => Ledger!Init
  BY DEF Init, Ledger!Init, EntryOf, Exists
<1>2. TypeOK /\ TypeOK' /\ Consistent /\ [Next]_vars
        => [Ledger!Next]_(Ledger!ledgerVars)
  BY LedgerNext
<1>3. QED
  BY <1>1, <1>2, TypeCorrect, Consistency, PTL
     DEF Spec, ImplementsLedger, Ledger!Spec

-----------------------------------------------------------------------------
(* What the ledger promises its users holds of the keys.                   *)
Promised == INSTANCE RunLedgerProofs WITH
  entry <- [r \in Runs |-> EntryOf(r)], owner <- lease, cleaner <- guard

\* The ledger of the model and the one the promises are proved of are one.
LEMMA SameLedger ==
  /\ Ledger!Init => Promised!Init
  /\ [Ledger!Next]_(Ledger!ledgerVars) => [Promised!Next]_(Promised!ledgerVars)
<1>1. Ledger!Init => Promised!Init
  BY DEF Ledger!Init, Promised!Init
<1>2. [Ledger!Next]_(Ledger!ledgerVars) => [Promised!Next]_(Promised!ledgerVars)
  BY DEF Ledger!Next, Promised!Next, Ledger!InFlight, Promised!InFlight,
         Ledger!EntryConv, Promised!EntryConv, Ledger!Quiet, Promised!Quiet,
         Ledger!Own, Promised!Own, Ledger!Start, Promised!Start,
         Ledger!TakeOver, Promised!TakeOver, Ledger!RequestCancel,
         Promised!RequestCancel, Ledger!Commit, Promised!Commit,
         Ledger!Clean, Promised!Clean, Ledger!Lose, Promised!Lose,
         Ledger!ledgerVars, Promised!ledgerVars
<1>3. QED
  BY <1>1, <1>2

(* What the scripts leave of a run, by whichever token, at whatever time: a *)
(* hash keeps its request and, once it has one, its final until it expires; *)
(* a run ends by the lease of its conversation, which goes with it, and a   *)
(* lease is never passed on directly.                                       *)
THEOREM StoreKeepsPromises ==
  Spec => /\ []Promised!LedgerConsistent
          /\ Promised!EntriesAdvance /\ Promised!OwnersDecide
<1>1. Promised!LedgerAssumption
  <2>1. Finals \subseteq [status : Status, outcome : Outcomes]
    BY DEF Finals, Status, Outcomes
  <2>2. None \notin Finals /\ None \notin Promised!Records
    <3>1. Promised!Records \subseteq
            [req : Requests,
             final : [status : Status, outcome : Outcomes] \cup {None},
             cancel : BOOLEAN]
      BY <2>1 DEF Promised!Records
    <3>2. QED
      BY <2>1, <3>1, NoneAssumption
  <2>3. QED
    BY <2>2, RequestAssumption, NoneAssumption DEF Promised!LedgerAssumption
<1>2. Promised!Spec =>
        /\ []Promised!LedgerConsistent
        /\ Promised!EntriesAdvance /\ Promised!OwnersDecide
  BY <1>1, Promised!LedgerPromises
<1>3. QED
  BY <1>2, SameLedger, LedgerImplemented, PTL
     DEF Promised!Spec, ImplementsLedger, Ledger!Spec
=============================================================================
