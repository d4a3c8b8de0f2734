--------------------------- MODULE RunLedgerProofs ---------------------------
(***************************************************************************)
(* The promises of the ledger hold together, for any runs, conversations,  *)
(* requests, tokens and finals.  What implements it inherits them: RunStore *)
(* (LedgerImplemented), the cleaners beside it, and RunLifecycle's calls.  *)
(***************************************************************************)
EXTENDS RunLedger, TLAPS

Records == [req : Requests, final : Finals \cup {None}, cancel : BOOLEAN]

\* Constants as in RunStore and RunLifecycle.
LedgerAssumption ==
  /\ RunOf \in [Requests -> Runs]
  /\ ConvOf \in [Requests -> Convs]
  /\ None \notin Tokens \cup GuardTokens \cup Finals \cup Records

LedgerTyped ==
  /\ entry \in [Runs -> Records \cup {None}]
  /\ owner \in [Convs -> Tokens \cup {None}]
  /\ cleaner \in [Convs -> GuardTokens \cup {None}]

Promises == LedgerTyped /\ OneInFlight /\ OwnersWork /\ CleanedAtRest

LEMMA ConvOfEntry ==
  ASSUME LedgerAssumption, LedgerTyped, NEW r \in Runs, entry[r] # None
  PROVE  entry[r] \in Records /\ EntryConv(r) \in Convs
  BY DEF LedgerAssumption, LedgerTyped, Records, EntryConv

LEMMA StartKeeps ==
  ASSUME LedgerAssumption, Promises, NEW q \in Requests, NEW t \in Tokens,
         Start(q, t)
  PROVE  Promises'
<1> DEFINE e == [req |-> q, final |-> None, cancel |-> FALSE]
           run == RunOf[q]
           conv == ConvOf[q]
<1>1. /\ run \in Runs /\ conv \in Convs /\ e \in Records /\ e # None
      /\ e.req = q /\ e.final = None /\ t # None
  <2>1. e \in Records
    BY DEF Records
  <2>2. QED
    BY <2>1 DEF LedgerAssumption
<1>2. /\ entry[run] = None /\ Quiet(conv) /\ owner[conv] = None
      /\ cleaner[conv] = None /\ cleaner' = cleaner
      /\ entry' = [entry EXCEPT ![run] = e]
      /\ owner' = [owner EXCEPT ![conv] = t]
  BY DEF Start, Own
<1> HIDE DEF e
<1>3. LedgerTyped'
  BY <1>1, <1>2 DEF Promises, LedgerTyped
<1>4. /\ InFlight(run)' /\ EntryConv(run)' = conv
      /\ \A r \in Runs \ {run} : /\ InFlight(r)' <=> InFlight(r)
                                /\ EntryConv(r)' = EntryConv(r)
  BY <1>1, <1>2 DEF Promises, LedgerTyped, InFlight, EntryConv
<1>5. OneInFlight'
  BY <1>2, <1>4 DEF Promises, OneInFlight, Quiet
<1>6. ~Quiet(conv)' /\ \A c \in Convs \ {conv} : Quiet(c)' <=> Quiet(c)
  BY <1>1, <1>2, <1>4 DEF Quiet, InFlight
<1>7. OwnersWork' /\ CleanedAtRest'
  BY <1>1, <1>2, <1>6 DEF Promises, LedgerTyped, OwnersWork, CleanedAtRest
<1>8. QED
  BY <1>3, <1>5, <1>7 DEF Promises

LEMMA TakeOverKeeps ==
  ASSUME LedgerAssumption, Promises, NEW q \in Requests, NEW t \in Tokens,
         TakeOver(q, t)
  PROVE  Promises'
<1>1. RunOf[q] \in Runs /\ ConvOf[q] \in Convs
  BY DEF LedgerAssumption
<1>2. /\ InFlight(RunOf[q]) /\ EntryConv(RunOf[q]) = ConvOf[q]
      /\ entry' = entry /\ cleaner' = cleaner /\ cleaner[ConvOf[q]] = None
      /\ owner' = [owner EXCEPT ![ConvOf[q]] = t]
  BY DEF TakeOver, Own, EntryConv
<1>3. LedgerTyped' /\ OneInFlight' /\ CleanedAtRest'
  BY <1>1, <1>2 DEF Promises, LedgerTyped, OneInFlight, CleanedAtRest, Quiet,
                    InFlight, EntryConv
<1>4. \A c \in Convs : Quiet(c)' <=> Quiet(c)
  BY <1>2 DEF Quiet, InFlight, EntryConv
<1>5. ~Quiet(ConvOf[q])
  BY <1>1, <1>2 DEF Quiet
<1>6. OwnersWork'
  BY <1>1, <1>2, <1>4, <1>5 DEF Promises, LedgerTyped, OwnersWork
<1>7. QED
  BY <1>3, <1>6 DEF Promises

LEMMA CancelKeeps ==
  ASSUME LedgerAssumption, Promises, NEW r \in Runs, RequestCancel(r)
  PROVE  Promises'
<1>1. /\ entry[r] \in Records /\ owner' = owner /\ cleaner' = cleaner
      /\ entry' = [entry EXCEPT ![r].cancel = TRUE]
  BY DEF RequestCancel, InFlight, Promises, LedgerTyped
<1>2. /\ entry'[r] \in Records /\ entry'[r] # None
      /\ entry'[r].req = entry[r].req /\ entry'[r].final = entry[r].final
      /\ \A s \in Runs \ {r} : entry'[s] = entry[s]
  BY <1>1 DEF Promises, LedgerTyped, LedgerAssumption, Records
<1>3. LedgerTyped'
  BY <1>1, <1>2 DEF Promises, LedgerTyped
<1>4. \A s \in Runs : /\ InFlight(s)' <=> InFlight(s)
                      /\ EntryConv(s)' = EntryConv(s)
  BY <1>2 DEF RequestCancel, InFlight, EntryConv
<1>5. QED
  BY <1>1, <1>3, <1>4 DEF Promises, OneInFlight, OwnersWork, CleanedAtRest, Quiet

LEMMA CommitKeeps ==
  ASSUME LedgerAssumption, Promises, NEW t \in Tokens, NEW r \in Runs,
         NEW f \in Finals, Commit(t, r, f)
  PROVE  Promises' /\ f # None /\ entry'[r].final = f
<1>1. /\ entry[r] \in Records /\ EntryConv(r) \in Convs /\ cleaner' = cleaner
      /\ entry' = [entry EXCEPT ![r].final = f, ![r].cancel = FALSE]
      /\ owner' = [owner EXCEPT ![EntryConv(r)] = None]
  BY ConvOfEntry DEF Commit, InFlight, Promises
<1>2. /\ entry'[r] \in Records /\ entry'[r].final = f /\ f # None
      /\ \A s \in Runs \ {r} : entry'[s] = entry[s]
  BY <1>1 DEF Promises, LedgerTyped, LedgerAssumption, Records
<1>3. LedgerTyped'
  BY <1>1, <1>2 DEF Promises, LedgerTyped
<1>4. /\ ~InFlight(r)' /\ InFlight(r)
      /\ \A s \in Runs \ {r} : /\ InFlight(s)' <=> InFlight(s)
                              /\ EntryConv(s)' = EntryConv(s)
  BY <1>2 DEF Commit, InFlight, EntryConv
<1>5. OneInFlight' /\ CleanedAtRest'
  BY <1>1, <1>4 DEF Promises, OneInFlight, CleanedAtRest, Quiet
<1>6. OwnersWork'
  <2> SUFFICES ASSUME NEW c \in Convs, owner'[c] # None
               PROVE  ~Quiet(c)' /\ cleaner'[c] = None
    BY DEF OwnersWork
  <2>1. c # EntryConv(r) /\ owner[c] # None
    BY <1>1 DEF Promises, LedgerTyped
  <2>2. PICK s \in Runs : InFlight(s) /\ EntryConv(s) = c
    BY <2>1 DEF Promises, OwnersWork, Quiet
  <2>3. InFlight(s)' /\ EntryConv(s)' = c
    BY <1>4, <2>1, <2>2
  <2>4. QED
    BY <1>1, <2>1, <2>3 DEF Promises, OwnersWork, Quiet
<1>7. QED
  BY <1>2, <1>3, <1>5, <1>6 DEF Promises

LEMMA CleanKeeps ==
  ASSUME LedgerAssumption, Promises, NEW c \in Convs, NEW g \in GuardTokens,
         Clean(c, g)
  PROVE  Promises'
<1>1. \A d \in Convs : Quiet(d)' <=> Quiet(d)
  BY DEF Clean, Quiet, InFlight, EntryConv
<1>2. QED
  BY <1>1 DEF Clean, Promises, LedgerTyped, OneInFlight, InFlight, EntryConv,
              OwnersWork, CleanedAtRest

LEMMA LoseKeeps ==
  ASSUME LedgerAssumption, Promises, Lose
  PROVE  Promises'
<1>1. /\ \A r \in Runs : entry'[r] \in {entry[r], None}
      /\ \A c \in Convs : owner'[c] \in {owner[c], None}
      /\ \A c \in Convs : cleaner'[c] \in {cleaner[c], None}
      /\ \A r \in Runs : InFlight(r) /\ entry'[r] = None
                            => owner'[EntryConv(r)] = None
  BY DEF Lose
<1>2. LedgerTyped'
  <2>1. /\ entry' = [r \in Runs |-> entry'[r]]
        /\ owner' = [c \in Convs |-> owner'[c]]
        /\ cleaner' = [c \in Convs |-> cleaner'[c]]
    BY DEF Lose
  <2>2. /\ \A r \in Runs : entry'[r] \in Records \cup {None}
        /\ \A c \in Convs : owner'[c] \in Tokens \cup {None}
        /\ \A c \in Convs : cleaner'[c] \in GuardTokens \cup {None}
    BY <1>1 DEF Promises, LedgerTyped
  <2>3. QED
    BY <2>1, <2>2 DEF LedgerTyped
<1>3. \A r \in Runs : InFlight(r)' => /\ InFlight(r)
                                       /\ EntryConv(r)' = EntryConv(r)
  BY <1>1 DEF InFlight, EntryConv
<1>4. OneInFlight' /\ CleanedAtRest'
  BY <1>1, <1>3 DEF Promises, OneInFlight, CleanedAtRest, Quiet
<1>5. OwnersWork'
  <2> SUFFICES ASSUME NEW c \in Convs, owner'[c] # None
               PROVE  ~Quiet(c)' /\ cleaner'[c] = None
    BY DEF OwnersWork
  <2>1. owner[c] # None /\ cleaner[c] = None
    BY <1>1 DEF Promises, OwnersWork
  <2>2. PICK s \in Runs : InFlight(s) /\ EntryConv(s) = c
    BY <2>1 DEF Promises, OwnersWork, Quiet
  <2>3. entry'[s] = entry[s]
    BY <1>1, <2>2
  <2>4. InFlight(s)' /\ EntryConv(s)' = c
    BY <2>2, <2>3 DEF InFlight, EntryConv
  <2>5. QED
    BY <1>1, <2>1, <2>4 DEF Quiet
<1>6. QED
  BY <1>2, <1>4, <1>5 DEF Promises

LEMMA StepKeeps ==
  ASSUME LedgerAssumption, Promises, [Next]_ledgerVars
  PROVE  Promises'
<1>1. CASE UNCHANGED ledgerVars
  BY <1>1 DEF ledgerVars, Promises, LedgerTyped, OneInFlight, OwnersWork,
              CleanedAtRest, Quiet, InFlight, EntryConv
<1>2. CASE Next
  BY <1>2, StartKeeps, TakeOverKeeps, CancelKeeps, CommitKeeps, CleanKeeps,
     LoseKeeps DEF Next
<1>3. QED
  BY <1>1, <1>2

(* Whoever uses the ledger finds single flight, owners with a run to finish *)
(* and no cleaner beside them, entries that only advance, and ends that     *)
(* only an owner decides: what the runner and the cleaners take for granted *)
(* of begin, renew, request_cancel, the terminal scripts and the guard.     *)
THEOREM LedgerPromises ==
  ASSUME LedgerAssumption
  PROVE  Spec => []LedgerConsistent /\ EntriesAdvance /\ OwnersDecide
<1> DEFINE Advance ==
             \A r \in Runs : entry[r] # None /\ entry'[r] # None =>
               /\ entry'[r].req = entry[r].req
               /\ entry[r].final # None => entry'[r] = entry[r]
               /\ entry[r].cancel /\ entry'[r].final = None => entry'[r].cancel
           Decide ==
             /\ \A r \in Runs : InFlight(r) /\ entry'[r] # entry[r] =>
                  \/ InFlight(r)'
                  \/ entry'[r] = None /\ owner'[EntryConv(r)] = None
                  \/ owner[EntryConv(r)] # None /\ owner'[EntryConv(r)] = None
             /\ \A c \in Convs : owner[c] # None => owner'[c] \in {owner[c], None}
<1>1. Init => Promises
  BY DEF Init, Promises, LedgerTyped, OneInFlight, OwnersWork, CleanedAtRest,
         InFlight
<1>2. Promises /\ [Next]_ledgerVars => Promises'
  BY StepKeeps
<1>3. Promises /\ [Next]_ledgerVars => [Advance /\ Decide]_ledgerVars
  <2> SUFFICES ASSUME Promises, Next
               PROVE  Advance /\ Decide
    OBVIOUS
  <2>1. ASSUME NEW q \in Requests, NEW t \in Tokens, Start(q, t) \/ TakeOver(q, t)
        PROVE  Advance /\ Decide
    <3>1. /\ \A r \in Runs : entry[r] # None => entry'[r] = entry[r]
          /\ \A c \in Convs : owner[c] # None => owner'[c] = owner[c]
      BY <2>1 DEF Start, TakeOver, Own, Promises, LedgerTyped, LedgerAssumption
    <3>2. QED
      BY <3>1 DEF InFlight
  <2>2. ASSUME NEW r \in Runs, RequestCancel(r)
        PROVE  Advance /\ Decide
    <3>1. /\ owner' = owner /\ entry[r] \in Records /\ entry[r].final = None
          /\ entry' = [entry EXCEPT ![r].cancel = TRUE]
      BY <2>2 DEF RequestCancel, InFlight, Promises, LedgerTyped
    <3>2. /\ entry'[r] \in Records /\ entry'[r].cancel = TRUE
          /\ entry'[r].req = entry[r].req /\ entry'[r].final = None
          /\ \A s \in Runs \ {r} : entry'[s] = entry[s]
      BY <3>1 DEF Promises, LedgerTyped, LedgerAssumption, Records
    <3>3. entry'[r] # None
      BY <3>2 DEF LedgerAssumption
    <3>4. QED
      BY <3>1, <3>2, <3>3 DEF InFlight
  <2>3. ASSUME NEW t \in Tokens, NEW r \in Runs, NEW f \in Finals, Commit(t, r, f)
        PROVE  Advance /\ Decide
    <3>1. /\ entry[r] \in Records /\ entry[r].final = None /\ t # None
          /\ EntryConv(r) \in Convs /\ owner[EntryConv(r)] = t
          /\ entry' = [entry EXCEPT ![r].final = f, ![r].cancel = FALSE]
          /\ owner' = [owner EXCEPT ![EntryConv(r)] = None]
      BY <2>3, ConvOfEntry DEF Commit, InFlight, Promises, LedgerAssumption
    <3>2. /\ entry'[r].req = entry[r].req /\ entry'[r].final # None
          /\ \A s \in Runs \ {r} : entry'[s] = entry[s]
      BY <3>1 DEF Promises, LedgerTyped, LedgerAssumption, Records
    <3>3. /\ owner'[EntryConv(r)] = None
          /\ \A c \in Convs : owner'[c] \in {owner[c], None}
      BY <3>1 DEF Promises, LedgerTyped
    <3>4. QED
      BY <3>1, <3>2, <3>3
  <2>4. ASSUME NEW c \in Convs, NEW g \in GuardTokens, Clean(c, g)
        PROVE  Advance /\ Decide
    BY <2>4 DEF Clean
  <2>5. CASE Lose
    <3>1. /\ \A r \in Runs : entry'[r] \in {entry[r], None}
          /\ \A c \in Convs : owner'[c] \in {owner[c], None}
          /\ \A r \in Runs : InFlight(r) /\ entry'[r] = None
                                => owner'[EntryConv(r)] = None
      BY <2>5 DEF Lose
    <3>2. QED
      BY <3>1
  <2>6. QED
    BY <2>1, <2>2, <2>3, <2>4, <2>5 DEF Next
<1>4. Promises => LedgerConsistent
  BY DEF Promises, LedgerConsistent
<1>5. QED
  BY <1>1, <1>2, <1>3, <1>4, PTL DEF Spec, EntriesAdvance, OwnersDecide
=============================================================================
