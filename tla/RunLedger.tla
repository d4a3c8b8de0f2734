------------------------------ MODULE RunLedger ------------------------------
(***************************************************************************)
(* What the run store promises to the processes that call it, without      *)
(* keys, TTLs, active-run references or scripts:                           *)
(*                                                                         *)
(*   - a run is entered once, RUNNING, and becomes terminal at most once;  *)
(*     its final never changes for as long as the entry is remembered;     *)
(*   - at most one run of a conversation is RUNNING;                       *)
(*   - at most one token owns a conversation, and only that token makes a  *)
(*     run terminal; taking a run over needs the owner's loss;             *)
(*   - a cancel request stays on the entry for as long as it is RUNNING;   *)
(*   - a conversation is never owned or RUNNING while it is being cleaned; *)
(*   - time may take an owner, a cleaner or an entry away, but never the   *)
(*     entry of a run whose conversation is still owned.                   *)
(***************************************************************************)
CONSTANTS Runs, Convs, Requests, RunOf, ConvOf, Tokens, GuardTokens, Finals,
          None

VARIABLES
  entry,    \* [req, final, cancel] per run, None if absent; final is None
            \* while the run is RUNNING, cancel is the recorded intent
  owner,    \* the token that owns a conversation
  cleaner   \* the guard token under which a conversation is being cleaned

ledgerVars == <<entry, owner, cleaner>>

InFlight(r) == entry[r] # None /\ entry[r].final = None
EntryConv(r) == ConvOf[entry[r].req]
Quiet(c) == \A r \in Runs : InFlight(r) => EntryConv(r) # c

Init ==
  /\ entry = [r \in Runs |-> None]
  /\ owner = [c \in Convs |-> None]
  /\ cleaner = [c \in Convs |-> None]

Own(c, t) ==
  /\ owner[c] = None
  /\ cleaner[c] = None
  /\ owner' = [owner EXCEPT ![c] = t]
  /\ UNCHANGED cleaner

\* A new run of a conversation in which nothing runs.
Start(q, t) ==
  /\ entry[RunOf[q]] = None
  /\ Quiet(ConvOf[q])
  /\ Own(ConvOf[q], t)
  /\ entry' = [entry EXCEPT ![RunOf[q]] = [req |-> q, final |-> None,
                                            cancel |-> FALSE]]

\* The same request takes over its own run.
TakeOver(q, t) ==
  /\ InFlight(RunOf[q])
  /\ entry[RunOf[q]].req = q
  /\ Own(ConvOf[q], t)
  /\ UNCHANGED entry

\* Anyone may ask to cancel a run in flight.
RequestCancel(r) ==
  /\ InFlight(r)
  /\ entry' = [entry EXCEPT ![r].cancel = TRUE]
  /\ UNCHANGED <<owner, cleaner>>

\* The owner of the run's conversation makes the run terminal.
Commit(t, r, f) ==
  /\ InFlight(r)
  /\ owner[EntryConv(r)] = t
  /\ entry' = [entry EXCEPT ![r].final = f, ![r].cancel = FALSE]
  /\ owner' = [owner EXCEPT ![EntryConv(r)] = None]
  /\ UNCHANGED cleaner

Clean(c, g) ==
  /\ owner[c] = None
  /\ cleaner[c] = None
  /\ Quiet(c)
  /\ cleaner' = [cleaner EXCEPT ![c] = g]
  /\ UNCHANGED <<entry, owner>>

\* Time, crashes and released guards: any owners, cleaners and entries may go,
\* an entry in flight only together with, or after, the owner.
Lose ==
  /\ \A r \in Runs : entry'[r] \in {entry[r], None}
  /\ \A c \in Convs : owner'[c] \in {owner[c], None}
  /\ \A c \in Convs : cleaner'[c] \in {cleaner[c], None}
  /\ \A r \in Runs : InFlight(r) /\ entry'[r] = None => owner'[EntryConv(r)] = None
  /\ entry' = [r \in Runs |-> entry'[r]]
  /\ owner' = [c \in Convs |-> owner'[c]]
  /\ cleaner' = [c \in Convs |-> cleaner'[c]]

Next ==
  \/ \E q \in Requests, t \in Tokens : Start(q, t) \/ TakeOver(q, t)
  \/ \E r \in Runs : RequestCancel(r)
  \/ \E t \in Tokens, r \in Runs, f \in Finals : Commit(t, r, f)
  \/ \E c \in Convs, g \in GuardTokens : Clean(c, g)
  \/ Lose

Spec == Init /\ [][Next]_ledgerVars

-----------------------------------------------------------------------------
(* What follows for whoever uses the ledger.                               *)

\* Single flight: a conversation has at most one run RUNNING.
OneInFlight ==
  \A r, s \in Runs :
    InFlight(r) /\ InFlight(s) /\ EntryConv(r) = EntryConv(s) => r = s

\* Whoever owns a conversation has a run to finish there, and nobody cleans.
OwnersWork == \A c \in Convs : owner[c] # None => ~Quiet(c) /\ cleaner[c] = None

\* A conversation that is being cleaned is at rest.
CleanedAtRest == \A c \in Convs : cleaner[c] # None => Quiet(c)

LedgerConsistent == OneInFlight /\ OwnersWork /\ CleanedAtRest

\* A remembered entry stays with its request, keeps its final, and drops a
\* recorded cancel only when it gets one.
EntriesAdvance ==
  [][\A r \in Runs : entry[r] # None /\ entry'[r] # None =>
       /\ entry'[r].req = entry[r].req
       /\ entry[r].final # None => entry'[r] = entry[r]
       /\ entry[r].cancel /\ entry'[r].final = None => entry'[r].cancel]_ledgerVars

\* A run ends by its owner, who gives the conversation up with it; nobody
\* else takes it while it is owned, and it is not forgotten until then.
OwnersDecide ==
  [][/\ \A r \in Runs : InFlight(r) /\ entry'[r] # entry[r] =>
          \/ InFlight(r)'
          \/ entry'[r] = None /\ owner'[EntryConv(r)] = None
          \/ owner[EntryConv(r)] # None /\ owner'[EntryConv(r)] = None
     /\ \A c \in Convs : owner[c] # None => owner'[c] \in {owner[c], None}]_ledgerVars
=============================================================================
