---------------------------- MODULE GraphThread ----------------------------
(***************************************************************************)
(* What the rest of the system assumes of the root graph: the checkpoint   *)
(* of a conversation's thread is an input, then synchronised, then ended   *)
(* with an answer to the request it holds, and never goes from one request *)
(* to an older one.  RunLifecycle runs its graph tasks over exactly these  *)
(* steps (GraphInput, GraphSync, GraphAnswer); RootGraph implements them.  *)
(***************************************************************************)
EXTENDS Integers

CONSTANTS
  Requests,
  Sequence,     \* a request's place in the conversation
  None

VARIABLES
  stage,    \* "none", "input", "sync" or "end"
  req,      \* the request the checkpoint belongs to
  shown     \* whose answers a finished thread shows

threadVars == <<stage, req, shown>>

ThreadInit == stage = "none" /\ req = None /\ shown = <<>>

\* A request's input is merged into the thread, whatever became of the one
\* before.  preserve_identity takes the thread's own identity again, too.
Input(q) ==
  /\ req \notin {None, q} => Sequence[q] > Sequence[req]
  /\ stage' = "input"
  /\ req' = q
  /\ shown' = <<>>

Sync ==
  /\ stage = "input"
  /\ stage' = "sync"
  /\ UNCHANGED <<req, shown>>

\* The graph ends with one answer, made for the request it holds.
Answer ==
  /\ stage = "sync"
  /\ stage' = "end"
  /\ shown' = <<req>>
  /\ UNCHANGED req

ThreadNext == (\E q \in Requests : Input(q)) \/ Sync \/ Answer

ThreadSpec == ThreadInit /\ [][ThreadNext]_threadVars

=============================================================================
