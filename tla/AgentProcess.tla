---------------------------- MODULE AgentProcess ----------------------------
(***************************************************************************)
(* The life of an agent service process: application_lifespan enters the   *)
(* persistence, RAG and Java resources in this order, the service answers  *)
(* retrievals, and the resources are closed in the opposite order, after   *)
(* a failed start-up as after a shutdown.  The two warm-up inferences go   *)
(* through the same ModelRuntime as those of the retrievals.               *)
(* One start and one stop: a restarted process shares none of this state.  *)
(***************************************************************************)
EXTENDS HybridRetrieval

CONSTANTS
  WarmUp,           \* create_rag_resources, as a caller of the runtime
  Configurations    \* what the settings ask for, of what is optional

ASSUME ProcessAssumption ==
  /\ WarmUp \in Callers \ Retrievals
  /\ Configurations \subseteq SUBSET {"redis", "rag", "java"}

VARIABLES
  settings, \* rag_enabled, agent_redis_url and java_base_url
  phase,    \* the step of the start-up, or what follows it
  held,     \* resources to close, in the order they were opened
  warmed,   \* _warmed_up
  leaked    \* resources nothing will close

lifespan == <<settings, phase, held, warmed, leaked>>
processVars == <<runtime, retrieval, lifespan>>

-----------------------------------------------------------------------------
Resources == {"checkpointer", "redis", "elasticsearch", "models", "java"}
StartUp == {"checkpointer", "redis", "audit", "artifacts", "ping", "load",
            "embedding", "reranker", "assembly", "java"}
Phases == StartUp \cup {"serving", "stopping", "stopped"}

ProcessInit ==
  /\ RuntimeInit
  /\ RetrievalInit
  /\ settings \in Configurations
  /\ phase = "checkpointer"
  /\ held = <<>>
  /\ warmed = FALSE
  /\ leaked = {}

Holds(x) == x \in Range(held)
Open(x) == held' = Append(held, x)
Goto(p) == phase' = p

\* The start-up raises: what the stack and the handlers hold is closed.
Raise == Goto("stopping")

OpenCheckpointer ==
  /\ phase = "checkpointer"
  /\ \/ Open("checkpointer") /\ Goto("redis")
     \/ Raise /\ UNCHANGED held
  /\ UNCHANGED <<runtime, retrieval, settings, warmed, leaked>>

\* Redis is optional outside production; its client may be refused.
OpenRedis ==
  /\ phase = "redis"
  /\ \/ "redis" \in settings /\ Open("redis") /\ Goto("audit")
     \/ "redis" \in settings /\ Raise /\ UNCHANGED held
     \/ "redis" \notin settings /\ Goto("artifacts") /\ UNCHANGED held
  /\ UNCHANGED <<runtime, retrieval, settings, warmed, leaked>>

\* Findings stop a production start-up and are logged in any other.
AuditRedis ==
  /\ phase = "audit"
  /\ Goto("artifacts") \/ Raise
  /\ UNCHANGED <<runtime, retrieval, settings, held, warmed, leaked>>

\* verify_model_lock, when RAG is enabled; then the client is made.
VerifyArtifacts ==
  /\ phase = "artifacts"
  /\ IF "rag" \in settings
     THEN \/ Open("elasticsearch") /\ Goto("ping")
          \/ Raise /\ UNCHANGED held
     ELSE Goto("java") /\ UNCHANGED held
  /\ UNCHANGED <<runtime, retrieval, settings, warmed, leaked>>

Ping ==
  /\ phase = "ping"
  /\ Goto("load") \/ Raise
  /\ UNCHANGED <<runtime, retrieval, settings, held, warmed, leaked>>

LoadModels ==
  /\ phase = "load"
  /\ \/ Open("models") /\ Goto("embedding")
     \/ Raise /\ UNCHANGED held
  /\ UNCHANGED <<runtime, retrieval, settings, warmed, leaked>>

StartWarmUp ==
  /\ phase \in {"embedding", "reranker"}
  /\ Run(WarmUp)
  /\ UNCHANGED <<retrieval, lifespan>>

WarmUpTimesOut ==
  /\ job[WarmUp] \in Pending
  /\ GiveUp(WarmUp, "late")
  /\ UNCHANGED <<retrieval, lifespan>>

\* Mutant: a model that does not answer is left for later.
WarmedUpAnyway ==
  /\ phase \in {"embedding", "reranker"}
  /\ job[WarmUp] \in Outcomes
  /\ Goto(IF phase = "embedding" THEN "reranker" ELSE "assembly")
  /\ warmed' = (phase = "reranker" /\ job[WarmUp] = "ok")
  /\ Becomes(WarmUp, "none")
  /\ UNCHANGED <<closed, orphans, retrieval, settings, held, leaked>>

\* Both models have answered before the runtime is ready.
WarmedUp ==
  /\ phase \in {"embedding", "reranker"}
  /\ job[WarmUp] \in Outcomes
  /\ IF job[WarmUp] = "ok"
     THEN /\ Goto(IF phase = "embedding" THEN "reranker" ELSE "assembly")
          /\ warmed' = (phase = "reranker")
     ELSE Raise /\ UNCHANGED warmed
  /\ Becomes(WarmUp, "none")
  /\ UNCHANGED <<closed, orphans, retrieval, settings, held, leaked>>

\* The adapters check their limits; they are made outside the handler that
\* closes the client and the models.
Assemble ==
  /\ phase = "assembly"
  /\ \/ Goto("java") /\ UNCHANGED <<held, leaked>>
     \/ /\ Raise
        /\ leaked' = {"elasticsearch", "models"}
        /\ held' = Front(Front(held))
  /\ UNCHANGED <<runtime, retrieval, settings, warmed>>

\* Java is optional outside production, but half of its settings is refused.
\* The tool client checks the rest of them when its connections are open.
OpenJava ==
  /\ phase = "java"
  /\ \/ "java" \in settings /\ Open("java") /\ (Goto("serving") \/ Raise)
     \/ "java" \notin settings /\ Goto("serving") /\ UNCHANGED held
     \/ Raise /\ UNCHANGED held
  /\ UNCHANGED <<runtime, retrieval, settings, warmed, leaked>>

BeginStop ==
  /\ phase = "serving"
  /\ Goto("stopping")
  /\ UNCHANGED <<runtime, retrieval, settings, held, warmed, leaked>>

\* Mutant: the resources are closed in the order they were opened.
CloseFirst ==
  /\ phase = "stopping"
  /\ IF held = <<>> THEN Goto("stopped") /\ UNCHANGED <<runtime, warmed, held>>
     ELSE /\ held' = Tail(held)
          /\ IF Head(held) = "models" THEN Close /\ warmed' = FALSE
                                      ELSE UNCHANGED <<runtime, warmed>>
          /\ UNCHANGED phase
  /\ UNCHANGED <<retrieval, settings, leaked>>

\* The last resource opened is closed; when its close raises, the stack goes
\* on with the others all the same.
CloseLast ==
  /\ phase = "stopping"
  /\ IF held = <<>> THEN Goto("stopped") /\ UNCHANGED <<runtime, warmed, held>>
     ELSE /\ held' = Front(held)
          /\ IF Last(held) = "models" THEN Close /\ warmed' = FALSE
                                      ELSE UNCHANGED <<runtime, warmed>>
          /\ UNCHANGED phase
  /\ UNCHANGED <<retrieval, settings, leaked>>

\* Except here: the index client is closed by the statement after the one
\* that closes the models, and is forgotten when that one raises.
ModelsCloseRaises ==
  /\ phase = "stopping" /\ held # <<>> /\ Last(held) = "models"
  /\ Close /\ warmed' = FALSE
  /\ held' = Front(Front(held))
  /\ leaked' = leaked \cup {"elasticsearch"}
  /\ UNCHANGED <<retrieval, settings, phase>>

Lifespan ==
  \/ OpenCheckpointer \/ OpenRedis \/ AuditRedis \/ VerifyArtifacts \/ Ping
  \/ LoadModels \/ StartWarmUp \/ WarmUpTimesOut \/ WarmedUp \/ Assemble
  \/ OpenJava \/ CloseLast \/ ModelsCloseRaises

-----------------------------------------------------------------------------
\* The service has a retriever when RAG is enabled.
AcceptRetrieval(r) ==
  /\ phase = "serving" /\ Holds("models")
  /\ Retrieve(r)
  /\ UNCHANGED lifespan

RetrievalGoesOn(r) ==
  RetrievalStep(r) /\ UNCHANGED lifespan

\* Retrievals beyond those followed in full are seen only through their
\* inferences: one is asked for, given up, or its outcome taken.
Others == Callers \ (Retrievals \cup {WarmUp})

OtherCall(c) ==
  /\ phase = "serving" /\ Holds("models") /\ Run(c)
  /\ UNCHANGED <<retrieval, lifespan>>

OtherEnds(c) ==
  /\ \/ job[c] \in Pending /\ GiveUp(c, "none")
     \/ job[c] \in Outcomes /\ Becomes(c, "none") /\ UNCHANGED <<closed, orphans>>
  /\ UNCHANGED <<retrieval, lifespan>>

Threads ==
  /\ (\E c \in Callers : Admit(c) \/ Begin(c) \/ Complete(c)) \/ OrphanEnds
  /\ UNCHANGED <<retrieval, lifespan>>

ProcessNext ==
  \/ Lifespan \/ BeginStop \/ Threads
  \/ \E c \in Others : OtherCall(c) \/ OtherEnds(c)
  \/ \E r \in Retrievals : AcceptRetrieval(r) \/ RetrievalGoesOn(r)

=============================================================================
