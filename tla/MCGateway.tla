------------------------------- MODULE MCGateway -------------------------------
(* Services of one process that share nothing but the process: a run follows *)
(* one of them at a time, the others stay where they begin.                  *)
EXTENDS KVStore, RateLimiter, A2ABus, Knowledge, History, Delegation, Calendar,
        ServerTools, AgentContext, VirtualFiles, VectorIndex

CONSTANTS MaxLines, Splitting

ASSUME RewardsAssumption == MaxLines \in Nat \ {0} /\ IsFiniteSet(Keys) /\ Splitting \subseteq Values

VARIABLES log, ended, legacy, rewards, rewardsPc, rewardsItems, service

Rewards == INSTANCE RewardLog WITH cache <- rewards, pc <- rewardsPc, items <- rewardsItems

rewardVars == <<log, ended, legacy, rewards, rewardsPc, rewardsItems>>

InitServices ==
  /\ service \in {"plain", "rewards", "limiter", "messages", "knowledge", "texts", "history",
                  "delegation", "calendar", "servers", "context", "files", "clusters", "faiss", "plans", "mail"}
  /\ Init /\ Rewards!Init /\ LimiterInit /\ A2AInit /\ KnowledgeInit /\ IndexInit /\ HistoryInit
  /\ DelegationInit /\ CalendarInit /\ ServersInit /\ ContextInit /\ FilesInit /\ VectorInit /\ FaissInit
  /\ PlansInit /\ MailInit
  /\ service # "rewards"  => legacy = Gone
  /\ service # "plain"    => file = [k \in Keys |-> NoValue]
  /\ service # "files"    => disk = files
  /\ service # "clusters" => vectors = [ns \in Namespaces |-> 1..Max(Earlier)]
  /\ service # "faiss"    => dim = [id \in 1..MaxIds |-> indexDim]
  /\ dim[1] = indexDim  \* one length is like the other

Others(name, variables) == IF service = name THEN TRUE ELSE UNCHANGED variables

NextServices ==
  /\ UNCHANGED service
  /\ Others("plain", vars) /\ Others("rewards", rewardVars) /\ Others("limiter", limiterVars)
  /\ Others("messages", a2aVars) /\ Others("knowledge", knowledgeVars) /\ Others("texts", indexVars)
  /\ Others("history", historyVars) /\ Others("delegation", delegationVars)
  /\ Others("calendar", calendarVars) /\ Others("servers", serverVars) /\ Others("context", contextVars)
  /\ Others("files", filesVars) /\ Others("clusters", vectorVars) /\ Others("faiss", faissVars)
  /\ Others("plans", planVars) /\ Others("mail", mailVars)
  /\ \/ service = "plain" /\ Next
     \/ service = "rewards" /\ Rewards!Next
     \/ service = "limiter" /\ LimiterNext
     \/ service = "messages" /\ A2ANext
     \/ service = "knowledge" /\ KnowledgeNext
     \/ service = "texts" /\ IndexNext
     \/ service = "history" /\ HistoryNext
     \/ service = "delegation" /\ DelegationNext
     \/ service = "calendar" /\ CalendarNext
     \/ service = "servers" /\ ServersNext
     \/ service = "context" /\ ContextNext
     \/ service = "files" /\ FilesNext
     \/ service = "clusters" /\ VectorNext
     \/ service = "faiss" /\ FaissNext
     \/ service = "plans" /\ PlansNext
     \/ service = "mail" /\ MailNext

SpecServices ==
  InitServices /\ [][NextServices]_<<vars, rewardVars, limiterVars, a2aVars, knowledgeVars, indexVars,
                                     historyVars, delegationVars, calendarVars, serverVars, contextVars,
                                     filesVars, vectorVars, faissVars, planVars, mailVars, service>>

(* Every variable of the service that goes on has its type; those of the     *)
(* others stay where they begin.                                             *)
ServicesTypeOK ==
  /\ service = "plain" => TypeOK
  /\ service = "rewards" => Rewards!TypeOK
  /\ service = "limiter" => LimiterTypeOK
  /\ service = "messages" => A2ATypeOK
  /\ service = "knowledge" => KnowledgeTypeOK
  /\ service = "texts" => IndexTypeOK
  /\ service = "history" => HistoryTypeOK
  /\ service = "delegation" => DelegationTypeOK
  /\ service = "calendar" => CalendarTypeOK
  /\ service = "servers" => ServersTypeOK
  /\ service = "context" => ContextTypeOK
  /\ service = "files" => FilesTypeOK
  /\ service = "clusters" => VectorTypeOK
  /\ service = "faiss" => FaissTypeOK
  /\ service = "plans" => PlansTypeOK
  /\ service = "mail" => MailTypeOK

(* What was uploaded, said or indexed is found by the searches over it.      *)
RetrievalIsRight ==
  /\ service = "knowledge" => UploadsAreFound
  /\ service = "texts" => TextsStay
  /\ service = "clusters" => IndexIsFresh
  /\ service = "faiss" => EveryRowIsFound

(* An agent's delegates are awaited, the tools it is offered are served, its *)
(* virtual files are one tree, and the letters it is told of are kept.       *)
AgentsAreServed ==
  /\ service = "delegation" => DelegatesAreAwaited
  /\ service = "servers" => ToolsAreServed
  /\ service = "files" => OneTree
  /\ service = "mail" => MailIsKept

(* What an agent is told is right: its context and memory forget nothing,    *)
(* its plans are shown as they are, and the windows the calendar offers are  *)
(* free of events and complete.                                              *)
AgentsAreInformed ==
  /\ service = "context" => NothingForgotten /\ MemoryKept
  /\ service = "plans" => PlansAreKept
  /\ service = "calendar" => WindowsAreFree

(* The rewards implement a durable map that is not atomic.                   *)
RewardsDurable == Rewards!ImplementsDurableMap
=============================================================================
