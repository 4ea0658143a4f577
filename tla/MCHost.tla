-------------------------------- MODULE MCHost --------------------------------
(* What runs beside the turns on one machine and shares no state: the cron   *)
(* scheduler, the shell, the workspace, the documents, the JSON files, the   *)
(* rewards, cutting and searching texts, the agents' memory, the model's     *)
(* client and the evaluation.  A run follows one at a time.                  *)
EXTENDS CronScheduler, Shell, SharedFiles, Workspace, RewardScores,
        TextSearch, MemoryStore, LanguageModel, Evaluation

VARIABLE task

InitHost ==
  /\ task \in {"crons", "shell", "documents", "browsing", "keys", "workspace", "tree", "scores", "observer",
               "chunks", "search", "memory", "requests", "stream", "evaluation"}
  /\ Init /\ ShellInit /\ DocumentsInit /\ JsonInit /\ MemoryInit
  /\ WorkspaceInit /\ (task \notin {"workspace", "tree"} => size = [f \in Files |-> 0])
  /\ TreeInit /\ (task # "tree" => link = LinkPath)
  /\ RewardInit
  /\ (task # "scores" => action = "unknown" /\ context = [true |-> {}, attempt |-> 1, halves |-> 0])
  /\ ChunkerInit /\ (task # "chunks" => by = "sentences" /\ units = <<>>)
  /\ SearchInit /\ (task # "search" => ~hybrid /\ Len(rows) = 1 /\ meaning = wording)
  /\ ModelInit /\ (task # "requests" => target = NoCall.of)
  /\ EvalInit /\ (task # "evaluation" => script = <<>> /\ judging = "off")

Apart(tasks, variables) == IF task \in tasks THEN TRUE ELSE UNCHANGED variables

NextHost ==
  /\ UNCHANGED task
  /\ Apart({"crons"}, vars) /\ Apart({"shell"}, shellVars) /\ Apart({"documents"}, docVars)
  /\ Apart({"browsing", "keys"}, jsonVars) /\ Apart({"workspace", "tree"}, spaceVars) /\ Apart({"tree"}, treeVars)
  /\ Apart({"scores", "observer"}, rewardVars)
  /\ Apart({"chunks"}, chunkVars) /\ Apart({"search"}, searchVars) /\ Apart({"memory"}, memoryVars)
  /\ Apart({"requests", "stream"}, modelVars) /\ Apart({"evaluation"}, evalVars)
  /\ \/ task = "crons" /\ Next
     \/ task = "shell" /\ ShellNext
     \/ task = "documents" /\ DocumentsNext
     \/ task = "browsing" /\ HistoryNext
     \/ task = "keys" /\ CredentialsNext
     \/ task = "workspace" /\ WorkspaceNext
     \/ task = "tree" /\ TreeNext
     \/ task = "scores" /\ SayMore
     \/ task = "observer" /\ ObserverNext
     \/ task = "chunks" /\ ChunkerNext
     \/ task = "search" /\ SearchNext
     \/ task = "memory" /\ MemoryNext
     \/ task = "requests" /\ RequestsNext
     \/ task = "stream" /\ StreamNext
     \/ task = "evaluation" /\ EvalNext

hostVars == <<vars, shellVars, docVars, jsonVars, spaceVars, treeVars, rewardVars,
             chunkVars, searchVars, memoryVars, modelVars, evalVars, task>>

(* The fairness of CronScheduler and of Shell, for the task followed.        *)
FairCrons ==
  /\ WF_vars(task = "crons" /\ TimePasses) /\ WF_vars(task = "crons" /\ Tick)
  /\ WF_vars(task = "crons" /\ RunEnds)

FairShell ==
  /\ WF_shellVars(task = "shell" /\ (Exits \/ TimesOut))
  /\ WF_shellVars(task = "shell" /\ Buried) /\ WF_shellVars(task = "shell" /\ Answer)

SpecHost == InitHost /\ [][NextHost]_hostVars /\ FairCrons /\ FairShell

(* Every variable of every task has its type.                                *)
HostTypeOK ==
  /\ TypeOK /\ ShellTypeOK /\ DocumentsTypeOK /\ JsonTypeOK /\ WorkspaceTypeOK /\ TreeTypeOK /\ RewardTypeOK
  /\ ChunkerTypeOK /\ SearchTypeOK /\ MemoryTypeOK /\ ModelTypeOK /\ EvalTypeOK

(* The scores and the records are right, each for its own task.              *)
RewardsAreRight ==
  /\ task = "scores" => ScoresAreFair
  /\ task = "observer" => TurnIsRecorded /\ ListingIsRight

(* Documents, uploads, accounts, histories, keys and memories stay as they   *)
(* were written.                                                             *)
StorageIsRight == DocumentsAreKept /\ FilesAreKept /\ HashesAreCurrent

(* What is cut into pieces, read or streamed piece by piece is whole again:  *)
(* nothing is lost on the way from a text to what a search answers, nor on   *)
(* the way from fragments to tool calls.                                     *)
TextsAreFound == ReadingIsRight /\ PiecesAreRight /\ SearchIsRight /\ ToolCallsAreWhole

(* Every job runs, every command is answered.                                *)
WorkIsDone == JobsRun /\ CommandsAnswered

DirectoriesHere == {<<"a">>, <<"a", "b">>, <<"n">>}
FilesHere       == {<<"x">>, <<"a", "y">>, <<"a", "b", "z">>, <<"n", "w">>}
ScopesHere      == {<< <<"a">>, <<"b", "m">> >>, << <<"a", "b">>, <<"m">> >>}
BytesHere       == [t \in {0, 1, 2, 3} |-> CASE t = 0 -> 0 [] t = 3 -> 2 [] OTHER -> 1]
AskedHere       == << <<"x">>, <<"a", "y">>, <<"a", "b", "z">> >>
LinkHere        == <<"a", "l">>
GlobbedHere     == FilesHere \ {<<"x">>}
=============================================================================
