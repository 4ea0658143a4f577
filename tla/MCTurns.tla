------------------------------- MODULE MCTurns -------------------------------
(* What goes on around a turn of a chat: the loop with its retries, what the *)
(* terminal shows of the answer and of its spinner, the model picker, what   *)
(* the usage log counts, what a prompt's budget lets in, and the commands    *)
(* for the agents kept in folders.  They share no state: a run follows one   *)
(* at a time.                                                                *)
EXTENDS TurnPipeline, TerminalText, UsageMeter, AgentFolders

VARIABLE aspect

InitTurns ==
  /\ aspect \in {"loop", "terminal", "screen", "picker", "usage", "budget", "folders"}
  /\ Init         /\ (aspect # "loop"     => config = CHOOSE c \in Configs : TRUE)
  /\ TerminalInit /\ (aspect # "terminal" => answers = [t \in 1..Turns |-> [lines |-> <<>>, whole |-> TRUE]])
  /\ UsageInit    /\ (aspect # "usage"    => tokens = [r \in Ids |-> [s \in Sides |-> 0]])
  /\ BudgetInit   /\ (aspect # "budget"   => prompt = NoPrompt)
  /\ ScreenInit   /\ PickerInit  /\ FoldersInit

Still(name, variables) == IF aspect = name THEN TRUE ELSE UNCHANGED variables

NextTurns ==
  /\ UNCHANGED aspect
  /\ Still("loop", vars) /\ Still("terminal", terminalVars) /\ Still("usage", usageVars)
  /\ Still("screen", screenVars) /\ Still("picker", pickerVars) /\ Still("budget", budgetVars)
  /\ Still("folders", folderVars)
  /\ \/ aspect = "loop" /\ Next
     \/ aspect = "terminal" /\ TerminalNext
     \/ aspect = "screen" /\ ScreenNext
     \/ aspect = "picker" /\ PickerNext
     \/ aspect = "usage" /\ UsageNext
     \/ aspect = "budget" /\ BudgetNext
     \/ aspect = "folders" /\ FoldersNext

SpecTurns ==
  InitTurns /\ [][NextTurns]_<<vars, terminalVars, screenVars, pickerVars, usageVars,
                               budgetVars, folderVars, aspect>> /\ WF_vars(aspect = "loop" /\ Step)

(* The terminal shows each turn as it was, leaves the screen right behind    *)
(* it, picks what it shows, and keeps the agents' folders, whatever another  *)
(* terminal does to them; and every state is well typed.                     *)
TerminalIsRight ==
  /\ TerminalTypeOK /\ ScreenTypeOK /\ PickerTypeOK /\ FoldersTypeOK
  /\ TextIsShown /\ ScreenIsRight /\ PickIsShown /\ FoldersAreRight
=============================================================================
