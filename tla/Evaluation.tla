------------------------------ MODULE Evaluation ------------------------------
(* eval/runner.py and eval/judge.py: the scenarios of a directory are asked  *)
(* one after the other of one chat; an answer is compared with its golden    *)
(* snapshot, or judged, or searched for traces of tools; a report is written *)
(* and the exit code tells whether a scenario failed.                        *)
(*                                                                           *)
(* A scenario is the place of its file.  What an answer says matters only as *)
(* to whether it equals the snapshot, what score it deserves in halves, and  *)
(* whether it shows a tool call.                                             *)
EXTENDS Naturals, Sequences, FiniteSets

CONSTANTS
  Scenarios,   \* bound: scenario files
  MinScores    \* min_score

VARIABLES
  script,      \* the files: whether one is read, its golden, min_score, expect_tool_use
  only,        \* --scenario: the file of the scenario asked for, or 0 for all
  plan,        \* the scenarios resolved
  judging,     \* "off", "model" or "heuristic": the judge
  asked,       \* the scenario asked last
  known,       \* scenarios in the chat's messages
  heard,       \* what came last: whether equal to the snapshot, and shows a tool
  evalStage,   \* "load", "ask", "judge", "report", "written", "raised"
  results,     \* for each scenario that has ended
  chat,        \* "none", "open", "closed"
  exit         \* the exit code, or none yet

evalVars == <<script, only, plan, judging, asked, known, heard, evalStage, results, chat, exit>>

Goldens  == {"none", "unreadable", "null", "snapshot"}
Scores   == 0..2
Verdicts == {"pass", "fail", "skip"}
Skipped  == [named |-> FALSE, golden |-> "none", minimum |-> 0, tool |-> FALSE]
Script   == {Skipped} \cup [named : {TRUE}, golden : Goldens, minimum : MinScores, tool : BOOLEAN]
Answers  == [equal : BOOLEAN, tool : BOOLEAN]
NoAnswer == [equal |-> FALSE, tool |-> FALSE]
NotYet   == 2

EvalInit ==
  /\ script \in UNION {[1..n -> Script] : n \in 0..Scenarios}
  /\ only \in 0..Len(script) /\ plan = {}
  /\ judging \in {"off", "model", "heuristic"}
  /\ asked = 0 /\ known = {} /\ heard = NoAnswer /\ evalStage = "load" /\ results = <<>>
  /\ chat = "none" /\ exit = NotYet

Goldenless(i) == script[i].golden # "snapshot"   \* load_golden: None

(* _load_scenario_file: a file that does not parse or has no name is left    *)
(* out, with a warning.                                                      *)
Legible == {i \in DOMAIN script : script[i].named}

FirstOnly ==  \* mutant
  {i \in Legible : \A j \in Legible : i <= j}

(* _resolve_scenarios: all that were read, or the one of a name.             *)
Resolved == IF only = 0 THEN Legible ELSE Legible \cap {only}

(* A name that is not there raises; so does a chat that cannot be made.      *)
LoadScenarios ==
  /\ evalStage = "load"
  /\ \/ /\ only = 0 \/ Resolved # {}
        /\ plan' = Resolved /\ chat' = "open"
        /\ evalStage' = IF plan' = {} THEN "report" ELSE "ask"
     \/ evalStage' = "raised" /\ UNCHANGED <<plan, chat>>
  /\ UNCHANGED <<script, only, judging, asked, known, heard, results, exit>>

Unasked == plan \ DOMAIN results   \* the scenarios still to be asked

AskAgain ==  \* mutant
  /\ evalStage = "ask"
  /\ asked' \in {i \in Unasked : \A j \in Unasked : i <= j} /\ known' = known \cup {asked'}
  /\ heard' \in Answers /\ evalStage' = "judge"
  /\ UNCHANGED <<script, only, plan, judging, results, chat, exit>>

(* new_session, and send; a turn that raises ends the run.                   *)
Ask ==
  /\ evalStage = "ask"
  /\ asked' \in {i \in Unasked : \A j \in Unasked : i <= j} /\ known' = {asked'}
  /\ \/ heard' \in Answers /\ evalStage' = "judge"
     \/ UNCHANGED heard /\ evalStage' = "raised"
  /\ UNCHANGED <<script, only, plan, judging, results, chat, exit>>

NoJudgment == [made |-> FALSE, score |-> 0, pass |-> FALSE, error |-> FALSE]
Judgments  == [made : {TRUE}, score : Scores, pass : BOOLEAN, error : {FALSE}]

(* Judge.judge: the model's heard, clamped, or an error, which is caught;    *)
(* without a model, the length of the answer, and whether it shows the tool  *)
(* that the rubric asks for.                                                 *)
Judged ==
  CASE judging = "off" -> {NoJudgment}
    [] judging = "model" -> Judgments \cup {[NoJudgment EXCEPT !.made = TRUE, !.error = TRUE]}
    [] judging = "heuristic" -> {j \in Judgments : j.pass = (j.score >= 1)}

JudgeFirst(i, a, j) ==  \* mutant
  IF j.made THEN (IF j.pass /\ j.score >= script[i].minimum THEN "pass" ELSE "fail")
  ELSE IF ~Goldenless(i) THEN (IF a.equal THEN "pass" ELSE "fail")
  ELSE "skip"

(* _compute_pass: the snapshot decides, then the judgment, then the tools.   *)
Verdict(i, a, j) ==
  LET holds == IF ~Goldenless(i) THEN a.equal
               ELSE IF j.made THEN j.pass /\ j.score >= script[i].minimum
               ELSE a.tool
  IN  CASE Goldenless(i) /\ ~j.made /\ ~script[i].tool -> "skip"
        [] OTHER -> IF holds THEN "pass" ELSE "fail"

(* _result_score: of the snapshot or the judgment.                           *)
ScoreOf(i, a, j) == IF ~Goldenless(i) THEN (IF a.equal THEN 2 ELSE 0) ELSE j.score

Judge ==
  /\ evalStage = "judge"
  /\ \E j \in Judged :
       results' = [i \in DOMAIN results \cup {asked} |-> IF i # asked THEN results[i] ELSE
         [verdict |-> Verdict(asked, heard, j), score |-> ScoreOf(asked, heard, j),
          judgment |-> j, answer |-> heard, transcript |-> known]]
  /\ evalStage' = IF Unasked = {asked} THEN "report" ELSE "ask"
  /\ UNCHANGED <<script, only, plan, judging, asked, known, heard, chat, exit>>

(* The chat is closed before the report is written, which may fail.          *)
CloseChat ==
  /\ evalStage \in {"report", "raised"} /\ chat = "open" /\ chat' = "closed"
  /\ UNCHANGED <<script, only, plan, judging, asked, known, heard, evalStage, results, exit>>

WriteReport ==
  /\ evalStage = "report" /\ chat = "closed" /\ evalStage' \in {"written", "raised"}
  /\ UNCHANGED <<script, only, plan, judging, asked, known, heard, results, chat, exit>>

Exit ==
  /\ evalStage \in {"written", "raised"} /\ chat # "open" /\ exit = NotYet
  /\ exit' = IF evalStage = "raised" \/ \E i \in DOMAIN results : results[i].verdict = "fail" THEN 1 ELSE 0
  /\ UNCHANGED <<script, only, plan, judging, asked, known, heard, evalStage, results, chat>>

SmokeByFirst ==  \* mutant
  \E i \in Legible : script[i].golden = "snapshot"

(* run_golden_smoke: there are snapshot files and each parses; a snapshot    *)
(* equals itself.  A file that does not parse fails the smoke, although a    *)
(* run takes it for none; so does a run with a null, which passes the smoke. *)
GoldenSmoke ==
  LET kept == {i \in Legible : script[i].golden # "none"}
  IN  kept # {} /\ \A i \in kept : script[i].golden # "unreadable"

EvalNext == LoadScenarios \/ Ask \/ Judge \/ CloseChat \/ WriteReport \/ Exit

EvalTypeOK ==
  /\ judging \in {"off", "model", "heuristic"} /\ asked \in 0..Scenarios
  /\ known \subseteq 1..Scenarios /\ heard \in Answers
  /\ evalStage \in {"load", "ask", "judge", "report", "written", "raised"}
  /\ only \in 0..Scenarios /\ plan \subseteq Legible /\ DOMAIN results \subseteq plan
  /\ chat \in {"none", "open", "closed"} /\ exit \in 0..2

(* The exit code can be trusted for what was read: it is 0 only when the     *)
(* report is written, holds every scenario whose file could be read, or the  *)
(* one that was asked for by its name, and none of them contradicts its      *)
(* snapshot, and none that a judge decides fell short or could not be        *)
(* judged.  Of a run of all, it says nothing about a file that was left out  *)
(* with a warning.  Every answer was given without knowledge of an earlier   *)
(* scenario, and no chat is left open.  And where the smoke check of the     *)
(* snapshots passes, a scenario with a snapshot file is decided by it,       *)
(* whatever the judge says, unless it holds a null.                          *)
VerdictsAreRight ==
  /\ exit = 0 =>
       /\ evalStage = "written"
       /\ \A i \in DOMAIN script : (IF only = 0 THEN script[i].named ELSE i = only) <=> i \in DOMAIN results
       /\ \A i \in DOMAIN results :
            LET r == results[i] IN
              /\ script[i].golden = "snapshot" => r.answer.equal /\ r.score = 2
              /\ script[i].golden # "snapshot" /\ r.judgment.made =>
                   ~r.judgment.error /\ r.judgment.pass /\ r.score >= script[i].minimum
  /\ \A i \in DOMAIN results : results[i].transcript = {i}
  /\ exit # NotYet => chat # "open"
  /\ GoldenSmoke => \A i \in DOMAIN results : script[i].golden \notin {"none", "null"} =>
       results[i].verdict = (IF results[i].answer.equal THEN "pass" ELSE "fail")
=============================================================================
