-------------------------------- MODULE Shell --------------------------------
(***************************************************************************)
(* veda_engine/tools/shell.py: run_command starts a shell in a session of  *)
(* its own, drains its two pipes while it waits for it, kills its process  *)
(* group when the timeout passes or the call is cancelled, and gives the   *)
(* readers five seconds more.  A command may start a child, which lives in *)
(* the group or leaves it, and holds the pipes or not.                     *)
(*                                                                         *)
(* Output is counted in chunks; _reader_result and killpg are modelled as  *)
(* on POSIX.  The commands it refuses to run are not modelled.             *)
(***************************************************************************)
EXTENDS Naturals, FiniteSets

CONSTANTS
  Cap,       \* _OUTPUT_CAP_BYTES, in chunks
  PipeSize,  \* external: chunks a pipe holds
  MaxOutput  \* bound: chunks a command writes to one pipe

ASSUME ShellAssumption ==
  Cap \in Nat /\ PipeSize \in Nat \ {0} /\ MaxOutput \in Nat

Pipes == {"out", "err"}

VARIABLES
  call,     \* what run_command is doing
  leader,   \* the shell: running, ended, and reaped by the event loop
  child,    \* a process it started: in its group, out of it, or none
  holds,    \* the pipes the child has open
  written,  \* chunks written to each pipe so far
  unread,   \* of them, those still in the pipe
  kept,     \* chunks of its reader: at most Cap
  cut,      \* truncated
  reader,   \* the _drain task
  answer,   \* what the caller got
  reached   \* history: a kill found the process group

shellVars ==
  <<call, leader, child, holds, written, unread, kept, cut, reader, answer, reached>>

ShellTypeOK ==
  /\ call \in {"idle", "waiting", "killed", "collecting", "over"}
  /\ leader \in {"none", "running", "ended", "reaped"}
  /\ child \in {"none", "grouped", "apart", "dead"} /\ holds \subseteq Pipes
  /\ written \in [Pipes -> 0..MaxOutput] /\ unread \in [Pipes -> 0..PipeSize]
  /\ kept \in [Pipes -> 0..Cap] /\ cut \in [Pipes -> BOOLEAN]
  /\ reader \in [Pipes -> {"none", "reading", "done", "cancelled"}]
  /\ answer \in {"none", "failed", "timeout", "output", "cancelled"}
  /\ reached \in BOOLEAN

ShellInit ==
  /\ call = "idle" /\ leader = "none" /\ child = "none" /\ holds = {}
  /\ written = [p \in Pipes |-> 0] /\ unread = [p \in Pipes |-> 0]
  /\ kept = [p \in Pipes |-> 0] /\ cut = [p \in Pipes |-> FALSE]
  /\ reader = [p \in Pipes |-> "none"] /\ answer = "none" /\ reached = FALSE

ChildLives == child \in {"grouped", "apart"}
Open(p) == leader = "running" \/ (ChildLives /\ p \in holds)

-----------------------------------------------------------------------------
(* The processes.                                                            *)
Fork ==
  /\ leader = "running" /\ child = "none"
  /\ child' \in {"grouped", "apart"} /\ holds' \in SUBSET Pipes
  /\ UNCHANGED <<call, leader, written, unread, kept, cut, reader, answer, reached>>

Write(p) ==
  /\ Open(p) /\ written[p] < MaxOutput /\ unread[p] < PipeSize
  /\ written' = [written EXCEPT ![p] = @ + 1]
  /\ unread'  = [unread EXCEPT ![p] = @ + 1]
  /\ UNCHANGED <<call, leader, child, holds, kept, cut, reader, answer, reached>>

LeaderEnds ==
  /\ leader = "running" /\ leader' = "ended"
  /\ UNCHANGED <<call, child, holds, written, unread, kept, cut, reader, answer, reached>>

ChildEnds ==
  /\ ChildLives /\ child' = "dead"
  /\ UNCHANGED <<call, leader, holds, written, unread, kept, cut, reader, answer, reached>>

(* The child watcher waits for the shell, then tells the event loop.         *)
Reap ==
  /\ leader = "ended" /\ leader' = "reaped"
  /\ UNCHANGED <<call, child, holds, written, unread, kept, cut, reader, answer, reached>>

-----------------------------------------------------------------------------
(* _spawn, then the readers are started.                                     *)
Spawn ==
  /\ call = "idle" /\ call' = "waiting" /\ leader' = "running"
  /\ reader' = [p \in Pipes |-> "reading"]
  /\ UNCHANGED <<child, holds, written, unread, kept, cut, answer, reached>>

SpawnFails ==
  /\ call = "idle" /\ call' = "over" /\ answer' = "failed"
  /\ UNCHANGED <<leader, child, holds, written, unread, kept, cut, reader, reached>>

DrainToCap(p) ==  \* mutant
  /\ reader[p] = "reading" /\ unread[p] > 0 /\ kept[p] < Cap
  /\ unread' = [unread EXCEPT ![p] = @ - 1]
  /\ kept' = [kept EXCEPT ![p] = @ + 1]
  /\ UNCHANGED <<call, leader, child, holds, written, cut, reader, answer, reached>>

(* _drain: beyond the cap the pipe is still emptied.                         *)
Drain(p) ==
  /\ reader[p] = "reading" /\ unread[p] > 0
  /\ unread' = [unread EXCEPT ![p] = @ - 1]
  /\ IF kept[p] < Cap THEN kept' = [kept EXCEPT ![p] = @ + 1] /\ UNCHANGED cut
                      ELSE cut' = [cut EXCEPT ![p] = TRUE] /\ UNCHANGED kept
  /\ UNCHANGED <<call, leader, child, holds, written, reader, answer, reached>>

EndOfPipe(p) ==
  /\ reader[p] = "reading" /\ unread[p] = 0 /\ ~Open(p)
  /\ reader' = [reader EXCEPT ![p] = "done"]
  /\ UNCHANGED <<call, leader, child, holds, written, unread, kept, cut, answer, reached>>

KillLeader ==  \* mutant
  /\ leader' = IF leader = "running" THEN "ended" ELSE leader
  /\ reached' = (reached \/ leader # "reaped")
  /\ UNCHANGED child

(* _kill_process_tree: a shell that was reaped has no group any more, and    *)
(* proc.kill() does nothing to a process that ended.                         *)
KillTree ==
  IF leader = "reaped" THEN UNCHANGED <<leader, child, reached>>
  ELSE /\ leader' = "ended" /\ reached' = TRUE
       /\ child' = IF child = "grouped" THEN "dead" ELSE child

(* _await_exit                                                               *)
Exits ==
  /\ call = "waiting" /\ leader = "reaped" /\ call' = "collecting"
  /\ UNCHANGED <<leader, child, holds, written, unread, kept, cut, reader, answer, reached>>

TimesOut ==
  /\ call = "waiting" /\ call' = "killed" /\ KillTree
  /\ UNCHANGED <<holds, written, unread, kept, cut, reader, answer>>

(* The five seconds for the shell to end pass, or it ends.                   *)
Buried ==
  /\ call = "killed" /\ call' = "collecting" /\ answer' = "timeout"
  /\ UNCHANGED <<leader, child, holds, written, unread, kept, cut, reader, reached>>

StoppedReaders == [p \in Pipes |-> IF reader[p] = "reading" THEN "cancelled" ELSE reader[p]]

WhenPipesEnd ==  \* mutant
  /\ call = "collecting" /\ (\A p \in Pipes : reader[p] = "done") /\ call' = "over"
  /\ answer' = IF answer = "timeout" THEN answer ELSE "output"
  /\ UNCHANGED <<leader, child, holds, written, unread, kept, cut, reader, reached>>

(* The readers end, or five seconds pass and they are cancelled.  What one   *)
(* of those has read is lost.                                                *)
Answer ==
  /\ call = "collecting" /\ call' = "over" /\ reader' = StoppedReaders
  /\ answer' = IF answer = "timeout" THEN answer ELSE "output"
  /\ UNCHANGED <<leader, child, holds, written, unread, kept, cut, reached>>

(* The call is cancelled: the readers first, then the processes.             *)
CancelCall ==
  /\ call \in {"waiting", "killed", "collecting"} /\ call' = "over"
  /\ answer' = "cancelled" /\ reader' = StoppedReaders /\ KillTree
  /\ UNCHANGED <<holds, written, unread, kept, cut>>

ShellNext ==
  \/ Fork \/ LeaderEnds \/ ChildEnds \/ Reap \/ Spawn \/ SpawnFails
  \/ Exits \/ TimesOut \/ Buried \/ Answer \/ CancelCall
  \/ \E p \in Pipes : Write(p) \/ Drain(p) \/ EndOfPipe(p)

-----------------------------------------------------------------------------
Least(a, b) == IF a < b THEN a ELSE b

(* _reader_result                                                            *)
Result(p) == IF reader[p] = "done" THEN kept[p] ELSE 0

(* Nothing of a command outlives its timeout or its cancellation, but what   *)
(* left its group; unless the shell had ended by itself before the kill.     *)
KilledIsDead ==
  answer \in {"timeout", "cancelled"} /\ reached => leader # "running" /\ child # "grouped"

(* A pipe that was read to its end is reported whole up to the cap, and      *)
(* marked as truncated if and only if there was more.                        *)
OutputIsWhole ==
  \A p \in Pipes : reader[p] = "done" /\ call = "over" =>
    Result(p) = Least(written[p], Cap) /\ (cut[p] <=> written[p] > Cap)

(* run_command contains its command: what it kills is dead, and what it      *)
(* answers is all of the output, or the beginning that it may keep.          *)
CommandIsContained == KilledIsDead /\ OutputIsWhole

(* Every command is answered, though a child of it may hold the pipes for    *)
(* ever and the shell may never end; and a pipe can always be read to its    *)
(* end, however much was written.                                            *)
CommandsAnswered ==
  /\ call = "waiting" ~> call = "over"
  /\ [](\A p \in Pipes : reader[p] = "reading" /\ unread[p] > 0 => ENABLED Drain(p))
=============================================================================
