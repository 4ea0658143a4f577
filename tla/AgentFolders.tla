----------------------------- MODULE AgentFolders -----------------------------
(* The file-based agents of commands/agent.py: /agent create, pause, approve *)
(* and reject.  An agent is a folder; it is paused while a flag is in it.    *)
(* Terminals that were started in one directory share the folders, and each  *)
(* waits for its user between looking at a folder and changing it.           *)
EXTENDS Naturals, Sequences, SequencesExt

CONSTANTS
  Consoles,   \* terminals
  Folders,    \* agents
  MaxPauses,  \* bound: flags written, numbered as they come
  MaxKills    \* bound: terminals that end in a command

ASSUME FoldersAssumption == MaxPauses \in Nat /\ MaxKills \in Nat /\ Folders # {}

Parts == {"folder", "files", "interrupted"}
Steps == {"ready", "make", "fill", "finish", "pause", "approve", "reason", "reject"}

VARIABLES
  parts,    \* what there is of each agent
  flag,     \* interrupted/paused.flag: the pause that wrote it, 0 if there is none
  step,     \* what each terminal is doing
  with,     \* the agent it does that to
  about,    \* history: the newest pause of that agent when its user was asked
  newest,   \* history: the newest pause of each agent
  pauses,   \* pauses so far
  settled,  \* history: for each reply "approved" or "rejected", the pause it took
            \* away and the one its user was asked about
  kills     \* terminals that ended so far

folderVars == <<parts, flag, step, with, about, newest, pauses, settled, kills>>

FoldersInit ==
  /\ parts = [a \in Folders |-> {}] /\ flag = [a \in Folders |-> 0]
  /\ step = [c \in Consoles |-> "ready"] /\ with = [c \in Consoles |-> CHOOSE a \in Folders : TRUE]
  /\ about = [c \in Consoles |-> 0] /\ newest = [a \in Folders |-> 0] /\ pauses = 0
  /\ settled = <<>> /\ kills = 0

-----------------------------------------------------------------------------
Goes(c, from, to) == step[c] = from /\ step' = [step EXCEPT ![c] = to]

Exists(a) == "folder" \in parts[a]

Made(c, from, part, to) ==
  /\ Goes(c, from, to)
  /\ parts' = [parts EXCEPT ![with[c]] = @ \cup {part}]
  /\ UNCHANGED <<flag, with, about, newest, pauses, settled, kills>>

(* create: unless the folder exists, it is made, then a thread writes its    *)
(* two files, then the folder for the flag is made.                          *)
Create(c) ==
  /\ Goes(c, "ready", "make")
  /\ \E a \in Folders : ~Exists(a) /\ with' = [with EXCEPT ![c] = a]
  /\ UNCHANGED <<parts, flag, about, newest, pauses, settled, kills>>

MakeFolder(c)     == Made(c, "make", "folder", "fill")
FillFolder(c)     == Made(c, "fill", "files", "finish")
LeaveUnfinished(c) == Made(c, "finish", "files", "ready")  \* mutant
FinishFolder(c)   == Made(c, "finish", "interrupted", "ready")

-----------------------------------------------------------------------------
Asks(c, a, question) ==
  /\ Goes(c, "ready", question)
  /\ with' = [with EXCEPT ![c] = a] /\ about' = [about EXCEPT ![c] = newest[a]]
  /\ UNCHANGED <<parts, flag, newest, pauses, settled, kills>>

AskPause(c) == \E a \in Folders : Exists(a) /\ Asks(c, a, "pause")

(* approve and reject: the flag must be there; reject asks for a reason too. *)
AskApprove(c) == \E a \in Folders : flag[a] # 0 /\ Asks(c, a, "approve")
AskReject(c)  == \E a \in Folders : flag[a] # 0 /\ Asks(c, a, "reason")

GiveReason(c) ==
  /\ Goes(c, "reason", "reject")
  /\ UNCHANGED <<parts, flag, with, about, newest, pauses, settled, kills>>

TakenAnyway(c) ==  \* mutant
  /\ step[c] \in {"pause", "approve", "reason", "reject"}
  /\ step' = [step EXCEPT ![c] = "ready"]
  /\ flag' = IF step[c] = "pause" THEN flag ELSE [flag EXCEPT ![with[c]] = 0]
  /\ UNCHANGED <<parts, with, about, newest, pauses, settled, kills>>

(* A no, or the end of the input.                                            *)
Decline(c) ==
  /\ step[c] \in {"pause", "approve", "reason", "reject"}
  /\ step' = [step EXCEPT ![c] = "ready"]
  /\ UNCHANGED <<parts, flag, with, about, newest, pauses, settled, kills>>

(* A yes: the flag is written, over an earlier one if there is one, or the   *)
(* folder for it is missing and the command replies with an error.           *)
Pause(c) ==
  /\ Goes(c, "pause", "ready") /\ pauses < MaxPauses
  /\ IF "interrupted" \in parts[with[c]]
     THEN /\ pauses' = pauses + 1
          /\ flag' = [flag EXCEPT ![with[c]] = pauses + 1]
          /\ newest' = [newest EXCEPT ![with[c]] = pauses + 1]
     ELSE UNCHANGED <<flag, newest, pauses>>
  /\ UNCHANGED <<parts, with, about, settled, kills>>

RemoveIfThere(a, was) ==  \* mutant
  /\ flag' = [flag EXCEPT ![a] = 0] /\ settled' = Append(settled, <<flag[a], was>>)

(* os.remove raises when another terminal has removed the flag.              *)
TakeFlag(a, was) ==
  IF flag[a] # 0
  THEN flag' = [flag EXCEPT ![a] = 0] /\ settled' = Append(settled, <<flag[a], was>>)
  ELSE UNCHANGED <<flag, settled>>

Settle(c) ==
  /\ step[c] \in {"approve", "reject"} /\ step' = [step EXCEPT ![c] = "ready"]
  /\ TakeFlag(with[c], about[c])
  /\ UNCHANGED <<parts, with, about, newest, pauses, kills>>

(* A terminal is closed in the middle of a command, and started again.       *)
Kill(c) ==
  /\ step[c] # "ready" /\ kills < MaxKills /\ kills' = kills + 1
  /\ step' = [step EXCEPT ![c] = "ready"]
  /\ UNCHANGED <<parts, flag, with, about, newest, pauses, settled>>

FoldersNext ==
  \E c \in Consoles :
    \/ Create(c) \/ MakeFolder(c) \/ FillFolder(c) \/ FinishFolder(c)
    \/ AskPause(c) \/ AskApprove(c) \/ AskReject(c) \/ GiveReason(c)
    \/ Decline(c) \/ Pause(c) \/ Settle(c) \/ Kill(c)

-----------------------------------------------------------------------------
FoldersTypeOK ==
  /\ parts \in [Folders -> SUBSET Parts] /\ flag \in [Folders -> 0..pauses]
  /\ step \in [Consoles -> Steps] /\ with \in [Consoles -> Folders]
  /\ about \in [Consoles -> 0..pauses] /\ newest \in [Folders -> 0..pauses]
  /\ pauses \in 0..MaxPauses /\ settled \in Seq((0..pauses) \X (0..pauses))
  /\ kills \in 0..MaxKills

(* However the commands of two terminals fall between each other's: an agent *)
(* that nobody is creating is whole, if no terminal was closed; a pause is   *)
(* approved or rejected once, by one reply, whose user was asked about that  *)
(* pause or an earlier one of the same agent; and it stands until then,      *)
(* unless a newer one has replaced it.                                       *)
FoldersAreRight ==
  /\ \A a \in Folders :
       kills = 0 /\ Exists(a) /\ parts[a] # Parts =>
         \E c \in Consoles : with[c] = a /\ step[c] \in {"fill", "finish"}
  /\ \A i, j \in DOMAIN settled : i # j => settled[i][1] # settled[j][1]
  /\ \A s \in ToSet(settled) : s[2] \in 1..s[1]
  /\ \A a \in Folders :
       flag[a] # newest[a] => flag[a] = 0 /\ \E s \in ToSet(settled) : s[1] = newest[a]
=============================================================================
