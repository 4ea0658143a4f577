------------------------------ MODULE HostProofs ------------------------------
(***************************************************************************)
(* What runs beside the turns on one machine, part by part: the crons, the *)
(* shell, the documents and accounts, the JSON files, the agents' memory,  *)
(* the model's client, the evaluation and the rewards; then all of them as *)
(* the tasks of one host, of which a run follows one.  For any number of   *)
(* jobs, workers, hosts, writes, crashes, calls, questions and flags.      *)
(***************************************************************************)
EXTENDS MCHost, ListProofs, SequenceTheorems, TLAPS

-----------------------------------------------------------------------------
(* The run in progress and those the tick has still to make belong to jobs   *)
(* in memory, unless they were removed meanwhile: without this, the end of a *)
(* run could put its job alone into an emptied dictionary, and the others    *)
(* would not be loaded any more.                                             *)
InFlight ==
  /\ stale \subseteq removed
  /\ \A j \in (due \cup {cur}) \cap Jobs : j \notin stale => mem[j] # Absent

IInv == TypeOK /\ Mirrored /\ NeverLost /\ InFlight

USE DEF Left, Nothing

(* What is loaded into an empty dictionary keeps every part of the           *)
(* invariant, and no job that is stored is missing from it.                  *)
LEMMA LoadedFacts ==
  ASSUME IInv
  PROVE  /\ Loaded \in [Jobs -> Left \cup {Absent}]
         /\ \A j \in Jobs \ removed : Loaded[j] # Absent => disk[j] = Loaded[j]
         /\ \A j \in used \ removed : Loaded[j] # Absent
         /\ \A j \in (due \cup {cur}) \cap Jobs : j \notin stale => Loaded[j] # Absent
         /\ \A j \in Jobs : mem[j] # Absent => Loaded[j] = mem[j]
  BY ConstantsAssumption DEF IInv, TypeOK, Mirrored, NeverLost, InFlight, Loaded

(* Init establishes the invariant.                                           *)
LEMMA InitInv == Init => IInv
  BY ConstantsAssumption DEF Init, IInv, TypeOK, Mirrored, NeverLost, InFlight

(* Requests.                                                                 *)
LEMMA AddInv == ASSUME IInv, NEW j \in Jobs, Add(j) PROVE IInv'
<1>1. /\ mem' \in [Jobs -> Left \cup {Absent}] /\ disk' \in [Jobs -> Left \cup {Absent}]
      /\ mem'[j] = Period /\ disk'[j] = Period
      /\ \A k \in Jobs \ {j} : mem'[k] = Loaded[k] /\ disk'[k] = disk[k]
  BY LoadedFacts, ConstantsAssumption DEF IInv, TypeOK, Add
<1>2. TypeOK'
  BY <1>1, ConstantsAssumption DEF IInv, TypeOK, Add
<1>3. Period # Absent
  BY ConstantsAssumption
<1>4. Mirrored' /\ NeverLost'
  BY <1>1, <1>3, LoadedFacts DEF IInv, TypeOK, Mirrored, NeverLost, Add
<1>5. InFlight'
  BY <1>1, <1>3, LoadedFacts DEF IInv, InFlight, Add
<1>6. QED
  BY <1>2, <1>4, <1>5 DEF IInv

LEMMA RemoveJobInv == ASSUME IInv, NEW j \in Jobs, RemoveJob(j) PROVE IInv'
<1>1. CASE Loaded[j] = Absent
  <2>1. mem' = Loaded /\ UNCHANGED <<disk, tickVars, restarts, history>>
    BY <1>1 DEF RemoveJob, tickVars, history
  <2>2. QED
    BY <2>1, LoadedFacts
       DEF IInv, TypeOK, Mirrored, NeverLost, InFlight, tickVars, history
<1>2. CASE Loaded[j] # Absent
  <2>1. /\ mem' \in [Jobs -> Left \cup {Absent}] /\ disk' \in [Jobs -> Left \cup {Absent}]
        /\ \A k \in Jobs \ {j} : mem'[k] = Loaded[k] /\ disk'[k] = disk[k]
        /\ removed' = removed \cup {j}
        /\ stale' = stale \cup ({j} \cap (due \cup {cur}))
        /\ UNCHANGED <<loop, due, cur, elapsed, restarts, used>>
    BY <1>2, LoadedFacts, ConstantsAssumption DEF IInv, TypeOK, RemoveJob
  <2>2. TypeOK'
    BY <2>1 DEF IInv, TypeOK
  <2>3. Mirrored' /\ NeverLost'
    BY <2>1, LoadedFacts DEF IInv, TypeOK, Mirrored, NeverLost
  <2>4. InFlight'
    BY <2>1, LoadedFacts DEF IInv, InFlight
  <2>5. QED
    BY <2>1, <2>2, <2>3, <2>4 DEF IInv
<1>3. QED
  BY <1>1, <1>2

LEMMA AccessInv == ASSUME IInv, Access PROVE IInv'
  BY LoadedFacts DEF IInv, TypeOK, Mirrored, NeverLost, InFlight, Access, tickVars, history

(* What Proceed leaves of the tick.                                          *)
LEMMA ProceedFacts ==
  ASSUME TypeOK, NEW jobs \in SUBSET Jobs, Proceed(jobs)
  PROVE  /\ loop' \in {"sleep", "tick"} /\ (loop' = "tick" <=> cur' # NoJob)
         /\ due' \subseteq jobs /\ cur' \in jobs \cup {NoJob} /\ cur' \notin due'
         /\ (cur' = NoJob => due' = {})
         /\ due' \cup ({cur'} \cap Jobs) = jobs
  BY ConstantsAssumption DEF TypeOK, Proceed

LEMMA TickInv == ASSUME IInv, Tick PROVE IInv'
<1>1. DueNow \in SUBSET Jobs /\ \A j \in DueNow : mem[j] # Absent
  BY ConstantsAssumption DEF DueNow
<1>2. cur = NoJob /\ due = {} /\ stale \subseteq {NoJob} /\ stale \subseteq removed
  BY DEF IInv, TypeOK, InFlight, Tick
<1>3. stale = {}
  BY <1>2, ConstantsAssumption DEF IInv, TypeOK
<1>4. /\ loop' \in {"sleep", "tick"} /\ (loop' = "tick" <=> cur' # NoJob)
      /\ due' \subseteq DueNow /\ cur' \in DueNow \cup {NoJob} /\ cur' \notin due'
      /\ (cur' = NoJob => due' = {})
      /\ due' \cup ({cur'} \cap Jobs) = DueNow
  BY <1>1, ProceedFacts DEF IInv, Tick
<1>5. TypeOK'
  BY <1>1, <1>3, <1>4, ConstantsAssumption DEF IInv, TypeOK, Tick, history
<1>6. Mirrored' /\ NeverLost'
  BY DEF IInv, Mirrored, NeverLost, Tick, history
<1>7. InFlight'
  BY <1>1, <1>3, <1>4 DEF IInv, InFlight, Tick, history
<1>8. QED
  BY <1>5, <1>6, <1>7 DEF IInv

(* Rescheduling writes the same next run to both dictionaries, to memory     *)
(* only where the job still is.                                              *)
LEMMA RescheduleFacts ==
  ASSUME IInv, cur # NoJob, Reschedule, UNCHANGED <<used, removed>>
  PROVE  /\ mem' \in [Jobs -> Left \cup {Absent}] /\ disk' \in [Jobs -> Left \cup {Absent}]
         /\ Mirrored' /\ NeverLost'
         /\ \A j \in Jobs : mem[j] # Absent => mem'[j] # Absent
<1>1. cur \in Jobs /\ Next_run \in Left /\ Next_run # Absent
  BY ConstantsAssumption DEF IInv, TypeOK, Next_run
<1>2. /\ disk'[cur] = Next_run
      /\ \A j \in Jobs \ {cur} : mem'[j] = mem[j] /\ disk'[j] = disk[j]
      /\ mem'[cur] = IF cur \in stale THEN mem[cur] ELSE Next_run
      /\ mem' \in [Jobs -> Left \cup {Absent}] /\ disk' \in [Jobs -> Left \cup {Absent}]
  BY <1>1 DEF IInv, TypeOK, Reschedule
<1>3. cur \notin stale => mem[cur] # Absent
  BY <1>1 DEF IInv, InFlight
<1>4. cur \in stale => cur \in removed
  BY DEF IInv, InFlight
<1>5. mem' # Nothing => mem # Nothing
  <2>1. CASE cur \in stale
    BY <2>1 DEF Reschedule
  <2>2. CASE cur \notin stale
    BY <2>2, <1>1, <1>3
  <2>3. QED
    BY <2>1, <2>2
<1>6. Mirrored'
  BY <1>1, <1>2, <1>4 DEF IInv, Mirrored
<1>7. NeverLost'
  BY <1>1, <1>2, <1>5, <1>4 DEF IInv, NeverLost, TypeOK
<1>8. QED
  BY <1>1, <1>2, <1>6, <1>7

LEMMA RunEndsInv == ASSUME IInv, RunEnds PROVE IInv'
<1>1. cur \in Jobs /\ cur # NoJob /\ due \in SUBSET Jobs
  BY ConstantsAssumption DEF IInv, TypeOK, RunEnds
<1>2. /\ mem' \in [Jobs -> Left \cup {Absent}] /\ disk' \in [Jobs -> Left \cup {Absent}]
      /\ Mirrored' /\ NeverLost'
      /\ \A j \in Jobs : mem[j] # Absent => mem'[j] # Absent
  BY <1>1, RescheduleFacts DEF RunEnds, history
<1>3. /\ loop' \in {"sleep", "tick"} /\ (loop' = "tick" <=> cur' # NoJob)
      /\ due' \subseteq due /\ cur' \in due \cup {NoJob} /\ cur' \notin due'
      /\ (cur' = NoJob => due' = {})
      /\ due' \cup ({cur'} \cap Jobs) = due
  BY <1>1, ProceedFacts DEF IInv, RunEnds
<1>4. stale' = stale \ {cur} /\ stale' \subseteq due
  BY DEF IInv, TypeOK, RunEnds
<1>5. TypeOK'
  BY <1>1, <1>2, <1>3, <1>4 DEF IInv, TypeOK, RunEnds, history
<1>6. InFlight'
  <2>1. stale' \subseteq removed'
    BY <1>4 DEF IInv, InFlight, RunEnds, history
  <2>2. ASSUME NEW j \in (due' \cup {cur'}) \cap Jobs, j \notin stale' PROVE mem'[j] # Absent
    <3>1. j \in due /\ j # cur
      BY <1>1, <1>3, ConstantsAssumption DEF IInv, TypeOK
    <3>2. j \notin stale
      BY <3>1, <2>2, <1>4
    <3>3. QED
      BY <3>1, <3>2, <1>2 DEF IInv, InFlight
  <2>3. QED
    BY <2>1, <2>2 DEF InFlight
<1>7. QED
  BY <1>2, <1>5, <1>6 DEF IInv

LEMMA StopInv == ASSUME IInv, Stop PROVE IInv'
<1>1. /\ mem' \in [Jobs -> Left \cup {Absent}] /\ disk' \in [Jobs -> Left \cup {Absent}]
      /\ Mirrored' /\ NeverLost'
  <2>1. CASE cur = NoJob
    BY <2>1 DEF IInv, TypeOK, Mirrored, NeverLost, Stop, history
  <2>2. CASE cur # NoJob
    BY <2>2, RescheduleFacts DEF Stop, history
  <2>3. QED
    BY <2>1, <2>2
<1>2. TypeOK'
  BY <1>1, ConstantsAssumption DEF IInv, TypeOK, Stop, history
<1>3. InFlight'
  BY ConstantsAssumption DEF IInv, InFlight, Stop, history
<1>4. QED
  BY <1>1, <1>2, <1>3 DEF IInv

(* What time takes from a time left.                                         *)
LEMMA LessFacts ==
  ASSUME NEW n \in Left \cup {Absent}
  PROVE  Less(n) \in Left \cup {Absent} /\ (Less(n) = Absent <=> n = Absent)
  BY ConstantsAssumption DEF Less

LEMMA TimePassesInv == ASSUME IInv, TimePasses PROVE IInv'
<1>1. /\ mem' \in [Jobs -> Left \cup {Absent}] /\ disk' \in [Jobs -> Left \cup {Absent}]
      /\ \A j \in Jobs : /\ mem'[j] = Less(mem[j]) /\ (mem'[j] = Absent <=> mem[j] = Absent)
                        /\ disk'[j] = Less(disk[j]) /\ (disk'[j] = Absent <=> disk[j] = Absent)
  BY LessFacts DEF IInv, TypeOK, TimePasses
<1>2. TypeOK'
  BY <1>1, ConstantsAssumption DEF IInv, TypeOK, TimePasses, history
<1>3. mem' # Nothing => mem # Nothing
  BY <1>1 DEF IInv, TypeOK
<1>4. Mirrored' /\ NeverLost'
  BY <1>1, <1>3 DEF IInv, TypeOK, Mirrored, NeverLost, TimePasses, history
<1>5. InFlight'
  BY <1>1 DEF IInv, InFlight, TimePasses, history
<1>6. QED
  BY <1>2, <1>4, <1>5 DEF IInv

LEMMA RestartInv == ASSUME IInv, Restart PROVE IInv'
<1>1. TypeOK'
  BY ConstantsAssumption DEF IInv, TypeOK, Restart, history
<1>2. Mirrored' /\ NeverLost' /\ InFlight'
  BY ConstantsAssumption DEF IInv, TypeOK, Mirrored, NeverLost, InFlight, Restart, history
<1>3. QED
  BY <1>1, <1>2 DEF IInv

(* Every step keeps the invariant.                                           *)
LEMMA StepInv == IInv /\ [Next]_vars => IInv'
<1>. SUFFICES ASSUME IInv, [Next]_vars PROVE IInv'
  OBVIOUS
<1>1. CASE Request
  BY <1>1, AddInv, RemoveJobInv, AccessInv DEF Request
<1>2. CASE Tick
  BY <1>2, TickInv
<1>3. CASE RunEnds
  BY <1>3, RunEndsInv
<1>4. CASE Stop
  BY <1>4, StopInv
<1>5. CASE TimePasses
  BY <1>5, TimePassesInv
<1>6. CASE Restart
  BY <1>6, RestartInv
<1>7. CASE UNCHANGED vars
  BY <1>7 DEF vars, tickVars, history, IInv, TypeOK, Mirrored, NeverLost, InFlight
<1>8. QED
  BY <1>1, <1>2, <1>3, <1>4, <1>5, <1>6, <1>7 DEF Next

LEMMA Invariant == Spec => []IInv
<1>1. QED
  BY InitInv, StepInv, PTL DEF Spec

(* The variables keep their types, for any set of jobs and any period.       *)
THEOREM CronTypeCorrect == Spec => []TypeOK
<1>1. IInv => TypeOK
  BY DEF IInv
<1>2. QED
  BY <1>1, Invariant, PTL

(* A job in memory and its stored copy agree on the next run, whatever       *)
(* requests, runs, stops and crashes do.                                     *)
THEOREM MirrorTheorem == Spec => []Mirrored
<1>1. IInv => Mirrored
  BY DEF IInv
<1>2. QED
  BY <1>1, Invariant, PTL

(* No added job is lost, on disk or from a dictionary in use, by any number  *)
(* of crashes and stops at any point of a tick.                              *)
THEOREM NeverLostTheorem == Spec => []NeverLost
<1>1. IInv => NeverLost
  BY DEF IInv
<1>2. QED
  BY <1>1, Invariant, PTL

HIDE DEF Left, Nothing

-----------------------------------------------------------------------------
(* One command.  A kill that found the group left nothing of it; what a      *)
(* reader has taken from its pipe it kept, up to the cap; and a reader that  *)
(* came to the end of its pipe will never find more in it, since nobody      *)
(* opens a pipe again.                                                       *)
Taken(p) == written[p] - unread[p]

ReadersKeep ==
  \A p \in Pipes :
    /\ unread[p] <= written[p]
    /\ kept[p] = Least(Taken(p), Cap) /\ (cut[p] <=> Taken(p) > Cap)
    /\ reader[p] = "done" => unread[p] = 0 /\ ~Open(p)

ShellInv ==
  /\ ShellTypeOK
  /\ reached => leader \in {"ended", "reaped"} /\ child # "grouped"
  /\ call = "idle" => leader = "none"
  /\ call = "idle" => \A p \in Pipes : reader[p] = "none"
  /\ leader = "none" => child = "none" /\ \A p \in Pipes : reader[p] = "none"
  /\ ReadersKeep

USE ShellAssumption

LEMMA ShellInitInv == ShellInit => ShellInv
<1> SUFFICES ASSUME ShellInit PROVE ShellInv
  OBVIOUS
<1>1. ShellTypeOK
  <2>1. 0 \in 0..MaxOutput /\ 0 \in 0..PipeSize /\ 0 \in 0..Cap
    OBVIOUS
  <2>2. written \in [Pipes -> 0..MaxOutput] /\ unread \in [Pipes -> 0..PipeSize] /\ kept \in [Pipes -> 0..Cap]
    BY <2>1 DEF ShellInit
  <2>3. cut \in [Pipes -> BOOLEAN]
    BY DEF ShellInit
  <2>4. reader \in [Pipes -> {"none", "reading", "done", "cancelled"}]
    BY DEF ShellInit
  <2> QED
    BY <2>2, <2>3, <2>4 DEF ShellInit, ShellTypeOK
<1>2. ReadersKeep
  BY DEF ShellInit, ReadersKeep, Taken, Least
<1> QED
  BY <1>1, <1>2 DEF ShellInit, ShellInv

LEMMA ShellStepInv == ShellInv /\ [ShellNext]_shellVars => ShellInv'
<1> SUFFICES ASSUME ShellInv, [ShellNext]_shellVars PROVE ShellInv'
  OBVIOUS
<1> USE DEF ShellInv
<1>1. CASE Fork
  <2>1. ShellTypeOK'
    BY <1>1 DEF Fork, ShellTypeOK
  <2> QED
    BY <1>1, <2>1 DEF Fork, ShellTypeOK, ReadersKeep, Taken, Least, Open, ChildLives
<1>2. ASSUME NEW p \in Pipes, Write(p) PROVE ShellInv'
  <2>1. ShellTypeOK'
    BY <1>2 DEF Write, ShellTypeOK
  <2> QED
    BY <1>2, <2>1 DEF Write, ShellTypeOK, ReadersKeep, Taken, Least, Open, ChildLives
<1>3. CASE LeaderEnds \/ ChildEnds \/ Reap
  <2>1. ShellTypeOK'
    BY <1>3 DEF LeaderEnds, ChildEnds, Reap, ShellTypeOK
  <2> QED
    BY <1>3, <2>1 DEF LeaderEnds, ChildEnds, Reap, ShellTypeOK, ReadersKeep, Taken, Least, Open, ChildLives
<1>4. CASE Spawn \/ SpawnFails
  <2>1. ShellTypeOK'
    BY <1>4 DEF Spawn, SpawnFails, ShellTypeOK
  <2> QED
    BY <1>4, <2>1 DEF Spawn, SpawnFails, ShellTypeOK, ReadersKeep, Taken, Least, Open, ChildLives
<1>5. ASSUME NEW p \in Pipes, Drain(p) PROVE ShellInv'
  <2>1. ShellTypeOK'
    <3>1. unread' \in [Pipes -> 0..PipeSize]
      BY <1>5 DEF Drain, ShellTypeOK
    <3>2. kept' \in [Pipes -> 0..Cap]
      <4>1. kept[p] \in 0..Cap /\ (kept[p] < Cap => kept[p] + 1 \in 0..Cap)
        BY <1>5 DEF ShellTypeOK
      <4>2. kept' = kept \/ (kept[p] < Cap /\ kept' = [kept EXCEPT ![p] = @ + 1])
        BY <1>5 DEF Drain
      <4> QED
        BY <4>1, <4>2 DEF ShellTypeOK
    <3>3. cut' \in [Pipes -> BOOLEAN]
      BY <1>5 DEF Drain, ShellTypeOK
    <3> QED
      BY ONLY <1>5, <3>1, <3>2, <3>3, ShellTypeOK DEF Drain, ShellTypeOK
  <2> QED
    BY <1>5, <2>1 DEF Drain, ShellTypeOK, ReadersKeep, Taken, Least, Open, ChildLives
<1>6. ASSUME NEW p \in Pipes, EndOfPipe(p) PROVE ShellInv'
  <2>1. ShellTypeOK'
    BY <1>6 DEF EndOfPipe, ShellTypeOK
  <2> QED
    <3>1. \A o \in Pipes : reader'[o] = IF o = p THEN "done" ELSE reader[o]
      BY <1>6 DEF EndOfPipe, ShellTypeOK
    <3>2. ReadersKeep'
      BY <1>6, <3>1 DEF EndOfPipe, ReadersKeep, Taken, Open, ChildLives
    <3>3. leader # "none"
      BY <1>6 DEF EndOfPipe, ShellTypeOK
    <3> QED
      BY <1>6, <2>1, <3>1, <3>2, <3>3 DEF EndOfPipe
<1>7. CASE Exits \/ Buried
  <2>1. ShellTypeOK'
    BY <1>7 DEF Exits, Buried, ShellTypeOK
  <2> QED
    BY <1>7, <2>1 DEF Exits, Buried, ShellTypeOK, ReadersKeep, Taken, Least, Open, ChildLives
<1>8. CASE TimesOut
  <2>1. ShellTypeOK'
    BY <1>8 DEF TimesOut, KillTree, ShellTypeOK
  <2> QED
    BY <1>8, <2>1 DEF TimesOut, KillTree, ShellTypeOK, ReadersKeep, Taken, Least, Open, ChildLives
<1>9. CASE Answer
  <2>1. ShellTypeOK'
    BY <1>9 DEF Answer, StoppedReaders, ShellTypeOK
  <2> QED
    BY <1>9, <2>1 DEF Answer, StoppedReaders, ShellTypeOK, ReadersKeep, Taken, Least, Open, ChildLives
<1>10. CASE CancelCall
  <2>1. ShellTypeOK'
    BY <1>10 DEF CancelCall, KillTree, StoppedReaders, ShellTypeOK
  <2> QED
    BY <1>10, <2>1 DEF CancelCall, KillTree, StoppedReaders, ShellTypeOK, ReadersKeep, Taken, Least, Open, ChildLives
<1>11. CASE UNCHANGED shellVars
  BY <1>11 DEF shellVars, ShellTypeOK, ReadersKeep, Taken, Least, Open, ChildLives
<1> QED
  BY <1>1, <1>2, <1>3, <1>4, <1>5, <1>6, <1>7, <1>8, <1>9, <1>10, <1>11 DEF ShellNext

LEMMA ShellInvContained == ShellInv => CommandIsContained
<1> SUFFICES ASSUME ShellInv PROVE CommandIsContained
  OBVIOUS
<1>1. KilledIsDead
  BY DEF ShellInv, KilledIsDead
<1>2. OutputIsWhole
  BY DEF ShellInv, ShellTypeOK, ReadersKeep, Taken, OutputIsWhole, Result, Least
<1> QED
  BY <1>1, <1>2 DEF CommandIsContained

HIDE ShellAssumption

-----------------------------------------------------------------------------
(* Documents and accounts.  An upload that is about to write a row has its   *)
(* bytes on disk already, and an edit has a row to replace: the text as it   *)
(* should be is there whenever the text is.                                  *)
BytesFirst == \A w \in Workers : work[w].op = "upload" => work[w].doc \in files
RowsStay ==
  /\ \A w \in Workers : work[w].op = "edit" => documents[work[w].doc] # NoText
  /\ \A d \in DocIds : documents[d] = NoText <=> meant[d] = NoText

DocumentsInv ==
  DocumentsTypeOK /\ NoEditIsLost /\ UploadsHaveBytes /\ OneAccount /\ BytesFirst /\ RowsStay

(* What stands in a text once is replaced as the docstring says.             *)
LEMMA ReplacedOnce ==
  ASSUME NEW text \in Texts, NEW old \in Words, NEW new \in Words
  PROVE  /\ Replaced(text, old, new) \in Texts /\ Edited(text, old, new) \in Texts
         /\ (\A i, j \in At(text, old) : i = j) => Replaced(text, old, new) = Edited(text, old, new)
<1>1. DOMAIN text = 1..2 /\ \A i \in 1..2 : text[i] \in Words
  BY DEF Texts
<1>2. Replaced(text, old, new) \in Texts /\ Edited(text, old, new) \in Texts
  BY <1>1 DEF Replaced, Edited, Texts
<1>3. ASSUME \A i, j \in At(text, old) : i = j PROVE Replaced(text, old, new) = Edited(text, old, new)
  BY <1>1, <1>3 DEF Replaced, Edited, At
<1>4. QED
  BY <1>2, <1>3

(* A text is not what stands for a document that is not there.               *)
LEMMA TextsAreTexts == NoText \notin Texts
<1> SUFFICES ASSUME NoText \in Texts PROVE FALSE
  OBVIOUS
<1>1. NoText \in Seq(Words)
  BY SeqDef DEF Texts
<1> QED
  BY <1>1, DocumentsAssumption

LEMMA DocumentsInitInv == DocumentsInit => DocumentsInv
  BY DocumentsAssumption
     DEF DocumentsInit, DocumentsInv, DocumentsTypeOK, NoEditIsLost, UploadsHaveBytes,
         OneAccount, BytesFirst, RowsStay, Idle

(* An edit that nobody overtook writes what it should.                       *)
LEMMA WriteEditInv == ASSUME DocumentsInv, NEW w \in Workers, WriteEdit(w) PROVE DocumentsInv'
<1>1. work[w] \in Edits /\ work[w].op = "edit"
  BY DEF DocumentsInv, DocumentsTypeOK, WriteEdit, Idle, Edits, Uploads, Registers
<1> DEFINE e == work[w]
<1>2. e.doc \in DocIds /\ e.old \in Words /\ e.new \in Words /\ e.text \in Texts
  BY <1>1 DEF Edits
<1>3. PICK d \in DocIds, old \in Words, new \in Words, text \in Texts :
        d = e.doc /\ old = e.old /\ new = e.new /\ text = e.text
  BY <1>2
<1>4. /\ documents' = [documents EXCEPT ![d] = Replaced(text, old, new)]
      /\ meant' = [meant EXCEPT ![d] = Edited(meant[d], old, new)]
      /\ writes[d] < MaxWrites /\ writes' = [writes EXCEPT ![d] = @ + 1]
      /\ raced' = IF documents[d] = text THEN raced ELSE raced \cup {d}
      /\ several' = IF \A i, j \in At(text, old) : i = j THEN several ELSE several \cup {d}
      /\ work' = [work EXCEPT ![w] = Idle]
      /\ UNCHANGED <<files, accounts, welcomed>>
  BY <1>3 DEF WriteEdit, Put
<1>5. documents[d] # NoText /\ meant[d] \in Texts /\ documents[d] \in Texts
  BY <1>1, <1>3 DEF DocumentsInv, RowsStay, DocumentsTypeOK
<1>6. /\ Replaced(text, old, new) \in Texts /\ Edited(meant[d], old, new) \in Texts
      /\ (\A i, j \in At(text, old) : i = j) => Replaced(text, old, new) = Edited(text, old, new)
  BY <1>5, ReplacedOnce
<1>7. Replaced(text, old, new) # NoText /\ Edited(meant[d], old, new) # NoText
  BY <1>6, TextsAreTexts
<1> HIDE DEF e
<1>8. DocumentsTypeOK'
  <2>1. writes' \in [DocIds -> 0..MaxWrites]
    BY <1>4, DocumentsAssumption DEF DocumentsInv, DocumentsTypeOK
  <2>2. documents' \in [DocIds -> Texts \cup {NoText}] /\ meant' \in [DocIds -> Texts \cup {NoText}]
    BY <1>4, <1>6 DEF DocumentsInv, DocumentsTypeOK
  <2> QED
    BY <1>4, <2>1, <2>2 DEF DocumentsInv, DocumentsTypeOK
<1>9. NoEditIsLost'
  <2>1. documents' \in [DocIds -> Texts \cup {NoText}] /\ documents \in [DocIds -> Texts \cup {NoText}]
        /\ meant \in [DocIds -> Texts \cup {NoText}]
    BY <1>8 DEF DocumentsInv, DocumentsTypeOK
  <2> SUFFICES ASSUME NEW x \in DocIds, x \notin raced', x \notin several' PROVE documents'[x] = meant'[x]
    BY DEF NoEditIsLost
  <2>2. /\ x \notin raced /\ x \notin several /\ documents[x] = meant[x]
        /\ x = d => documents[d] = text /\ \A i, j \in At(text, old) : i = j
    BY <1>4 DEF DocumentsInv, NoEditIsLost
  <2> QED
    BY <1>4, <1>6, <2>1, <2>2
<1>10. UploadsHaveBytes' /\ OneAccount' /\ BytesFirst' /\ RowsStay'
  BY <1>4, <1>5, <1>7
     DEF DocumentsInv, DocumentsTypeOK, UploadsHaveBytes, OneAccount, BytesFirst, RowsStay, Idle
<1>11. QED
  BY <1>8, <1>9, <1>10 DEF DocumentsInv

LEMMA StoreRowInv == ASSUME DocumentsInv, NEW w \in Workers, StoreRow(w) PROVE DocumentsInv'
<1>1. work[w] \in Uploads /\ work[w].op = "upload"
  BY DEF DocumentsInv, DocumentsTypeOK, StoreRow, Idle, Edits, Uploads, Registers
<1>2. PICK d \in DocIds : d = work[w].doc
  BY <1>1 DEF Uploads
<1>3. PICK text \in Texts :
        /\ documents' = [documents EXCEPT ![d] = text] /\ meant' = [meant EXCEPT ![d] = text]
        /\ writes[d] < MaxWrites /\ writes' = [writes EXCEPT ![d] = @ + 1]
        /\ work' = [work EXCEPT ![w] = Idle]
        /\ UNCHANGED <<files, accounts, raced, several, welcomed>>
  BY <1>2 DEF StoreRow, Put
<1>4. d \in files /\ text # NoText
  BY <1>1, <1>2, TextsAreTexts DEF DocumentsInv, BytesFirst
<1>5. writes' \in [DocIds -> 0..MaxWrites]
  BY <1>3, DocumentsAssumption DEF DocumentsInv, DocumentsTypeOK
<1>6. DocumentsTypeOK'
  BY <1>3, <1>5 DEF DocumentsInv, DocumentsTypeOK
<1>7. NoEditIsLost' /\ UploadsHaveBytes' /\ OneAccount' /\ BytesFirst' /\ RowsStay'
  BY <1>3, <1>4
     DEF DocumentsInv, DocumentsTypeOK, NoEditIsLost, UploadsHaveBytes, OneAccount, BytesFirst, RowsStay, Idle
<1>8. QED
  BY <1>6, <1>7 DEF DocumentsInv

(* Of two that register a name at once the second finds it taken.            *)
LEMMA InsertUserInv == ASSUME DocumentsInv, NEW w \in Workers, InsertUser(w) PROVE DocumentsInv'
<1>1. work[w] \in Registers
  BY DEF DocumentsInv, DocumentsTypeOK, InsertUser, Idle, Edits, Uploads, Registers
<1>2. PICK n \in Names : n = work[w].user
  BY <1>1 DEF Registers
<1>3. /\ work' = [work EXCEPT ![w] = Idle] /\ UNCHANGED <<documents, files, writes, meant, raced, several>>
      /\ \/ accounts[n] = Nobody /\ accounts' = [accounts EXCEPT ![n] = w] /\ welcomed' = welcomed \cup {<<w, n>>}
         \/ UNCHANGED <<accounts, welcomed>>
  BY <1>2 DEF InsertUser
<1>4. DocumentsTypeOK'
  BY <1>3 DEF DocumentsInv, DocumentsTypeOK
<1>5. OneAccount'
  <2> SUFFICES ASSUME NEW x \in welcomed' PROVE accounts'[x[2]] = x[1]
    BY DEF OneAccount
  <2>1. CASE x \in welcomed
    <3>1. accounts[x[2]] = x[1] /\ x[1] \in Workers /\ x[2] \in Names
      BY <2>1 DEF DocumentsInv, DocumentsTypeOK, OneAccount
    <3> QED
      BY <3>1, <1>3, DocumentsAssumption DEF DocumentsInv, DocumentsTypeOK
  <2>2. CASE x \notin welcomed
    BY <2>2, <1>3 DEF DocumentsInv, DocumentsTypeOK
  <2> QED
    BY <2>1, <2>2
<1>6. NoEditIsLost' /\ UploadsHaveBytes' /\ BytesFirst' /\ RowsStay'
  BY <1>3
     DEF DocumentsInv, DocumentsTypeOK, NoEditIsLost, UploadsHaveBytes, BytesFirst, RowsStay, Idle
<1>7. QED
  BY <1>4, <1>5, <1>6 DEF DocumentsInv

(* What begins, and what ends without a word.                                *)
LEMMA NewWorkInv ==
  ASSUME DocumentsInv, NEW w \in Workers, NEW step \in {Idle} \cup Edits \cup Uploads \cup Registers,
         work' = [work EXCEPT ![w] = step],
         step.op = "edit" => documents[step.doc] # NoText,
         step.op = "upload" => step.doc \in files',
         files \subseteq files', files' \subseteq DocIds,
         UNCHANGED <<documents, accounts, writes, meant, raced, several, welcomed>>
  PROVE  DocumentsInv'
<1>1. DocumentsTypeOK'
  BY DEF DocumentsInv, DocumentsTypeOK
<1>2. NoEditIsLost' /\ UploadsHaveBytes' /\ OneAccount'
  BY DEF DocumentsInv, NoEditIsLost, UploadsHaveBytes, OneAccount
<1>3. BytesFirst' /\ RowsStay'
  BY DEF DocumentsInv, DocumentsTypeOK, BytesFirst, RowsStay
<1>4. QED
  BY <1>1, <1>2, <1>3 DEF DocumentsInv

LEMMA DocumentsStepInv == DocumentsInv /\ [DocumentsNext]_docVars => DocumentsInv'
<1> SUFFICES ASSUME DocumentsInv, [DocumentsNext]_docVars PROVE DocumentsInv'
  OBVIOUS
<1>1. ASSUME NEW w \in Workers, NEW d \in DocIds, StoreBytes(w, d) PROVE DocumentsInv'
  <2> DEFINE step == [op |-> "upload", doc |-> d]
  <2>1. step \in Uploads /\ step.op = "upload" /\ step.doc = d
    BY DEF Uploads
  <2>2. /\ work' = [work EXCEPT ![w] = step] /\ files' = files \cup {d}
        /\ UNCHANGED <<documents, accounts, writes, meant, raced, several, welcomed>>
    BY <1>1 DEF StoreBytes
  <2>3. files \subseteq files' /\ files' \subseteq DocIds /\ d \in files'
    BY <2>2 DEF DocumentsInv, DocumentsTypeOK
  <2> QED
    BY <2>1, <2>2, <2>3, NewWorkInv
<1>2. ASSUME NEW w \in Workers, NEW d \in DocIds, NEW old \in Words, NEW new \in Words, ReadToEdit(w, d, old, new)
      PROVE  DocumentsInv'
  <2> DEFINE step == [op |-> "edit", doc |-> d, old |-> old, new |-> new, text |-> documents[d]]
  <2>1. step \in Edits /\ step.op = "edit" /\ step.doc = d
    BY <1>2 DEF Edits, ReadToEdit, DocumentsInv, DocumentsTypeOK
  <2>2. /\ work' = [work EXCEPT ![w] = step] /\ documents[d] # NoText /\ files' = files
        /\ UNCHANGED <<documents, accounts, writes, meant, raced, several, welcomed>>
    BY <1>2 DEF ReadToEdit
  <2>3. files \subseteq files' /\ files' \subseteq DocIds
    BY <2>2 DEF DocumentsInv, DocumentsTypeOK
  <2> QED
    BY <2>1, <2>2, <2>3, NewWorkInv
<1>3. ASSUME NEW w \in Workers, NEW n \in Names, CheckName(w, n) PROVE DocumentsInv'
  <2> DEFINE step == [op |-> "register", user |-> n]
  <2>1. step \in Registers /\ step.op = "register"
    BY DEF Registers
  <2>2. /\ work' = [work EXCEPT ![w] = step] /\ files' = files
        /\ UNCHANGED <<documents, accounts, writes, meant, raced, several, welcomed>>
    BY <1>3 DEF CheckName
  <2>3. files \subseteq files' /\ files' \subseteq DocIds
    BY <2>2 DEF DocumentsInv, DocumentsTypeOK
  <2> QED
    BY <2>1, <2>2, <2>3, NewWorkInv
<1>4. ASSUME NEW w \in Workers, CrashWorker(w) PROVE DocumentsInv'
  <2>1. /\ work' = [work EXCEPT ![w] = Idle] /\ files' = files /\ Idle.op = "idle"
        /\ UNCHANGED <<documents, accounts, writes, meant, raced, several, welcomed>>
    BY <1>4 DEF CrashWorker, Idle
  <2>2. files \subseteq files' /\ files' \subseteq DocIds
    BY <2>1 DEF DocumentsInv, DocumentsTypeOK
  <2> QED
    BY <2>1, <2>2, NewWorkInv
<1>5. ASSUME UNCHANGED docVars PROVE DocumentsInv'
  BY <1>5
     DEF docVars, DocumentsInv, DocumentsTypeOK, NoEditIsLost, UploadsHaveBytes, OneAccount, BytesFirst, RowsStay
<1> QED
  BY <1>1, <1>2, <1>3, <1>4, <1>5, WriteEditInv, StoreRowInv, InsertUserInv DEF DocumentsNext

-----------------------------------------------------------------------------
(* The JSON files.                                                           *)
Steps ==
  [op : {"idle"}] \cup [op : {"temp", "whole", "rename"}, visit : Visits]
  \cup [op : {"key"}, ring : Rings, provider : Providers]
  \cup [op : {"secret"}, ring : Rings, provider : Providers, by : Hosts \cup {Gone}]
  \cup [op : {"open", "write"}, then : SUBSET Providers, ring : Rings]

JsonTypes ==
  /\ visited \in Copies \cup {Gone, Torn} /\ temp \in Copies \cup {Gone, Torn}
  /\ copy \in [Hosts -> Copies \cup {Gone}] /\ busy \in [Hosts -> Steps]
  /\ keys \in Rings \cup {Gone, Torn} /\ secret \in Hosts \cup {Gone}
  /\ added \subseteq Visits /\ stored \subseteq Providers
  /\ together \in BOOLEAN /\ mixed \in BOOLEAN

Saving(h) == busy[h].op \in {"temp", "whole", "rename"}

(* One process has the history: its copy has all entries, and what it is     *)
(* about to rename is its copy.                                              *)
OneCopy ==
  /\ \A g, h \in Hosts : copy[g] # Gone /\ copy[h] # Gone => g = h
  /\ \A h \in Hosts : copy[h] # Gone => added \cup Seeds \subseteq copy[h]
  /\ \A h \in Hosts : busy[h].op = "rename" => temp \in {copy[h], Gone}
  /\ visited = Gone => added = {}

Savers == \A h \in Hosts : Saving(h) => copy[h] # Gone /\ busy[h].visit \in copy[h]

VisitsInv == JsonTypes /\ Savers /\ (~together => OneCopy /\ visited # Torn /\ (visited # Gone => added \cup Seeds \subseteq visited))

USE DEF Does, Rest, Copies

(* Rings, and what a host does, tell what they are.                          *)
LEMMA StepFacts ==
  ASSUME JsonTypes, NEW h \in Hosts
  PROVE  /\ Saving(h) => busy[h] \in [op : {"temp", "whole", "rename"}, visit : Visits]
         /\ busy[h].op = "key" => busy[h] \in [op : {"key"}, ring : Rings, provider : Providers]
         /\ busy[h].op = "secret" =>
              busy[h] \in [op : {"secret"}, ring : Rings, provider : Providers, by : Hosts \cup {Gone}]
         /\ busy[h].op \in {"open", "write"} => busy[h] \in [op : {"open", "write"}, then : SUBSET Providers, ring : Rings]
<1>1. busy[h] \in Steps
  BY DEF JsonTypes
<1> QED
  BY <1>1 DEF Steps, Saving

LEMMA VisitsInitInv == JsonInit => VisitsInv
<1> SUFFICES ASSUME JsonInit PROVE VisitsInv
  OBVIOUS
<1>1. Rest \in Steps
  BY DEF Steps
<1>2. JsonTypes
  BY <1>1 DEF JsonInit, JsonTypes
<1>3. Savers /\ OneCopy /\ visited # Torn /\ visited = Gone
  BY JsonAssumption DEF JsonInit, Savers, Saving, OneCopy
<1> QED
  BY <1>2, <1>3 DEF VisitsInv

LEMMA LoadHistoryInv == ASSUME VisitsInv, NEW h \in Hosts, LoadHistory(h) PROVE VisitsInv'
<1>1. PICK c \in SUBSET Visits :
        /\ copy' = [copy EXCEPT ![h] = c]
        /\ visited = Gone => c = Seeds
        /\ visited \notin {Gone, Torn} => c = visited
  <2>1. CASE visited = Gone
    BY <2>1, JsonAssumption DEF LoadHistory
  <2>2. CASE visited = Torn
    BY <2>2, JsonAssumption DEF LoadHistory
  <2>3. CASE visited \notin {Gone, Torn}
    BY <2>3 DEF LoadHistory, VisitsInv, JsonTypes
  <2> QED
    BY <2>1, <2>2, <2>3
<1>2. PICK b \in BOOLEAN : (b <=> \E g \in Hosts \ {h} : copy[g] # Gone) /\ together' = (together \/ b)
  BY DEF LoadHistory
<1>3. JsonTypes' /\ UNCHANGED <<visited, temp, busy, added>> /\ busy[h].op = "idle"
  BY <1>1, <1>2 DEF LoadHistory, VisitsInv, JsonTypes, credentialVars
<1>4. Savers'
  BY <1>1, <1>3 DEF VisitsInv, Savers, Saving, JsonTypes
<1>5. ASSUME ~together' PROVE OneCopy' /\ visited' # Torn /\ (visited' # Gone => added' \cup Seeds \subseteq visited')
  BY <1>1, <1>2, <1>3, <1>5 DEF VisitsInv, OneCopy, JsonTypes
<1> QED
  BY <1>3, <1>4, <1>5 DEF VisitsInv

LEMMA AddVisitInv == ASSUME VisitsInv, NEW h \in Hosts, NEW v \in Visits, AddVisit(h, v) PROVE VisitsInv'
<1>1. /\ copy' = [copy EXCEPT ![h] = @ \cup {v}] /\ copy[h] # Gone /\ copy[h] \in SUBSET Visits
      /\ busy' = [busy EXCEPT ![h] = [op |-> "temp", visit |-> v]]
      /\ UNCHANGED <<visited, temp, added, together, keys, secret, saves, stored, mixed>>
  BY DEF AddVisit, credentialVars, VisitsInv, JsonTypes
<1>2. copy'[h] = copy[h] \cup {v} /\ copy'[h] # Gone /\ \A g \in Hosts \ {h} : copy'[g] = copy[g]
  BY <1>1, JsonAssumption DEF VisitsInv, JsonTypes
<1>3. JsonTypes'
  BY <1>1 DEF VisitsInv, JsonTypes, Steps
<1>4. Savers'
  BY <1>1, <1>2 DEF VisitsInv, Savers, Saving, JsonTypes
<1>5. ASSUME ~together PROVE OneCopy'
  BY <1>1, <1>2, <1>5 DEF VisitsInv, OneCopy, JsonTypes
<1> QED
  BY <1>1, <1>3, <1>4, <1>5 DEF VisitsInv

LEMMA TempInv == ASSUME VisitsInv, NEW h \in Hosts, OpenTemp(h) \/ WriteTemp(h) \/ RenameTemp(h) PROVE VisitsInv'
<1>0. Saving(h) /\ busy[h] \in [op : {"temp", "whole", "rename"}, visit : Visits] /\ copy[h] # Gone
      /\ copy[h] \in SUBSET Visits /\ busy[h].visit \in copy[h] /\ busy[h].visit \in Visits
  <2>1. Saving(h)
    BY DEF OpenTemp, WriteTemp, RenameTemp, Saving
  <2> QED
    BY <2>1, StepFacts DEF VisitsInv, Savers, JsonTypes
<1>1. PICK step \in Steps :
        /\ busy' = [busy EXCEPT ![h] = step]
        /\ step.op = "rename" => temp' = copy[h]
        /\ step.op \in {"temp", "whole", "rename"} => step.visit = busy[h].visit
        /\ step.op \in {"idle", "whole", "rename"}
  <2>1. ASSUME NEW o \in {"whole", "rename"}
        PROVE  /\ [busy[h] EXCEPT !.op = o] \in Steps /\ [busy[h] EXCEPT !.op = o].op = o
               /\ [busy[h] EXCEPT !.op = o].visit = busy[h].visit
    BY <1>0 DEF Steps
  <2>2. [op |-> "idle"] \in Steps
    BY DEF Steps
  <2>3. CASE OpenTemp(h)
    BY <2>1, <2>3 DEF OpenTemp
  <2>4. CASE WriteTemp(h)
    BY <2>1, <2>4 DEF WriteTemp
  <2>5. CASE RenameTemp(h)
    BY <2>2, <2>5 DEF RenameTemp
  <2> QED
    BY <2>3, <2>4, <2>5
<1>2. /\ UNCHANGED <<copy, together, keys, secret, saves, stored, mixed>>
      /\ temp' \in {Torn, Gone, copy[h], temp}
      /\ \/ UNCHANGED <<visited, added>>
         \/ /\ busy[h].op = "rename" /\ temp # Gone /\ visited' = temp
            /\ added' = added \cup {busy[h].visit}
  BY DEF OpenTemp, WriteTemp, RenameTemp, credentialVars
<1>3. JsonTypes'
  BY <1>0, <1>1, <1>2 DEF VisitsInv, JsonTypes
<1>4. Savers'
  BY <1>0, <1>1, <1>2 DEF VisitsInv, Savers, Saving, JsonTypes
<1>5. ASSUME ~together, NEW g \in Hosts, Saving(g) PROVE g = h
  BY <1>0, <1>5 DEF VisitsInv, Savers, OneCopy
<1>6. ASSUME ~together PROVE OneCopy' /\ visited' # Torn /\ (visited' # Gone => added' \cup Seeds \subseteq visited')
  <2>1. CASE UNCHANGED <<visited, added>>
    <3>1. \A g \in Hosts : busy'[g].op = "rename" => temp' \in {copy'[g], Gone}
      BY <1>1, <1>2, <1>5, <1>6 DEF Saving, VisitsInv, JsonTypes
    <3> QED
      BY <2>1, <3>1, <1>2, <1>6 DEF VisitsInv, OneCopy
  <2>2. CASE busy[h].op = "rename" /\ temp # Gone /\ visited' = temp /\ added' = added \cup {busy[h].visit}
    <3>1. temp = copy[h] /\ added' \cup Seeds \subseteq copy[h]
      BY <2>2, <1>0, <1>6 DEF VisitsInv, OneCopy
    <3>2. copy[h] \notin {Gone, Torn}
      BY <1>0, JsonAssumption
    <3>3. \A g \in Hosts : busy'[g].op # "rename"
      BY <1>1, <1>2, <1>5, <1>6, <2>2 DEF Saving, VisitsInv, JsonTypes, RenameTemp, OpenTemp, WriteTemp
    <3> QED
      BY <2>2, <3>1, <3>2, <3>3, <1>2, <1>6 DEF VisitsInv, OneCopy
  <2> QED
    BY <2>1, <2>2, <1>2
<1> QED
  BY <1>2, <1>3, <1>4, <1>6 DEF VisitsInv

(* The steps of the credentials leave the history alone.                     *)
LEMMA KeysKeepVisits ==
  ASSUME VisitsInv, NEW h \in Hosts, NEW step \in Steps, ~Saving(h), busy' = [busy EXCEPT ![h] = step],
         step.op \notin {"temp", "whole", "rename"},
         UNCHANGED <<visited, temp, copy, added, together>>, JsonTypes'
  PROVE  VisitsInv'
<1>1. \A g \in Hosts : busy'[g].op \in {"temp", "whole", "rename"} => busy'[g] = busy[g]
  BY DEF VisitsInv, JsonTypes
<1>2. Savers'
  BY <1>1 DEF VisitsInv, Savers, Saving
<1>3. ASSUME ~together PROVE OneCopy'
  BY <1>1, <1>3 DEF VisitsInv, OneCopy
<1> QED
  BY <1>2, <1>3 DEF VisitsInv

LEMMA EndHostVisits == ASSUME VisitsInv, NEW h \in Hosts, EndHost(h) PROVE VisitsInv'
<1>1. /\ copy' = [copy EXCEPT ![h] = Gone] /\ busy' = [busy EXCEPT ![h] = Rest]
      /\ UNCHANGED <<visited, temp, added, together, keys, secret, saves, stored>>
  BY DEF EndHost
<1>2. PICK b \in BOOLEAN : mixed' = (mixed \/ b)
  BY DEF EndHost
<1>3. JsonTypes'
  <2>1. Rest \in Steps
    BY DEF Steps
  <2> QED
    BY <2>1, <1>1, <1>2 DEF VisitsInv, JsonTypes
<1>4. \A g \in Hosts \ {h} : copy'[g] = copy[g] /\ busy'[g] = busy[g]
  BY <1>1 DEF VisitsInv, JsonTypes
<1>5. copy'[h] = Gone /\ busy'[h].op = "idle"
  BY <1>1 DEF VisitsInv, JsonTypes
<1>6. Savers'
  BY <1>1, <1>4, <1>5 DEF VisitsInv, Savers, Saving
<1>7. ASSUME ~together PROVE OneCopy'
  BY <1>1, <1>4, <1>5, <1>7 DEF VisitsInv, OneCopy
<1> QED
  BY <1>1, <1>3, <1>6, <1>7 DEF VisitsInv

-----------------------------------------------------------------------------
(* The credentials.  A ring says which key of which provider it has; what a  *)
(* save or a delete is about to write agrees with what it will have stored.  *)
Fits(ring, providers) == DOMAIN ring = providers /\ \A p \in providers : ring[p] = secret

OneSaver ==
  /\ \A g, h \in Hosts : Working(g) /\ Working(h) => g = h
  /\ (\A h \in Hosts : busy[h].op # "write") => keys # Torn /\ Fits(Ring(keys), stored)
  /\ \A h \in Hosts : busy[h].op \in {"key", "secret"} => Fits(busy[h].ring, stored)
  /\ \A h \in Hosts : busy[h].op = "secret" => busy[h].by = secret
  /\ \A h \in Hosts : busy[h].op \in {"open", "write"} => Fits(busy[h].ring, busy[h].then)

JsonInv == VisitsInv /\ (~mixed => OneSaver)

LEMMA RingFacts ==
  ASSUME JsonTypes
  PROVE  /\ Ring(keys) \in Rings
         /\ keys \notin {Gone, Torn} => Ring(keys) = keys
         /\ DOMAIN Ring(keys) \subseteq Providers
<1>1. <<>> \in Rings /\ DOMAIN <<>> = {}
  <2>1. <<>> \in [{} -> Hosts]
    OBVIOUS
  <2> QED
    BY <2>1 DEF Rings
<1>2. \A r \in Rings : DOMAIN r \subseteq Providers
  BY DEF Rings
<1> QED
  BY <1>1, <1>2 DEF Ring, JsonTypes

LEMMA JsonInitInv == JsonInit => JsonInv
<1> SUFFICES ASSUME JsonInit PROVE JsonInv
  OBVIOUS
<1>1. VisitsInv
  BY VisitsInitInv
<1>2. Ring(keys) = <<>> /\ DOMAIN Ring(keys) = {} /\ stored = {} /\ keys # Torn
  BY JsonAssumption DEF JsonInit, Ring
<1>3. OneSaver
  BY <1>2 DEF JsonInit, OneSaver, Fits, Working
<1> QED
  BY <1>1, <1>3 DEF JsonInv
(* Steps of the history leave the credentials alone.                         *)
LEMMA VisitsKeepKeys ==
  ASSUME JsonTypes, OneSaver, NEW h \in Hosts, NEW step \in Steps, ~Working(h), busy' = [busy EXCEPT ![h] = step],
         step.op \in {"idle", "temp", "whole", "rename"}, UNCHANGED <<keys, secret, stored>>
  PROVE  OneSaver'
<1>1. /\ \A g \in Hosts : busy'[g].op \in {"key", "secret", "open", "write"} => busy'[g] = busy[g]
      /\ \A g \in Hosts : busy[g].op = "write" => busy'[g].op = "write"
  BY DEF JsonTypes, Working
<1> QED
  BY <1>1 DEF OneSaver, Fits, Working, Ring

(* A save or a delete begins: it is alone, or the two are mixed up.          *)
LEMMA BeginSaveInv ==
  ASSUME JsonInv, NEW h \in Hosts, NEW p \in Providers, ReadToSave(h, p) \/ ReadToDelete(h, p)
  PROVE  JsonInv'
<1>0. VisitsInv /\ JsonTypes /\ busy[h].op = "idle" /\ Rest \in Steps
  BY DEF JsonInv, VisitsInv, ReadToSave, ReadToDelete, Steps
<1>1. PICK step \in Steps :
        /\ busy' = [busy EXCEPT ![h] = step]
        /\ \/ step.op = "key" /\ step.ring = Ring(keys)
           \/ /\ step.op = "open" /\ step.then = stored \ {p} /\ p \in DOMAIN Ring(keys)
              /\ step.ring = [q \in DOMAIN Ring(keys) \ {p} |-> keys[q]]
  <2>1. CASE ReadToSave(h, p)
    <3> DEFINE step == [op |-> "key", ring |-> Ring(keys), provider |-> p]
    <3>1. step \in Steps /\ step.op = "key" /\ step.ring = Ring(keys)
      BY <1>0, RingFacts DEF Steps
    <3>2. busy' = [busy EXCEPT ![h] = step]
      BY <2>1 DEF ReadToSave
    <3> QED
      BY <3>1, <3>2
  <2>2. CASE ReadToDelete(h, p)
    <3> DEFINE ring == [q \in DOMAIN Ring(keys) \ {p} |-> keys[q]]
               step == [op |-> "open", then |-> stored \ {p}, ring |-> ring]
    <3>1. p \in DOMAIN Ring(keys) /\ keys \notin {Gone, Torn}
      BY <2>2 DEF ReadToDelete, Ring
    <3>2. \A q \in DOMAIN Ring(keys) : keys[q] \in Hosts
      BY <3>1, <1>0, RingFacts DEF Rings
    <3>3. ring \in Rings
      <4>1. ring \in [DOMAIN Ring(keys) \ {p} -> Hosts] /\ DOMAIN Ring(keys) \ {p} \in SUBSET Providers
        BY <3>2, <1>0, RingFacts
      <4> HIDE DEF ring
      <4> QED
        BY <4>1 DEF Rings
    <3>4. step \in Steps /\ step.op = "open" /\ step.then = stored \ {p} /\ step.ring = ring
      BY <3>3, <1>0 DEF Steps, JsonTypes
    <3>5. busy' = [busy EXCEPT ![h] = step]
      BY <2>2 DEF ReadToDelete
    <3> QED
      BY <3>1, <3>4, <3>5
  <2> QED
    BY <2>1, <2>2
<1>2. UNCHANGED <<keys, secret, stored, visited, temp, copy, added, together>>
  BY DEF ReadToSave, ReadToDelete, historyVars
<1>3. PICK b \in BOOLEAN : mixed' = (mixed \/ b) /\ (b <=> \E g \in Hosts \ {h} : Working(g))
  BY DEF ReadToSave, ReadToDelete, Mixes
<1>4. JsonTypes'
  BY <1>0, <1>1, <1>2, <1>3 DEF JsonTypes
<1>5. VisitsInv'
  BY <1>0, <1>1, <1>2, <1>4, KeysKeepVisits DEF Saving
<1>6. ASSUME ~mixed' PROVE OneSaver'
  <2>1. ~mixed /\ OneSaver /\ \A g \in Hosts : ~Working(g)
    BY <1>0, <1>3, <1>6 DEF JsonInv, JsonTypes, Working
  <2>2. keys # Torn /\ Fits(Ring(keys), stored)
    BY <2>1 DEF OneSaver, Working
  <2>3. \A g \in Hosts : g # h => busy'[g] = busy[g] /\ busy'[g].op \notin {"key", "secret", "open", "write"}
    BY <1>0, <1>1, <2>1 DEF Working, JsonTypes
  <2>4. busy'[h] = step
    BY <1>0, <1>1 DEF JsonTypes
  <2>5. step.op = "open" => Fits(step.ring, step.then)
    <3> SUFFICES ASSUME step.op = "open" PROVE Fits(step.ring, step.then)
      OBVIOUS
    <3>1. p \in DOMAIN Ring(keys) /\ step.then = stored \ {p} /\ step.ring = [q \in DOMAIN Ring(keys) \ {p} |-> keys[q]]
      BY <1>1
    <3>2. Ring(keys) = keys
      BY <3>1 DEF Ring
    <3> QED
      BY <3>1, <3>2, <2>2 DEF Fits
  <2>6. (step.op = "key" /\ step.ring = Ring(keys)) \/ step.op = "open"
    BY <1>1
  <2>7. \A g, k \in Hosts : Working(g)' /\ Working(k)' => g = k
    BY <2>3 DEF Working
  <2>8. keys' # Torn /\ Fits(Ring(keys), stored)'
    BY <1>2, <2>2 DEF Ring, Fits
  <2>9. ASSUME NEW g \in Hosts
        PROVE  /\ busy'[g].op \in {"key", "secret"} => g = h /\ step.op = "key" /\ busy'[g].ring = Ring(keys)
               /\ busy'[g].op # "secret"
               /\ busy'[g].op \in {"open", "write"} =>
                    Fits(step.ring, step.then) /\ busy'[g].ring = step.ring /\ busy'[g].then = step.then
    BY <2>3, <2>4, <2>5, <2>6
  <2>10. \A g \in Hosts : busy'[g].op \in {"key", "secret"} => Fits(busy[g].ring, stored)'
    BY <1>2, <2>2, <2>9 DEF Fits
  <2>11. \A g \in Hosts : busy'[g].op \in {"open", "write"} => Fits(busy[g].ring, busy[g].then)'
    BY <1>2, <2>9 DEF Fits
  <2> QED
    BY <2>7, <2>8, <2>9, <2>10, <2>11 DEF OneSaver
<1> QED
  BY <1>5, <1>6 DEF JsonInv

(* The steps of a save that is alone.                                        *)
LEMMA SaveInv ==
  ASSUME JsonInv, NEW h \in Hosts, LookForSecret(h) \/ MakeSecret(h) \/ OpenKeys(h) \/ WriteKeys(h)
  PROVE  JsonInv'
<1>0. VisitsInv /\ JsonTypes /\ Working(h) /\ ~Saving(h)
  BY DEF JsonInv, VisitsInv, LookForSecret, MakeSecret, OpenKeys, WriteKeys, Working, Saving
<1>1. UNCHANGED <<mixed, visited, temp, copy, added, together>>
  BY DEF LookForSecret, MakeSecret, OpenKeys, WriteKeys, historyVars
<1>2. ASSUME NEW step \in Steps, busy' = [busy EXCEPT ![h] = step], step.op \notin {"temp", "whole", "rename"},
             keys' \in Rings \cup {Gone, Torn}, secret' \in Hosts \cup {Gone}, stored' \subseteq Providers,
             ~mixed => /\ step.op = "secret" => secret' = secret /\ step.by = secret
                       /\ step.op \in {"key", "secret"} => Fits(step.ring, stored)' 
                       /\ step.op \in {"open", "write"} => Fits(step.ring, step.then)'
                       /\ step.op # "write" => keys' # Torn /\ Fits(Ring(keys), stored)'
      PROVE  JsonInv'
  <2>1. JsonTypes'
    BY <1>0, <1>1, <1>2 DEF JsonTypes
  <2>2. VisitsInv'
    BY <1>0, <1>1, <1>2, <2>1, KeysKeepVisits
  <2>3. ASSUME ~mixed PROVE OneSaver'
    <3>1. \A g \in Hosts : g # h => busy'[g] = busy[g] /\ ~Working(g)
      BY <1>0, <1>2, <2>3 DEF JsonInv, OneSaver, JsonTypes
    <3>2. busy'[h] = step
      BY <1>0, <1>2 DEF JsonTypes
    <3>3. \A g, i \in Hosts : Working(g)' /\ Working(i)' => g = i
      BY <3>1 DEF Working
    <3>4. (\A i \in Hosts : busy'[i].op # "write") => keys' # Torn /\ Fits(Ring(keys), stored)'
      BY <3>2, <1>2, <2>3
    <3>5. \A i \in Hosts :
            /\ busy'[i].op \in {"key", "secret"} => Fits(busy[i].ring, stored)'
            /\ busy'[i].op = "secret" => busy'[i].by = secret'
            /\ busy'[i].op \in {"open", "write"} => Fits(busy[i].ring, busy[i].then)'
      BY <3>1, <3>2, <1>2, <2>3 DEF Working, Fits
    <3> QED
      BY <3>3, <3>4, <3>5 DEF OneSaver, Fits
  <2> QED
    BY <1>1, <2>2, <2>3 DEF JsonInv
<1>3. ASSUME LookForSecret(h) PROVE JsonInv'
  <2>0. PICK step : step = [op |-> "secret", ring |-> busy[h].ring, provider |-> busy[h].provider, by |-> secret]
    OBVIOUS
  <2>1. busy[h].op = "key" /\ busy[h] \in [op : {"key"}, ring : Rings, provider : Providers]
    BY <1>0, <1>3, StepFacts DEF LookForSecret
  <2>2. step \in Steps /\ step.op = "secret" /\ step.by = secret /\ step.ring = busy[h].ring
    BY <2>0, <2>1, <1>0 DEF Steps, JsonTypes
  <2>3. busy' = [busy EXCEPT ![h] = step] /\ UNCHANGED <<keys, secret, stored>>
    BY <2>0, <1>3 DEF LookForSecret
  <2>4. ~mixed => Fits(busy[h].ring, stored) /\ keys # Torn /\ Fits(Ring(keys), stored)
    BY <2>1, <1>0 DEF JsonInv, OneSaver, Working
  <2>5. ~mixed => Fits(step.ring, stored)' /\ keys' # Torn /\ Fits(Ring(keys), stored)'
    BY <2>2, <2>3, <2>4 DEF Fits, Ring
  <2> QED
    BY <1>2, <1>0, <2>2, <2>3, <2>5 DEF JsonTypes
<1>4. ASSUME MakeSecret(h) PROVE JsonInv'
  <2>1. busy[h].op = "secret"
        /\ busy[h] \in [op : {"secret"}, ring : Rings, provider : Providers, by : Hosts \cup {Gone}]
    BY <1>0, <1>4, StepFacts DEF MakeSecret
  <2>2. PICK ring \in Rings, p \in Providers, host \in Hosts \cup {Gone} :
          ring = busy[h].ring /\ p = busy[h].provider /\ host = busy[h].by
    BY <2>1
  <2>3. PICK mine \in Hosts : mine = IF host = Gone THEN h ELSE host
    BY JsonAssumption
  <2> DEFINE new == [q \in DOMAIN ring \cup {p} |-> IF q = p THEN mine ELSE ring[q]]
  <2>0. PICK step : step = [op |-> "open", then |-> stored \cup {p}, ring |-> new]
    OBVIOUS
  <2>4. /\ secret' = IF host = Gone THEN h ELSE secret
        /\ busy' = [busy EXCEPT ![h] = step] /\ UNCHANGED <<keys, stored>>
    BY <2>0, <1>4, <2>2, <2>3 DEF MakeSecret
  <2>5. DOMAIN ring \subseteq Providers /\ \A q \in DOMAIN ring : ring[q] \in Hosts
    BY DEF Rings
  <2>6. new \in Rings
    <3>1. new \in [DOMAIN ring \cup {p} -> Hosts] /\ DOMAIN ring \cup {p} \in SUBSET Providers
      BY <2>5
    <3> HIDE DEF new
    <3> QED
      BY <3>1 DEF Rings
  <2>7. step \in Steps /\ step.op = "open" /\ step.then = stored \cup {p} /\ step.ring = new
    BY <2>0, <2>6, <1>0 DEF Steps, JsonTypes
  <2>8. ASSUME ~mixed
        PROVE  /\ Fits(ring, stored) /\ keys # Torn /\ Fits(Ring(keys), stored) /\ host = secret
               /\ secret' = mine /\ (stored # {} => secret' = secret)
    <3>1. Fits(ring, stored) /\ keys # Torn /\ Fits(Ring(keys), stored) /\ host = secret
      BY <2>1, <2>2, <2>8, <1>0 DEF JsonInv, OneSaver, Working
    <3>2. stored # {} => secret \in Hosts
      BY <3>1, <2>5 DEF Fits
    <3> QED
      BY <3>1, <3>2, <2>3, <2>4, JsonAssumption
  <2>9. ~mixed => Fits(step.ring, step.then)' /\ keys' # Torn /\ Fits(Ring(keys), stored)'
    <3> SUFFICES ASSUME ~mixed PROVE Fits(new, stored \cup {p})' /\ keys' # Torn /\ Fits(Ring(keys), stored)'
      BY <2>4, <2>7 DEF Fits
    <3>1. Fits(Ring(keys), stored)' /\ keys' # Torn
      BY <2>4, <2>8 DEF Fits, Ring
    <3>2. Fits(new, stored \cup {p})'
      BY <2>4, <2>8 DEF Fits
    <3> QED
      BY <3>1, <3>2
  <2>10. keys' \in Rings \cup {Gone, Torn} /\ secret' \in Hosts \cup {Gone} /\ stored' \subseteq Providers
    BY <2>4, <1>0 DEF JsonTypes
  <2> QED
    BY <1>2, <2>4, <2>7, <2>9, <2>10
<1>5. ASSUME OpenKeys(h) PROVE JsonInv'
  <2>1. busy[h].op = "open" /\ busy[h] \in [op : {"open", "write"}, then : SUBSET Providers, ring : Rings]
    BY <1>0, <1>5, StepFacts DEF OpenKeys
  <2>0. PICK step : step = [busy[h] EXCEPT !.op = "write"]
    OBVIOUS
  <2>2. step \in Steps /\ step.op = "write" /\ step.then = busy[h].then /\ step.ring = busy[h].ring
    BY <2>0, <2>1 DEF Steps
  <2>3. busy' = [busy EXCEPT ![h] = step] /\ keys' = Torn /\ UNCHANGED <<secret, stored>>
    BY <2>0, <1>5 DEF OpenKeys
  <2>4. ~mixed => Fits(busy[h].ring, busy[h].then)
    BY <2>1, <1>0 DEF JsonInv, OneSaver
  <2>5. ~mixed => Fits(step.ring, step.then)'
    BY <2>2, <2>3, <2>4 DEF Fits
  <2> QED
    BY <1>2, <1>0, <2>2, <2>3, <2>5 DEF JsonTypes
<1>6. ASSUME WriteKeys(h) PROVE JsonInv'
  <2>1. busy[h].op = "write" /\ busy[h] \in [op : {"open", "write"}, then : SUBSET Providers, ring : Rings]
    BY <1>0, <1>6, StepFacts DEF WriteKeys
  <2>2. PICK ring \in Rings, then \in SUBSET Providers : ring = busy[h].ring /\ then = busy[h].then
    BY <2>1
  <2>3. /\ busy' = [busy EXCEPT ![h] = Rest] /\ keys' = ring /\ stored' = then /\ secret' = secret
        /\ Rest \in Steps /\ Rest.op = "idle"
    BY <1>6, <2>2 DEF WriteKeys, Steps
  <2>4. ring \notin {Gone, Torn}
    BY JsonAssumption
  <2>5. ~mixed => Fits(ring, then)
    BY <2>1, <2>2, <1>0 DEF JsonInv, OneSaver
  <2>6. ~mixed => Fits(Ring(keys), stored)'
    BY <2>3, <2>4, <2>5 DEF Fits, Ring
  <2> QED
    BY <1>2, <1>0, <2>3, <2>4, <2>6 DEF JsonTypes
<1> QED
  BY <1>3, <1>4, <1>5, <1>6
(* A process ends: if it ends in a write, the file is torn.                  *)
LEMMA EndHostInv == ASSUME JsonInv, NEW h \in Hosts, EndHost(h) PROVE JsonInv'
<1>1. VisitsInv' /\ JsonTypes /\ Rest \in Steps
  BY EndHostVisits DEF JsonInv, VisitsInv, Steps
<1>2. busy' = [busy EXCEPT ![h] = Rest] /\ UNCHANGED <<keys, secret, stored>>
  BY DEF EndHost
<1>3. PICK b \in BOOLEAN : mixed' = (mixed \/ b) /\ (b <=> busy[h].op = "write")
  BY DEF EndHost
<1>4. ASSUME ~mixed' PROVE OneSaver'
  <2>1. ~mixed /\ OneSaver /\ busy[h].op # "write"
    BY <1>3, <1>4 DEF JsonInv
  <2>2. \A g \in Hosts : busy'[g].op # "idle" => busy'[g] = busy[g]
    BY <1>1, <1>2 DEF JsonTypes
  <2>3. \A g \in Hosts : busy[g].op = "write" => busy'[g] = busy[g]
    BY <1>1, <1>2, <2>1 DEF JsonTypes
  <2> QED
    BY <1>2, <2>1, <2>2, <2>3 DEF OneSaver, Fits, Working, Ring
<1> QED
  BY <1>1, <1>4 DEF JsonInv

LEMMA HistoryInv ==
  ASSUME JsonInv, NEW h \in Hosts,
         \/ LoadHistory(h) \/ OpenTemp(h) \/ WriteTemp(h) \/ RenameTemp(h)
         \/ \E v \in Visits : AddVisit(h, v)
  PROVE  JsonInv'
<1>1. VisitsInv'
  BY LoadHistoryInv, AddVisitInv, TempInv DEF JsonInv
<1>2. JsonTypes /\ JsonTypes'
  BY <1>1 DEF JsonInv, VisitsInv
<1>3. UNCHANGED <<keys, secret, stored, mixed>> /\ ~Working(h)
  BY DEF LoadHistory, OpenTemp, WriteTemp, RenameTemp, AddVisit, credentialVars, Working
<1>4. busy'[h].op \in {"idle", "temp", "whole", "rename"} /\ busy' = [busy EXCEPT ![h] = busy'[h]]
  <2>1. CASE LoadHistory(h)
    BY <2>1, <1>2 DEF LoadHistory, JsonTypes
  <2>2. CASE \E v \in Visits : AddVisit(h, v)
    BY <2>2, <1>2 DEF AddVisit, JsonTypes
  <2>3. CASE OpenTemp(h) \/ WriteTemp(h) \/ RenameTemp(h)
    <3>1. busy[h] \in [op : {"temp", "whole", "rename"}, visit : Visits]
      BY <2>3, <1>2, StepFacts DEF OpenTemp, WriteTemp, RenameTemp, Saving
    <3> QED
      BY <3>1, <2>3, <1>2 DEF OpenTemp, WriteTemp, RenameTemp, JsonTypes
  <2> QED
    BY <2>1, <2>2, <2>3
<1>5. PICK step \in Steps : step = busy'[h]
  BY <1>2 DEF JsonTypes
<1>6. ~mixed => OneSaver'
  BY <1>2, <1>3, <1>4, <1>5, VisitsKeepKeys DEF JsonInv
<1> QED
  BY <1>1, <1>3, <1>6 DEF JsonInv

LEMMA JsonStepInv == JsonInv /\ [HistoryNext \/ CredentialsNext]_jsonVars => JsonInv'
<1> SUFFICES ASSUME JsonInv, [HistoryNext \/ CredentialsNext]_jsonVars PROVE JsonInv'
  OBVIOUS
<1>1. ASSUME UNCHANGED jsonVars PROVE JsonInv'
  BY <1>1
     DEF jsonVars, JsonInv, VisitsInv, JsonTypes, Savers, Saving, OneCopy, OneSaver, Working, Fits, Ring
<1> QED
  BY <1>1, HistoryInv, EndHostInv, BeginSaveInv, SaveInv DEF HistoryNext, CredentialsNext

LEMMA JsonInvFiles == JsonInv => FilesAreKept
<1> SUFFICES ASSUME JsonInv PROVE FilesAreKept
  OBVIOUS
<1>1. VisitsAreKept
  BY DEF JsonInv, VisitsInv, VisitsAreKept
<1>2. KeysAreKept
  <2> SUFFICES ASSUME ~mixed, \A h \in Hosts : busy[h].op # "write", NEW p \in Providers
               PROVE  p \in stored <=> Loadable(p)
    BY DEF KeysAreKept
  <2>1. Fits(Ring(keys), stored)
    BY DEF JsonInv, OneSaver
  <2>2. keys \in {Gone, Torn} => DOMAIN Ring(keys) = {}
    BY DEF Ring
  <2>3. keys \notin {Gone, Torn} => Ring(keys) = keys
    BY DEF Ring
  <2> QED
    BY <2>1, <2>2, <2>3 DEF Loadable, Fits
<1> QED
  BY <1>1, <1>2 DEF FilesAreKept

HIDE DEF Does, Rest, Copies

-----------------------------------------------------------------------------
(* The agents' memory.  A cached hash with the stamp of the file is the hash *)
(* of the file's content, unless the path was touched; and no stamp is later *)
(* than the clock, so that a write in a later tick changes the stamp.        *)
Sizes == {SizeOfText[t] : t \in Memories \cup {Erased}}

MemoryTypes ==
  /\ memoryFiles \in [Paths -> [text : Memories \cup {Erased}, mtime : Nat]] /\ ticks \in Nat \ {0}
  /\ statCache \in [Scopes -> [mtime : Nat, size : Sizes \cup {0},
                               hash : Memories \cup {Erased}]]
  /\ hashing.on \in BOOLEAN
  /\ hashing.on => /\ hashing.scope \in Scopes /\ hashing.mtime \in 1..ticks
                   /\ hashing.size \in Sizes
  /\ hashed \in [Scopes -> [hash : Memories \cup {Erased}, of : Memories \cup {Erased}]]
  /\ touched \subseteq Paths

Stamped ==
  /\ \A p \in Paths : memoryFiles[p].mtime <= ticks
  /\ \A p \in Paths : memoryFiles[p].text # Erased => memoryFiles[p].mtime > 0
  /\ \A s \in Scopes : statCache[s].mtime <= ticks /\ (statCache[s].mtime = 0 <=> statCache[s] = NoStat)

CacheIsRight(s) ==
  LET f == memoryFiles[PathOf(s)] IN
    f.text # Erased /\ statCache[s].mtime = f.mtime => statCache[s].hash = f.text

MemoryInv ==
  /\ MemoryTypes /\ Stamped /\ HashesAreCurrent
  /\ \A s \in Scopes : PathOf(s) \notin touched => CacheIsRight(s)

LEMMA PathsOfScopes == \A s \in Scopes : PathOf(s) \in Paths
  BY DEF Paths, PathOf

LEMMA MemoryInitInv == MemoryInit => MemoryInv
<1> SUFFICES ASSUME MemoryInit PROVE MemoryInv
  OBVIOUS
<1>1. MemoryTypes
  BY DEF MemoryInit, MemoryTypes, NoStat, NotHashing, Unhashed, Erased
<1>2. Stamped
  BY DEF MemoryInit, Stamped, NoStat, Erased
<1>3. HashesAreCurrent
  BY DEF MemoryInit, HashesAreCurrent, Unhashed
<1>4. \A s \in Scopes : CacheIsRight(s)
  BY PathsOfScopes DEF MemoryInit, CacheIsRight, Erased
<1> QED
  BY <1>1, <1>2, <1>3, <1>4 DEF MemoryInv

(* A write in the tick of a cached stamp touches the path; any other changes *)
(* the stamp.                                                                *)
LEMMA PutInv ==
  ASSUME MemoryInv, NEW p \in Paths, NEW text \in Memories \cup {Erased}, NEW own \in SUBSET Scopes,
         PutMemory(p, text), Touch(p, Scopes \ own),
         statCache' = [s \in Scopes |-> IF s \in own THEN NoStat ELSE statCache[s]],
         UNCHANGED <<ticks, hashing, hashed>>
  PROVE  MemoryInv'
<1>1. MemoryTypes /\ Stamped /\ PathsOfScopes!:
  BY PathsOfScopes DEF MemoryInv
<1>2. memoryFiles' = [memoryFiles EXCEPT ![p] = [text |-> text, mtime |-> IF text = Erased THEN 0 ELSE ticks]]
  BY DEF PutMemory
<1>3. touched \subseteq touched' /\ touched' \subseteq touched \cup {p}
  BY DEF Touch
<1>4. MemoryTypes'
  BY <1>1, <1>2, <1>3 DEF MemoryTypes, NoStat
<1>5. Stamped'
  BY <1>1, <1>2 DEF MemoryTypes, Stamped, NoStat
<1>6. HashesAreCurrent'
  BY <1>3 DEF MemoryInv, HashesAreCurrent
<1>7. ASSUME NEW s \in Scopes, PathOf(s) \notin touched' PROVE CacheIsRight(s)'
  <2>1. PathOf(s) \notin touched /\ CacheIsRight(s) /\ PathOf(s) \in Paths
    BY <1>1, <1>3, <1>7 DEF MemoryInv
  <2>2. CASE s \in own
    <3>1. statCache'[s].mtime = 0
      BY <2>2 DEF NoStat
    <3> QED
      BY <3>1, <2>1, <1>4, <1>5 DEF CacheIsRight, MemoryTypes, Stamped
  <2>3. CASE s \notin own /\ PathOf(s) # p
    BY <2>1, <2>3, <1>1, <1>2 DEF CacheIsRight, MemoryTypes
  <2>4. CASE s \notin own /\ PathOf(s) = p
    <3>1. statCache'[s] = statCache[s] /\ ~Unseen(p, s)
      BY <2>4, <1>7, <1>1 DEF Touch, MemoryTypes
    <3>2. statCache[s] = NoStat \/ statCache[s].mtime # ticks
      BY <3>1, <2>4 DEF Unseen
    <3>3. statCache[s].mtime # ticks
      BY <3>2, <1>1 DEF MemoryTypes, NoStat
    <3> QED
      BY <3>1, <3>3, <2>4, <1>1, <1>2 DEF CacheIsRight, MemoryTypes, Erased
  <2> QED
    BY <2>2, <2>3, <2>4
<1> QED
  BY <1>4, <1>5, <1>6, <1>7 DEF MemoryInv

LEMMA TakeStatInv == ASSUME MemoryInv, NEW s \in Scopes, TakeStat(s) PROVE MemoryInv'
<1> DEFINE f == memoryFiles[PathOf(s)]
<1>1. MemoryTypes /\ Stamped /\ PathOf(s) \in Paths /\ f \in [text : Memories \cup {Erased}, mtime : Nat]
  BY PathsOfScopes DEF MemoryInv, MemoryTypes
<1>2. UNCHANGED <<memoryFiles, ticks, touched>> /\ ~hashing.on
  BY DEF TakeStat
<1>3. CASE f.text = Erased
  <2>1. /\ hashed' = [hashed EXCEPT ![s] = [hash |-> Erased, of |-> Erased]]
        /\ statCache' = [statCache EXCEPT ![s] = NoStat] /\ UNCHANGED hashing
    BY <1>3 DEF TakeStat, Returns
  <2>2. MemoryTypes'
    BY <2>1, <1>1, <1>2 DEF MemoryTypes, NoStat
  <2>3. Stamped'
    BY <2>1, <1>1, <1>2 DEF MemoryTypes, Stamped, NoStat
  <2>4. HashesAreCurrent'
    BY <2>1, <1>1, <1>2 DEF MemoryInv, MemoryTypes, HashesAreCurrent
  <2>5. \A o \in Scopes : PathOf(o) \notin touched' => CacheIsRight(o)'
    BY <2>1, <1>1, <1>2, <1>3 DEF MemoryInv, MemoryTypes, CacheIsRight
  <2> QED
    BY <2>2, <2>3, <2>4, <2>5 DEF MemoryInv
<1>4. CASE f.text # Erased /\ IsCurrent(statCache[s], f.mtime, SizeOfText[f.text])
  <2>1. /\ hashed' = [hashed EXCEPT ![s] = [hash |-> statCache[s].hash, of |-> f.text]]
        /\ UNCHANGED <<statCache, hashing>>
    BY <1>4 DEF TakeStat, Returns
  <2>2. MemoryTypes'
    BY <2>1, <1>1, <1>2 DEF MemoryTypes
  <2>3. Stamped'
    BY <2>1, <1>1, <1>2 DEF Stamped
  <2>4. PathOf(s) \notin touched => statCache[s].hash = f.text
    BY <1>4 DEF MemoryInv, CacheIsRight, IsCurrent
  <2>5. HashesAreCurrent'
    BY <2>1, <2>4, <1>1, <1>2 DEF MemoryInv, MemoryTypes, HashesAreCurrent
  <2>6. \A o \in Scopes : PathOf(o) \notin touched' => CacheIsRight(o)'
    BY <2>1, <1>2 DEF MemoryInv, CacheIsRight
  <2> QED
    BY <2>2, <2>3, <2>5, <2>6 DEF MemoryInv
<1>5. CASE f.text # Erased /\ ~IsCurrent(statCache[s], f.mtime, SizeOfText[f.text])
  <2>1. /\ hashing' = [on |-> TRUE, scope |-> s, mtime |-> f.mtime, size |-> SizeOfText[f.text]]
        /\ UNCHANGED <<hashed, statCache>>
    BY <1>5 DEF TakeStat
  <2>2. f.mtime \in 1..ticks
    BY <1>1, <1>5 DEF MemoryTypes, Stamped
  <2>3. MemoryTypes'
    BY <2>1, <2>2, <1>1, <1>2 DEF MemoryTypes, Sizes
  <2>4. Stamped' /\ HashesAreCurrent' /\ \A o \in Scopes : PathOf(o) \notin touched' => CacheIsRight(o)'
    BY <2>1, <1>1, <1>2 DEF MemoryInv, Stamped, HashesAreCurrent, CacheIsRight
  <2> QED
    BY <2>3, <2>4 DEF MemoryInv
<1> QED
  BY <1>3, <1>4, <1>5

LEMMA HashTextInv == ASSUME MemoryInv, HashText PROVE MemoryInv'
<1>1. MemoryTypes /\ Stamped /\ hashing.on
  BY DEF MemoryInv, HashText
<1>2. PICK s \in Scopes, mtime \in 1..ticks, bytes \in Sizes :
        s = hashing.scope /\ mtime = hashing.mtime /\ bytes = hashing.size
  BY <1>1 DEF MemoryTypes
<1>3. PICK text \in Memories \cup {Erased} : text = memoryFiles[PathOf(s)].text
  BY <1>1, PathsOfScopes DEF MemoryTypes
<1>4. /\ hashing' = NotHashing /\ UNCHANGED <<memoryFiles, ticks, touched>>
      /\ \/ UNCHANGED <<hashed, statCache>>
         \/ /\ hashed' = [hashed EXCEPT ![s] = [hash |-> text, of |-> text]]
            /\ statCache' = [statCache EXCEPT ![s] = [mtime |-> mtime, size |-> bytes, hash |-> text]]
  BY <1>2, <1>3 DEF HashText, Returns
<1>5. MemoryTypes'
  <2>1. hashing'.on = FALSE
    BY <1>4 DEF NotHashing
  <2>2. hashed' \in [Scopes -> [hash : Memories \cup {Erased}, of : Memories \cup {Erased}]]
    BY <1>1, <1>4 DEF MemoryTypes
  <2>3. statCache' \in [Scopes -> [mtime : Nat, size : Sizes \cup {0}, hash : Memories \cup {Erased}]]
    BY <1>1, <1>4 DEF MemoryTypes
  <2> QED
    BY <1>1, <1>4, <2>1, <2>2, <2>3 DEF MemoryTypes
<1>6. Stamped'
  BY <1>1, <1>4 DEF MemoryTypes, Stamped, NoStat
<1>7. HashesAreCurrent'
  BY <1>1, <1>4 DEF MemoryInv, MemoryTypes, HashesAreCurrent
<1>8. \A o \in Scopes : PathOf(o) \notin touched' => CacheIsRight(o)'
  <2> SUFFICES ASSUME NEW o \in Scopes, PathOf(o) \notin touched PROVE CacheIsRight(o)'
    BY <1>4
  <2>1. CacheIsRight(o)
    BY DEF MemoryInv
  <2>2. statCache'[o] = statCache[o] \/ (o = s /\ statCache'[o].hash = text)
    BY <1>1, <1>4 DEF MemoryTypes
  <2> QED
    BY <2>1, <2>2, <1>3, <1>4 DEF CacheIsRight
<1> QED
  BY <1>5, <1>6, <1>7, <1>8 DEF MemoryInv

LEMMA MemoryStepInv == MemoryInv /\ [MemoryNext]_memoryVars => MemoryInv'
<1> SUFFICES ASSUME MemoryInv, [MemoryNext]_memoryVars PROVE MemoryInv'
  OBVIOUS
<1>1. ASSUME NEW s \in Scopes, NEW text \in Memories \cup {Erased}, WriteMemory(s, text) PROVE MemoryInv'
  <2>1. statCache' = [o \in Scopes |-> IF o \in {s} THEN NoStat ELSE statCache[o]]
    BY <1>1 DEF WriteMemory, MemoryInv, MemoryTypes
  <2> QED
    BY <1>1, <2>1, PutInv, PathsOfScopes DEF WriteMemory
<1>2. ASSUME NEW p \in Paths, NEW text \in Memories \cup {Erased}, WriteElsewhere(p, text) PROVE MemoryInv'
  <2>1. statCache' = [o \in Scopes |-> IF o \in {} THEN NoStat ELSE statCache[o]]
    BY <1>2 DEF WriteElsewhere, MemoryInv, MemoryTypes
  <2>2. Scopes \ {} = Scopes
    OBVIOUS
  <2>3. Touch(p, Scopes \ {})
    BY ONLY <1>2, <2>2 DEF WriteElsewhere
  <2>4. {} \in SUBSET Scopes
    OBVIOUS
  <2> QED
    BY <1>2, <2>1, <2>3, <2>4, PutInv DEF WriteElsewhere
<1>3. ASSUME ClockTicks PROVE MemoryInv'
  <2>1. ticks' = ticks + 1 /\ UNCHANGED <<memoryFiles, statCache, hashing, hashed, touched>>
    BY <1>3 DEF ClockTicks
  <2>2. MemoryTypes'
    BY <2>1 DEF MemoryInv, MemoryTypes
  <2>3. Stamped'
    BY <2>1 DEF MemoryInv, MemoryTypes, Stamped
  <2> QED
    BY <2>1, <2>2, <2>3 DEF MemoryInv, HashesAreCurrent, CacheIsRight
<1>4. ASSUME UNCHANGED memoryVars PROVE MemoryInv'
  BY <1>4 DEF memoryVars, MemoryInv, MemoryTypes, Stamped, HashesAreCurrent, CacheIsRight
<1> QED
  BY <1>1, <1>2, <1>3, <1>4, TakeStatInv, HashTextInv DEF MemoryNext

-----------------------------------------------------------------------------
(* The model's client.  What a request was computed of was selected since    *)
(* its call, and so is what may still be asked of the cache.                 *)
CacheEntries == [key : Targets \X Inputs, vector : Targets \X Inputs]
Requests   == [kind : Kinds, state : {"idle", "due", "sent", "answered", "failed"}, input : Inputs,
            attempt : Nat, of : Targets, got : {None} \cup (Targets \X Inputs), selected : SUBSET Targets]

AsksInv ==
  /\ target \in Targets /\ vectors \in Seq(CacheEntries)
  /\ asks \in [Callers -> Requests]
  /\ \A c \in Callers : asks[c].state \in {"due", "sent", "answered"} => target \in asks[c].selected
  /\ \A c \in Callers : asks[c].state = "sent" => asks[c].of \in asks[c].selected
  /\ AnswersAreOfTheirTarget

LEMMA ModelInitInv == ModelInit => AsksInv
<1> SUFFICES ASSUME ModelInit PROVE AsksInv
  OBVIOUS
<1>1. vectors = <<>> /\ vectors \in Seq(CacheEntries) /\ DOMAIN vectors = {}
  BY DEF ModelInit
<1>2. ASSUME NEW c \in Callers PROVE asks[c] = NoCall /\ asks[c].state = "idle" /\ asks[c] \in Requests
  <2>1. (CHOOSE w \in Inputs : TRUE) \in Inputs
    BY LanguageModelAssumption
  <2>2. (CHOOSE t \in Targets : TRUE) \in Targets
    BY DEF ModelInit
  <2>3. NoCall \in Requests
    BY <2>1, <2>2 DEF NoCall, Requests, Kinds
  <2>4. asks[c] = NoCall /\ NoCall.state = "idle"
    BY DEF ModelInit, NoCall
  <2> QED
    BY <2>3, <2>4
<1> QED
  BY <1>1, <1>2 DEF ModelInit, AsksInv, AnswersAreOfTheirTarget

(* Moving an entry to the end, and dropping the first, leave entries that    *)
(* were there or are new.                                                    *)
LEMMA NewestFacts ==
  ASSUME vectors \in Seq(CacheEntries), NEW key, NEW vec, [key |-> key, vector |-> vec] \in CacheEntries
  PROVE  /\ Newest(key, vec) \in Seq(CacheEntries)
         /\ \A i \in DOMAIN Newest(key, vec) :
              \/ Newest(key, vec)[i] = [key |-> key, vector |-> vec]
              \/ \E j \in DOMAIN vectors : Newest(key, vec)[i] = vectors[j]
<1> DEFINE e == [key |-> key, vector |-> vec]
           rest == WithoutKey(key)
<1>1. rest \in Seq(CacheEntries) /\ \A i \in DOMAIN rest : \E j \in DOMAIN vectors : rest[i] = vectors[j]
  <2>1. CASE Cached(key) = {}
    BY <2>1 DEF WithoutKey
  <2>2. CASE Cached(key) # {}
    <3>1. PICK i \in 1..Len(vectors) : i = CHOOSE k \in Cached(key) : TRUE
      BY <2>2 DEF Cached
    <3> DEFINE a == SubSeq(vectors, 1, i - 1)
               b == SubSeq(vectors, i + 1, Len(vectors))
    <3>2. rest = a \o b
      BY <2>2, <3>1 DEF WithoutKey
    <3> DEFINE n == Len(vectors)
    <3>0. n \in Nat /\ i \in 1..n /\ \A k \in 1..n : vectors[k] \in CacheEntries
      BY <3>1
    <3> HIDE DEF n
    <3>3. a \in Seq(CacheEntries) /\ Len(a) = i - 1 /\ \A k \in 1..i - 1 : a[k] = vectors[k]
      <4>1. \A k \in 1..i - 1 : vectors[k] \in CacheEntries
        BY <3>0
      <4>2. 1 \in Int /\ i - 1 \in Int
        BY <3>0
      <4>3. a \in Seq(CacheEntries) /\ Len(a) = (IF 1 <= i - 1 THEN i - 1 - 1 + 1 ELSE 0)
            /\ \A k \in 1..(i - 1) - 1 + 1 : a[k] = vectors[1 + k - 1]
        BY ONLY <4>1, <4>2, SubSeqProperties
      <4> HIDE DEF a
      <4> QED
        BY <4>3, <3>0
    <3>4. b \in Seq(CacheEntries) /\ Len(b) = n - i /\ \A k \in 1..n - i : b[k] = vectors[k + i]
      <4>1. \A k \in i + 1..n : vectors[k] \in CacheEntries
        BY <3>0
      <4>2. i + 1 \in Int /\ n \in Int
        BY <3>0
      <4>3. b = SubSeq(vectors, i + 1, n)
        BY DEF n
      <4>4. b \in Seq(CacheEntries) /\ Len(b) = (IF i + 1 <= n THEN n - (i + 1) + 1 ELSE 0)
            /\ \A k \in 1..n - (i + 1) + 1 : b[k] = vectors[i + 1 + k - 1]
        BY ONLY <4>1, <4>2, <4>3, SubSeqProperties
      <4> HIDE DEF b
      <4> QED
        BY <4>4, <3>0
    <3> HIDE DEF a, b, rest
    <3>5. rest \in Seq(CacheEntries) /\ DOMAIN rest = 1..n - 1
      BY <3>0, <3>2, <3>3, <3>4
    <3>6. \A k \in 1..n - 1 : rest[k] = IF k < i THEN vectors[k] ELSE vectors[k + 1]
      <4> SUFFICES ASSUME NEW k \in 1..n - 1 PROVE rest[k] = IF k < i THEN vectors[k] ELSE vectors[k + 1]
        OBVIOUS
      <4>1. rest[k] = IF k <= i - 1 THEN a[k] ELSE b[k - (i - 1)]
        BY <3>0, <3>2, <3>3, <3>4
      <4> QED
        BY <4>1, <3>0, <3>3, <3>4
    <3>7. DOMAIN vectors = 1..n
      BY DEF n
    <3>8. \A k \in 1..n - 1 : k \in 1..n /\ k + 1 \in 1..n
      BY <3>0
    <3>9. \A k \in DOMAIN rest : \E j \in DOMAIN vectors : rest[k] = vectors[j]
      BY <3>5, <3>6, <3>7, <3>8
    <3> QED
      BY <3>5, <3>9
  <2> QED
    BY <2>1, <2>2
<1>2. Newest(key, vec) = Append(rest, e)
  BY DEF Newest
<1> HIDE DEF rest, e
<1>3. e \in CacheEntries
  BY DEF e
<1>4. Append(rest, e) \in Seq(CacheEntries) /\ DOMAIN Append(rest, e) = 1..Len(rest) + 1
      /\ \A k \in 1..Len(rest) + 1 : Append(rest, e)[k] = IF k \in DOMAIN rest THEN rest[k] ELSE e
  BY <1>1, <1>3
<1> QED
  BY <1>1, <1>2, <1>4 DEF e

LEMMA KeptFacts ==
  ASSUME NEW s \in Seq(CacheEntries)
  PROVE  Kept(s) \in Seq(CacheEntries) /\ \A i \in DOMAIN Kept(s) : \E j \in DOMAIN s : Kept(s)[i] = s[j]
<1>1. CASE Len(s) > CacheSize
  <2>1. s # <<>>
    BY <1>1, LanguageModelAssumption
  <2>2. Tail(s) \in Seq(CacheEntries) /\ Len(Tail(s)) = Len(s) - 1 /\ \A i \in 1..Len(Tail(s)) : Tail(s)[i] = s[i + 1]
    BY <2>1
  <2> QED
    BY <1>1, <2>2 DEF Kept
<1>2. CASE ~(Len(s) > CacheSize)
  BY <1>2 DEF Kept
<1> QED
  BY <1>1, <1>2

(* Every entry of the cache stands under what it was computed from.          *)
Filed(s) == \A i \in DOMAIN s : s[i].vector = s[i].key

LEMMA FiledNewest ==
  ASSUME vectors \in Seq(CacheEntries), Filed(vectors), NEW key \in Targets \X Inputs
  PROVE  /\ Newest(key, key) \in Seq(CacheEntries) /\ Filed(Newest(key, key))
         /\ Kept(Newest(key, key)) \in Seq(CacheEntries) /\ Filed(Kept(Newest(key, key)))
<1>1. [key |-> key, vector |-> key] \in CacheEntries
  BY DEF CacheEntries
<1>2. Newest(key, key) \in Seq(CacheEntries) /\ Filed(Newest(key, key))
  BY <1>1, NewestFacts DEF Filed
<1>3. PICK s \in Seq(CacheEntries) : s = Newest(key, key) /\ Filed(s)
  BY <1>2
<1>4. Kept(s) \in Seq(CacheEntries) /\ Filed(Kept(s))
  BY <1>3, KeptFacts DEF Filed
<1> QED
  BY <1>2, <1>3, <1>4
(* A request changes, and the target and the others stay.                    *)
LEMMA OneAskInv ==
  ASSUME AsksInv, NEW c \in Callers, NEW r \in Requests, asks' = [asks EXCEPT ![c] = r], target' = target,
         r.state \in {"due", "sent", "answered"} => target \in r.selected,
         r.state = "sent" => r.of \in r.selected,
         r.state = "answered" /\ r.got # None => r.got[2] = r.input /\ r.got[1] \in r.selected,
         vectors' \in Seq(CacheEntries), Filed(vectors')
  PROVE  AsksInv'
<1>1. asks' \in [Callers -> Requests] /\ asks'[c] = r /\ \A o \in Callers \ {c} : asks'[o] = asks[o]
  BY DEF AsksInv
<1>2. \A o \in Callers : asks'[o].state = "answered" /\ asks'[o].got # None =>
        asks'[o].got[2] = asks'[o].input /\ asks'[o].got[1] \in asks'[o].selected
  BY <1>1 DEF AsksInv, AnswersAreOfTheirTarget
<1>3. AnswersAreOfTheirTarget'
  BY <1>2 DEF AnswersAreOfTheirTarget, Filed
<1> QED
  BY <1>1, <1>3 DEF AsksInv

LEMMA ModelStepInv == AsksInv /\ [RequestsNext \/ StreamNext]_modelVars => AsksInv'
<1> SUFFICES ASSUME AsksInv, [RequestsNext \/ StreamNext]_modelVars PROVE AsksInv'
  OBVIOUS
<1>0. Filed(vectors) /\ vectors \in Seq(CacheEntries) /\ target \in Targets /\ asks \in [Callers -> Requests]
  BY DEF AsksInv, AnswersAreOfTheirTarget, Filed
<1>1. CASE Switch
  <2>1. PICK t \in Targets : target' = t /\ asks' = [c \in Callers |-> [asks[c] EXCEPT !.selected = @ \cup {t}]]
    BY <1>1 DEF Switch
  <2>2. vectors' = vectors
    BY <1>1 DEF Switch
  <2>3. ASSUME NEW c \in Callers
        PROVE  /\ asks'[c] \in Requests /\ asks'[c].selected = asks[c].selected \cup {t}
               /\ asks'[c].state = asks[c].state /\ asks'[c].of = asks[c].of
               /\ asks'[c].got = asks[c].got /\ asks'[c].input = asks[c].input
    BY <2>1, <1>0 DEF Requests
  <2>4. asks' \in [Callers -> Requests]
    BY <2>1, <2>3
  <2>5. AnswersAreOfTheirTarget'
    BY <2>2, <2>3 DEF AsksInv, AnswersAreOfTheirTarget
  <2> QED
    BY <1>0, <2>1, <2>2, <2>3, <2>4, <2>5 DEF AsksInv
<1>2. ASSUME NEW c \in Callers, Call(c) PROVE AsksInv'
  <2>1. PICK k \in Kinds, w \in Inputs :
          asks' = [asks EXCEPT ![c] = [NoCall EXCEPT !.kind = k, !.state = "due", !.input = w, !.selected = {target}]]
    BY <1>2 DEF Call
  <2> DEFINE r == [NoCall EXCEPT !.kind = k, !.state = "due", !.input = w, !.selected = {target}]
  <2>2. (CHOOSE t \in Targets : TRUE) \in Targets
    BY <1>0
  <2>3. r \in Requests /\ r.state = "due" /\ r.selected = {target}
    BY <2>2, <1>0 DEF NoCall, Requests
  <2>4. vectors' = vectors /\ target' = target
    BY <1>2 DEF Call
  <2>5. PICK x \in Requests : x = r
    BY <2>3
  <2> HIDE DEF r
  <2> QED
    BY <1>0, <2>1, <2>3, <2>4, <2>5, OneAskInv DEF r
<1>3. ASSUME NEW c \in Callers, NEW r \in Requests, r = asks[c],
             Attempt(c) \/ Answered(c) \/ AttemptFails(c) \/ AnswersNothing(c)
      PROVE  AsksInv'
  <2>1. target' = target
    BY <1>3 DEF Attempt, Answered, AttemptFails, AnswersNothing
  <2>2. /\ r.kind \in Kinds /\ r.input \in Inputs /\ r.attempt \in Nat /\ r.of \in Targets
        /\ r.got \in {None} \cup (Targets \X Inputs) /\ r.selected \in SUBSET Targets
    BY DEF Requests
  <2>3. CASE Attempt(c)
    <3> DEFINE key == Vector(target, r.input)
    <3>0. key \in Targets \X Inputs /\ key[1] = target /\ key[2] = r.input
      BY <1>0, <2>2 DEF Vector
    <3> HIDE DEF key
    <3>1. PICK k \in Targets \X Inputs : k = key /\ k[1] = target /\ k[2] = r.input
      BY <3>0
    <3>2. r.state = "due" /\ target \in r.selected
      BY <1>3, <2>3 DEF Attempt, AsksInv
    <3>3. CASE r.kind = "embed" /\ Cached(k) # {}
      <4>1. PICK i \in Cached(k) : i = CHOOSE j \in Cached(key) : TRUE
        BY <3>1, <3>3
      <4>2. i \in DOMAIN vectors /\ vectors[i].key = k /\ vectors[i].vector = k
        BY <1>0 DEF Cached, Filed
      <4> DEFINE x == [r EXCEPT !.state = "answered", !.got = k]
      <4>3. vectors' = Newest(k, k) /\ asks' = [asks EXCEPT ![c] = x]
        <5>1. /\ vectors' = Newest(key, vectors[i].vector)
              /\ asks' = [asks EXCEPT ![c].state = "answered", ![c].got = vectors[i].vector]
          BY <1>3, <2>3, <3>1, <3>3, <4>1 DEF Attempt, key
        <5> QED
          BY <5>1, <3>1, <4>2, <1>3, <1>0 DEF Requests
      <4>4. x \in Requests /\ x.state = "answered" /\ x.got = k /\ x.input = r.input /\ x.selected = r.selected
        BY DEF Requests
      <4>5. PICK y \in Requests : y = x
        BY <4>4
      <4> HIDE DEF x
      <4> QED
        BY <1>0, <2>1, <3>1, <3>2, <4>3, <4>4, <4>5, FiledNewest, OneAskInv
    <3>4. CASE ~(r.kind = "embed" /\ Cached(k) # {})
      <4>0. PICK n \in Nat : n = r.attempt + 1
        BY <2>2
      <4> DEFINE x == [r EXCEPT !.state = "sent", !.of = target, !.attempt = n]
      <4>1. vectors' = vectors /\ asks' = [asks EXCEPT ![c] = x]
        BY <1>3, <2>3, <3>1, <3>4, <4>0 DEF Attempt, Requests, key
      <4>2. x \in Requests /\ x.state = "sent" /\ x.of = target /\ x.selected = r.selected
        BY <1>0, <2>2 DEF Requests
      <4>3. PICK y \in Requests : y = x
        BY <4>2
      <4> HIDE DEF x
      <4> QED
        BY <1>0, <2>1, <3>2, <4>1, <4>2, <4>3, OneAskInv
    <3> QED
      BY <3>3, <3>4
  <2>4. CASE Answered(c)
    <3>0. Vector(r.of, r.input) \in Targets \X Inputs /\ Vector(r.of, r.input)[1] = r.of
          /\ Vector(r.of, r.input)[2] = r.input
      BY <2>2 DEF Vector
    <3>1. PICK k \in Targets \X Inputs : k = Vector(r.of, r.input) /\ k[1] = r.of /\ k[2] = r.input
      BY <3>0
    <3>2. r.state = "sent" /\ target \in r.selected /\ r.of \in r.selected
      BY <1>3, <2>4 DEF Answered, AsksInv
    <3> DEFINE x == [r EXCEPT !.state = "answered", !.got = k]
    <3>3. asks' = [asks EXCEPT ![c] = x] /\ (vectors' = vectors \/ vectors' = Kept(Newest(k, k)))
      BY <1>3, <2>4, <3>1 DEF Answered, KeyOf, Requests
    <3>4. x \in Requests /\ x.state = "answered" /\ x.got = k /\ x.input = r.input /\ x.selected = r.selected
      BY DEF Requests
    <3>5. PICK y \in Requests : y = x
      BY <3>4
    <3> HIDE DEF x
    <3> QED
      BY <1>0, <2>1, <3>1, <3>2, <3>3, <3>4, <3>5, FiledNewest, OneAskInv
  <2>5. CASE AttemptFails(c)
    <3>1. PICK st \in {"due", "failed"} : st = IF r.attempt < MaxAttempts THEN "due" ELSE "failed"
      OBVIOUS
    <3> DEFINE x == [r EXCEPT !.state = st]
    <3>2. asks' = [asks EXCEPT ![c] = x] /\ vectors' = vectors /\ target \in r.selected
      BY <1>3, <2>5, <3>1 DEF AttemptFails, AsksInv
    <3>3. x \in Requests /\ x.state = st /\ x.selected = r.selected
      BY DEF Requests
    <3>4. PICK y \in Requests : y = x
      BY <3>3
    <3> HIDE DEF x
    <3> QED
      BY <1>0, <2>1, <3>2, <3>3, <3>4, OneAskInv
  <2>6. CASE AnswersNothing(c)
    <3> DEFINE x == [r EXCEPT !.state = "answered", !.got = None]
    <3>1. asks' = [asks EXCEPT ![c] = x] /\ vectors' = vectors /\ target \in r.selected
      BY <1>3, <2>6 DEF AnswersNothing, AsksInv
    <3>2. x \in Requests /\ x.state = "answered" /\ x.got = None /\ x.selected = r.selected
      BY DEF Requests
    <3>3. PICK y \in Requests : y = x
      BY <3>2
    <3> HIDE DEF x
    <3> QED
      BY <1>0, <2>1, <3>1, <3>2, <3>3, OneAskInv
  <2> QED
    BY <1>3, <2>3, <2>4, <2>5, <2>6
<1>4. CASE StreamNext \/ UNCHANGED modelVars
  <2>1. UNCHANGED <<target, vectors, asks>>
    BY <1>4 DEF StreamNext, EndOfStream, Fragment, modelVars
  <2> QED
    BY <2>1 DEF AsksInv, AnswersAreOfTheirTarget
<1>5. ASSUME NEW c \in Callers, Attempt(c) \/ Answered(c) \/ AttemptFails(c) \/ AnswersNothing(c) PROVE AsksInv'
  <2>1. PICK r \in Requests : r = asks[c]
    BY <1>0
  <2> QED
    BY <1>3, <1>5, <2>1
<1> QED
  BY <1>1, <1>2, <1>4, <1>5 DEF RequestsNext

-----------------------------------------------------------------------------
(* The evaluation.  Each result tells what it was decided by, and the stage  *)
(* of the run how many results there are.                                    *)
Failed    == [NoJudgment EXCEPT !.made = TRUE, !.error = TRUE]
AllJudged == {NoJudgment, Failed} \cup Judgments
Results   == [verdict : Verdicts, score : Scores, judgment : AllJudged, answer : Answers, transcript : SUBSET Nat]

ResultIsRight(i) ==
  LET r == results[i] IN
    /\ r \in Results
    /\ r.verdict = Verdict(i, r.answer, r.judgment) /\ r.score = ScoreOf(i, r.answer, r.judgment)
    /\ r.transcript = {i}

RunStands ==
  /\ evalStage \in {"load", "ask", "judge", "report", "written", "raised"}
  /\ plan \subseteq Legible /\ DOMAIN results \subseteq plan
  /\ evalStage \notin {"load", "raised"} => plan = Resolved /\ (only = 0 \/ Resolved # {})
  /\ evalStage = "load" => DOMAIN results = {}
  /\ evalStage = "judge" => asked \in Unasked /\ known = {asked}
  /\ evalStage \in {"report", "written"} => DOMAIN results = plan

EvalInv ==
  /\ script \in Seq(Script) /\ only \in 0..Len(script) /\ heard \in Answers
  /\ judging \in {"off", "model", "heuristic"}
  /\ RunStands /\ \A i \in DOMAIN results : ResultIsRight(i)
  /\ exit # NotYet => chat # "open" /\ evalStage \in {"written", "raised"}
  /\ exit = 0 => evalStage = "written" /\ \A i \in DOMAIN results : results[i].verdict # "fail"

LEMMA JudgedFacts == ASSUME judging \in {"off", "model", "heuristic"} PROVE Judged \subseteq AllJudged
  BY DEF Judged, AllJudged, Failed

LEMMA JudgmentFacts ==
  ASSUME NEW j \in AllJudged
  PROVE  /\ j.made \in BOOLEAN /\ j.pass \in BOOLEAN /\ j.error \in BOOLEAN /\ j.score \in Scores
         /\ j.error => ~j.pass
<1>1. CASE j \in Judgments
  BY <1>1 DEF Judgments
<1>2. CASE j = NoJudgment
  BY <1>2 DEF NoJudgment, Scores
<1>3. CASE j = Failed
  BY <1>3 DEF Failed, NoJudgment, Scores
<1> QED
  BY <1>1, <1>2, <1>3 DEF AllJudged

LEMMA VerdictFacts ==
  ASSUME NEW i, NEW a \in Answers, NEW j \in AllJudged
  PROVE  /\ Verdict(i, a, j) \in Verdicts /\ ScoreOf(i, a, j) \in Scores
         /\ script[i].golden = "snapshot" =>
              /\ Verdict(i, a, j) = IF a.equal THEN "pass" ELSE "fail"
              /\ ScoreOf(i, a, j) = IF a.equal THEN 2 ELSE 0
         /\ script[i].golden # "snapshot" /\ j.made =>
              /\ Verdict(i, a, j) = IF j.pass /\ j.score >= script[i].minimum THEN "pass" ELSE "fail"
              /\ ScoreOf(i, a, j) = j.score
<1>1. j.score \in Scores
  BY JudgmentFacts
<1>2. ScoreOf(i, a, j) \in Scores
  BY <1>1 DEF ScoreOf, Scores
<1>3. Verdict(i, a, j) \in Verdicts
  BY DEF Verdict, Verdicts
<1>4. script[i].golden = "snapshot" =>
        /\ Verdict(i, a, j) = IF a.equal THEN "pass" ELSE "fail"
        /\ ScoreOf(i, a, j) = IF a.equal THEN 2 ELSE 0
  BY DEF Verdict, ScoreOf, Goldenless
<1>5. script[i].golden # "snapshot" /\ j.made =>
        /\ Verdict(i, a, j) = IF j.pass /\ j.score >= script[i].minimum THEN "pass" ELSE "fail"
        /\ ScoreOf(i, a, j) = j.score
  BY DEF Verdict, ScoreOf, Goldenless
<1> QED
  BY <1>2, <1>3, <1>4, <1>5

LEMMA EvalInitInv == EvalInit => EvalInv
<1> SUFFICES ASSUME EvalInit PROVE EvalInv
  OBVIOUS
<1>1. script \in Seq(Script) /\ only \in 0..Len(script)
  BY SeqDef DEF EvalInit
<1>2. DOMAIN results = {} /\ plan = {}
  BY DEF EvalInit
<1>3. heard \in Answers
  BY DEF EvalInit, NoAnswer, Answers
<1>4. RunStands
  BY <1>2 DEF EvalInit, RunStands
<1> QED
  BY <1>1, <1>2, <1>3, <1>4 DEF EvalInit, EvalInv, NotYet

(* A result is added to those of the scenarios before, and is that of the    *)
(* scenario just asked.                                                      *)
LEMMA JudgeInv == ASSUME EvalInv, Judge PROVE EvalInv'
<1> DEFINE r(j) == [verdict |-> Verdict(asked, heard, j), score |-> ScoreOf(asked, heard, j),
                    judgment |-> j, answer |-> heard, transcript |-> known]
<1>1. PICK j \in AllJudged :
        results' = [i \in DOMAIN results \cup {asked} |-> IF i # asked THEN results[i] ELSE r(j)]
  BY JudgedFacts DEF Judge, EvalInv
<1>2. /\ evalStage = "judge" /\ heard \in Answers /\ asked \in Unasked /\ known = {asked}
      /\ UNCHANGED <<script, only, plan, judging, asked, known, heard, chat, exit>>
      /\ evalStage' = IF Unasked = {asked} THEN "report" ELSE "ask"
  BY DEF EvalInv, RunStands, Judge
<1>3. asked \in plan /\ asked \notin DOMAIN results /\ asked \in Nat
  BY <1>2 DEF Unasked, EvalInv, RunStands, Legible
<1>4. r(j) \in Results
  BY <1>2, <1>3, VerdictFacts DEF Results
<1> HIDE DEF r
<1>5. DOMAIN results' = DOMAIN results \cup {asked}
  BY <1>1
<1>6. results'[asked] = r(j) /\ \A i \in DOMAIN results : results'[i] = results[i]
  BY <1>1, <1>3
<1>7. /\ r(j).verdict = Verdict(asked, r(j).answer, r(j).judgment) /\ r(j).transcript = {asked}
      /\ r(j).score = ScoreOf(asked, r(j).answer, r(j).judgment)
  BY <1>2 DEF r
<1>8. ASSUME NEW i \in DOMAIN results' PROVE ResultIsRight(i)'
  <2>1. CASE i = asked
    BY <1>2, <1>4, <1>6, <1>7, <2>1 DEF ResultIsRight, Verdict, ScoreOf, Goldenless
  <2>2. CASE i # asked
    <3>1. ResultIsRight(i) /\ results'[i] = results[i]
      BY <1>5, <1>6, <2>2 DEF EvalInv
    <3> QED
      BY <3>1, <1>2 DEF ResultIsRight, Verdict, ScoreOf, Goldenless
  <2> QED
    BY <2>1, <2>2
<1>9. Resolved' = Resolved /\ Legible' = Legible
  BY <1>2 DEF Resolved, Legible
<1>10. plan = Resolved /\ (only = 0 \/ Resolved # {}) /\ plan \subseteq Legible /\ DOMAIN results \subseteq plan
  BY <1>2 DEF EvalInv, RunStands
<1>11. RunStands'
  BY <1>2, <1>3, <1>5, <1>9, <1>10 DEF RunStands, Unasked
<1>12. exit = NotYet
  BY <1>2 DEF EvalInv
<1> QED
  BY <1>2, <1>8, <1>11, <1>12 DEF EvalInv, NotYet

LEMMA EvalStepInv == EvalInv /\ [EvalNext]_evalVars => EvalInv'
<1> SUFFICES ASSUME EvalInv, [EvalNext]_evalVars PROVE EvalInv'
  OBVIOUS
<1>0. ASSUME UNCHANGED <<script, results>> PROVE \A i \in DOMAIN results' : ResultIsRight(i)'
  BY <1>0 DEF EvalInv, ResultIsRight, Verdict, ScoreOf, Goldenless
<1>1. ASSUME UNCHANGED <<script, only>> PROVE Resolved' = Resolved /\ Legible' = Legible
  BY <1>1 DEF Resolved, Legible
<1>2. CASE LoadScenarios
  <2>1. /\ UNCHANGED <<script, only, judging, heard, results, exit>> /\ DOMAIN results = {} /\ exit = NotYet
        /\ evalStage' \in {"ask", "report", "raised"}
    BY <1>2 DEF LoadScenarios, EvalInv, RunStands
  <2>2. Resolved \subseteq Legible
    BY DEF Resolved
  <2>3. RunStands'
    <3>1. CASE evalStage' = "raised"
      BY <1>1, <1>2, <2>1, <3>1 DEF LoadScenarios, EvalInv, RunStands
    <3>2. CASE evalStage' # "raised"
      BY <1>1, <1>2, <2>1, <2>2, <3>2 DEF LoadScenarios, RunStands
    <3> QED
      BY <3>1, <3>2
  <2> QED
    BY <1>0, <2>1, <2>3 DEF EvalInv, NotYet
<1>3. CASE Ask
  <2>1. /\ asked' \in Unasked /\ known' = {asked'} /\ heard' \in Answers /\ evalStage' \in {"judge", "raised"}
        /\ UNCHANGED <<script, only, plan, judging, results, chat, exit>> /\ exit = NotYet /\ evalStage = "ask"
    BY <1>3 DEF Ask, EvalInv
  <2>2. Unasked' = Unasked
    BY <2>1 DEF Unasked
  <2>3. RunStands'
    BY <1>1, <2>1, <2>2 DEF EvalInv, RunStands
  <2> QED
    BY <1>0, <2>1, <2>3 DEF EvalInv, NotYet
<1>4. CASE CloseChat
  <2>1. Unasked' = Unasked
    BY <1>4 DEF CloseChat, Unasked
  <2>2. RunStands'
    BY <1>1, <1>4, <2>1 DEF CloseChat, EvalInv, RunStands
  <2> QED
    BY <1>0, <1>4, <2>2 DEF CloseChat, EvalInv
<1>5. CASE WriteReport
  <2>1. RunStands'
    BY <1>1, <1>5 DEF WriteReport, EvalInv, RunStands
  <2> QED
    BY <1>0, <1>5, <2>1 DEF WriteReport, EvalInv
<1>6. CASE Exit
  <2>1. RunStands'
    BY <1>1, <1>6 DEF Exit, EvalInv, RunStands
  <2>2. exit' = 0 => evalStage = "written" /\ \A i \in DOMAIN results : results[i].verdict # "fail"
    BY <1>6 DEF Exit
  <2> QED
    BY <1>0, <1>6, <2>1, <2>2 DEF Exit, EvalInv
<1>7. CASE UNCHANGED evalVars
  <2>1. Unasked' = Unasked
    BY <1>7 DEF evalVars, Unasked
  <2>2. RunStands'
    BY <1>1, <1>7, <2>1 DEF evalVars, EvalInv, RunStands
  <2> QED
    BY <1>0, <1>7, <2>2 DEF evalVars, EvalInv
<1> QED
  BY <1>2, <1>3, <1>4, <1>5, <1>6, <1>7, JudgeInv DEF EvalNext

LEMMA ScriptGolden == ASSUME NEW e \in Script PROVE e.golden \in Goldens
<1>1. CASE e = Skipped
  BY <1>1 DEF Skipped, Goldens
<1>2. CASE e # Skipped
  <2>1. e \in [named : {TRUE}, golden : Goldens, minimum : MinScores, tool : BOOLEAN]
    BY <1>2 DEF Script
  <2> QED
    BY <2>1
<1> QED
  BY <1>1, <1>2

LEMMA EvalInvVerdicts == EvalInv => VerdictsAreRight
<1> SUFFICES ASSUME EvalInv PROVE VerdictsAreRight
  OBVIOUS
<1>1. ASSUME NEW i \in DOMAIN results
      PROVE  results[i] \in Results /\ ResultIsRight(i) /\ script[i].golden \in Goldens /\ i \in Legible
  <2>1. i \in Legible /\ script \in Seq(Script) /\ ResultIsRight(i)
    BY DEF EvalInv, RunStands
  <2>2. script[i] \in Script
    BY <2>1 DEF Legible
  <2>3. script[i].golden \in Goldens
    BY <2>2, ScriptGolden
  <2> QED
    BY <2>1, <2>3 DEF ResultIsRight
<1>2. ASSUME NEW i \in DOMAIN results
      PROVE  /\ script[i].golden = "snapshot" =>
                  /\ results[i].verdict = IF results[i].answer.equal THEN "pass" ELSE "fail"
                  /\ results[i].score = IF results[i].answer.equal THEN 2 ELSE 0
             /\ script[i].golden # "snapshot" /\ results[i].judgment.made =>
                  /\ results[i].verdict =
                       IF results[i].judgment.pass /\ results[i].score >= script[i].minimum THEN "pass" ELSE "fail"
             /\ results[i].judgment.error => ~results[i].judgment.pass
  <2>1. PICK a \in Answers, j \in AllJudged : a = results[i].answer /\ j = results[i].judgment
    BY <1>1 DEF Results
  <2>2. results[i].verdict = Verdict(i, a, j) /\ results[i].score = ScoreOf(i, a, j)
    BY <1>1, <2>1 DEF ResultIsRight
  <2> QED
    BY <2>1, <2>2, VerdictFacts, JudgmentFacts
<1>3. ASSUME exit = 0
      PROVE  /\ evalStage = "written"
             /\ \A i \in DOMAIN script : (IF only = 0 THEN script[i].named ELSE i = only) <=> i \in DOMAIN results
  <2>1. evalStage = "written" /\ DOMAIN results = Resolved /\ (only = 0 \/ Resolved # {})
    BY <1>3 DEF EvalInv, RunStands
  <2>2. CASE only = 0
    BY <2>1, <2>2 DEF Resolved, Legible
  <2>3. CASE only # 0
    <3>1. Resolved = {only}
      BY <2>1, <2>3 DEF Resolved
    <3> QED
      BY <2>1, <2>3, <3>1
  <2> QED
    BY <2>1, <2>2, <2>3
<1>4. ASSUME exit = 0
      PROVE  \A i \in DOMAIN results :
               LET r == results[i] IN
                 /\ script[i].golden = "snapshot" => r.answer.equal /\ r.score = 2
                 /\ script[i].golden # "snapshot" /\ r.judgment.made =>
                      ~r.judgment.error /\ r.judgment.pass /\ r.score >= script[i].minimum
  BY <1>1, <1>2, <1>4 DEF EvalInv
<1>5. \A i \in DOMAIN results : results[i].transcript = {i}
  BY DEF EvalInv, ResultIsRight
<1>6. exit # NotYet => chat # "open"
  BY DEF EvalInv
<1>7. ASSUME GoldenSmoke, NEW i \in DOMAIN results, script[i].golden \notin {"none", "null"}
      PROVE  results[i].verdict = (IF results[i].answer.equal THEN "pass" ELSE "fail")
  <2>1. script[i].golden = "snapshot"
    BY <1>1, <1>7 DEF GoldenSmoke, Goldens
  <2> QED
    BY <2>1, <1>2
<1> QED
  BY <1>3, <1>4, <1>5, <1>6, <1>7 DEF VerdictsAreRight

-----------------------------------------------------------------------------
(* The rewards.  A context is no worse than another if it has all its virtues *)
(* and none but its faults; a score only grows with it.                      *)
NoWorse(m, c) ==
  /\ \A v \in Virtues : v \in c.true => v \in m.true
  /\ \A f \in Faults : f \in m.true => f \in c.true
  /\ "error" \in c.true <=> "error" \in m.true
  /\ m.attempt = c.attempt /\ m.halves = c.halves

Evaluated == {"response", "tool_call", "tool_result", "error", "retry", "refusal", "feedback"}

LEMMA DimensionsAre ==
  Dimensions = {"nishkama", "yoga", "guna_karma", "akarma", "uddhara", "shanti", "samaarpana"}
BY DEF Dimensions, Weights

LEMMA FlagsAre ==
  /\ {"handled_gracefully", "is_retry", "precision", "tool_name", "correct_classification", "organized_output",
      "automated_process", "behind_the_scenes_work", "learning_occurred", "self_correction", "improvement",
      "calm_response", "impartial", "ethical_refusal", "is_legitimate_refusal", "deferred_to_human", "content",
      "retry_possible", "liked", "helpful", "messages"} \subseteq Virtues
  /\ {"frustration", "blames_external", "invalid_args", "slow", "misclassification", "unnecessary_action",
      "missed_optimization", "degradation", "bias", "agitation", "harmful_action", "exceeded_authority", "failed",
      "disliked", "unhelpful"} \subseteq Faults
BY DEF Virtues, Faults

Grows(x, y) == x \in Int /\ y \in Int /\ x <= y
GainGrows(c, m, f, n) == Grows(Gain(c, f, n), Gain(m, f, n))

LEMMA GainsGrow ==
  ASSUME NEW c, NEW m, NoWorse(m, c)
  PROVE  /\ \A v \in Virtues, n \in Nat : GainGrows(c, m, v, n)
         /\ \A f \in Faults, n \in Int : n <= 0 => GainGrows(c, m, f, n)
BY DEF NoWorse, Gain, If, Grows, GainGrows

LEMMA OwnGains ==
  ASSUME NEW c \in Contexts, NEW m \in Contexts, NoWorse(m, c)
  PROVE  Grows(ErrorGain(c), ErrorGain(m)) /\ Grows(TokenGain(c), TokenGain(m))
<1>1. Grows(ErrorGain(c), ErrorGain(m))
  <2>1. "handled_gracefully" \in Virtues
    BY FlagsAre
  <2> QED
    BY <2>1 DEF ErrorGain, NoWorse, If, Grows
<1>2. Grows(TokenGain(c), TokenGain(m))
  BY DEF TokenGain, NoWorse, If, Grows, Contexts
<1> QED
  BY <1>1, <1>2

LEMMA AdjustmentGrows ==
  ASSUME NEW c \in Contexts, NEW m \in Contexts, NoWorse(m, c), NEW d \in Dimensions
  PROVE  Grows(Adjustment(d, c), Adjustment(d, m))
<1>0. /\ \A v \in Virtues, n \in Nat : GainGrows(c, m, v, n)
      /\ \A f \in Faults, n \in Int : n <= 0 => GainGrows(c, m, f, n)
  BY GainsGrow
<1>1. CASE d = "nishkama"
  <2>1. /\ GainGrows(c, m, "is_retry", 30)
        /\ GainGrows(c, m, "frustration", -50)
        /\ GainGrows(c, m, "blames_external", -40)
    BY <1>0, FlagsAre
  <2> QED
    BY <1>1, <2>1, OwnGains DEF Adjustment, GainGrows, Grows
<1>2. CASE d = "yoga"
  <2>1. /\ GainGrows(c, m, "invalid_args", -30)
        /\ GainGrows(c, m, "slow", -20)
        /\ GainGrows(c, m, "precision", 20)
    BY <1>0, FlagsAre
  <2> QED
    BY <1>2, <2>1, OwnGains DEF Adjustment, GainGrows, Grows
<1>3. CASE d = "guna_karma"
  <2>1. /\ GainGrows(c, m, "tool_name", 20)
        /\ GainGrows(c, m, "correct_classification", 30)
        /\ GainGrows(c, m, "misclassification", -40)
        /\ GainGrows(c, m, "organized_output", 20)
    BY <1>0, FlagsAre
  <2> QED
    BY <1>3, <2>1, OwnGains DEF Adjustment, GainGrows, Grows
<1>4. CASE d = "akarma"
  <2>1. /\ GainGrows(c, m, "automated_process", 30)
        /\ GainGrows(c, m, "behind_the_scenes_work", 20)
        /\ GainGrows(c, m, "unnecessary_action", -40)
        /\ GainGrows(c, m, "missed_optimization", -20)
    BY <1>0, FlagsAre
  <2> QED
    BY <1>4, <2>1, OwnGains DEF Adjustment, GainGrows, Grows
<1>5. CASE d = "uddhara"
  <2>1. /\ GainGrows(c, m, "learning_occurred", 40)
        /\ GainGrows(c, m, "self_correction", 50)
        /\ GainGrows(c, m, "improvement", 30)
        /\ GainGrows(c, m, "degradation", -50)
    BY <1>0, FlagsAre
  <2> QED
    BY <1>5, <2>1, OwnGains DEF Adjustment, GainGrows, Grows
<1>6. CASE d = "shanti"
  <2>1. /\ GainGrows(c, m, "handled_gracefully", 30)
        /\ GainGrows(c, m, "calm_response", 30)
        /\ GainGrows(c, m, "bias", -50)
        /\ GainGrows(c, m, "agitation", -40)
        /\ GainGrows(c, m, "impartial", 20)
    BY <1>0, FlagsAre
  <2> QED
    BY <1>6, <2>1, OwnGains DEF Adjustment, GainGrows, Grows
<1>7. CASE d = "samaarpana"
  <2>1. /\ GainGrows(c, m, "ethical_refusal", 50)
        /\ GainGrows(c, m, "is_legitimate_refusal", 30)
        /\ GainGrows(c, m, "harmful_action", -70)
        /\ GainGrows(c, m, "exceeded_authority", -50)
        /\ GainGrows(c, m, "deferred_to_human", 40)
    BY <1>0, FlagsAre
  <2> QED
    BY <1>7, <2>1, OwnGains DEF Adjustment, GainGrows, Grows
<1> QED
  BY DimensionsAre, <1>1, <1>2, <1>3, <1>4, <1>5, <1>6, <1>7

LEMMA BaseGrows ==
  ASSUME NEW c \in Contexts, NEW m \in Contexts, NoWorse(m, c), NEW d \in Dimensions
  PROVE  /\ \A act \in Evaluated : Grows(Base(act, c)[d], Base(act, m)[d])
         /\ Grows(SessionEnd(c)[d], SessionEnd(m)[d])
<1>0. /\ d \in {"nishkama", "yoga", "guna_karma", "akarma", "uddhara", "shanti", "samaarpana"}
      /\ m.attempt = c.attempt /\ c.attempt \in 1..6
  BY DimensionsAre DEF Contexts, NoWorse
<1>1. Grows(ResponseBase(c)[d], ResponseBase(m)[d])
  <2>1. ("content" \in c.true => "content" \in m.true)
    BY FlagsAre DEF NoWorse
  <2> QED
    BY <1>0, <2>1 DEF ResponseBase, Seven, If, Grows
<1>2. Grows(ToolCallBase(c)[d], ToolCallBase(m)[d])
  <2>1. ("invalid_args" \in m.true => "invalid_args" \in c.true)
    BY FlagsAre DEF NoWorse
  <2> QED
    BY <1>0, <2>1 DEF ToolCallBase, Seven, If, Grows
<1>3. Grows(ToolResultBase(c)[d], ToolResultBase(m)[d])
  <2>1. ("failed" \in m.true => "failed" \in c.true)
    BY FlagsAre DEF NoWorse
  <2> QED
    BY <1>0, <2>1 DEF ToolResultBase, Seven, If, Grows
<1>4. Grows(ErrorBase(c)[d], ErrorBase(m)[d])
  <2>1. ("handled_gracefully" \in c.true => "handled_gracefully" \in m.true) /\ ("retry_possible" \in c.true => "retry_possible" \in m.true)
    BY FlagsAre DEF NoWorse
  <2> QED
    BY <1>0, <2>1 DEF ErrorBase, Seven, If, Grows
<1>5. Grows(RetryBase(c)[d], RetryBase(m)[d])
  <2>1. ("failed" \in m.true => "failed" \in c.true)
    BY FlagsAre DEF NoWorse
  <2> QED
    BY <1>0, <2>1 DEF RetryBase, Seven, If, Grows
<1>6. Grows(RefusalBase(c)[d], RefusalBase(m)[d])
  <2>1. ("is_legitimate_refusal" \in c.true => "is_legitimate_refusal" \in m.true)
    BY FlagsAre DEF NoWorse
  <2> QED
    BY <1>0, <2>1 DEF RefusalBase, Seven, If, Grows
<1>7. Grows(FeedbackBase(c)[d], FeedbackBase(m)[d])
  <2>1. ("liked" \in c.true => "liked" \in m.true) /\ ("disliked" \in m.true => "disliked" \in c.true) /\ ("helpful" \in c.true => "helpful" \in m.true) /\ ("unhelpful" \in m.true => "unhelpful" \in c.true)
    BY FlagsAre DEF NoWorse
  <2> QED
    BY <1>0, <2>1 DEF FeedbackBase, Seven, If, Grows
<1>8. Grows(SessionEnd(c)[d], SessionEnd(m)[d])
  <2>1. ("messages" \in c.true => "messages" \in m.true)
    BY FlagsAre DEF NoWorse
  <2> QED
    BY <1>0, <2>1 DEF SessionEnd, Seven, If, Grows
<1>9. ASSUME NEW act \in Evaluated PROVE Grows(Base(act, c)[d], Base(act, m)[d])
  BY <1>1, <1>2, <1>3, <1>4, <1>5, <1>6, <1>7 DEF Evaluated, Base
<1> QED
  BY <1>8, <1>9

LEMMA ScoreGrows ==
  ASSUME NEW c \in Contexts, NEW m \in Contexts, NoWorse(m, c), NEW d \in Dimensions, NEW act \in Actions
  PROVE  /\ Grows(Score(act, c, d), Score(act, m, d))
         /\ Score(act, c, d) \in -100..100
<1>1. CASE act \in Evaluated
  <2> DEFINE x == Base(act, c)[d] + Adjustment(d, c)
             y == Base(act, m)[d] + Adjustment(d, m)
  <2>1. Grows(Base(act, c)[d], Base(act, m)[d]) /\ Grows(Adjustment(d, c), Adjustment(d, m))
    BY <1>1, BaseGrows, AdjustmentGrows
  <2>2. Grows(x, y)
    BY <2>1 DEF Grows
  <2>3. Score(act, c, d) = Clamp(x) /\ Score(act, m, d) = Clamp(y)
    BY <1>1 DEF Score, Evaluated
  <2> HIDE DEF x, y
  <2> QED
    BY <2>2, <2>3 DEF Grows, Clamp, If
<1>2. CASE act = "session_end"
  <2>1. Grows(SessionEnd(c)[d], SessionEnd(m)[d])
    BY BaseGrows
  <2>2. Score(act, c, d) = SessionEnd(c)[d] /\ Score(act, m, d) = SessionEnd(m)[d]
    BY <1>2 DEF Score
  <2>3. SessionEnd(c)[d] \in -100..100
    <3>1. d \in {"nishkama", "yoga", "guna_karma", "akarma", "uddhara", "shanti", "samaarpana"}
      BY DimensionsAre
    <3> QED
      BY <3>1 DEF SessionEnd, Seven, If
  <2> QED
    BY <2>1, <2>2, <2>3
<1>3. CASE act \in {"session_start", "unknown"}
  BY <1>3 DEF Score, Grows
<1> QED
  BY <1>1, <1>2, <1>3 DEF Actions, Evaluated

Weighs(x, y, n) == Grows(x, y) /\ -n <= x /\ x <= n

LEMMA WeightsAdd ==
  ASSUME NEW x, NEW y, NEW v, NEW w, NEW n \in Nat, NEW k \in Nat, Weighs(x, y, n), Weighs(v, w, k)
  PROVE  Weighs(x + v, y + w, n + k)
BY DEF Weighs, Grows

LEMMA InRangeIs == ASSUME NEW x \in Int, -6700 <= x, x <= 6700 PROVE InRange(x)
BY SMTT(30) DEF InRange

LEMMA TotalGrows ==
  ASSUME NEW c \in Contexts, NEW m \in Contexts, NoWorse(m, c), NEW act \in Actions
  PROVE  Grows(Total(act, c), Total(act, m)) /\ InRange(Total(act, c))
<1>1. /\ Weights["nishkama"] = 12 /\ Weights["yoga"] = 10 /\ Weights["guna_karma"] = 8 /\ Weights["akarma"] = 7
      /\ Weights["uddhara"] = 9 /\ Weights["shanti"] = 10 /\ Weights["samaarpana"] = 11
  BY DEF Weights
<1> DEFINE S(d) == Grows(Score(act, c, d), Score(act, m, d)) /\ Score(act, c, d) \in -100..100
<1>2. S("nishkama") /\ S("yoga") /\ S("guna_karma") /\ S("akarma") /\ S("uddhara") /\ S("shanti") /\ S("samaarpana")
  BY ScoreGrows, DimensionsAre
<1> HIDE DEF S
<1> DEFINE w(d) == Weighed(act, c, d)
           g(d) == Weighed(act, m, d)
<1>3. Weighs(w("nishkama"), g("nishkama"), 1200)
  BY <1>1, <1>2 DEF S, Weighed, Grows, Weighs
<1>4. Weighs(w("yoga"), g("yoga"), 1000)
  BY <1>1, <1>2 DEF S, Weighed, Grows, Weighs
<1>5. Weighs(w("guna_karma"), g("guna_karma"), 800)
  BY <1>1, <1>2 DEF S, Weighed, Grows, Weighs
<1>6. Weighs(w("akarma"), g("akarma"), 700)
  BY <1>1, <1>2 DEF S, Weighed, Grows, Weighs
<1>7. Weighs(w("uddhara"), g("uddhara"), 900)
  BY <1>1, <1>2 DEF S, Weighed, Grows, Weighs
<1>8. Weighs(w("shanti"), g("shanti"), 1000)
  BY <1>1, <1>2 DEF S, Weighed, Grows, Weighs
<1>9. Weighs(w("samaarpana"), g("samaarpana"), 1100)
  BY <1>1, <1>2 DEF S, Weighed, Grows, Weighs
<1> HIDE DEF w, g
<1>10. Weighs(w("nishkama") + w("yoga"),
         g("nishkama") + g("yoga"), 2200)
  BY <1>3, <1>4, WeightsAdd
<1>11. Weighs(w("nishkama") + w("yoga") + w("guna_karma"),
         g("nishkama") + g("yoga") + g("guna_karma"), 3000)
  BY <1>10, <1>5, WeightsAdd
<1>12. Weighs(w("nishkama") + w("yoga") + w("guna_karma") + w("akarma"),
         g("nishkama") + g("yoga") + g("guna_karma") + g("akarma"), 3700)
  BY <1>11, <1>6, WeightsAdd
<1>13. Weighs(w("nishkama") + w("yoga") + w("guna_karma") + w("akarma") + w("uddhara"),
         g("nishkama") + g("yoga") + g("guna_karma") + g("akarma") + g("uddhara"), 4600)
  BY <1>12, <1>7, WeightsAdd
<1>14. Weighs(w("nishkama") + w("yoga") + w("guna_karma") + w("akarma") + w("uddhara") + w("shanti"),
         g("nishkama") + g("yoga") + g("guna_karma") + g("akarma") + g("uddhara") + g("shanti"), 5600)
  BY <1>13, <1>8, WeightsAdd
<1>15. Weighs(w("nishkama") + w("yoga") + w("guna_karma") + w("akarma") + w("uddhara") + w("shanti") + w("samaarpana"),
         g("nishkama") + g("yoga") + g("guna_karma") + g("akarma") + g("uddhara") + g("shanti") + g("samaarpana"), 6700)
  BY <1>14, <1>9, WeightsAdd
<1>16. Weighs(Total(act, c), Total(act, m), 6700)
  BY <1>15 DEF Total, w, g
<1>17. Grows(Total(act, c), Total(act, m)) /\ -6700 <= Total(act, c) /\ Total(act, c) <= 6700
  BY <1>16 DEF Weighs
<1>18. Total(act, c) \in Int
  BY <1>17 DEF Grows
<1>19. InRange(Total(act, c))
  BY <1>17, <1>18, InRangeIs
<1> QED
  BY <1>17, <1>19

LEMMA ScoresFair ==
  ASSUME RewardTypeOK
  PROVE  ScoresAreFair
<1>1. action \in Actions /\ context \in Contexts
  BY DEF RewardTypeOK
<1>2. NoWorse(context, context)
  BY DEF NoWorse
<1>3. InRange(Total(action, context))
  BY <1>1, <1>2, TotalGrows
<1>4. ASSUME NEW f \in Virtues \cup Faults, f \notin context.true PROVE Tells(f)
  <2> DEFINE more == With(context, f)
  <2>1. /\ more \in Contexts /\ more.true = context.true \cup {f}
        /\ more.attempt = context.attempt /\ more.halves = context.halves
    BY <1>1 DEF With, Contexts, Flags
  <2>2. f # "error" /\ ~(f \in Virtues /\ f \in Faults)
    BY DEF Virtues, Faults
  <2> HIDE DEF more
  <2>3. CASE f \in Virtues
    <3>1. NoWorse(more, context)
      BY <2>1, <2>2, <2>3 DEF NoWorse
    <3>2. \A d \in Dimensions : Grows(Score(action, context, d), Score(action, more, d))
      BY <1>1, <2>1, <3>1, ScoreGrows
    <3>3. Grows(Total(action, context), Total(action, more))
      BY <1>1, <2>1, <3>1, TotalGrows
    <3> QED
      BY <2>3, <3>2, <3>3 DEF Grows, If, Better, Tells, more
  <2>4. CASE f \in Faults
    <3>1. NoWorse(context, more)
      BY <2>1, <2>2, <2>4 DEF NoWorse
    <3>2. \A d \in Dimensions : Grows(Score(action, more, d), Score(action, context, d))
      BY <1>1, <2>1, <3>1, ScoreGrows
    <3>3. Grows(Total(action, more), Total(action, context))
      BY <1>1, <2>1, <3>1, TotalGrows
    <3> QED
      BY <2>2, <2>4, <3>2, <3>3 DEF Grows, If, Better, Tells, more
  <2> QED
    BY <2>3, <2>4
<1>6. \A f \in (Virtues \cup Faults) \ context.true : Tells(f)
  BY <1>4
<1> QED
  BY <1>3, <1>6 DEF ScoresAreFair

(* The events of a turn.                                                     *)
OfIn(es, t, act) == {i \in DOMAIN es : es[i].turn = t /\ es[i].action = act}

Counted(es, t, act, n) == IsFiniteSet(OfIn(es, t, act)) /\ Cardinality(OfIn(es, t, act)) = n

LEMMA CountedMore ==
  ASSUME NEW es \in Seq(Recorded), NEW e \in Recorded, NEW t, NEW act, NEW n \in Nat, Counted(es, t, act, n)
  PROVE  IF e.turn = t /\ e.action = act
         THEN Counted(Append(es, e), t, act, n + 1) /\ OfIn(Append(es, e), t, act) = OfIn(es, t, act) \cup {Len(es) + 1}
         ELSE Counted(Append(es, e), t, act, n) /\ OfIn(Append(es, e), t, act) = OfIn(es, t, act)
<1>1. PICK w : w = Append(es, e)
  OBVIOUS
<1>2. /\ DOMAIN w = 1..Len(es) + 1 /\ DOMAIN es = 1..Len(es) /\ Len(es) \in Nat
      /\ w[Len(es) + 1] = e /\ \A i \in 1..Len(es) : w[i] = es[i]
  BY <1>1
<1>3. Len(es) + 1 \notin OfIn(es, t, act)
  BY <1>2 DEF OfIn
<1>4. CASE e.turn = t /\ e.action = act
  <2>1. OfIn(w, t, act) = OfIn(es, t, act) \cup {Len(es) + 1}
    BY <1>2, <1>4 DEF OfIn
  <2> QED
    BY <1>1, <1>3, <1>4, <2>1, FS_AddElement DEF Counted
<1>5. CASE ~(e.turn = t /\ e.action = act)
  <2>1. OfIn(w, t, act) = OfIn(es, t, act)
    BY <1>2, <1>5 DEF OfIn
  <2> QED
    BY <1>1, <1>5, <2>1 DEF Counted
<1> QED
  BY <1>4, <1>5

(* What the observer has read of the turn so far, and what it recorded.      *)
Heard(kind) == {i \in 1..seen : told[i] = kind}
Numbers(set, n) == IsFiniteSet(set) /\ Cardinality(set) = n

Recording ==
  /\ \E n, m \in Nat :
       /\ Counted(events, turn, "tool_result", n) /\ Numbers(Told("result"), m) /\ n <= m
       /\ watch = "reading" => Numbers(Heard("result"), n)
       /\ watch = "ended" => n = m
  /\ \E n \in {0, 1} :
       /\ Counted(events, turn, "response", n)
       /\ watch = "reading" => n = 0
       /\ watch = "ended" => n = IF Told("tokens") = {} THEN 0 ELSE 1
  /\ \A i \in OfIn(events, turn, "response") : calls.over /\ Numbers(Told("tokens"), events[i].parts)
  /\ watch = "reading" => Numbers(Heard("tokens"), reply)

RewardInv ==
  /\ RewardTypeOK
  /\ calls.running => ~calls.over
  /\ turn = 0 => calls.over /\ watch = "cut"
  /\ \A i \in DOMAIN events : events[i].turn <= turn
  /\ \A i \in DOMAIN told : told[i] = "done" => calls.over /\ i = Len(told)
  /\ watch = "ended" => calls.over
  /\ turn > 0 => Recording

Calls == [session : Sessions, asked : 0..MaxTools, running : BOOLEAN, over : BOOLEAN]

LEMMA NoCallsRight == NoCalls \in Calls /\ NoCalls.over = TRUE /\ NoCalls.running = FALSE
<1>1. (CHOOSE s \in Sessions : TRUE) \in Sessions
  BY RewardAssumption
<1>2. 0 \in 0..MaxTools
  BY RewardAssumption
<1> QED
  BY <1>1, <1>2 DEF NoCalls, Calls

LEMMA RewardInitInv == RewardInit => RewardInv
<1> SUFFICES ASSUME RewardInit PROVE RewardInv
  OBVIOUS
<1>1. context \in Contexts /\ action \in Actions
  BY DEF RewardInit, Contexts
<1>2. calls \in Calls /\ events \in Seq(Recorded) /\ reply \in Nat /\ turn \in 0..MaxTurns /\ calls.over
      /\ calls.running = FALSE
  BY NoCallsRight, RewardAssumption DEF RewardInit
<1>3. told \in Seq(Pushed) /\ Len(told) = 0 /\ seen \in 0..Len(told) /\ DOMAIN told = {} /\ DOMAIN events = {}
  BY DEF RewardInit
<1> QED
  BY <1>1, <1>2, <1>3 DEF RewardInit, RewardInv, RewardTypeOK, Calls

LEMMA SayMoreInv == ASSUME RewardInv, SayMore PROVE RewardInv'
<1>1. PICK f \in Flags : context' = With(context, f)
  BY DEF SayMore
<1>2. context' \in Contexts
  BY <1>1 DEF RewardInv, RewardTypeOK, With, Contexts
<1>3. UNCHANGED <<action, events, reply, seen, watch, turn, calls, told>>
  BY DEF SayMore, observerVars, turnVars
<1>4. (turn > 0 => Recording) => (turn' > 0 => Recording')
  BY <1>3 DEF Recording, Told, Heard
<1> QED
  BY <1>2, <1>3, <1>4 DEF RewardInv, RewardTypeOK

(* Nothing was recorded, or pushed, in a turn that begins.                   *)
LEMMA BeginTurnInv == ASSUME RewardInv, NEW s \in Sessions, BeginTurn(s) PROVE RewardInv'
<1>1. calls' \in Calls /\ calls'.over = FALSE /\ calls'.running = FALSE
  BY NoCallsRight DEF BeginTurn, Calls
<1>2. turn' = turn + 1 /\ turn' \in 0..MaxTurns /\ events' = events /\ reply' = 0 /\ turn \in Nat
  BY RewardAssumption DEF BeginTurn, RewardInv, RewardTypeOK
<1>3. \A i \in DOMAIN events : events[i].turn <= turn /\ events[i].turn \in Nat
  <2>1. \A i \in DOMAIN events : events[i] \in Recorded
    BY DEF RewardInv, RewardTypeOK
  <2> QED
    BY <2>1, RewardAssumption DEF RewardInv, Recorded
<1>4. \A act : OfIn(events', turn', act) = {}
  BY <1>2, <1>3 DEF OfIn
<1>5. /\ told' = <<>> /\ seen' = 0 /\ watch' = "reading" /\ DOMAIN told' = {} /\ told' \in Seq(Pushed)
      /\ Len(told') = 0
  BY DEF BeginTurn
<1>6. \A kind : Told(kind)' = {} /\ Heard(kind)' = {}
  BY <1>5 DEF Told, Heard
<1>7. \A act : Counted(events', turn', act, 0)
  BY <1>4, FS_EmptySet DEF Counted
<1>8. Numbers({}, 0)
  BY FS_EmptySet DEF Numbers
<1>9. Recording'
  <2>1. Counted(events', turn', "tool_result", 0) /\ Counted(events', turn', "response", 0)
    BY <1>7
  <2>2. /\ Numbers(Told("result")', 0) /\ Numbers(Heard("result")', 0) /\ Numbers(Heard("tokens")', reply')
        /\ OfIn(events', turn', "response") = {} /\ watch' = "reading"
    BY <1>2, <1>4, <1>5, <1>6, <1>8
  <2>3. 0 \in Nat /\ 0 \in {0, 1} /\ 0 <= 0
    OBVIOUS
  <2> QED
    BY <2>1, <2>2, <2>3 DEF Recording
<1>10. RewardTypeOK'
  BY <1>1, <1>2, <1>5 DEF BeginTurn, RewardInv, RewardTypeOK, Calls
<1>11. \A i \in DOMAIN events' : events'[i].turn <= turn'
  BY <1>2, <1>3
<1> QED
  BY <1>1, <1>2, <1>5, <1>9, <1>10, <1>11 DEF RewardInv

LEMMA NoteIs ==
  ASSUME RewardInv, NEW act \in Actions, NEW n \in Nat
  PROVE  Note(act, n) \in Recorded /\ Note(act, n).turn = turn /\ Note(act, n).action = act /\ Note(act, n).parts = n
BY DEF Note, Recorded, RewardInv, RewardTypeOK

(* Events of this turn that are no answers are added.                        *)
LEMMA NotedKeeps ==
  ASSUME RewardInv, NEW es \in Seq(Recorded), NEW act \in Actions, NEW n \in Nat, NEW k \in Nat, NEW r \in Nat,
         Counted(es, turn, "tool_result", k), Counted(es, turn, "response", r), act # "response",
         \A i \in DOMAIN es : es[i].turn <= turn
  PROVE  LET w == Append(es, Note(act, n))
         IN  /\ w \in Seq(Recorded) /\ \A i \in DOMAIN w : w[i].turn <= turn
             /\ Counted(w, turn, "tool_result", IF act = "tool_result" THEN k + 1 ELSE k)
             /\ Counted(w, turn, "response", r) /\ OfIn(w, turn, "response") = OfIn(es, turn, "response")
             /\ \A i \in OfIn(es, turn, "response") : w[i] = es[i]
<1>1. PICK w : w = Append(es, Note(act, n))
  OBVIOUS
<1>2. Note(act, n) \in Recorded /\ Note(act, n).turn = turn /\ Note(act, n).action = act
  BY NoteIs
<1>3. /\ w \in Seq(Recorded) /\ DOMAIN w = 1..Len(es) + 1 /\ DOMAIN es = 1..Len(es) /\ Len(es) \in Nat
      /\ w[Len(es) + 1] = Note(act, n) /\ \A i \in 1..Len(es) : w[i] = es[i]
  BY <1>1, <1>2
<1>4. turn \in Nat
  BY RewardAssumption DEF RewardInv, RewardTypeOK
<1>5. \A i \in DOMAIN w : w[i].turn <= turn
  BY <1>2, <1>3, <1>4
<1>6. /\ Counted(w, turn, "tool_result", IF act = "tool_result" THEN k + 1 ELSE k)
      /\ Counted(w, turn, "response", r) /\ OfIn(w, turn, "response") = OfIn(es, turn, "response")
  BY <1>1, <1>2, CountedMore
<1>7. \A i \in OfIn(es, turn, "response") : w[i] = es[i]
  BY <1>3 DEF OfIn
<1> QED
  BY <1>1, <1>3, <1>5, <1>6, <1>7

(* One more event on the bus: the observer has not read it yet.              *)
LEMMA PushInv ==
  ASSUME RewardInv, NEW kind \in Pushed, Push(kind), ~calls.over, calls' \in Calls,
         kind = "done" <=> calls'.over, calls'.running => ~calls'.over,
         UNCHANGED <<action, context, observerVars, turn>>
  PROVE  RewardInv'
<1>1. /\ told \in Seq(Pushed) /\ seen \in 0..Len(told) /\ turn > 0 /\ Recording /\ watch # "ended"
      /\ watch \in {"reading", "ended", "cut"} /\ turn \in Nat
  BY RewardAssumption DEF RewardInv, RewardTypeOK
<1>2. told' = Append(told, kind) /\ UNCHANGED <<action, context, events, reply, seen, watch, turn>>
  BY DEF Push, observerVars
<1>3. /\ told' \in Seq(Pushed) /\ Len(told') = Len(told) + 1 /\ DOMAIN told' = 1..Len(told) + 1 /\ Len(told) \in Nat
      /\ DOMAIN told = 1..Len(told) /\ \A i \in 1..Len(told) : told'[i] = told[i]
      /\ told'[Len(told) + 1] = kind
  BY <1>1, <1>2
<1>4. \A x : Heard(x)' = Heard(x)
  BY <1>1, <1>2, <1>3 DEF Heard
<1>5. Told("result")' = IF kind = "result" THEN Told("result") \cup {Len(told) + 1} ELSE Told("result")
  BY <1>3 DEF Told
<1>6. PICK n \in Nat, m \in Nat :
        /\ Counted(events, turn, "tool_result", n) /\ Numbers(Told("result"), m) /\ n <= m
        /\ watch = "reading" => Numbers(Heard("result"), n)
  BY <1>1 DEF Recording
<1>7. PICK more \in Nat : more >= m /\ Numbers(Told("result")', more)
  <2>1. CASE kind = "result"
    <3>1. Len(told) + 1 \notin Told("result")
      BY <1>3 DEF Told
    <3>2. Numbers(Told("result")', m + 1)
      BY <1>5, <1>6, <2>1, <3>1, FS_AddElement DEF Numbers
    <3> QED
      BY <3>2
  <2>2. CASE kind # "result"
    BY <1>5, <1>6, <2>2
  <2> QED
    BY <2>1, <2>2
<1>8. OfIn(events, turn, "response") = {}
  BY <1>1 DEF Recording
<1>9. Recording'
  <2>1. PICK r \in {0, 1} : Counted(events, turn, "response", r) /\ (watch = "reading" => r = 0)
    BY <1>1 DEF Recording
  <2>2. n <= more
    BY <1>6, <1>7
  <2>3. watch = "reading" => Numbers(Heard("tokens"), reply)
    BY <1>1 DEF Recording
  <2> QED
    BY <1>1, <1>2, <1>4, <1>6, <1>7, <1>8, <2>1, <2>2, <2>3 DEF Recording
<1>10. RewardTypeOK'
  BY <1>1, <1>2, <1>3 DEF RewardInv, RewardTypeOK, Calls
<1>11. \A i \in DOMAIN told' : told'[i] = "done" => calls'.over /\ i = Len(told')
  BY <1>1, <1>3 DEF RewardInv
<1>12. \A i \in DOMAIN events' : events'[i].turn <= turn'
  BY <1>2 DEF RewardInv
<1> QED
  BY <1>1, <1>2, <1>9, <1>10, <1>11, <1>12 DEF RewardInv

LEMMA TurnPushesInv == ASSUME RewardInv, ToolRuns \/ ToolReturns \/ Tokens \/ TurnOver PROVE RewardInv'
<1>1. calls \in Calls /\ (calls.running => ~calls.over)
  BY DEF RewardInv, RewardTypeOK, Calls
<1>2. CASE ToolRuns
  <2>1. /\ calls' = [calls EXCEPT !.running = TRUE, !.asked = calls.asked + 1] /\ calls.asked + 1 \in 0..MaxTools
        /\ ~calls.over
    BY <1>1, <1>2, RewardAssumption DEF ToolRuns, Calls
  <2>2. calls' \in Calls /\ ~calls'.over
    BY <1>1, <2>1 DEF Calls
  <2>3. "runs" \in Pushed /\ Push("runs") /\ UNCHANGED <<action, context, observerVars, turn>>
    BY <1>2 DEF ToolRuns, Pushed
  <2> QED
    BY <2>1, <2>2, <2>3, PushInv
<1>3. CASE ToolReturns
  <2>1. calls' \in Calls /\ ~calls'.over /\ ~calls.over
    BY <1>1, <1>3 DEF ToolReturns, Calls
  <2>2. PICK kind \in {"runs", "result"} : Push(kind)
    BY <1>3 DEF ToolReturns
  <2>3. kind \in Pushed /\ kind # "done" /\ UNCHANGED <<action, context, observerVars, turn>>
    BY <1>3 DEF ToolReturns, Pushed
  <2> QED
    BY <2>1, <2>2, <2>3, PushInv
<1>4. CASE Tokens
  <2>1. calls' \in Calls /\ ~calls'.over /\ ~calls.over /\ (calls'.running => ~calls'.over)
    BY <1>1, <1>4 DEF Tokens
  <2>2. "tokens" \in Pushed /\ Push("tokens") /\ UNCHANGED <<action, context, observerVars, turn>>
    BY <1>4 DEF Tokens, Pushed
  <2> QED
    BY <2>1, <2>2, PushInv
<1>5. CASE TurnOver
  <2>1. calls' \in Calls /\ calls'.over /\ ~calls.over /\ ~calls'.running
    BY <1>1, <1>5 DEF TurnOver, CallsOver, Calls
  <2>2. "done" \in Pushed /\ Push("done") /\ UNCHANGED <<action, context, observerVars, turn>>
    BY <1>5 DEF TurnOver, Pushed
  <2> QED
    BY <2>1, <2>2, PushInv
<1> QED
  BY <1>2, <1>3, <1>4, <1>5

LEMMA StreamEndsInv == ASSUME RewardInv, StreamEnds PROVE RewardInv'
<1>1. /\ watch = "reading" /\ watch' = "cut" /\ turn > 0 /\ Recording
      /\ UNCHANGED <<action, context, events, reply, seen, turn, told>>
  BY RewardAssumption DEF StreamEnds, RewardInv, RewardTypeOK
<1>2. calls' \in Calls /\ calls'.over /\ ~calls'.running
  BY DEF StreamEnds, CallsOver, RewardInv, RewardTypeOK, Calls
<1>3. \A kind : Told(kind)' = Told(kind)
  BY <1>1 DEF Told
<1>4. Recording'
  BY <1>1, <1>2, <1>3 DEF Recording
<1>5. RewardTypeOK'
  BY <1>1, <1>2 DEF RewardInv, RewardTypeOK, Calls
<1> QED
  BY <1>1, <1>2, <1>4, <1>5 DEF RewardInv

(* What the observer does with an event: one or two notes on a tool, or the  *)
(* answer, which comes after all of the text.                                *)
LEMMA NotesKeep ==
  ASSUME RewardInv, watch = "reading", seen < Len(told), NEW ks \in {<<>>, <<Head(Notes)>>, Notes},
         ks = Notes \/ Notes # <<>>
  PROVE  LET w == events \o ks IN
         /\ w \in Seq(Recorded) /\ \A i \in DOMAIN w : w[i].turn <= turn
         /\ \E n, m, r \in Nat :
              /\ Counted(events, turn, "tool_result", n) /\ Numbers(Heard("result"), n)
              /\ Counted(w, turn, "tool_result", m) /\ n <= m
              /\ m <= (IF Following = "result" THEN n + 1 ELSE n)
              /\ ks = Notes => m = (IF Following = "result" THEN n + 1 ELSE n)
              /\ Counted(w, turn, "response", r) /\ r <= 1
              /\ Following # "done" => r = 0
              /\ ks = Notes /\ Following = "done" => r = (IF reply = 0 THEN 0 ELSE 1)
         /\ \A i \in OfIn(w, turn, "response") : Following = "done" /\ w[i].parts = reply
<1>1. /\ Following \in Pushed /\ seen + 1 \in 1..Len(told) /\ reply \in Nat /\ events \in Seq(Recorded) /\ Recording
      /\ turn \in Nat /\ \A i \in DOMAIN events : events[i].turn <= turn
  <2>1. told \in Seq(Pushed) /\ seen + 1 \in 1..Len(told) /\ reply \in Nat
    BY DEF RewardInv, RewardTypeOK
  <2> QED
    BY <2>1, RewardAssumption DEF RewardInv, RewardTypeOK, Following
<1>2. PICK n \in Nat : Counted(events, turn, "tool_result", n) /\ Numbers(Heard("result"), n)
  BY <1>1 DEF Recording
<1>3. Counted(events, turn, "response", 0) /\ OfIn(events, turn, "response") = {}
  <2>1. Counted(events, turn, "response", 0)
    BY <1>1 DEF Recording
  <2> QED
    BY <2>1, FS_EmptySet DEF Counted
<1>4. PICK c : c = Note("tool_call", 0)
  OBVIOUS
<1>5. PICK e : e = Note("tool_result", 0)
  OBVIOUS
<1>6. PICK a : a = Note("response", reply)
  OBVIOUS
<1>7. c \in Recorded /\ e \in Recorded /\ a \in Recorded /\ a.turn = turn /\ a.action = "response" /\ a.parts = reply
  BY <1>1, <1>4, <1>5, <1>6, NoteIs DEF Actions
<1>8. Notes = CASE Following = "runs" -> <<c>> [] Following = "result" -> <<c, e>>
                [] Following = "done" /\ reply > 0 -> <<a>> [] OTHER -> <<>>
  BY <1>4, <1>5, <1>6 DEF Notes
<1>9. \/ ks = <<>> /\ (ks = Notes => Following # "result" /\ (Following = "done" => reply = 0))
      \/ ks = <<c>> /\ Following \in {"runs", "result"} /\ (ks = Notes => Following = "runs")
      \/ ks = <<c, e>> /\ Following = "result"
      \/ ks = <<a>> /\ Following = "done" /\ reply > 0
  <2>1. CASE Following = "runs"
    <3>1. Notes = <<c>> /\ Head(<<c>>) = c /\ <<c>> # <<>>
      BY <1>8, <2>1
    <3> QED
      BY <2>1, <3>1
  <2>2. CASE Following = "result"
    <3>1. Notes = <<c, e>> /\ Head(<<c, e>>) = c /\ <<c, e>> # <<>> /\ <<c, e>> # <<c>>
      BY <1>8, <2>2
    <3> QED
      BY <2>2, <3>1
  <2>3. CASE Following = "done" /\ reply > 0
    <3>1. Notes = <<a>> /\ Head(<<a>>) = a /\ <<a>> # <<>>
      BY <1>8, <2>3
    <3> QED
      BY <2>3, <3>1
  <2>4. CASE Following \notin {"runs", "result"} /\ ~(Following = "done" /\ reply > 0)
    <3>1. Notes = <<>>
      BY <1>8, <2>4
    <3>2. ks = <<>>
      BY <3>1
    <3> QED
      BY <1>1, <2>4, <3>2
  <2> QED
    BY <2>1, <2>2, <2>3, <2>4
<1>10. PICK w : w = events \o ks
  OBVIOUS
<1> DEFINE Goal(m, r) ==
         /\ w \in Seq(Recorded) /\ \A i \in DOMAIN w : w[i].turn <= turn
         /\ Counted(w, turn, "tool_result", m) /\ Counted(w, turn, "response", r)
       Counts(m, r) ==
         /\ Counted(events, turn, "tool_result", n) /\ Numbers(Heard("result"), n)
         /\ Counted(w, turn, "tool_result", m) /\ n <= m
         /\ m <= (IF Following = "result" THEN n + 1 ELSE n)
         /\ ks = Notes => m = (IF Following = "result" THEN n + 1 ELSE n)
         /\ Counted(w, turn, "response", r) /\ r <= 1
         /\ Following # "done" => r = 0
         /\ ks = Notes /\ Following = "done" => r = (IF reply = 0 THEN 0 ELSE 1)
<1>11. CASE ks = <<>> /\ (ks = Notes => Following # "result" /\ (Following = "done" => reply = 0))
  <2>1. w = events
    BY <1>1, <1>10, <1>11
  <2>2. Goal(n, 0)
    BY <1>1, <1>2, <1>3, <2>1
  <2> QED
    BY <1>2, <1>3, <1>10, <1>11, <2>1, <2>2
<1>12. CASE ks = <<c>> /\ Following \in {"runs", "result"} /\ (ks = Notes => Following = "runs")
  <2>1. w = Append(events, c)
    BY <1>1, <1>7, <1>10, <1>12
  <2>2. Goal(n, 0) /\ OfIn(w, turn, "response") = {}
    BY <1>1, <1>2, <1>3, <1>4, <2>1, NotedKeeps DEF Actions
  <2> QED
    BY <1>2, <1>10, <1>12, <2>2
<1>13. CASE ks = <<c, e>> /\ Following = "result"
  <2>1. PICK v : v = Append(events, c)
    OBVIOUS
  <2>2. w = Append(v, e)
    BY <1>1, <1>7, <1>10, <1>13, <2>1
  <2>3. /\ v \in Seq(Recorded) /\ \A i \in DOMAIN v : v[i].turn <= turn
        /\ Counted(v, turn, "tool_result", n) /\ Counted(v, turn, "response", 0) /\ OfIn(v, turn, "response") = {}
    BY <1>1, <1>2, <1>3, <1>4, <2>1, NotedKeeps DEF Actions
  <2>4. Goal(n + 1, 0) /\ OfIn(w, turn, "response") = {}
    BY <2>3, <1>5, <2>2, NotedKeeps DEF Actions
  <2>5. n + 1 \in Nat /\ Following # "done" /\ n <= n + 1
    BY <1>13
  <2>6. Counts(n + 1, 0)
    BY <1>2, <1>13, <2>4, <2>5
  <2> QED
    BY <1>2, <1>10, <2>4, <2>5, <2>6
<1>14. CASE ks = <<a>> /\ Following = "done" /\ reply > 0
  <2>1. w = Append(events, a)
    BY <1>1, <1>7, <1>10, <1>14
  <2>2. Counted(w, turn, "response", 1) /\ OfIn(w, turn, "response") = {Len(events) + 1}
    BY <1>1, <1>3, <1>7, <2>1, CountedMore
  <2>3. Counted(w, turn, "tool_result", n)
    BY <1>1, <1>2, <1>7, <2>1, CountedMore
  <2>4. /\ w \in Seq(Recorded) /\ DOMAIN w = 1..Len(events) + 1 /\ DOMAIN events = 1..Len(events) /\ Len(events) \in Nat
        /\ w[Len(events) + 1] = a /\ \A i \in 1..Len(events) : w[i] = events[i]
    BY <1>1, <1>7, <2>1
  <2>5. \A i \in DOMAIN w : w[i].turn <= turn
    BY <1>1, <1>7, <2>4
  <2>6. Goal(n, 1)
    BY <2>2, <2>3, <2>4, <2>5
  <2>7. \A i \in OfIn(w, turn, "response") : w[i].parts = reply
    BY <1>7, <2>2, <2>4
  <2>8. Following # "result" /\ reply # 0
    BY <1>1, <1>14
  <2>9. Counts(n, 1)
    BY <1>2, <1>14, <2>6, <2>8
  <2> QED
    BY <1>2, <1>10, <1>14, <2>6, <2>7, <2>9
<1> QED
  BY <1>9, <1>11, <1>12, <1>13, <1>14

(* The observer reads one event more: of its kind, it has heard one more.    *)
LEMMA HeardMore ==
  ASSUME RewardInv, seen < Len(told), seen' = seen + 1, told' = told, NEW kind, NEW n \in Nat, Numbers(Heard(kind), n)
  PROVE  Numbers(Heard(kind)', IF Following = kind THEN n + 1 ELSE n)
<1>1. seen \in Nat /\ seen + 1 \notin Heard(kind)
  BY DEF RewardInv, RewardTypeOK, Heard
<1>2. Heard(kind)' = IF Following = kind THEN Heard(kind) \cup {seen + 1} ELSE Heard(kind)
  <2>1. 1..seen + 1 = 1..seen \cup {seen + 1}
    BY <1>1
  <2>2. Heard(kind)' = {i \in 1..seen + 1 : told[i] = kind}
    BY DEF Heard
  <2> QED
    BY <2>1, <2>2 DEF Heard, Following
<1>3. CASE Following = kind
  BY <1>1, <1>2, <1>3, FS_AddElement DEF Numbers
<1>4. CASE Following # kind
  BY <1>2, <1>4
<1> QED
  BY <1>3, <1>4

LEMMA ObserveInv == ASSUME RewardInv, Observe PROVE RewardInv'
<1>1. /\ watch = "reading" /\ seen < Len(told) /\ seen' = seen + 1 /\ events' = events \o Notes
      /\ reply' = (IF Following = "tokens" THEN reply + 1 ELSE reply)
      /\ watch' = (IF Following = "done" THEN "ended" ELSE watch)
      /\ UNCHANGED <<action, context, turn, calls, told>>
  BY DEF Observe, turnVars
<1>2. /\ turn \in Nat /\ turn > 0 /\ Recording /\ told \in Seq(Pushed) /\ seen \in Nat /\ seen + 1 \in 1..Len(told)
      /\ Len(told) \in Nat /\ DOMAIN told = 1..Len(told) /\ reply \in Nat
  BY <1>1, RewardAssumption DEF RewardInv, RewardTypeOK
<1>3. PICK w : w = events \o Notes
  OBVIOUS
<1>4. PICK n, m, r \in Nat :
         /\ Counted(events, turn, "tool_result", n) /\ Numbers(Heard("result"), n)
         /\ Counted(w, turn, "tool_result", m)
         /\ m = (IF Following = "result" THEN n + 1 ELSE n)
         /\ Counted(w, turn, "response", r) /\ r <= 1
         /\ Following # "done" => r = 0
         /\ Following = "done" => r = (IF reply = 0 THEN 0 ELSE 1)
  BY <1>1, <1>3, NotesKeep
<1>5. /\ w \in Seq(Recorded) /\ \A i \in DOMAIN w : w[i].turn <= turn
      /\ \A i \in OfIn(w, turn, "response") : Following = "done" /\ w[i].parts = reply
  BY <1>1, <1>3, NotesKeep
<1>6. Numbers(Heard("result")', m) /\ Numbers(Heard("tokens")', reply')
  <2>1. Numbers(Heard("tokens"), reply)
    BY <1>1, <1>2 DEF Recording
  <2> QED
    BY <1>1, <1>2, <1>4, <2>1, HeardMore
<1>7. PICK all \in Nat : Numbers(Told("result"), all)
  BY <1>2 DEF Recording
<1>8. \A kind : Heard(kind)' \subseteq Told(kind) /\ Told(kind)' = Told(kind)
  <2>1. \A kind : Heard(kind)' = {i \in 1..seen + 1 : told[i] = kind}
    BY <1>1 DEF Heard
  <2> QED
    BY <1>1, <1>2, <2>1 DEF Told
<1>9. m <= all
  <2>1. Cardinality(Heard("result")') <= Cardinality(Told("result"))
    BY <1>7, <1>8, FS_Subset DEF Numbers
  <2> QED
    BY <1>6, <1>7, <2>1 DEF Numbers
<1>10. Following = "done" => \A kind : Heard(kind)' = Told(kind)
  <2> SUFFICES ASSUME Following = "done" PROVE \A kind : Heard(kind)' = Told(kind)
    OBVIOUS
  <2>1. seen + 1 = Len(told)
    BY <1>2 DEF RewardInv, Following
  <2>2. \A kind : Heard(kind)' = {i \in 1..seen + 1 : told[i] = kind}
    BY <1>1 DEF Heard
  <2> QED
    BY <1>2, <2>1, <2>2 DEF Told
<1>11. Following = "done" => calls.over /\ m = all /\ Numbers(Told("tokens"), reply) /\ reply' = reply
  <2> SUFFICES ASSUME Following = "done" PROVE calls.over /\ m = all /\ Numbers(Told("tokens"), reply) /\ reply' = reply
    OBVIOUS
  <2>1. calls.over
    BY <1>2 DEF RewardInv, Following
  <2>2. reply' = reply
    BY <1>1
  <2> QED
    BY <1>6, <1>7, <1>10, <2>1, <2>2 DEF Numbers
<1>12. Following = "done" => (reply = 0 <=> Told("tokens") = {})
  BY <1>2, <1>11, FS_EmptySet DEF Numbers
<1>13. r \in {0, 1}
  BY <1>4
<1>14. Recording'
  <2>1. watch' = "reading" => Following # "done"
    BY <1>1
  <2>2. watch' = "ended" => Following = "done"
    BY <1>1
  <2>3. \E k, j \in Nat :
          /\ Counted(events', turn', "tool_result", k) /\ Numbers(Told("result")', j) /\ k <= j
          /\ watch' = "reading" => Numbers(Heard("result")', k)
          /\ watch' = "ended" => k = j
    BY <1>1, <1>3, <1>4, <1>6, <1>7, <1>8, <1>9, <1>11, <2>2
  <2>4. \E k \in {0, 1} :
          /\ Counted(events', turn', "response", k)
          /\ watch' = "reading" => k = 0
          /\ watch' = "ended" => k = IF Told("tokens")' = {} THEN 0 ELSE 1
    BY <1>1, <1>3, <1>4, <1>8, <1>12, <1>13, <2>1, <2>2
  <2>5. \A i \in OfIn(events', turn', "response") : calls'.over /\ Numbers(Told("tokens")', events'[i].parts)
    BY <1>1, <1>3, <1>5, <1>8, <1>11
  <2> QED
    BY <1>6, <2>3, <2>4, <2>5 DEF Recording
<1>15. RewardTypeOK'
  <2>1. events' \in Seq(Recorded) /\ reply' \in Nat /\ seen' \in 0..Len(told) /\ watch' \in {"reading", "ended", "cut"}
    BY <1>1, <1>2, <1>3, <1>5
  <2> QED
    BY <1>1, <2>1 DEF RewardInv, RewardTypeOK
<1>16. watch' = "ended" => calls'.over
  BY <1>1, <1>11
<1>17. \A i \in DOMAIN events' : events'[i].turn <= turn'
  BY <1>1, <1>3, <1>5
<1> QED
  BY <1>1, <1>2, <1>14, <1>15, <1>16, <1>17 DEF RewardInv

LEMMA RecordFailsInv == ASSUME RewardInv, RecordFails PROVE RewardInv'
<1>1. /\ watch = "reading" /\ seen < Len(told) /\ Notes # <<>> /\ watch' = "cut"
      /\ UNCHANGED <<action, context, reply, seen, turn, calls, told>>
  BY DEF RecordFails, turnVars
<1>2. PICK ks \in {<<>>, <<Head(Notes)>>, Notes} : events' = events \o ks
  BY DEF RecordFails
<1>3. turn \in Nat /\ turn > 0 /\ Recording /\ told \in Seq(Pushed) /\ seen \in Nat /\ seen + 1 \in 1..Len(told) /\ reply \in Nat
  BY <1>1, RewardAssumption DEF RewardInv, RewardTypeOK
<1>4. PICK w : w = events \o ks
  OBVIOUS
<1>5. PICK n, m, r \in Nat :
         /\ Counted(events, turn, "tool_result", n) /\ Numbers(Heard("result"), n)
         /\ Counted(w, turn, "tool_result", m)
         /\ m <= (IF Following = "result" THEN n + 1 ELSE n)
         /\ Counted(w, turn, "response", r) /\ r <= 1
  BY <1>1, <1>4, NotesKeep
<1>6. /\ w \in Seq(Recorded) /\ \A i \in DOMAIN w : w[i].turn <= turn
      /\ \A i \in OfIn(w, turn, "response") : Following = "done" /\ w[i].parts = reply
  BY <1>1, <1>4, NotesKeep
<1>7. \A kind : Told(kind)' = Told(kind)
  BY <1>1 DEF Told
<1>8. PICK all \in Nat : Numbers(Told("result"), all)
  BY <1>3 DEF Recording
<1>9. m <= all
  <2> DEFINE more == {i \in 1..seen + 1 : told[i] = "result"}
  <2>1. Numbers(more, IF Following = "result" THEN n + 1 ELSE n)
    <3>1. seen + 1 \notin Heard("result")
      BY <1>3 DEF Heard
    <3>2. more = IF Following = "result" THEN Heard("result") \cup {seen + 1} ELSE Heard("result")
      BY <1>3 DEF Heard, Following
    <3> HIDE DEF more
    <3>3. CASE Following = "result"
      <4>1. IsFiniteSet(Heard("result")) /\ Cardinality(Heard("result")) = n
        BY <1>5 DEF Numbers
      <4>2. more = Heard("result") \cup {seen + 1}
        BY <3>2, <3>3
      <4>3. IsFiniteSet(more) /\ Cardinality(more) = n + 1
        BY <3>1, <4>1, <4>2, FS_AddElement
      <4> QED
        BY <3>3, <4>3 DEF Numbers
    <3>4. CASE Following # "result"
      BY <1>5, <3>2, <3>4
    <3> QED
      BY <3>3, <3>4
  <2>2. more \subseteq Told("result")
    BY <1>3 DEF Told
  <2> HIDE DEF more
  <2>3. Cardinality(more) <= Cardinality(Told("result"))
    BY <1>8, <2>2, FS_Subset DEF Numbers
  <2> QED
    BY <1>5, <1>8, <2>1, <2>3 DEF Numbers
<1>10. Following = "done" => calls.over /\ Numbers(Told("tokens"), reply)
  <2> SUFFICES ASSUME Following = "done" PROVE calls.over /\ Numbers(Told("tokens"), reply)
    OBVIOUS
  <2>1. DOMAIN told = 1..Len(told) /\ Len(told) \in Nat
    BY <1>3
  <2>2. seen + 1 = Len(told) /\ calls.over
    BY <1>3, <2>1 DEF RewardInv, Following
  <2>3. told[Len(told)] = "done"
    BY <2>2 DEF Following
  <2>4. Told("tokens") = Heard("tokens")
    BY <1>3, <2>1, <2>2, <2>3 DEF Told, Heard
  <2>5. Numbers(Heard("tokens"), reply)
    BY <1>1, <1>3 DEF Recording
  <2> QED
    BY <2>2, <2>4, <2>5
<1>11. Recording'
  <2>1. r \in {0, 1} /\ Counted(events', turn', "response", r)
    BY <1>1, <1>2, <1>4, <1>5
  <2>2. Counted(events', turn', "tool_result", m) /\ Numbers(Told("result")', all) /\ m <= all
    BY <1>1, <1>2, <1>4, <1>5, <1>7, <1>8, <1>9
  <2>3. \A i \in OfIn(events', turn', "response") : calls'.over /\ Numbers(Told("tokens")', events'[i].parts)
    BY <1>1, <1>2, <1>4, <1>6, <1>7, <1>10
  <2> QED
    BY <1>1, <2>1, <2>2, <2>3 DEF Recording
<1>12. RewardTypeOK'
  BY <1>1, <1>2, <1>4, <1>6 DEF RewardInv, RewardTypeOK
<1>13. \A i \in DOMAIN events' : events'[i].turn <= turn'
  BY <1>1, <1>2, <1>4, <1>6
<1> QED
  BY <1>1, <1>3, <1>11, <1>12, <1>13 DEF RewardInv

LEMMA RewardStepInv == ASSUME RewardInv, SayMore \/ ObserverNext \/ UNCHANGED rewardVars PROVE RewardInv'
<1>1. CASE UNCHANGED rewardVars
  <2>1. UNCHANGED <<action, context, events, reply, seen, watch, turn, calls, told>>
    BY <1>1 DEF rewardVars, observerVars, turnVars
  <2>2. (turn > 0 => Recording) => (turn' > 0 => Recording')
    BY <2>1 DEF Recording, Told, Heard
  <2> QED
    BY <2>1, <2>2 DEF RewardInv, RewardTypeOK
<1> QED
  BY <1>1, SayMoreInv, BeginTurnInv, TurnPushesInv, StreamEndsInv, ObserveInv, RecordFailsInv DEF ObserverNext

LEMMA RewardInvRecords == RewardInv => TurnIsRecorded
<1> SUFFICES ASSUME RewardInv, turn > 0 PROVE TurnIsRecorded
  BY DEF TurnIsRecorded
<1>1. Recording
  BY DEF RewardInv
<1>2. \A act : Of(turn, act) = OfIn(events, turn, act)
  BY DEF Of, OfIn
<1>3. PICK n, m \in Nat :
       /\ Counted(events, turn, "tool_result", n) /\ Numbers(Told("result"), m) /\ n <= m
       /\ watch = "ended" => n = m
  BY <1>1 DEF Recording
<1>4. PICK r \in {0, 1} :
       /\ Counted(events, turn, "response", r)
       /\ watch = "ended" => r = IF Told("tokens") = {} THEN 0 ELSE 1
  BY <1>1 DEF Recording
<1>5. /\ Cardinality(Of(turn, "tool_result")) = n /\ Cardinality(Told("result")) = m
      /\ Cardinality(Of(turn, "response")) = r /\ r <= 1
  BY <1>2, <1>3, <1>4 DEF Counted, Numbers
<1>6. \A i \in Of(turn, "response") : events[i].parts = Cardinality(Told("tokens"))
  BY <1>1, <1>2 DEF Recording, Numbers
<1> QED
  BY <1>3, <1>4, <1>5, <1>6 DEF TurnIsRecorded, If

LEMMA ListingRight == ASSUME RewardTypeOK PROVE ListingIsRight
<1> SUFFICES ASSUME NEW s \in Sessions
             PROVE  /\ \A k \in DOMAIN Listed(s) : Listed(s)[k].session = s
                    /\ Len(events) <= Limit =>
                         LET own == {i \in DOMAIN events : events[i].session = s}
                         IN  \E place \in [DOMAIN Listed(s) -> own] :
                               /\ \A k, l \in DOMAIN place : k < l => place[k] > place[l]
                               /\ \A i \in own : \E k \in DOMAIN place : place[k] = i
                               /\ \A k \in DOMAIN place : Listed(s)[k] = events[place[k]]
  BY DEF ListingIsRight
<1> DEFINE L == Len(events)
           n == If(L > Limit, Limit, L)
<1>1. L \in Nat /\ n \in Nat /\ n <= L /\ (L <= Limit => n = L) /\ events \in Seq(Recorded) /\ DOMAIN events = 1..L
  BY RewardAssumption DEF RewardTypeOK, If
<1> PICK w : w = NewestEvents
  OBVIOUS
<1> HIDE DEF L
<1>2. w = [i \in 1..n |-> events[L + 1 - i]]
  BY DEF NewestEvents, L
<1> HIDE DEF n
<1>3. \A i \in 1..n : events[L + 1 - i] \in Recorded /\ L + 1 - i \in 1..L
  BY <1>1
<1>4. w \in [1..n -> Recorded] /\ \A i \in 1..n : w[i] = events[L + 1 - i]
  BY <1>2, <1>3
<1>5. w \in Seq(Recorded) /\ Len(w) = n /\ DOMAIN w = 1..n
  BY <1>1, <1>4
<1> PICK keep : keep = [i \in DOMAIN w |-> w[i].session = s]
  OBVIOUS
<1>6. keep \in [1..Len(w) -> BOOLEAN] /\ \A i \in 1..n : keep[i] <=> w[i].session = s
  BY <1>5
<1> PICK out : out = Filter(w, keep)
  OBVIOUS
<1>7. out = Listed(s)
  BY DEF Listed
<1>8. out \in Seq(Recorded) /\ \E spot : Picks(spot, out, w, keep)
  BY <1>5, <1>6, FilterIs
<1>9. PICK spot : Picks(spot, out, w, keep)
  BY <1>8
<1>10. /\ spot \in [1..Len(out) -> 1..n]
       /\ \A k \in 1..Len(out) : keep[spot[k]] /\ out[k] = w[spot[k]]
       /\ \A k, l \in 1..Len(out) : k < l => spot[k] < spot[l]
       /\ \A i \in 1..n : keep[i] => \E k \in 1..Len(out) : spot[k] = i
  BY <1>5, <1>9 DEF Picks
<1>11. DOMAIN out = 1..Len(out) /\ Len(out) \in Nat
  BY <1>8
<1>12. \A k \in DOMAIN out : out[k].session = s
  <2> SUFFICES ASSUME NEW k \in 1..Len(out) PROVE out[k].session = s
    BY <1>11
  <2>1. spot[k] \in 1..n /\ keep[spot[k]] /\ out[k] = w[spot[k]]
    BY <1>10
  <2> QED
    BY <1>6, <2>1
<1>13. ASSUME L <= Limit
       PROVE  LET own == {i \in DOMAIN events : events[i].session = s}
              IN  \E place \in [DOMAIN out -> own] :
                    /\ \A k, l \in DOMAIN place : k < l => place[k] > place[l]
                    /\ \A i \in own : \E k \in DOMAIN place : place[k] = i
                    /\ \A k \in DOMAIN place : out[k] = events[place[k]]
  <2> DEFINE own == {i \in DOMAIN events : events[i].session = s}
             place == [k \in 1..Len(out) |-> L + 1 - spot[k]]
  <2>1. n = L
    BY <1>1, <1>13
  <2>2. ASSUME NEW k \in 1..Len(out)
        PROVE  place[k] = L + 1 - spot[k] /\ place[k] \in own /\ out[k] = events[place[k]] /\ spot[k] \in 1..L
    <3>1. spot[k] \in 1..n /\ keep[spot[k]] /\ out[k] = w[spot[k]]
      BY <1>10
    <3>2. w[spot[k]].session = s
      BY <1>6, <3>1
    <3>3. w[spot[k]] = events[L + 1 - spot[k]] /\ L + 1 - spot[k] \in 1..L
      BY <1>3, <1>4, <3>1
    <3>4. place[k] = L + 1 - spot[k]
      OBVIOUS
    <3> QED
      BY <1>1, <2>1, <3>1, <3>2, <3>3, <3>4
  <2>3. place \in [1..Len(out) -> own]
    BY <2>2
  <2> HIDE DEF place
  <2>4. \A k, l \in 1..Len(out) : k < l => place[k] > place[l]
    <3> SUFFICES ASSUME NEW k \in 1..Len(out), NEW l \in 1..Len(out), k < l PROVE place[k] > place[l]
      OBVIOUS
    <3>1. spot[k] < spot[l] /\ spot[k] \in Nat /\ spot[l] \in Nat
      BY <1>10, <2>2
    <3> QED
      BY <1>1, <2>2, <3>1
  <2>5. ASSUME NEW i \in own PROVE \E k \in 1..Len(out) : place[k] = i
    <3>1. L + 1 - i \in 1..n /\ i \in 1..L /\ events[i].session = s
      BY <1>1, <2>1
    <3>2. w[L + 1 - i] = events[i]
      BY <1>1, <1>4, <3>1
    <3>3. PICK k \in 1..Len(out) : spot[k] = L + 1 - i
      BY <1>6, <1>10, <3>1, <3>2
    <3>4. place[k] = L + 1 - spot[k]
      BY <2>2
    <3>5. place[k] = i
      BY <1>1, <3>1, <3>3, <3>4
    <3> QED
      BY <3>5
  <2>6. place \in [DOMAIN out -> own] /\ DOMAIN place = 1..Len(out)
    BY <1>11, <2>3
  <2> HIDE DEF own
  <2>7. /\ \A k, l \in DOMAIN place : k < l => place[k] > place[l]
        /\ \A i \in own : \E k \in DOMAIN place : place[k] = i
        /\ \A k \in DOMAIN place : out[k] = events[place[k]]
    BY <2>2, <2>4, <2>5, <2>6
  <2> QED
    BY <2>6, <2>7 DEF own
<1>14. Len(events) <= Limit =>
         LET own == {i \in DOMAIN events : events[i].session = s}
         IN  \E place \in [DOMAIN out -> own] :
               /\ \A k, l \in DOMAIN place : k < l => place[k] > place[l]
               /\ \A i \in own : \E k \in DOMAIN place : place[k] = i
               /\ \A k \in DOMAIN place : out[k] = events[place[k]]
  BY <1>13 DEF L
<1>15. \A k \in DOMAIN Listed(s) : Listed(s)[k].session = s
  BY <1>7, <1>12
<1>16. Len(events) <= Limit =>
         LET own == {i \in DOMAIN events : events[i].session = s}
         IN  \E place \in [DOMAIN Listed(s) -> own] :
               /\ \A k, l \in DOMAIN place : k < l => place[k] > place[l]
               /\ \A i \in own : \E k \in DOMAIN place : place[k] = i
               /\ \A k \in DOMAIN place : Listed(s)[k] = events[place[k]]
  BY <1>7, <1>14
<1> QED
  BY <1>15, <1>16

-----------------------------------------------------------------------------
(* The host.  A run follows one task, and what the others keep stays as it   *)
(* began: every part takes its own steps or none.                            *)
HostInv ==
  IInv /\ ShellInv /\ DocumentsInv /\ JsonInv /\ MemoryInv /\ AsksInv /\ EvalInv /\ RewardInv

LEMMA HostInitInv == InitHost => HostInv
<1> SUFFICES ASSUME InitHost PROVE HostInv
  OBVIOUS
<1>1. Init /\ ShellInit /\ DocumentsInit /\ JsonInit /\ MemoryInit /\ ModelInit /\ EvalInit /\ RewardInit
  BY DEF InitHost
<1> QED
  BY <1>1, InitInv, ShellInitInv, DocumentsInitInv, JsonInitInv, MemoryInitInv, ModelInitInv, EvalInitInv,
     RewardInitInv
     DEF HostInv

LEMMA HostSteps ==
  ASSUME [NextHost]_hostVars
  PROVE  /\ [Next]_vars /\ [ShellNext]_shellVars /\ [DocumentsNext]_docVars
         /\ [HistoryNext \/ CredentialsNext]_jsonVars /\ [MemoryNext]_memoryVars
         /\ [RequestsNext \/ StreamNext]_modelVars /\ [EvalNext]_evalVars
         /\ [SayMore \/ ObserverNext]_rewardVars
<1>1. CASE UNCHANGED hostVars
  BY <1>1 DEF hostVars
<1>2. CASE NextHost
  BY <1>2 DEF NextHost, Apart
<1> QED
  BY <1>1, <1>2

LEMMA HostStepInv == HostInv /\ [NextHost]_hostVars => HostInv'
BY HostSteps, StepInv, ShellStepInv, DocumentsStepInv, JsonStepInv, MemoryStepInv, ModelStepInv, EvalStepInv,
   RewardStepInv
   DEF HostInv

LEMMA HostInvariant == SpecHost => []HostInv
<1>1. QED
  BY HostInitInv, HostStepInv, PTL DEF SpecHost

(* Beside the other tasks too, a job in memory agrees with its stored copy   *)
(* and no added job is lost.                                                 *)
THEOREM CronsTheorem == SpecHost => [](Mirrored /\ NeverLost)
<1>1. HostInv => Mirrored /\ NeverLost
  BY DEF HostInv, IInv
<1>2. QED
  BY <1>1, HostInvariant, PTL

(* For any number of workers, hosts, edits and ends of a process: an edit    *)
(* that no other write came between acts on the last text, a listed document *)
(* has its bytes, a name one account; no visit is lost and no file torn      *)
(* while one host saves, and a key that was stored can be opened; and the    *)
(* hash of a memory is of its text, unless the path was touched meanwhile.   *)
THEOREM StorageTheorem == SpecHost => []StorageIsRight
<1>1. HostInv => StorageIsRight
  BY JsonInvFiles DEF HostInv, StorageIsRight, DocumentsAreKept, DocumentsInv, MemoryInv
<1>2. QED
  BY <1>1, HostInvariant, PTL

(* Of a command that a kill reached nothing is left in its group, and of a   *)
(* pipe that was read to its end all is reported, or the beginning up to the *)
(* cap: for any cap and whatever the command writes, starts and leaves       *)
(* behind.                                                                   *)
THEOREM ContainedTheorem == SpecHost => []CommandIsContained
<1>1. HostInv => CommandIsContained
  BY ShellInvContained DEF HostInv
<1>2. QED
  BY <1>1, HostInvariant, PTL

(* A caller gets what its own input gives under a target that was selected   *)
(* since it called, and the cache keeps no vector under another's key, for   *)
(* any number of callers, attempts and switches.                             *)
THEOREM AnswersTheorem == SpecHost => []AnswersAreOfTheirTarget
<1>1. HostInv => AnswersAreOfTheirTarget
  BY DEF HostInv, AsksInv
<1>2. QED
  BY <1>1, HostInvariant, PTL

(* An evaluation exits with 0 only when the report of every scenario is      *)
(* written and none fell short, no answer knew of an earlier scenario, and   *)
(* no chat is left open, for any script and any judgments.                   *)
THEOREM VerdictsTheorem == SpecHost => []VerdictsAreRight
<1>1. HostInv => VerdictsAreRight
  BY EvalInvVerdicts DEF HostInv
<1>2. QED
  BY <1>1, HostInvariant, PTL

(* Whatever a context says and for any number of flags, one more virtue      *)
(* lowers no dimension of its action's score and one more fault raises none, *)
(* and the total stays within -1.0 and 1.0; of any number of turns, calls   *)
(* and token events, each turn's results and its whole text are recorded     *)
(* once, and a listing within its limit has all events of its session and no *)
(* others, each once, the newest first.                                      *)
THEOREM ScoresTheorem == SpecHost => []RewardsAreRight
<1>1. HostInv => RewardsAreRight
  BY ScoresFair, RewardInvRecords, ListingRight DEF HostInv, RewardInv, RewardsAreRight
<1>2. QED
  BY <1>1, HostInvariant, PTL

=============================================================================
