---------------------------- MODULE CronScheduler ----------------------------
(***************************************************************************)
(* vajra_gate/crons.py: the scheduled jobs of the gateway, their copy in   *)
(* the key-value store, the loop that runs them, the /crons requests of    *)
(* routers/phase_c.py, and restarts of the gateway.                        *)
(*                                                                         *)
(* Times are kept as the time left until next_run, 0 for a job that is     *)
(* due, so that no clock is needed: TimePasses lowers them all.  last_run  *)
(* and run_count are reported to clients only and left out.                *)
(***************************************************************************)
EXTENDS Naturals

CONSTANTS
  Jobs,      \* job ids; add() uses each once
  NoJob,     \* no job is running
  Absent,    \* a job that is not in a dictionary
  Period,    \* schedule_seconds
  MaxRestarts, \* bound: crashes of the gateway
  Stoppable  \* may scheduler.stop() be called?  The gateway never does

ASSUME ConstantsAssumption ==
  /\ NoJob \notin Jobs /\ Period \in Nat \ {0} /\ Absent \notin Nat
  /\ MaxRestarts \in Nat /\ Stoppable \in BOOLEAN

VARIABLES
  mem,      \* _jobs: time left of the jobs in memory
  disk,     \* the "crons" namespace of the store: time left of the jobs there
  loop,     \* the task of _run_loop: not started, sleeping, or in _tick
  due,      \* jobs of the current tick still to run
  cur,      \* the job running
  stale,    \* jobs in due or cur whose object is no longer the one in _jobs
  elapsed,  \* time since the tick started
  restarts, \* crashes so far
  used,     \* history: jobs added
  removed   \* history: jobs remove() was called for and answered True

tickVars == <<loop, due, cur, stale, elapsed>>
history  == <<used, removed>>
vars     == <<mem, disk, tickVars, restarts, history>>

Left == 0..Period

TypeOK ==
  /\ mem \in [Jobs -> Left \cup {Absent}] /\ disk \in [Jobs -> Left \cup {Absent}]
  /\ loop \in {"off", "sleep", "tick"}
  /\ due \subseteq Jobs /\ cur \in Jobs \cup {NoJob} /\ cur \notin due
  /\ stale \subseteq due \cup {cur}
  /\ elapsed \in Left /\ restarts \in 0..MaxRestarts
  /\ used \subseteq Jobs /\ removed \subseteq Jobs
  /\ cur = NoJob => due = {}
  /\ loop = "tick" <=> cur # NoJob

Nothing == [j \in Jobs |-> Absent]

Init ==
  /\ mem = Nothing /\ disk = Nothing
  /\ loop = "off" /\ due = {} /\ cur = NoJob /\ stale = {} /\ elapsed = 0
  /\ restarts = 0 /\ used = {} /\ removed = {}

-----------------------------------------------------------------------------
AsItIs == mem  \* mutant

(* _load_persisted: only an empty dictionary is filled.                      *)
Loaded == IF mem = Nothing THEN disk ELSE mem

(* POST /crons: add() a job, and start the loop unless it runs.              *)
Add(j) ==
  /\ j \notin used
  /\ used' = used \cup {j}
  /\ mem' = [Loaded EXCEPT ![j] = Period]
  /\ disk' = [disk EXCEPT ![j] = Period]
  /\ loop' = IF loop = "off" THEN "sleep" ELSE loop
  /\ UNCHANGED <<due, cur, stale, elapsed, restarts, removed>>

(* DELETE /crons/{id}: an unknown id still fills an empty dictionary.  A job *)
(* of the current tick keeps its place there.                                *)
RemoveJob(j) ==
  /\ IF Loaded[j] = Absent
     THEN mem' = Loaded /\ UNCHANGED <<disk, stale, removed>>
     ELSE /\ mem' = [Loaded EXCEPT ![j] = Absent]
          /\ disk' = [disk EXCEPT ![j] = Absent]
          /\ removed' = removed \cup {j}
          /\ stale' = stale \cup ({j} \cap (due \cup {cur}))
  /\ UNCHANGED <<loop, due, cur, elapsed, restarts, used>>

(* GET /crons and GET /crons/{id}                                            *)
Access ==
  /\ mem' = Loaded
  /\ UNCHANGED <<disk, tickVars, restarts, history>>

-----------------------------------------------------------------------------
(* The tick goes on with one of the jobs left, or ends.                      *)
Proceed(jobs) ==
  IF jobs = {}
  THEN loop' = "sleep" /\ cur' = NoJob /\ due' = {}
  ELSE \E j \in jobs : cur' = j /\ due' = jobs \ {j} /\ loop' = "tick"

FirstDue == LET ready == {j \in Jobs : mem[j] = 0} IN  \* mutant
  IF ready = {} THEN {} ELSE {CHOOSE j \in ready : TRUE}

DueNow == {j \in Jobs : mem[j] = 0}

(* _tick, entered after at most 30 seconds of sleep.                         *)
Tick ==
  /\ loop = "sleep"
  /\ elapsed' = 0
  /\ Proceed(DueNow)
  /\ UNCHANGED <<mem, disk, stale, restarts, history>>

(* The finally of a run: next_run counts from the start of the tick, and the *)
(* job is persisted.                                                         *)
Next_run == Period - elapsed

Unsaved ==  \* mutant
  /\ mem' = IF cur \in stale THEN mem ELSE [mem EXCEPT ![cur] = Next_run]
  /\ UNCHANGED disk

Reschedule ==
  /\ mem' = IF cur \in stale THEN mem ELSE [mem EXCEPT ![cur] = Next_run]
  /\ disk' = [disk EXCEPT ![cur] = Next_run]

(* The run answers, fails, or times out after 300 seconds.                   *)
RunEnds ==
  /\ loop = "tick"
  /\ Reschedule
  /\ stale' = stale \ {cur}
  /\ Proceed(due)
  /\ UNCHANGED <<elapsed, restarts, history>>

(* stop(): cancellation, which the finally of a run sees as well.            *)
Stop ==
  /\ Stoppable /\ loop # "off"
  /\ loop' = "off"
  /\ IF cur = NoJob THEN UNCHANGED <<mem, disk>> ELSE Reschedule
  /\ due' = {} /\ cur' = NoJob /\ stale' = {}
  /\ UNCHANGED <<elapsed, restarts, history>>

Less(n) == IF n \in Nat /\ n > 0 THEN n - 1 ELSE n

TimePasses ==
  /\ mem' = [j \in Jobs |-> Less(mem[j])]
  /\ disk' = [j \in Jobs |-> Less(disk[j])]
  /\ elapsed' = IF loop = "tick" /\ elapsed < Period THEN elapsed + 1 ELSE elapsed
  /\ UNCHANGED <<loop, due, cur, stale, restarts, history>>

(* The gateway stops without warning; the new process knows no job.          *)
Restart ==
  /\ restarts < MaxRestarts /\ restarts' = restarts + 1
  /\ mem' = Nothing
  /\ loop' = "off" /\ due' = {} /\ cur' = NoJob /\ stale' = {} /\ elapsed' = 0
  /\ UNCHANGED <<disk, history>>

Request == Access \/ \E j \in Jobs : Add(j) \/ RemoveJob(j)

Next == Request \/ Tick \/ RunEnds \/ Stop \/ TimePasses \/ Restart

(* Time passes, the loop's sleep ends and so does every run.                 *)
Spec == Init /\ [][Next]_vars /\ WF_vars(TimePasses) /\ WF_vars(Tick) /\ WF_vars(RunEnds)

-----------------------------------------------------------------------------
(* A job in memory that nobody removed is stored with the same next run:     *)
(* "Jobs are mirrored to the crons namespace" (crons.py:70).                 *)
Mirrored == \A j \in Jobs \ removed : mem[j] # Absent => disk[j] = mem[j]

(* A job is never lost: once added it is stored until it is removed,         *)
(* whatever restarts and runs happen, and once any job is in memory all of   *)
(* them are.                                                                 *)
NeverLost ==
  \A j \in used \ removed :
    /\ disk[j] # Absent
    /\ mem # Nothing => mem[j] # Absent

(* While the loop is not stopped, every job is run again and again until it  *)
(* is removed, however many others are due and however runs end.             *)
JobsRun ==
  \A j \in Jobs : (j \in used /\ loop # "off") ~> (cur = j \/ j \in removed \/ loop = "off")

(* Every job is run again and again until it is removed: "restored on first  *)
(* access, so scheduled tasks survive a gateway restart" (crons.py:71-72).   *)
EveryJobRuns == \A j \in Jobs : (j \in used) ~> (cur = j \/ j \in removed)
=============================================================================
