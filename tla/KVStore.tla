------------------------------- MODULE KVStore -------------------------------
(***************************************************************************)
(* vajra_gate/store.py (KVStore, any namespace but "rewards") and          *)
(* hiil_common/services/preferences.py (PreferencesStore), which keep the  *)
(* same file: a map read once into each process, changed there, and        *)
(* written as a whole to a temporary file that replaces the old one.       *)
(* Processes crash at every step.  Nothing in a process runs during one of *)
(* its operations: each is one call on its event loop.                     *)
(*                                                                         *)
(* A missing file reads as an empty one, and so does a torn one (of which  *)
(* KVStore keeps a copy aside).  All processes use one temporary file: it  *)
(* is opened, truncated, written and renamed, and a process still writing  *)
(* when another renames it goes on writing into the published file.        *)
(***************************************************************************)
EXTENDS FiniteSets

CONSTANTS
  Procs,    \* the processes: the gateway, servers that keep preferences
  Keys, Values,
  NoValue,  \* a key that is in no dictionary
  Unloaded, \* a namespace that is not in _cache
  Torn,     \* a file that is empty or was only written in part
  Gone      \* a file that does not exist

Maps == [Keys -> Values \cup {NoValue}]

ASSUME ConstantsAssumption ==
  /\ Unloaded \notin Maps /\ Torn \notin Maps /\ Gone \notin Maps
  /\ NoValue \notin Values /\ Torn # Gone

VARIABLES
  file,   \* <namespace>.json
  tmp,    \* .<namespace>.json.tmp
  cache,  \* what each process holds of it
  pc,     \* the file operation to come of each process
  fd,     \* the file each process has open for writing
  items,  \* keys changed by the operation in progress
  raced,  \* history: two processes had the temporary file open at once
  failed  \* history: an operation raised an OSError

vars == <<file, tmp, cache, pc, fd, items, raced, failed>>

TypeOK ==
  /\ file \in Maps \cup {Torn} /\ tmp \in Maps \cup {Torn, Gone}
  /\ cache \in [Procs -> Maps \cup {Unloaded}]
  /\ pc \in [Procs -> {"idle", "open", "write", "replace"}]
  /\ fd \in [Procs -> {"none", "tmp", "file", "unlinked"}]
  /\ items \in [Procs -> SUBSET Keys]
  /\ raced \in BOOLEAN /\ failed \in BOOLEAN
  /\ \A p \in Procs : (cache[p] = Unloaded => pc[p] = "idle") /\ (fd[p] # "none" <=> pc[p] = "write")

Init ==
  /\ file \in Maps /\ tmp = Gone /\ raced = FALSE /\ failed = FALSE
  /\ cache = [p \in Procs |-> Unloaded]
  /\ pc = [p \in Procs |-> "idle"] /\ fd = [p \in Procs |-> "none"]
  /\ items = [p \in Procs |-> {}]

-----------------------------------------------------------------------------
(* _load: once per process.                                                  *)
Stored == IF file = Torn THEN [k \in Keys |-> NoValue] ELSE file

Load(p) ==
  /\ pc[p] = "idle" /\ cache[p] = Unloaded
  /\ cache' = [cache EXCEPT ![p] = Stored]
  /\ UNCHANGED <<file, tmp, pc, fd, items, raced, failed>>

BeginUnsaved(p, m, ks) ==  \* mutant
  /\ pc[p] = "idle" /\ cache[p] # Unloaded
  /\ cache' = [cache EXCEPT ![p] = m]
  /\ UNCHANGED <<file, tmp, pc, fd, items, raced, failed>>

(* The cached dictionary is changed in place, before anything is written.    *)
Begin(p, m, ks) ==
  /\ pc[p] = "idle" /\ cache[p] # Unloaded
  /\ cache' = [cache EXCEPT ![p] = m]
  /\ items' = [items EXCEPT ![p] = ks]
  /\ pc' = [pc EXCEPT ![p] = "open"]
  /\ UNCHANGED <<file, tmp, fd, raced, failed>>

(* upsert: the namespace is saved even if no item has a key.                 *)
Upsert(p, ks) ==
  \E f \in [ks -> Values] :
    Begin(p, [k \in Keys |-> IF k \in ks THEN f[k] ELSE cache[p][k]], ks)

(* delete: the namespace is saved if a key was found.                        *)
Delete(p, ks) ==
  /\ cache[p] # Unloaded
  /\ LET found == {k \in ks : cache[p][k] # NoValue} IN
    /\ found # {}
    /\ Begin(p, [k \in Keys |-> IF k \in found THEN NoValue ELSE cache[p][k]], found)

-----------------------------------------------------------------------------
(* _save.                                                                    *)
OpenFile(p) ==  \* mutant
  /\ pc[p] = "open" /\ pc' = [pc EXCEPT ![p] = "write"]
  /\ fd' = [fd EXCEPT ![p] = "file"] /\ file' = Torn
  /\ UNCHANGED <<tmp, cache, items, raced, failed>>

Open(p) ==
  /\ pc[p] = "open" /\ pc' = [pc EXCEPT ![p] = "write"]
  /\ fd' = [fd EXCEPT ![p] = "tmp"] /\ tmp' = Torn
  /\ raced' = (raced \/ \E q \in Procs \ {p} : pc[q] \in {"write", "replace"})
  /\ UNCHANGED <<file, cache, items, failed>>

(* Two writers of one file may leave a mixture of their texts.               *)
Content(p) == {cache[p]} \cup IF raced THEN {Torn} ELSE {}

Write(p) ==
  /\ pc[p] = "write" /\ pc' = [pc EXCEPT ![p] = "replace"]
  /\ \E c \in Content(p) :
       /\ tmp'  = IF fd[p] = "tmp"  THEN c ELSE tmp
       /\ file' = IF fd[p] = "file" THEN c ELSE file
  /\ fd' = [fd EXCEPT ![p] = "none"]
  /\ UNCHANGED <<cache, items, raced, failed>>

Done(p) ==
  /\ pc' = [pc EXCEPT ![p] = "idle"]
  /\ items' = [items EXCEPT ![p] = {}]

Renamed(f) == IF f = "tmp" THEN "file" ELSE IF f = "file" THEN "unlinked" ELSE f

Replace(p) ==
  /\ pc[p] = "replace" /\ tmp # Gone
  /\ file' = tmp /\ tmp' = Gone
  /\ fd' = [q \in Procs |-> Renamed(fd[q])]
  /\ Done(p)
  /\ UNCHANGED <<cache, raced, failed>>

(* An OSError reaches the caller; the change stays in memory.  os.replace    *)
(* fails when the temporary file was renamed by another process.             *)
Fail(p) ==
  /\ pc[p] # "idle"
  /\ fd' = [fd EXCEPT ![p] = "none"]
  /\ Done(p) /\ failed' = TRUE
  /\ UNCHANGED <<file, tmp, cache, raced>>

(* The process stops without warning.                                        *)
Crash(p) ==
  /\ cache' = [cache EXCEPT ![p] = Unloaded]
  /\ fd' = [fd EXCEPT ![p] = "none"]
  /\ Done(p)
  /\ UNCHANGED <<file, tmp, raced, failed>>

Step(p) ==
  \/ Load(p) \/ Open(p) \/ Write(p) \/ Replace(p) \/ Fail(p) \/ Crash(p)
  \/ \E ks \in SUBSET Keys : Upsert(p, ks) \/ Delete(p, ks)

Next == \E p \in Procs : Step(p)

Spec == Init /\ [][Next]_vars

-----------------------------------------------------------------------------
(* Whatever crashes and failed writes happen, the file is whole, unless two  *)
(* processes have written the temporary file at once: "non-atomic JSON       *)
(* writes (crash corrupts file)" (docs/ISSUES.md:235) is mended.             *)
NeverTorn == ~raced => file # Torn

(* One process alone has a durable map that changes at once.                 *)
Sole == CHOOSE p \in Procs : TRUE

Durable == INSTANCE DurableMap WITH
  Fragile <- {}, Down <- Unloaded, Atomic <- TRUE, stored <- Stored, seen <- cache[Sole],
  due <- items[Sole], ragged <- FALSE, frail <- {}

ImplementsDurableMap == Durable!Spec

(* "Every server reads and writes the same user preferences across sessions" *)
(* (hiil_common/services/preferences.py:119-120): processes that are not in  *)
(* the middle of an operation have the same map, if no write has failed.     *)
SharedPreferences ==
  ~failed => \A p, q \in Procs :
    pc[p] = "idle" /\ pc[q] = "idle" /\ cache[p] # Unloaded /\ cache[q] # Unloaded
      => cache[p] = cache[q]
=============================================================================
