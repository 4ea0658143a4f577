------------------------------ MODULE RewardLog ------------------------------
(***************************************************************************)
(* vajra_gate/store.py: the "rewards" namespace of a KVStore, an           *)
(* append-only file of JSON lines with compaction, migration from the old  *)
(* JSON file, and crashes at every step.                                   *)
(*                                                                         *)
(* A line is the part of the map it sets when it is read: an entry sets    *)
(* one key, a compacted snapshot all of them, and text that does not parse *)
(* none.                                                                   *)
(* The file is compacted when it is larger than a number of bytes; the     *)
(* model does so whenever it likes.  A temporary file is never read, so    *)
(* writing it and os.replace are one step.                                 *)
(***************************************************************************)
EXTENDS Naturals, Sequences, FiniteSetsExt, Functions

CONSTANTS
  Keys, Values,
  Splitting, \* values with a character that ends a line for splitlines: U+0085, U+2028, U+2029
  NoValue,   \* a key that is in no dictionary
  Unloaded,  \* a namespace that is not in _cache
  Gone,      \* a file that does not exist
  MaxLines   \* bound: lines of the file before it is compacted

VARIABLES
  log,      \* the lines of rewards.jsonl
  ended,    \* its last line has its newline
  legacy,   \* rewards.json, the format before
  cache,    \* _cache["rewards"]
  pc,       \* the file operation to come
  items     \* keys of the appended entries still to be written

vars == <<log, ended, legacy, cache, pc, items>>

Maps  == [Keys -> Values \cup {NoValue}]
Lines == UNION {[ks -> Values] : ks \in SUBSET Keys}

TypeOK ==
  /\ log \in Seq(Lines) /\ Len(log) <= MaxLines
  /\ ended \in BOOLEAN /\ (log = <<>> => ended)
  /\ legacy \in Maps \cup {Gone}
  /\ cache \in Maps \cup {Unloaded}
  /\ pc \in {"idle", "migrate", "unlink", "append", "replace"}
  /\ items \subseteq Keys
  /\ items = {} <=> pc \notin {"append", "replace"}

Init ==
  /\ log = <<>> /\ ended = TRUE /\ legacy \in Maps \cup {Gone}
  /\ cache = Unloaded /\ pc = "idle" /\ items = {}

-----------------------------------------------------------------------------
Junk == <<>>
Snapshot(m) == Restrict(m, {k \in Keys : m[k] # NoValue})

(* json.dumps leaves those characters as they are (ensure_ascii=False), and  *)
(* _load_rewards takes the parts of what was one line for several, which do  *)
(* not parse.                                                                *)
ReadBack(line) == IF \E k \in DOMAIN line : line[k] \in Splitting THEN Junk ELSE line

(* _load_rewards: the last line with a key counts, lines that do not parse   *)
(* are passed over, and the old file only has what the new one lacks.        *)
FromLegacy(k) == IF legacy = Gone THEN NoValue ELSE legacy[k]
Stored ==
  [k \in Keys |->
     LET at == {i \in DOMAIN log : k \in DOMAIN log[i]}
     IN IF at = {} THEN FromLegacy(k) ELSE log[Max(at)][k]]

Load ==
  /\ pc = "idle" /\ cache = Unloaded
  /\ IF legacy = Gone THEN cache' = Stored /\ UNCHANGED pc
                      ELSE pc' = "migrate" /\ UNCHANGED cache
  /\ UNCHANGED <<log, ended, legacy, items>>

Compacted(m) == log' = <<ReadBack(Snapshot(m))>> /\ ended' = TRUE

Migrate ==
  /\ pc = "migrate" /\ pc' = "unlink"
  /\ Compacted(Stored)
  /\ UNCHANGED <<legacy, cache, items>>

(* The map migrated is the old file's: the log has nothing else yet.         *)
Unlink ==
  /\ pc = "unlink" /\ pc' = "idle"
  /\ cache' = Stored /\ legacy' = Gone
  /\ UNCHANGED <<log, ended, items>>

-----------------------------------------------------------------------------
Changed(f) == [k \in Keys |-> IF k \in DOMAIN f THEN f[k] ELSE cache[k]]

UpsertAny(f) ==  \* mutant
  /\ pc = "idle" /\ cache # Unloaded
  /\ cache' = Changed(f) /\ items' = DOMAIN f
  /\ Len(log) + Cardinality(DOMAIN f) <= MaxLines /\ pc' = "append"
  /\ UNCHANGED <<log, ended, legacy>>

(* upsert: the cache changes before the file, and nothing is written for a   *)
(* batch without keys.                                                       *)
Upsert(f) ==
  /\ pc = "idle" /\ cache # Unloaded /\ f # Junk
  /\ cache' = Changed(f) /\ items' = DOMAIN f
  /\ \/ log # <<>> /\ pc' = "replace"
     \/ Len(log) + Cardinality(DOMAIN f) <= MaxLines /\ pc' = "append"
  /\ UNCHANGED <<log, ended, legacy>>

(* delete: the namespace is saved if a key was found, as a snapshot.         *)
Delete(ks) ==
  /\ pc = "idle" /\ cache # Unloaded
  /\ LET found == {k \in ks : cache[k] # NoValue} IN
       /\ found # {}
       /\ cache' = [k \in Keys |-> IF k \in found THEN NoValue ELSE cache[k]]
       /\ items' = found
  /\ pc' = "replace"
  /\ UNCHANGED <<log, ended, legacy>>

ReplaceStale ==  \* mutant
  /\ pc = "replace" /\ pc' = "idle"
  /\ Compacted(Stored) /\ items' = {}
  /\ UNCHANGED <<legacy, cache>>

(* _write_rewards.                                                           *)
Replace ==
  /\ pc = "replace" /\ pc' = "idle"
  /\ Compacted(cache) /\ items' = {}
  /\ UNCHANGED <<legacy, cache>>

Entry(k) == [x \in {k} |-> cache[k]]

(* Text written after a line without a newline becomes part of that line,    *)
(* which parses no more.                                                     *)
Written(line) ==
  IF ended THEN Append(log, line) ELSE [log EXCEPT ![Len(log)] = Junk]

(* One of the lines of the append; the write returns after the last.         *)
AppendLine(k) ==
  /\ pc = "append" /\ k \in items
  /\ log' = Written(ReadBack(Entry(k))) /\ ended' = TRUE
  /\ items' = items \ {k}
  /\ pc' = IF items' = {} THEN "idle" ELSE pc
  /\ UNCHANGED <<legacy, cache>>

(* What a write that ends before its time leaves: nothing of the next line,  *)
(* part of it, or all of it but its newline.                                 *)
CutOff ==
  \/ UNCHANGED <<log, ended>>
  \/ /\ pc = "append" /\ ended' = FALSE
     /\ \E k \in items : \E line \in {Junk, ReadBack(Entry(k))} : log' = Written(line)

(* An OSError reaches the caller.                                            *)
Fail ==
  /\ pc # "idle" /\ pc' = "idle"
  /\ CutOff /\ items' = {}
  /\ UNCHANGED <<legacy, cache>>

(* The gateway stops without warning, and is started again.                  *)
Crash ==
  /\ CutOff
  /\ cache' = Unloaded /\ pc' = "idle" /\ items' = {}
  /\ UNCHANGED legacy

Next ==
  \/ Load \/ Migrate \/ Unlink \/ Replace \/ Fail \/ Crash
  \/ \E f \in Lines : Upsert(f)
  \/ \E ks \in SUBSET Keys : Delete(ks)
  \/ \E k \in Keys : AppendLine(k)

Spec == Init /\ [][Next]_vars

-----------------------------------------------------------------------------
(* The log is a durable map that is not atomic: "Persistent reward event     *)
(* store" (services/reward/store.py:10).  Values that split a line are       *)
(* fragile: written alone, such an entry is not found after a restart, and a *)
(* snapshot that holds one loses all the others with it.                     *)
Durable == INSTANCE DurableMap WITH
  Down <- Unloaded, Atomic <- FALSE, Fragile <- Splitting, stored <- Stored, seen <- cache, due <- items,
  ragged <- ~ended, frail <- IF ended THEN {} ELSE DOMAIN log[Len(log)]

ImplementsDurableMap == Durable!Spec
=============================================================================
