----------------------------- MODULE MemoryStore -----------------------------
(* AgentMemoryStore (mcp_cli/services/agents/memory.py), which the runs of a *)
(* process share: memory files, and the hash of each, kept with the stat()   *)
(* it belongs to.  A call on the store is one step of the event loop; other  *)
(* processes write the same files in between, even between the stat() and    *)
(* the read of one call.                                                     *)
(*                                                                           *)
(* A namespace and a path make one path of segments, and what two namespaces *)
(* reach may be one file.  A text is a number; its hash is itself.           *)
EXTENDS Naturals, Sequences, FiniteSets

CONSTANTS
  Scopes,       \* namespace and path of the calls: pairs of sequences
  Memories,       \* contents
  SizeOfText,     \* bytes of a content, and of none
  MaxTicks      \* bound: ticks of the file system's clock

VARIABLES
  memoryFiles, \* by path: content and mtime; no content for a file that is not there
  ticks,     \* the clock that stamps files
  statCache, \* _stat_cache, by scope: mtime, size and hash
  hashing,   \* the call to snapshot_hashes between stat() and read: its scope and stat
  hashed,    \* what snapshot_hashes last returned for a scope
  touched    \* history: paths written, past the scope that hashed them, in the tick of their cached stamp

memoryVars == <<memoryFiles, ticks, statCache, hashing, hashed, touched>>

Erased    == 0
NoStat     == [mtime |-> 0, size |-> 0, hash |-> Erased]
Unhashed   == [hash |-> Erased, of |-> Erased]
Paths      == {s[1] \o s[2] : s \in Scopes}
PathOf(s)  == s[1] \o s[2]
NotHashing == [on |-> FALSE, scope |-> CHOOSE s \in Scopes : TRUE, mtime |-> 0, size |-> 0]

MemoryInit ==
  /\ memoryFiles = [p \in Paths |-> [text |-> Erased, mtime |-> 0]] /\ ticks = 1
  /\ statCache = [s \in Scopes |-> NoStat] /\ hashing = NotHashing
  /\ hashed = [s \in Scopes |-> Unhashed] /\ touched = {}

ClockTicks ==
  /\ ticks < MaxTicks /\ ticks' = ticks + 1
  /\ UNCHANGED <<memoryFiles, statCache, hashing, hashed, touched>>

PutMemory(p, text) == memoryFiles' = [memoryFiles EXCEPT ![p] = [text |-> text, mtime |-> IF text = Erased THEN 0 ELSE ticks]]

(* A file that others have written in the tick it was hashed in may look     *)
(* unchanged.                                                                *)
Unseen(p, s) == PathOf(s) = p /\ statCache[s] # NoStat /\ statCache[s].mtime = ticks
Between(p)   == hashing.on /\ PathOf(hashing.scope) = p /\ hashing.mtime = ticks

Touch(p, scopes) ==
  touched' = IF (\E o \in scopes : Unseen(p, o)) \/ Between(p) THEN touched \cup {p} ELSE touched

WriteOnly(s, text) ==  \* mutant
  /\ ~hashing.on /\ (text = Erased => memoryFiles[PathOf(s)].text # Erased)
  /\ PutMemory(PathOf(s), text) /\ Touch(PathOf(s), Scopes \ {s})
  /\ UNCHANGED <<ticks, statCache, hashing, hashed>>

(* write, and delete for no text: the scope's own entry goes.                *)
WriteMemory(s, text) ==
  /\ ~hashing.on /\ (text = Erased => memoryFiles[PathOf(s)].text # Erased)
  /\ PutMemory(PathOf(s), text) /\ Touch(PathOf(s), Scopes \ {s})
  /\ statCache' = [statCache EXCEPT ![s] = NoStat]
  /\ UNCHANGED <<ticks, hashing, hashed>>

(* Another process writes or deletes.                                        *)
WriteElsewhere(p, text) ==
  /\ PutMemory(p, text) /\ Touch(p, Scopes)
  /\ UNCHANGED <<ticks, statCache, hashing, hashed>>

BySize(cached, mtime, size) ==  \* mutant
  cached # NoStat /\ cached.size = size

IsCurrent(cached, mtime, size) == cached # NoStat /\ cached.mtime = mtime /\ cached.size = size

Returns(s, hash, of) == hashed' = [hashed EXCEPT ![s] = [hash |-> hash, of |-> of]]

(* snapshot_hashes of one path: what the cache says of this stat() is taken, *)
(* otherwise the file is read.                                               *)
TakeStat(s) ==
  LET f == memoryFiles[PathOf(s)]
      size == SizeOfText[f.text]
  IN /\ ~hashing.on
     /\ IF f.text = Erased
          THEN Returns(s, Erased, Erased) /\ statCache' = [statCache EXCEPT ![s] = NoStat] /\ UNCHANGED hashing
        ELSE IF IsCurrent(statCache[s], f.mtime, size)
          THEN Returns(s, statCache[s].hash, f.text) /\ UNCHANGED <<statCache, hashing>>
        ELSE /\ hashing' = [on |-> TRUE, scope |-> s, mtime |-> f.mtime, size |-> size]
             /\ UNCHANGED <<hashed, statCache>>
     /\ UNCHANGED <<memoryFiles, ticks, touched>>

(* A file deleted meanwhile raises.                                          *)
HashText ==
  LET s == hashing.scope
      text == memoryFiles[PathOf(s)].text
  IN /\ hashing.on /\ hashing' = NotHashing
     /\ IF text = Erased THEN UNCHANGED <<hashed, statCache>>
        ELSE /\ Returns(s, text, text)
             /\ statCache' = [statCache EXCEPT ![s] = [mtime |-> hashing.mtime, size |-> hashing.size, hash |-> text]]
     /\ UNCHANGED <<memoryFiles, ticks, touched>>

MemoryNext ==
  \/ ClockTicks \/ HashText
  \/ \E s \in Scopes : TakeStat(s) \/ \E text \in Memories \cup {Erased} : WriteMemory(s, text)
  \/ \E p \in Paths, text \in Memories \cup {Erased} : WriteElsewhere(p, text)

MemoryTypeOK ==
  /\ memoryFiles \in [Paths -> [text : Memories \cup {Erased}, mtime : 0..MaxTicks]] /\ ticks \in 1..MaxTicks
  /\ statCache \in [Scopes -> [mtime : 0..MaxTicks, size : Nat, hash : Memories \cup {Erased}]]
  /\ hashing.scope \in Scopes /\ touched \subseteq Paths
  /\ hashed \in [Scopes -> [hash : Memories \cup {Erased}, of : Memories \cup {Erased}]]

(* A snapshot tells what is in the file: the hash it returns is that of the  *)
(* file's content when it returned, however writes of this process and of    *)
(* others fell between its stat() and its read, unless a write fell into the *)
(* tick that the cached hash is stamped with.                                *)
HashesAreCurrent ==
  \A s \in Scopes : PathOf(s) \notin touched => hashed[s].hash = hashed[s].of
=============================================================================
