------------------------------ MODULE Knowledge ------------------------------
(***************************************************************************)
(* What is put into the vector store to be retrieved: the files that users *)
(* upload, and at the end what they say.                                   *)
(*                                                                         *)
(* mcp_cli/services/rag.py behind routers/knowledge.py: uploads of one     *)
(* file into one namespace, and retrievals that ask whether the namespace  *)
(* is empty.  A step ends where a coroutine awaits; the vector store works *)
(* in a thread.  A file is a number of chunks, and a chunk is known by the *)
(* upload it comes from; an upload names the task it started, if it did.   *)
(* Every chat has a RagPipeline of its own, with its uploads in flight and *)
(* its cache, over the one table.  This is the pipeline of one chat; those *)
(* of the others share nothing with it but the table, and are what they do *)
(* to that.                                                                *)
(***************************************************************************)
EXTENDS Naturals, FiniteSets

CONSTANTS
  MaxUploads,\* bound: calls of index_document(), numbered as they come
  Readers,   \* calls of retrieve()
  MaxChunks  \* bound: chunks of a file

ASSUME KnowledgeAssumption == MaxUploads \in Nat /\ MaxChunks \in Nat

Uploads == 1..MaxUploads
Nobody  == 0
Elsewhere == MaxUploads + 1  \* the uploads of other chats
ChunkNumbers == 1..MaxChunks

VARIABLES
  chunks,     \* rows of the vector store: <filename>#chunk_<i>
  call,       \* what each upload is doing
  on,         \* the task it awaits
  task,       \* the tasks
  work,       \* the chunks of each task
  inflight,   \* _index_inflight of the file
  emptyCache, \* _empty_cache of the namespace
  reading,    \* what each retrieval has counted
  latest,     \* history: the task begun last
  abandoned,  \* history: an upload was cancelled while its task ran
  late,       \* history: retrievals that counted before an upload was done
  outdated    \* history: the cache was filled by one of them

knowledgeVars ==
  <<chunks, call, on, task, work, inflight, emptyCache, reading, latest, abandoned, late, outdated>>

KnowledgeTypeOK ==
  /\ chunks \in [ChunkNumbers -> Uploads \cup {Nobody, Elsewhere}]
  /\ call \in [Uploads -> {"idle", "waiting", "answered", "cancelled"}]
  /\ on \in [Uploads -> Uploads \cup {Nobody}] /\ task \in [Uploads -> {"none", "running", "done"}]
  /\ work \in [Uploads -> [ChunkNumbers -> {"none", "embed", "write", "stored", "failed"}]]
  /\ {inflight, latest} \subseteq Uploads \cup {Nobody}
  /\ emptyCache \in {"unknown", "empty", "filled"}
  /\ reading \in [Readers -> {"idle", "asked", "empty", "filled"}]
  /\ {abandoned, outdated} \subseteq BOOLEAN /\ late \subseteq Readers
  /\ inflight # Nobody => task[inflight] # "none"

KnowledgeInit ==
  /\ chunks = [i \in ChunkNumbers |-> Nobody]
  /\ call = [u \in Uploads |-> "idle"] /\ on = [u \in Uploads |-> Nobody]
  /\ task = [u \in Uploads |-> "none"]
  /\ work = [u \in Uploads |-> [i \in ChunkNumbers |-> "none"]] /\ inflight = Nobody
  /\ emptyCache = "unknown" /\ reading = [r \in Readers |-> "idle"]
  /\ latest = Nobody /\ abandoned = FALSE /\ late = {} /\ outdated = FALSE

history == <<abandoned, late, outdated>>

-----------------------------------------------------------------------------
UploadAlways(u) ==  \* mutant
  /\ call[u] = "idle" /\ \A v \in 1..u - 1 : call[v] # "idle"
  /\ call' = [call EXCEPT ![u] = "waiting"] /\ on' = [on EXCEPT ![u] = u]
  /\ inflight' = u /\ latest' = u /\ task' = [task EXCEPT ![u] = "running"]
  /\ work' = [work EXCEPT ![u] = [i \in ChunkNumbers |-> "embed"]]
  /\ UNCHANGED <<chunks, emptyCache, reading, history>>

(* index_document: join the task that indexes the file, whatever content it  *)
(* was given, or start one.  A file of no text, or that cannot be read, has  *)
(* no chunks.                                                                *)
Upload(u) ==
  /\ call[u] = "idle" /\ \A v \in 1..u - 1 : call[v] # "idle"
  /\ call' = [call EXCEPT ![u] = "waiting"]
  /\ IF inflight # Nobody
     THEN /\ on' = [on EXCEPT ![u] = inflight]
          /\ UNCHANGED <<task, work, inflight, latest>>
     ELSE /\ on' = [on EXCEPT ![u] = u] /\ inflight' = u /\ latest' = u
          /\ task' = [task EXCEPT ![u] = "running"]
          /\ \E n \in 0..MaxChunks :
               work' = [work EXCEPT ![u] = [i \in ChunkNumbers |-> IF i <= n THEN "embed" ELSE "none"]]
  /\ UNCHANGED <<chunks, emptyCache, reading, history>>

(* The model embeds a chunk, or does not.                                    *)
EmbedChunk(t, i) ==
  /\ work[t][i] = "embed"
  /\ \E result \in {"write", "failed"} : work' = [work EXCEPT ![t][i] = result]
  /\ UNCHANGED <<chunks, call, on, task, inflight, emptyCache, reading, latest, history>>

(* VectorStore.index: the row is inserted or replaced, or the database fails.*)
WriteChunk(t, i) ==
  /\ work[t][i] = "write"
  /\ \/ work' = [work EXCEPT ![t][i] = "stored"] /\ chunks' = [chunks EXCEPT ![i] = t]
     \/ work' = [work EXCEPT ![t][i] = "failed"] /\ UNCHANGED chunks
  /\ UNCHANGED <<call, on, task, inflight, emptyCache, reading, latest, history>>

(* Another chat's upload of the file stores a chunk: nothing keeps it from   *)
(* running beside this chat's, and it leaves this one's cache as it is.      *)
WriteElsewhere(i) ==
  /\ chunks' = [chunks EXCEPT ![i] = Elsewhere]
  /\ UNCHANGED <<call, on, task, work, inflight, emptyCache, reading, latest, history>>

Indexed(t) == {i \in ChunkNumbers : work[t][i] = "stored"}

KeepCache(t) == UNCHANGED <<emptyCache, late>>  \* mutant

(* _invalidate_empty_cache, if anything was indexed.                         *)
Invalidate(t) ==
  IF Indexed(t) # {}
  THEN emptyCache' = "unknown" /\ late' = {r \in Readers : reading[r] = "empty"}
  ELSE UNCHANGED <<emptyCache, late>>

Finish(t) ==
  /\ task[t] = "running" /\ \A i \in ChunkNumbers : work[t][i] \notin {"embed", "write"}
  /\ task' = [task EXCEPT ![t] = "done"]
  /\ Invalidate(t)
  /\ UNCHANGED <<chunks, call, on, work, inflight, reading, latest, abandoned, outdated>>

(* The finally: the entry goes if it is still that of the task awaited.      *)
Forget(u) == inflight' = IF inflight = on[u] THEN Nobody ELSE inflight

Answer(u) ==
  /\ call[u] = "waiting" /\ task[on[u]] = "done"
  /\ call' = [call EXCEPT ![u] = "answered"] /\ Forget(u)
  /\ UNCHANGED <<chunks, on, task, work, emptyCache, reading, latest, history>>

(* The request is cancelled; its task is shielded and goes on.               *)
Cancel(u) ==
  /\ call[u] = "waiting"
  /\ call' = [call EXCEPT ![u] = "cancelled"] /\ Forget(u)
  /\ abandoned' = (abandoned \/ task[on[u]] = "running")
  /\ UNCHANGED <<chunks, on, task, work, emptyCache, reading, latest, late, outdated>>

-----------------------------------------------------------------------------
(* _is_namespace_empty: unless it is known, a thread counts and the answer   *)
(* is kept when the coroutine goes on.                                       *)
Ask(r) ==
  /\ reading[r] = "idle" /\ emptyCache = "unknown"
  /\ reading' = [reading EXCEPT ![r] = "asked"]
  /\ UNCHANGED <<chunks, call, on, task, work, inflight, emptyCache, latest, history>>

Count(r) ==
  /\ reading[r] = "asked"
  /\ reading' = [reading EXCEPT ![r] = IF \A i \in ChunkNumbers : chunks[i] = Nobody THEN "empty" ELSE "filled"]
  /\ UNCHANGED <<chunks, call, on, task, work, inflight, emptyCache, latest, history>>

Keep(r) ==
  /\ reading[r] \in {"empty", "filled"}
  /\ emptyCache' = reading[r] /\ reading' = [reading EXCEPT ![r] = "idle"]
  /\ outdated' = (r \in late) /\ late' = late \ {r}
  /\ UNCHANGED <<chunks, call, on, task, work, inflight, latest, abandoned>>

(* _EMPTY_CACHE_TTL has passed.                                              *)
Expire ==
  /\ emptyCache # "unknown" /\ emptyCache' = "unknown"
  /\ UNCHANGED <<chunks, call, on, task, work, inflight, reading, latest, history>>

KnowledgeNext ==
  \/ \E u \in Uploads : Upload(u) \/ Answer(u) \/ Cancel(u) \/ Finish(u)
  \/ \E u \in Uploads, i \in ChunkNumbers : EmbedChunk(u, i) \/ WriteChunk(u, i)
  \/ \E r \in Readers : Ask(r) \/ Count(r) \/ Keep(r)
  \/ Expire \/ \E i \in ChunkNumbers : WriteElsewhere(i)

KnowledgeSpec == KnowledgeInit /\ [][KnowledgeNext]_knowledgeVars

-----------------------------------------------------------------------------
(* When nothing is being indexed, what the last task indexed is what the     *)
(* store holds: a chat's uploads of one file never mix their chunks, though  *)
(* another chat's may come between.  It takes that no upload was cancelled   *)
(* while its task ran on.                                                    *)
Quiet == \A t \in Uploads : task[t] # "running"

LastUploadStands ==
  Quiet /\ ~abandoned /\ latest # Nobody => \A i \in Indexed(latest) : chunks[i] \in {latest, Elsewhere}

(* Once an upload of a chat is done, none of its retrievals is told that     *)
(* there is nothing, unless the cache was filled from a count made before.   *)
FoundOnceIndexed ==
  emptyCache = "empty" /\ ~outdated => \A t \in Uploads : task[t] = "done" => Indexed(t) = {}

(* What was uploaded is found: its chunks stand, and no cached answer hides  *)
(* them.                                                                     *)
UploadsAreFound == LastUploadStands /\ FoundOnceIndexed

-----------------------------------------------------------------------------
(***************************************************************************)
(* auto_index() of mcp_cli/services/context_manager.py: every turn of      *)
(* every session starts a task that files what the user said under the     *)
(* number of texts there are.  All sessions share the namespace.  The      *)
(* vector store works in a thread, and its rows are never deleted.         *)
(***************************************************************************)
CONSTANTS
  Turns,   \* the turns whose text is long enough to be filed
  NoText   \* a key that has no row

ASSUME IndexAssumption == NoText \notin Turns /\ IsFiniteSet(Turns)

TextNumbers == 0..Cardinality(Turns)

VARIABLES
  texts,      \* rows of the namespace: msg_<n>
  filing,     \* what each turn's task is doing
  number,     \* the number it took
  overlapped  \* history: two tasks were between counting and writing

indexVars == <<texts, filing, number, overlapped>>

IndexTypeOK ==
  /\ texts \in [TextNumbers -> Turns \cup {NoText}]
  /\ filing \in [Turns -> {"idle", "count", "embed", "write", "filed", "failed"}]
  /\ number \in [Turns -> TextNumbers] /\ overlapped \in BOOLEAN

IndexInit ==
  /\ texts = [n \in TextNumbers |-> NoText] /\ filing = [t \in Turns |-> "idle"]
  /\ number = [t \in Turns |-> 0] /\ overlapped = FALSE

StartFiling(t) ==
  /\ filing[t] = "idle" /\ filing' = [filing EXCEPT ![t] = "count"]
  /\ UNCHANGED <<texts, number, overlapped>>

Filed == {n \in TextNumbers : texts[n] # NoText}

FromOne == Cardinality(Filed \ {0})  \* mutant

NextNumber == Cardinality(Filed)

CountTexts(t) ==
  /\ filing[t] = "count" /\ filing' = [filing EXCEPT ![t] = "embed"]
  /\ number' = [number EXCEPT ![t] = NextNumber]
  /\ overlapped' = (overlapped \/ \E u \in Turns : filing[u] \in {"embed", "write"})
  /\ UNCHANGED texts

EmbedText(t) ==
  /\ filing[t] = "embed"
  /\ \E result \in {"write", "failed"} : filing' = [filing EXCEPT ![t] = result]
  /\ UNCHANGED <<texts, number, overlapped>>

WriteText(t) ==
  /\ filing[t] = "write" /\ filing' = [filing EXCEPT ![t] = "filed"]
  /\ texts' = [texts EXCEPT ![number[t]] = t]
  /\ UNCHANGED <<number, overlapped>>

(* CliChat.close() cancels the task; what a thread has begun it does.        *)
CancelFiling(t) ==
  /\ filing[t] \in {"count", "embed", "write"} /\ filing' = [filing EXCEPT ![t] = "failed"]
  /\ UNCHANGED <<texts, number, overlapped>>

IndexNext ==
  \E t \in Turns : StartFiling(t) \/ CountTexts(t) \/ EmbedText(t) \/ WriteText(t) \/ CancelFiling(t)

IndexSpec == IndexInit /\ [][IndexNext]_indexVars

-----------------------------------------------------------------------------
(* A text that was filed stays filed.  It takes that no two tasks overlap,   *)
(* which sessions that run at once do not promise.                           *)
TextsStay == ~overlapped => \A t \in Turns : filing[t] = "filed" => \E n \in TextNumbers : texts[n] = t
=============================================================================
