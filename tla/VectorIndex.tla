----------------------------- MODULE VectorIndex -----------------------------
(* The vectors table and the clusters over it: every write counts the rows   *)
(* of its namespace and, at each multiple of fifty, reads them all and       *)
(* builds the clusters again, outside the lock.  There is one set of         *)
(* clusters, whichever namespace was built last; a search of that namespace  *)
(* looks at the clusters alone, one of any other reads the table.            *)
(*                                                                           *)
(* Every chat has a VectorStore of its own, with its lock and clusters, over *)
(* the one table.  This is the store of one chat; the others share nothing   *)
(* with it but the table, and are what they do to that.                      *)
EXTENDS Naturals, FiniteSets, FiniteSetsExt, Functions

CONSTANTS
  Namespaces, NoNamespace,
  Writers,        \* threads of the pool
  RebuildEvery,   \* the multiple (50)
  MinVectors,     \* IVFIndex.min_vectors (100)
  MaxVectors,     \* bound: keys of a namespace
  Earlier         \* bound: rows an earlier process may have left in a namespace

ASSUME SomeRows ==
  /\ RebuildEvery \in Nat \ {0} /\ MinVectors \in Nat /\ MaxVectors \in Nat /\ Earlier \subseteq 0..MaxVectors
  /\ NoNamespace \notin Namespaces /\ Namespaces # {}

VARIABLES
  vectors,        \* keys in the table, by namespace, in the order they came
  clustered,      \* keys in keys_by_cluster
  clusteredFor,   \* _ivf.namespace
  writing,        \* what each writer is doing
  into,           \* its namespace
  counted,        \* the number of rows its write made, or those it has read
  passed,         \* history: a rebuild failed, or a count came late, so that it may have missed its multiple
  mixed,          \* history: a rebuild began during another
  shrunk,         \* history: rows were deleted
  behind          \* history: namespaces where the other stores have written since this one read them

vectorVars == <<vectors, clustered, clusteredFor, writing, into, counted, passed, mixed, shrunk, behind>>

Steps == {"idle", "counting", "reading", "building", "naming"}
Rebuilding == {"reading", "building", "naming"}

VectorInit ==
  /\ vectors \in [Namespaces -> {1..n : n \in Earlier}]
  /\ clustered = {} /\ clusteredFor = NoNamespace
  /\ writing = [w \in Writers |-> "idle"]
  /\ into = [w \in Writers |-> CHOOSE ns \in Namespaces : TRUE]
  /\ counted = [w \in Writers |-> {}]
  /\ passed = FALSE /\ mixed = FALSE /\ shrunk = FALSE /\ behind = {}

RowCount(ns) == Cardinality(vectors[ns])
Goto(w, step) == writing' = [writing EXCEPT ![w] = step]
Hold(w, step, keys) ==
  Goto(w, step) /\ counted' = [counted EXCEPT ![w] = IF step = "idle" THEN {} ELSE keys]

InsertVector(ns) ==
  \E k \in vectors[ns] \cup ({Max(vectors[ns] \cup {0}) + 1} \cap 1..MaxVectors) :
    vectors' = [vectors EXCEPT ![ns] = @ \cup {k}]

(* index, under the lock: a key that is there already is replaced.           *)
IndexVector(w, ns) ==
  /\ writing[w] = "idle"
  /\ InsertVector(ns)
  /\ into'  = [into EXCEPT ![w] = ns]
  /\ Hold(w, "counting", vectors'[ns])
  /\ UNCHANGED <<clustered, clusteredFor, passed, mixed, shrunk, behind>>

OthersRebuild(w) == \E v \in Writers \ {w} : writing[v] \in Rebuilding

CountRows(w) ==
  LET n == RowCount(into[w])
      due == n > 0 /\ n % RebuildEvery = 0
  IN /\ writing[w] = "counting"
     /\ Hold(w, IF due THEN "reading" ELSE "idle", {})
     /\ passed' = (passed \/ vectors[into[w]] # counted[w])
     /\ mixed'  = (mixed \/ (due /\ OthersRebuild(w)))
     /\ UNCHANGED <<vectors, clustered, clusteredFor, into, shrunk, behind>>

(* tune rebuilds at any count.                                               *)
Tune(w, ns) ==
  /\ writing[w] = "idle"
  /\ Goto(w, "reading")
  /\ into'  = [into EXCEPT ![w] = ns]
  /\ mixed' = (mixed \/ OthersRebuild(w))
  /\ UNCHANGED <<vectors, clustered, clusteredFor, counted, passed, shrunk, behind>>

(* _rebuild_ivf returns at once when there are no rows.                      *)
ReadRows(w) ==
  /\ writing[w] = "reading"
  /\ Hold(w, IF vectors[into[w]] = {} THEN "idle" ELSE "building", vectors[into[w]])
  /\ behind' = behind \ {into[w]}
  /\ UNCHANGED <<vectors, clustered, clusteredFor, into, passed, mixed, shrunk>>

(* build, or reset when there are too few rows: whoever was served before.   *)
Build(w) ==
  /\ writing[w] = "building"
  /\ IF Cardinality(counted[w]) >= MinVectors
       THEN clustered' = counted[w] /\ Hold(w, "naming", {}) /\ UNCHANGED clusteredFor
       ELSE clustered' = {} /\ clusteredFor' = NoNamespace /\ Hold(w, "idle", {})
  /\ UNCHANGED <<vectors, into, passed, mixed, shrunk, behind>>

(* Vectors of different lengths: the exception is swallowed.                 *)
BuildFails(w) ==
  /\ writing[w] = "building"
  /\ Hold(w, "idle", {})
  /\ passed' = TRUE
  /\ UNCHANGED <<vectors, clustered, clusteredFor, into, mixed, shrunk, behind>>

NameOnce(w) ==  \* mutant
  /\ writing[w] = "naming"
  /\ clusteredFor' = IF clusteredFor = NoNamespace THEN into[w] ELSE clusteredFor
  /\ Goto(w, "idle")
  /\ UNCHANGED <<vectors, clustered, into, counted, passed, mixed, shrunk, behind>>

NameIndex(w) ==
  /\ writing[w] = "naming"
  /\ clusteredFor' = into[w]
  /\ Goto(w, "idle")
  /\ UNCHANGED <<vectors, clustered, into, counted, passed, mixed, shrunk, behind>>

(* delete and delete_namespace leave the clusters alone.  Which key goes     *)
(* makes no difference to the counts: the oldest, once in a behaviour.       *)
DeleteVectors(ns) ==
  /\ ~shrunk
  /\ vectors[ns] # {}
  /\ \E gone \in {{Min(vectors[ns])}, vectors[ns]} :
       vectors' = [vectors EXCEPT ![ns] = @ \ gone]
  /\ shrunk' = TRUE
  /\ UNCHANGED <<clustered, clusteredFor, writing, into, counted, passed, mixed, behind>>

(* Another chat's store writes: it counts for itself and builds its own      *)
(* clusters.  Bound: only while something is claimed.                        *)
IndexElsewhere(ns) ==
  /\ ~passed /\ ~mixed /\ ~shrunk
  /\ InsertVector(ns)
  /\ behind' = behind \cup {ns}
  /\ UNCHANGED <<clustered, clusteredFor, writing, into, counted, passed, mixed, shrunk>>

VectorNext ==
  \/ \E w \in Writers : CountRows(w) \/ ReadRows(w) \/ Build(w) \/ BuildFails(w) \/ NameIndex(w)
  \/ \E w \in Writers, ns \in Namespaces : IndexVector(w, ns) \/ Tune(w, ns)
  \/ \E ns \in Namespaces : DeleteVectors(ns) \/ IndexElsewhere(ns)

VectorTypeOK ==
  /\ vectors \in [Namespaces -> SUBSET (1..MaxVectors)] /\ clustered \subseteq 1..MaxVectors
  /\ clusteredFor \in Namespaces \cup {NoNamespace}
  /\ writing \in [Writers -> Steps] /\ into \in [Writers -> Namespaces]
  /\ counted \in [Writers -> SUBSET (1..MaxVectors)]
  /\ passed \in BOOLEAN /\ mixed \in BOOLEAN /\ shrunk \in BOOLEAN /\ behind \subseteq Namespaces

(* The rows a search of a namespace may return: those in the clusters that   *)
(* are still in the table, or all.                                           *)
Searched(ns) == IF clusteredFor = ns /\ clustered # {} THEN clustered ELSE vectors[ns]

(* The clusters are never far behind: when no write is going on, a search of *)
(* any namespace misses fewer than RebuildEvery of its rows and wastes no    *)
(* candidate on a row of another namespace, whichever namespaces took turns, *)
(* however their writes overlapped.  Exempt are tables with deletions, after *)
(* which a count may stay clear of the multiples, writers that a later write *)
(* overtook before they counted, rebuilds that failed and those that         *)
(* overlapped, whose keys and namespace may not belong together; and a       *)
(* namespace where another chat has written since this one's store read it:  *)
(* those writes may take every multiple and leave it behind for good.        *)
IndexIsFresh ==
  (~passed /\ ~mixed /\ ~shrunk /\ \A w \in Writers : writing[w] = "idle") =>
    \A ns \in Namespaces \ behind :
      /\ Searched(ns) \subseteq vectors[ns]
      /\ Cardinality(vectors[ns] \ Searched(ns)) < RebuildEvery

-----------------------------------------------------------------------------
(* The other vector backend: a table of rows with ids, an index in memory    *)
(* from ids to vectors, and a file that holds the index.  Rows change under  *)
(* the lock; the index and the file follow outside of it.  One namespace:    *)
(* each has an index and a file of its own.  And the backend of one chat:    *)
(* the others have indexes of their own over the same table and file.        *)
(* Vectors have the length the embedding model of the day gives them, and an *)
(* index takes one length only.                                              *)

CONSTANTS
  FaissKeys,
  NoIndex,        \* no index in memory, no file
  FaissWriters,   \* threads of the pool
  Dims,           \* lengths of vectors
  MaxIds          \* bound: rows inserted in one behaviour

ASSUME FaissAssumption ==
  MaxIds \in Nat /\ FaissKeys # {} /\ Dims # {} /\ \A ids \in SUBSET (1..MaxIds) : NoIndex # ids

VARIABLES
  rows,           \* the id of each key's row, 0 if there is none
  nextId,         \* the last id that was given out
  dim,            \* the length of the vector that each id has, or will have
  opened,         \* the backend could be opened
  index, indexDim,\* _indexes[namespace]: the ids in it, and the length it takes
  indexFile, fileDim, \* those of its file
  spoilt,         \* the file was written in part
  job,            \* what each writer is doing
  oldId, newId,   \* the row it took out and the one it put in, 0 for none
  switched,       \* history: the first row since the length changed
  crossed,        \* history: operations overlapped on a key, on a deletion, on a change of length or
                  \* without an index, or another chat changed the table
  deceived        \* history: a crash left a file that is not the table's and looks as if it were

faissVars ==
  <<rows, nextId, dim, opened, index, indexDim, indexFile, fileDim, spoilt, job, oldId, newId, switched, crossed,
    deceived>>
inMemory == <<index, indexDim, switched>>
inFile   == <<indexFile, fileDim, spoilt>>

Idle == [doing |-> "idle", key |-> CHOOSE k \in FaissKeys : TRUE]
Doing == {"idle", "adding", "removing", "counting", "dropping", "saving"}

RowIds == Range(rows) \ {0}

FaissInit ==
  /\ rows = [k \in FaissKeys |-> 0] /\ nextId = 0 /\ dim \in [1..MaxIds -> Dims] /\ opened = TRUE
  /\ index = NoIndex /\ indexFile = NoIndex /\ spoilt = FALSE
  /\ indexDim = (CHOOSE d \in Dims : TRUE) /\ fileDim = indexDim
  /\ job = [w \in FaissWriters |-> Idle]
  /\ oldId = [w \in FaissWriters |-> 0] /\ newId = [w \in FaissWriters |-> 0]
  /\ switched = 0 /\ crossed = FALSE /\ deceived = FALSE

Do(w, what) == job' = [job EXCEPT ![w].doing = what]
AtWork(v) == job[v].doing # "idle"

(* Two inserts of different keys into an index that is there, and takes both,*)
(* get along.                                                                *)
Fits(id) == index # NoIndex /\ dim[id] = indexDim
Crosses(w, k, id) ==
  \E v \in FaissWriters \ {w} :
    AtWork(v) /\ (job[v].doing # "adding" \/ job[v].key = k \/ ~Fits(id) \/ ~Fits(newId[v]))

BeginWrite(w, k, what) ==
  /\ job[w].doing = "idle"
  /\ job'   = [job EXCEPT ![w] = [doing |-> what, key |-> k]]
  /\ oldId' = [oldId EXCEPT ![w] = rows[k]]

(* index, under the lock: a row that is replaced gets a new id.              *)
InsertRow(w, k) ==
  /\ BeginWrite(w, k, "adding") /\ nextId < MaxIds
  /\ nextId' = nextId + 1
  /\ rows'   = [rows EXCEPT ![k] = nextId + 1]
  /\ newId'  = [newId EXCEPT ![w] = nextId + 1]
  /\ crossed' = (crossed \/ Crosses(w, k, nextId + 1))
  /\ UNCHANGED <<inMemory, inFile, deceived>>

(* _get_index: the one in memory, else the file's, if it takes vectors of    *)
(* that length, else a new one, and what the old one held is not in it.      *)
Opened(d) ==
  CASE index # NoIndex /\ indexDim = d -> index
    [] ~(index # NoIndex /\ indexDim = d) /\ indexFile # NoIndex /\ ~spoilt /\ fileDim = d -> indexFile
    [] OTHER -> {}

AddOnly(w) ==  \* mutant
  /\ job[w].doing = "adding"
  /\ index' = Opened(dim[newId[w]]) \cup {newId[w]} /\ indexDim' = dim[newId[w]]
  /\ switched' = IF index # NoIndex /\ ~Fits(newId[w]) THEN newId[w] ELSE switched
  /\ Do(w, "saving")
  /\ UNCHANGED <<rows, nextId, inFile, oldId, newId, crossed, deceived>>

AddToIndex(w) ==
  /\ job[w].doing = "adding"
  /\ index' = (Opened(dim[newId[w]]) \ {oldId[w]}) \cup {newId[w]} /\ indexDim' = dim[newId[w]]
  /\ switched' = IF index # NoIndex /\ ~Fits(newId[w]) THEN newId[w] ELSE switched
  /\ Do(w, "saving")
  /\ UNCHANGED <<rows, nextId, inFile, oldId, newId, crossed, deceived>>

(* Two threads that write the file at once may spoil it.                     *)
WriteIndex(w) ==
  /\ job[w].doing = "saving"
  /\ IF index = NoIndex THEN UNCHANGED inFile
     ELSE /\ indexFile' = index /\ fileDim' = indexDim
          /\ spoilt' \in {FALSE} \cup {TRUE : v \in {u \in FaissWriters \ {w} : job[u].doing = "saving"}}
  /\ job' = [job EXCEPT ![w] = Idle]
  /\ UNCHANGED <<rows, nextId, inMemory, oldId, newId, crossed, deceived>>

DeleteRow(w, k) ==
  /\ rows[k] # 0
  /\ BeginWrite(w, k, "removing")
  /\ rows' = [rows EXCEPT ![k] = 0]
  /\ crossed' = (crossed \/ \E v \in FaissWriters \ {w} : AtWork(v))
  /\ UNCHANGED <<nextId, inMemory, inFile, newId, deceived>>

RemoveFromIndex(w) ==
  /\ job[w].doing = "removing"
  /\ index' = IF index = NoIndex THEN NoIndex ELSE index \ {oldId[w]}
  /\ Do(w, "counting")
  /\ UNCHANGED <<rows, nextId, indexDim, switched, inFile, oldId, newId, crossed, deceived>>

CountLeft(w) ==
  /\ job[w].doing = "counting"
  /\ Do(w, IF RowIds = {} THEN "dropping" ELSE "saving")
  /\ UNCHANGED <<rows, nextId, inMemory, inFile, oldId, newId, crossed, deceived>>

DeleteRows(w) ==
  /\ \E k \in FaissKeys : BeginWrite(w, k, "dropping")
  /\ rows' = [k \in FaissKeys |-> 0]
  /\ crossed' = (crossed \/ \E v \in FaissWriters \ {w} : AtWork(v))
  /\ UNCHANGED <<nextId, inMemory, inFile, newId, deceived>>

(* The index and its file are dropped when no row is left.                   *)
DropIndex(w) ==
  /\ job[w].doing = "dropping"
  /\ index' = NoIndex /\ indexFile' = NoIndex /\ spoilt' = FALSE
  /\ job' = [job EXCEPT ![w] = Idle]
  /\ UNCHANGED <<rows, nextId, indexDim, fileDim, switched, oldId, newId, crossed, deceived>>

(* _rebuild_index raises when the rows differ in length.                     *)
Rebuilt ==
  /\ \A id \in RowIds : dim[id] = indexDim'
  /\ index' = RowIds /\ indexFile' = RowIds /\ fileDim' = indexDim' /\ spoilt' = FALSE /\ switched' = 0

(* A search that finds rows and no index builds both.                        *)
SearchRebuilds ==
  /\ index = NoIndex /\ RowIds # {} /\ indexDim' \in Dims /\ Rebuilt
  /\ crossed' = (crossed \/ \E v \in FaissWriters : AtWork(v))
  /\ UNCHANGED <<rows, nextId, job, oldId, newId, deceived>>

(* Another chat's backend inserts or deletes a row, and writes its own index.*)
(* Bound: once, as nothing is claimed after that.                            *)
ChangeElsewhere ==
  /\ ~crossed /\ crossed' = TRUE
  /\ \E k \in FaissKeys, id \in {0, nextId + 1} \cap 0..MaxIds :
       rows[k] # id /\ rows' = [rows EXCEPT ![k] = id] /\ nextId' = IF id = 0 THEN nextId ELSE id
  /\ indexFile' \in {indexFile, NoIndex, RowIds'} /\ fileDim' \in Dims
  /\ UNCHANGED <<inMemory, spoilt, job, oldId, newId, deceived>>

LooksThere(ids, spoiled) == ~spoiled /\ ids # NoIndex  \* mutant

(* _load_index takes a file with the right number of vectors as it is, if    *)
(* the first row is as long as they are.                                     *)
LooksRight(ids, spoiled) ==
  /\ ~spoiled /\ ids # NoIndex /\ Cardinality(ids) = Cardinality(RowIds)
  /\ \E id \in RowIds : dim[id] = fileDim

(* The process ends at any point, in the middle of a write of the file too.  *)
(* The next cannot open the backend if the index has to be built again, from *)
(* rows that differ in length.                                               *)
Restart ==
  /\ \E spoiled \in {spoilt} \cup {TRUE : w \in {v \in FaissWriters : job[v].doing = "saving"}} :
       \/ RowIds = {} /\ index' = NoIndex /\ spoilt' = spoiled /\ UNCHANGED <<indexDim, indexFile, fileDim, switched, opened>>
       \/ /\ RowIds # {} /\ LooksRight(indexFile, spoiled)
          /\ index' = indexFile /\ indexDim' = fileDim /\ spoilt' = FALSE /\ switched' = 0
          /\ UNCHANGED <<indexFile, fileDim, opened>>
       \/ RowIds # {} /\ ~LooksRight(indexFile, spoiled) /\ indexDim' \in Dims /\ Rebuilt /\ UNCHANGED opened
       \/ /\ RowIds # {} /\ ~LooksRight(indexFile, spoiled) /\ \E i, j \in RowIds : dim[i] # dim[j]
          /\ opened' = FALSE /\ index' = NoIndex /\ spoilt' = spoiled
          /\ UNCHANGED <<indexDim, indexFile, fileDim, switched>>
  /\ deceived' = (deceived \/ (indexFile \notin {NoIndex, RowIds} /\ Cardinality(indexFile) = Cardinality(RowIds))
                           \/ (RowIds = {} /\ indexFile # NoIndex))
  /\ job' = [w \in FaissWriters |-> Idle]
  /\ UNCHANGED <<rows, nextId, oldId, newId, crossed>>

FaissNext ==
  /\ opened /\ UNCHANGED dim
  /\ \/ Restart
     \/ /\ UNCHANGED opened
        /\ \/ \E w \in FaissWriters :
                \/ AddToIndex(w) \/ WriteIndex(w) \/ RemoveFromIndex(w) \/ CountLeft(w) \/ DeleteRows(w) \/ DropIndex(w)
                \/ \E k \in FaissKeys : InsertRow(w, k) \/ DeleteRow(w, k)
           \/ SearchRebuilds \/ ChangeElsewhere

FaissTypeOK ==
  /\ rows \in [FaissKeys -> 0..MaxIds] /\ nextId \in 0..MaxIds
  /\ index \in (SUBSET (1..MaxIds)) \cup {NoIndex} /\ indexFile \in (SUBSET (1..MaxIds)) \cup {NoIndex}
  /\ spoilt \in BOOLEAN /\ opened \in BOOLEAN /\ dim \in [1..MaxIds -> Dims] /\ {indexDim, fileDim} \subseteq Dims
  /\ switched \in 0..MaxIds
  /\ job \in [FaissWriters -> [doing : Doing, key : FaissKeys]]
  /\ oldId \in [FaissWriters -> 0..MaxIds] /\ newId \in [FaissWriters -> 0..MaxIds]
  /\ crossed \in BOOLEAN /\ deceived \in BOOLEAN

(* Every row is found: when nobody writes, the index has the ids of the rows *)
(* and no others, so that the nearest of them are looked up, whatever was    *)
(* inserted at once, replaced or deleted, and wherever the process has ended *)
(* and begun again.  When the length of the vectors changes, the rows before *)
(* drop out, those written since are all found.  Exempt are operations that  *)
(* overlapped on one key, with a deletion, with a change of length or before *)
(* there was an index, a table that another chat has changed, crashes that   *)
(* left a file which _load_index cannot tell from the right one, and a       *)
(* backend that could not be opened for rows of two lengths.                 *)
EveryRowIsFound ==
  (opened /\ ~crossed /\ ~deceived /\ \A w \in FaissWriters : ~AtWork(w)) =>
    index = IF RowIds = {} THEN NoIndex ELSE {id \in RowIds : id >= switched}
=============================================================================
