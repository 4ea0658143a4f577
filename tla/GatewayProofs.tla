----------------------------- MODULE GatewayProofs -----------------------------
(***************************************************************************)
(* Theorems about the services that MCGateway composes and that share no   *)
(* state: each is proved right by itself; SpecServices follows one of them *)
(* at a time.                                                              *)
(***************************************************************************)
EXTENDS MCGateway, ListProofs, SequenceTheorems

-----------------------------------------------------------------------------
InSave(p) == pc[p] \in {"write", "replace"}

(* Unless the temporary file was shared, its one writer has it to itself,    *)
(* and publishes it after writing all of its map.                            *)
SaveInv ==
  ~raced =>
    /\ file # Torn
    /\ \A p \in Procs : fd[p] \in {"none", "tmp"}
    /\ \A p, q \in Procs : InSave(p) /\ InSave(q) => p = q
    /\ \A p \in Procs : pc[p] = "replace" => tmp = cache[p]

IInv == TypeOK /\ SaveInv

LEMMA InitInv == Init => IInv
  BY ConstantsAssumption DEF Init, IInv, TypeOK, SaveInv, InSave, Maps

LEMMA LoadInv == ASSUME IInv, NEW p \in Procs, Load(p) PROVE IInv'
<1>1. Stored \in Maps
  BY DEF IInv, TypeOK, Stored, Maps
<1>2. TypeOK'
  BY <1>1, ConstantsAssumption DEF IInv, TypeOK, Load
<1>3. SaveInv'
  BY DEF IInv, TypeOK, SaveInv, InSave, Load
<1>4. QED
  BY <1>2, <1>3 DEF IInv

LEMMA BeginInv ==
  ASSUME IInv, NEW p \in Procs, NEW c \in Maps, NEW ks \in SUBSET Keys, Begin(p, c, ks)
  PROVE  IInv'
<1>1. TypeOK'
  BY ConstantsAssumption DEF IInv, TypeOK, Begin
<1>2. SaveInv'
  BY DEF IInv, TypeOK, SaveInv, InSave, Begin
<1>3. QED
  BY <1>1, <1>2 DEF IInv

(* Both operations that change the map begin with a map.                     *)
LEMMA ChangeInv ==
  ASSUME IInv, NEW p \in Procs, NEW ks \in SUBSET Keys, Upsert(p, ks) \/ Delete(p, ks)
  PROVE  \E c \in Maps, changed \in SUBSET Keys :
           /\ Begin(p, c, changed)
           /\ \A k \in Keys \ changed : c[k] = cache[p][k]
<1>1. cache[p] \in Maps
  BY DEF IInv, TypeOK, Upsert, Delete, Begin
<1>2. CASE Upsert(p, ks)
  <2>1. PICK f \in [ks -> Values] :
          Begin(p, [k \in Keys |-> IF k \in ks THEN f[k] ELSE cache[p][k]], ks)
    BY <1>2 DEF Upsert
  <2>2. [k \in Keys |-> IF k \in ks THEN f[k] ELSE cache[p][k]] \in Maps
    BY <1>1 DEF Maps
  <2>3. QED
    BY <2>1, <2>2
<1>3. CASE Delete(p, ks)
  <2> DEFINE found == {k \in ks : cache[p][k] # NoValue}
             c == [k \in Keys |-> IF k \in found THEN NoValue ELSE cache[p][k]]
  <2>1. Begin(p, c, found)
    BY <1>3 DEF Delete
  <2>2. c \in Maps /\ found \in SUBSET Keys
    BY <1>1 DEF Maps
  <2>3. \A k \in Keys \ found : c[k] = cache[p][k]
    OBVIOUS
  <2>4. QED
    BY <2>1, <2>2, <2>3
<1>4. QED
  BY <1>2, <1>3

LEMMA OpenInv == ASSUME IInv, NEW p \in Procs, Open(p) PROVE IInv'
<1>1. TypeOK'
  BY DEF IInv, TypeOK, Open
<1>2. SaveInv'
  BY DEF IInv, TypeOK, SaveInv, InSave, Open
<1>3. QED
  BY <1>1, <1>2 DEF IInv

LEMMA WriteInv == ASSUME IInv, NEW p \in Procs, Write(p) PROVE IInv'
<1>1. cache[p] \in Maps
  BY DEF IInv, TypeOK, Write
<1>2. PICK c \in Content(p) :
        /\ tmp'  = IF fd[p] = "tmp"  THEN c ELSE tmp
        /\ file' = IF fd[p] = "file" THEN c ELSE file
  BY DEF Write
<1>3. c \in Maps \cup {Torn} /\ (~raced => c = cache[p])
  BY <1>1, <1>2 DEF Content
<1>4. TypeOK'
  BY <1>2, <1>3 DEF IInv, TypeOK, Write
<1>5. SaveInv'
  BY <1>2, <1>3 DEF IInv, TypeOK, SaveInv, InSave, Write
<1>6. QED
  BY <1>4, <1>5 DEF IInv

LEMMA ReplaceInv == ASSUME IInv, NEW p \in Procs, Replace(p) PROVE IInv'
<1>1. TypeOK'
  BY DEF IInv, TypeOK, Replace, Renamed, Done
<1>2. SaveInv'
  <2>1. SUFFICES ASSUME ~raced PROVE SaveInv'
    BY DEF SaveInv, Replace
  <2>2. file' # Torn
    BY <2>1, ConstantsAssumption DEF IInv, TypeOK, SaveInv, Replace
  <2>3. \A q \in Procs : fd[q] = "none" /\ ~InSave(q)'
    BY <2>1 DEF IInv, TypeOK, SaveInv, InSave, Replace, Done
  <2>4. \A q \in Procs : fd'[q] = "none" /\ pc'[q] # "replace"
    BY <2>3 DEF Replace, Renamed, InSave
  <2>5. QED
    BY <2>2, <2>3, <2>4 DEF SaveInv
<1>3. QED
  BY <1>1, <1>2 DEF IInv

LEMMA EndInv == ASSUME IInv, NEW p \in Procs, Fail(p) \/ Crash(p) PROVE IInv'
<1>1. TypeOK'
  BY ConstantsAssumption DEF IInv, TypeOK, Fail, Crash, Done
<1>2. SaveInv'
  BY DEF IInv, TypeOK, SaveInv, InSave, Fail, Crash, Done
<1>3. QED
  BY <1>1, <1>2 DEF IInv

LEMMA StepInv == IInv /\ [Next]_vars => IInv'
<1>1. CASE UNCHANGED vars
  BY <1>1 DEF IInv, TypeOK, SaveInv, InSave, vars
<1>2. ASSUME IInv, NEW p \in Procs, Step(p) PROVE IInv'
  <2>1. CASE \E ks \in SUBSET Keys : Upsert(p, ks) \/ Delete(p, ks)
    BY <1>2, <2>1, ChangeInv, BeginInv
  <2>2. QED
    BY <1>2, <2>1, LoadInv, OpenInv, WriteInv, ReplaceInv, EndInv DEF Step
<1>3. QED
  BY <1>1, <1>2 DEF Next

(* Every reachable state is well typed, for any processes.                   *)
THEOREM StoreTypeCorrect == Spec => []TypeOK
<1>1. IInv => TypeOK
  BY DEF IInv
<1>2. QED
  BY <1>1, InitInv, StepInv, PTL DEF Spec

(* The published file is whole while no two saves overlap, whatever crashes  *)
(* and failures happen in _save.                                             *)
THEOREM NeverTornTheorem == Spec => []NeverTorn
<1>1. IInv => NeverTorn
  BY DEF IInv, SaveInv, NeverTorn
<1>2. QED
  BY <1>1, InitInv, StepInv, PTL DEF Spec

-----------------------------------------------------------------------------
(* One process alone never shares the temporary file, and an operation that  *)
(* has ended has nothing left to store.                                      *)
SoleInv ==
  /\ IInv /\ ~raced
  /\ pc[Sole] = "idle" => items[Sole] = {}

LEMMA SoleFacts ==
  ASSUME NEW g, Procs = {g}
  PROVE  Sole = g /\ Sole \in Procs /\ \A p \in Procs : p = Sole
  BY DEF Sole

LEMMA SoleInit ==
  ASSUME NEW g, Procs = {g}, Init
  PROVE  SoleInv /\ Durable!Init
<1>1. file # Torn /\ file \in Maps
  BY ConstantsAssumption DEF Init
<1>2. QED
  BY <1>1, SoleFacts, InitInv DEF Init, SoleInv, Durable!Init, Durable!Maps, Maps, Stored

LEMMA SoleBegin ==
  ASSUME SoleInv, Sole \in Procs, NEW c \in Maps, NEW ks \in SUBSET Keys,
         Begin(Sole, c, ks), \A k \in Keys \ ks : c[k] = cache[Sole][k]
  PROVE  SoleInv' /\ Durable!Change
<1>1. cache'[Sole] = c /\ items'[Sole] = ks /\ pc'[Sole] = "open"
  BY DEF SoleInv, IInv, TypeOK, Begin
<1>2. SoleInv'
  BY <1>1, BeginInv DEF SoleInv, Begin
<1>3. Stored' = Stored
  BY DEF Stored, Begin
<1>4. Durable!Change
  BY <1>1, <1>3 DEF SoleInv, Begin, Durable!Change, Durable!Maps, Maps
<1>5. QED
  BY <1>2, <1>4

LEMMA SoleReplace ==
  ASSUME SoleInv, Sole \in Procs, Replace(Sole)
  PROVE  Durable!Persist
<1>1. tmp = cache[Sole] /\ cache[Sole] \in Maps
  BY DEF SoleInv, IInv, TypeOK, SaveInv, Replace
<1>2. Stored' = cache[Sole] /\ cache' = cache
  BY <1>1, ConstantsAssumption DEF Stored, Replace
<1>3. items'[Sole] = {}
  BY DEF SoleInv, IInv, TypeOK, Replace, Done
<1>4. cache[Sole] # Unloaded
  BY <1>1, ConstantsAssumption
<1>5. QED
  BY <1>1, <1>2, <1>3, <1>4 DEF Durable!Persist, Durable!Maps, Maps

(* Every step of a single process is a step of the durable map or none.      *)
LEMMA SoleStep ==
  ASSUME NEW g, Procs = {g}, SoleInv, [Next]_vars
  PROVE  SoleInv' /\ [Durable!Next]_(Durable!vars)
<1> USE SoleFacts
<1>1. CASE UNCHANGED vars
  <2>1. SoleInv'
    BY <1>1, StepInv DEF SoleInv, vars
  <2>2. UNCHANGED Durable!vars
    BY <1>1 DEF vars, Durable!vars, Stored
  <2>3. QED
    BY <2>1, <2>2
<1>2. CASE Load(Sole)
  <2>1. Durable!Load
    BY <1>2 DEF SoleInv, IInv, TypeOK, Load, Durable!Load, Stored
  <2>2. SoleInv'
    BY <1>2, LoadInv DEF SoleInv, Load
  <2>3. QED
    BY <2>1, <2>2 DEF Durable!Next
<1>3. ASSUME NEW ks \in SUBSET Keys, Upsert(Sole, ks) \/ Delete(Sole, ks)
      PROVE  SoleInv' /\ [Durable!Next]_(Durable!vars)
  <2>1. PICK c \in Maps, changed \in SUBSET Keys :
          /\ Begin(Sole, c, changed)
          /\ \A k \in Keys \ changed : c[k] = cache[Sole][k]
    BY <1>3, ChangeInv DEF SoleInv
  <2>2. QED
    BY <2>1, SoleBegin DEF Durable!Next
<1>4. CASE Open(Sole) \/ Write(Sole)
  <2>1. ~raced'
    BY <1>4 DEF SoleInv, Open, Write
  <2>2. fd[Sole] # "file"
    BY DEF SoleInv, IInv, SaveInv
  <2>3. file' = file /\ cache' = cache /\ items' = items
    BY <1>4, <2>2 DEF Open, Write
  <2>4. pc'[Sole] # "idle"
    BY <1>4 DEF SoleInv, IInv, TypeOK, Open, Write
  <2>5. SoleInv'
    BY <1>4, <2>1, <2>4, OpenInv, WriteInv DEF SoleInv
  <2>6. UNCHANGED Durable!vars
    BY <2>3 DEF Durable!vars, Stored
  <2>7. QED
    BY <2>5, <2>6
<1>5. CASE Replace(Sole)
  <2>1. items'[Sole] = {} /\ ~raced'
    BY <1>5 DEF SoleInv, IInv, TypeOK, Replace, Done
  <2>2. SoleInv'
    BY <1>5, <2>1, ReplaceInv DEF SoleInv
  <2>3. QED
    BY <1>5, <2>2, SoleReplace DEF Durable!Next
<1>6. CASE Fail(Sole) \/ Crash(Sole)
  <2>1. items'[Sole] = {} /\ ~raced'
    BY <1>6 DEF SoleInv, IInv, TypeOK, Fail, Crash, Done
  <2>2. SoleInv'
    BY <1>6, <2>1, EndInv DEF SoleInv
  <2>3. Stored' = Stored
    BY <1>6 DEF Stored, Fail, Crash
  <2>4. Durable!CutOff
    BY <2>1, <2>3 DEF Durable!CutOff
  <2>5. CASE Fail(Sole)
    <3>1. cache[Sole] # Unloaded /\ cache' = cache
      BY <2>5 DEF SoleInv, IInv, TypeOK, Fail
    <3>2. QED
      BY <2>2, <2>4, <3>1 DEF Durable!Fail, Durable!Next
  <2>6. CASE Crash(Sole)
    <3>1. cache'[Sole] = Unloaded
      BY <2>6 DEF SoleInv, IInv, TypeOK, Crash
    <3>2. QED
      BY <2>2, <2>4, <3>1 DEF Durable!Crash, Durable!Next
  <2>7. QED
    BY <1>6, <2>5, <2>6
<1>7. QED
  BY <1>1, <1>2, <1>3, <1>4, <1>5, <1>6 DEF Next, Step

(* A namespace that one process uses is a durable map: reads return what was *)
(* written, a write that returns is stored, at once, and a crash forgets     *)
(* nothing that is stored.                                                   *)
THEOREM DurabilityTheorem ==
  ASSUME NEW CONSTANT g, Procs = {g}
  PROVE  Spec => ImplementsDurableMap
<1>1. Init => SoleInv /\ Durable!Init
  BY SoleInit
<1>2. SoleInv /\ [Next]_vars => SoleInv' /\ [Durable!Next]_(Durable!vars)
  BY SoleStep
<1>3. QED
  BY <1>1, <1>2, PTL DEF Spec, ImplementsDurableMap, Durable!Spec

-----------------------------------------------------------------------------
(* Uploads.  As long as no upload was cancelled while its task ran, a task   *)
(* that runs is the one in flight and the last to have begun, so only it     *)
(* writes; and a count that found nothing is either from after the last      *)
(* upload was done, or known to be late.  Other chats write beside it.       *)
TasksInFlight ==
  ~abandoned => \A t \in Uploads : task[t] = "running" => inflight = t /\ latest = t

WorkersRun ==
  \A t \in Uploads, i \in ChunkNumbers :
    /\ work[t][i] \in {"embed", "write"} => task[t] = "running"
    /\ work[t][i] = "stored" => chunks[i] # Nobody

Stands ==
  ~abandoned /\ latest # Nobody => \A i \in Indexed(latest) : chunks[i] \in {latest, Elsewhere}

NothingDone == \A t \in Uploads : task[t] = "done" => Indexed(t) = {}

KnowledgeInv ==
  /\ KnowledgeTypeOK
  /\ \A u \in Uploads : call[u] = "waiting" => on[u] \in Uploads
  /\ TasksInFlight /\ WorkersRun /\ Stands
  /\ emptyCache = "empty" /\ ~outdated => NothingDone
  /\ \A r \in Readers : reading[r] = "empty" /\ r \notin late => NothingDone

(* The first state satisfies it.                                             *)
LEMMA KnowledgeInitInv == KnowledgeInit => KnowledgeInv
<1> SUFFICES ASSUME KnowledgeInit PROVE KnowledgeInv
  OBVIOUS
<1> USE DEF KnowledgeInit, Uploads, Nobody, Elsewhere, ChunkNumbers
<1>1. KnowledgeTypeOK
  BY DEF KnowledgeTypeOK
<1>2. TasksInFlight /\ WorkersRun /\ Stands
  BY DEF TasksInFlight, WorkersRun, Stands
<1> QED
  BY <1>1, <1>2 DEF KnowledgeInv

(* A task writes its chunk, or does not: if nobody was cancelled it is the   *)
(* last one, and the chunks that it has stored stay its own.                 *)
LEMMA WorkKeeps ==
  ASSUME KnowledgeInv, NEW t \in Uploads, NEW i \in ChunkNumbers, EmbedChunk(t, i) \/ WriteChunk(t, i)
  PROVE  KnowledgeInv'
<1> USE DEF KnowledgeInv, KnowledgeTypeOK
<1>1. /\ work[t][i] \in {"embed", "write"} /\ task[t] = "running"
      /\ UNCHANGED <<call, on, task, inflight, emptyCache, reading, latest, abandoned, late, outdated>>
  BY DEF EmbedChunk, WriteChunk, WorkersRun, history
<1>2. PICK result \in {"write", "failed", "stored"} : work' = [work EXCEPT ![t][i] = result]
  BY DEF EmbedChunk, WriteChunk
<1>3. /\ result = "stored" => chunks' = [chunks EXCEPT ![i] = t]
      /\ result # "stored" => chunks' = chunks
  BY <1>2 DEF EmbedChunk, WriteChunk
<1>4. \A s \in Uploads, j \in ChunkNumbers :
        work'[s][j] = IF s = t /\ j = i THEN result ELSE work[s][j]
  BY <1>2
<1>5. KnowledgeTypeOK'
  <2>1. work' \in [Uploads -> [ChunkNumbers -> {"none", "embed", "write", "stored", "failed"}]]
    BY <1>2
  <2>2. chunks' \in [ChunkNumbers -> Uploads \cup {Nobody, Elsewhere}]
    BY <1>3, <1>2
  <2> QED
    BY <1>1, <2>1, <2>2
<1>6. WorkersRun'
  <2>1. \A j \in ChunkNumbers : chunks[j] # Nobody => chunks'[j] # Nobody
    BY <1>2, <1>3 DEF Uploads, Nobody
  <2>2. result = "stored" => chunks'[i] # Nobody
    BY <1>3 DEF Uploads, Nobody
  <2> QED
    BY <1>1, <1>4, <2>1, <2>2 DEF WorkersRun
<1>7. TasksInFlight'
  BY <1>1 DEF TasksInFlight
<1>8. Stands'
  <2> SUFFICES ASSUME ~abandoned, latest # Nobody, NEW j \in ChunkNumbers, work'[latest][j] = "stored"
               PROVE  chunks'[j] \in {latest, Elsewhere}
    BY <1>1 DEF Stands, Indexed
  <2>1. latest = t /\ latest \in Uploads
    BY <1>1 DEF TasksInFlight
  <2>2. CASE j = i
    BY <2>1, <2>2, <1>2, <1>3, <1>4
  <2>3. CASE j # i
    <3>1. work[latest][j] = "stored"
      BY <2>1, <2>3, <1>4
    <3>2. chunks[j] \in {latest, Elsewhere}
      BY <3>1 DEF Stands, Indexed
    <3> QED
      BY <3>2, <2>3, <1>2, <1>3
  <2> QED
    BY <2>2, <2>3
<1>9. NothingDone => NothingDone'
  BY <1>1, <1>4 DEF NothingDone, Indexed
<1> QED
  BY <1>1, <1>5, <1>6, <1>7, <1>8, <1>9

(* An upload begins: no other task runs unless one was abandoned, and its    *)
(* own has stored nothing yet.                                               *)
LEMMA UploadKeeps ==
  ASSUME KnowledgeInv, NEW u \in Uploads, Upload(u)
  PROVE  KnowledgeInv'
<1> USE DEF KnowledgeInv, KnowledgeTypeOK
<1>1. /\ call' = [call EXCEPT ![u] = "waiting"]
      /\ UNCHANGED <<chunks, emptyCache, reading, abandoned, late, outdated>>
  BY DEF Upload, history
<1>2. CASE inflight # Nobody
  <2>1. on' = [on EXCEPT ![u] = inflight] /\ inflight \in Uploads
        /\ UNCHANGED <<task, work, inflight, latest>>
    BY <1>2 DEF Upload
  <2>2. KnowledgeTypeOK'
    BY <1>1, <2>1
  <2>3. TasksInFlight' /\ WorkersRun' /\ Stands' /\ (NothingDone => NothingDone')
    BY <1>1, <2>1 DEF TasksInFlight, WorkersRun, Stands, Indexed, NothingDone
  <2>4. \A v \in Uploads : call'[v] = "waiting" => on'[v] \in Uploads
    BY <1>1, <2>1
  <2> QED
    BY <1>1, <2>2, <2>3, <2>4
<1>3. CASE inflight = Nobody
  <2>1. /\ on' = [on EXCEPT ![u] = u] /\ inflight' = u /\ latest' = u
        /\ task' = [task EXCEPT ![u] = "running"]
    BY <1>3 DEF Upload
  <2>2. PICK n \in 0..MaxChunks :
          work' = [work EXCEPT ![u] = [i \in ChunkNumbers |-> IF i <= n THEN "embed" ELSE "none"]]
    BY <1>3 DEF Upload
  <2>3. KnowledgeTypeOK'
    BY <1>1, <2>1, <2>2 DEF Uploads, Nobody
  <2>4. \A t \in Uploads, i \in ChunkNumbers :
          /\ t # u => task'[t] = task[t] /\ work'[t][i] = work[t][i]
          /\ task'[u] = "running" /\ work'[u][i] \in {"embed", "none"}
    BY <2>1, <2>2
  <2>5. TasksInFlight'
    BY <1>1, <1>3, <2>1, <2>4 DEF TasksInFlight, Uploads, Nobody
  <2>6. WorkersRun'
    <3> SUFFICES ASSUME NEW t \in Uploads, NEW i \in ChunkNumbers
                 PROVE  /\ work'[t][i] \in {"embed", "write"} => task'[t] = "running"
                        /\ work'[t][i] = "stored" => chunks[i] # Nobody
      BY <1>1 DEF WorkersRun
    <3>1. CASE t = u
      BY <3>1, <2>4
    <3>2. CASE t # u
      BY <3>2, <2>4 DEF WorkersRun
    <3> QED
      BY <3>1, <3>2
  <2>7. Stands'
    BY <2>1, <2>4 DEF Stands, Indexed
  <2>8. NothingDone => NothingDone'
    BY <2>4 DEF NothingDone, Indexed
  <2>9. \A v \in Uploads : call'[v] = "waiting" => on'[v] \in Uploads
    BY <1>1, <2>1
  <2> QED
    BY <1>1, <2>3, <2>5, <2>6, <2>7, <2>8, <2>9
<1> QED
  BY <1>2, <1>3

(* A task ends: when it has stored anything, what was counted before is late.*)
LEMMA FinishKeeps ==
  ASSUME KnowledgeInv, NEW t \in Uploads, Finish(t)
  PROVE  KnowledgeInv'
<1> USE DEF KnowledgeInv, KnowledgeTypeOK
<1>1. /\ task' = [task EXCEPT ![t] = "done"]
      /\ UNCHANGED <<chunks, call, on, work, inflight, reading, latest, abandoned, outdated>>
      /\ \A i \in ChunkNumbers : work[t][i] \notin {"embed", "write"}
  BY DEF Finish
<1>2. /\ Indexed(t) # {} => emptyCache' = "unknown" /\ late' = {r \in Readers : reading[r] = "empty"}
      /\ Indexed(t) = {} => UNCHANGED <<emptyCache, late>>
  BY DEF Finish, Invalidate
<1>3. KnowledgeTypeOK'
  BY <1>1, <1>2
<1>4. TasksInFlight' /\ WorkersRun' /\ Stands'
  BY <1>1 DEF TasksInFlight, WorkersRun, Stands, Indexed
<1>5. Indexed(t) = {} /\ NothingDone => NothingDone'
  BY <1>1 DEF NothingDone, Indexed
<1> QED
  BY <1>1, <1>2, <1>3, <1>4, <1>5

(* An upload is answered or cancelled: the entry in flight goes only with a  *)
(* task that is done, or an upload was abandoned.                            *)
LEMMA EndKeeps ==
  ASSUME KnowledgeInv, NEW u \in Uploads, Answer(u) \/ Cancel(u)
  PROVE  KnowledgeInv'
<1> USE DEF KnowledgeInv, KnowledgeTypeOK
<1>1. /\ \E end \in {"answered", "cancelled"} : call' = [call EXCEPT ![u] = end]
      /\ inflight' \in {inflight, Nobody} /\ (inflight' # inflight => inflight = on[u])
      /\ UNCHANGED <<chunks, on, task, work, emptyCache, reading, latest, late, outdated>>
      /\ task[on[u]] # "running" \/ abandoned'
      /\ abandoned' \in BOOLEAN /\ (abandoned => abandoned')
  <2>1. CASE Answer(u)
    BY <2>1 DEF Answer, Forget, history
  <2>2. CASE Cancel(u)
    <3>1. call' = [call EXCEPT ![u] = "cancelled"] /\ abandoned' = (abandoned \/ task[on[u]] = "running")
          /\ UNCHANGED <<chunks, on, task, work, emptyCache, reading, latest, late, outdated>>
      BY <2>2 DEF Cancel
    <3>2. inflight' \in {inflight, Nobody} /\ (inflight' # inflight => inflight = on[u])
      BY <2>2 DEF Cancel, Forget
    <3>3. abandoned' \in BOOLEAN /\ (abandoned => abandoned') /\ (task[on[u]] # "running" \/ abandoned')
      BY <3>1
    <3> QED
      BY <3>1, <3>2, <3>3
  <2> QED
    BY <2>1, <2>2
<1>2. KnowledgeTypeOK'
  BY <1>1 DEF Uploads, Nobody
<1>3. TasksInFlight'
  BY <1>1 DEF TasksInFlight
<1>4. WorkersRun' /\ Stands' /\ (NothingDone => NothingDone')
  BY <1>1 DEF WorkersRun, Stands, Indexed, NothingDone
<1>5. \A v \in Uploads : call'[v] = "waiting" => on'[v] \in Uploads
  BY <1>1
<1> QED
  BY <1>1, <1>2, <1>3, <1>4, <1>5

(* A retrieval: while every chunk is nobody's, no task has stored one.       *)
LEMMA ReadingKeeps ==
  ASSUME KnowledgeInv, (\E r \in Readers : Ask(r) \/ Count(r) \/ Keep(r)) \/ Expire
  PROVE  KnowledgeInv'
<1> USE DEF KnowledgeInv, KnowledgeTypeOK
<1>1. UNCHANGED <<chunks, call, on, task, work, inflight, latest, abandoned>>
  BY DEF Ask, Count, Keep, Expire, history
<1>2. TasksInFlight' /\ WorkersRun' /\ Stands' /\ (NothingDone => NothingDone')
  BY <1>1 DEF TasksInFlight, WorkersRun, Stands, Indexed, NothingDone
<1>3. KnowledgeTypeOK'
  <2>1. \E value \in {"idle", "asked", "empty", "filled"} :
          reading' = reading \/ \E r \in Readers : reading' = [reading EXCEPT ![r] = value]
    BY DEF Ask, Count, Keep, Expire, history
  <2>3. reading' \in [Readers -> {"idle", "asked", "empty", "filled"}]
    BY <2>1
  <2>4. emptyCache' \in {"unknown", "empty", "filled"}
    BY DEF Ask, Count, Keep, Expire, history
  <2>2. late' \subseteq Readers
    BY DEF Ask, Count, Keep, Expire, history
  <2>5. outdated' \in BOOLEAN
    <3>1. outdated' = outdated \/ \E r \in Readers : outdated' = (r \in late)
      BY DEF Ask, Count, Keep, Expire, history
    <3>2. outdated \in BOOLEAN
      OBVIOUS
    <3>3. ASSUME NEW r \in Readers, outdated' = (r \in late)
          PROVE  outdated' \in BOOLEAN
      <4>1. CASE r \in late
        BY <4>1, <3>3
      <4>2. CASE r \notin late
        BY <4>2, <3>3
      <4> QED
        BY <4>1, <4>2
    <3> QED
      BY <3>1, <3>2, <3>3
  <2> QED
    BY <1>1, <2>2, <2>3, <2>4, <2>5
<1>4. ASSUME NEW r \in Readers, Ask(r)
      PROVE  KnowledgeInv'
  BY <1>1, <1>2, <1>3, <1>4 DEF Ask, history
<1>5. ASSUME NEW r \in Readers, Count(r)
      PROVE  KnowledgeInv'
  <2>1. (\A i \in ChunkNumbers : chunks[i] = Nobody) => NothingDone
    BY DEF NothingDone, Indexed, WorkersRun
  <2> QED
    BY <1>1, <1>2, <1>3, <1>5, <2>1 DEF Count, history
<1>6. ASSUME NEW r \in Readers, Keep(r)
      PROVE  KnowledgeInv'
  BY <1>1, <1>2, <1>3, <1>6 DEF Keep
<1>7. CASE Expire
  BY <1>1, <1>2, <1>3, <1>7 DEF Expire, history
<1> QED
  BY <1>4, <1>5, <1>6, <1>7

(* Another chat writes a chunk: a row is never nobody's again.               *)
LEMMA ElsewhereKeeps ==
  ASSUME KnowledgeInv, NEW i \in ChunkNumbers, WriteElsewhere(i)
  PROVE  KnowledgeInv'
<1> USE DEF KnowledgeInv, KnowledgeTypeOK
<1>1. /\ chunks' = [chunks EXCEPT ![i] = Elsewhere]
      /\ UNCHANGED <<call, on, task, work, inflight, emptyCache, reading, latest, abandoned, late, outdated>>
  BY DEF WriteElsewhere, history
<1>2. Elsewhere # Nobody
  BY KnowledgeAssumption DEF Elsewhere, Nobody
<1>3. \A j \in ChunkNumbers : chunks'[j] \in {chunks[j], Elsewhere}
  BY <1>1
<1>4. KnowledgeTypeOK'
  BY <1>1
<1>5. TasksInFlight' /\ (NothingDone => NothingDone')
  BY <1>1 DEF TasksInFlight, NothingDone, Indexed
<1>6. WorkersRun' /\ Stands'
  BY <1>1, <1>2, <1>3 DEF WorkersRun, Stands, Indexed
<1> QED
  BY <1>1, <1>4, <1>5, <1>6

LEMMA KnowledgeStepInv == KnowledgeInv /\ [KnowledgeNext]_knowledgeVars => KnowledgeInv'
<1> SUFFICES ASSUME KnowledgeInv, [KnowledgeNext]_knowledgeVars
             PROVE  KnowledgeInv'
  OBVIOUS
<1>1. CASE UNCHANGED knowledgeVars
  BY <1>1 DEF KnowledgeInv, KnowledgeTypeOK, TasksInFlight, WorkersRun, Stands, NothingDone, Indexed,
              knowledgeVars
<1>2. CASE KnowledgeNext
  BY <1>2, WorkKeeps, UploadKeeps, FinishKeeps, EndKeeps, ReadingKeeps, ElsewhereKeeps DEF KnowledgeNext
<1> QED
  BY <1>1, <1>2

LEMMA KnowledgeInvFound == KnowledgeInv => UploadsAreFound
  BY DEF KnowledgeInv, Stands, NothingDone, UploadsAreFound, LastUploadStands, FoundOnceIndexed

(* A file that was uploaded is found, for any number of uploads, retrievals  *)
(* and chunks, however they interleave.                                      *)
THEOREM UploadsTheorem == KnowledgeSpec => []UploadsAreFound
<1> QED
  BY KnowledgeInvFound, KnowledgeInitInv, KnowledgeStepInv, PTL DEF KnowledgeSpec

-----------------------------------------------------------------------------
(* Texts.  As long as no two tasks overlap, the rows are numbered without    *)
(* gaps, and the task that is between counting and writing has the first     *)
(* free number: there is one, since each row is of a text that was filed.    *)
Between(t) == filing[t] \in {"embed", "write"}

FiledTurns == {t \in Turns : filing[t] = "filed"}

IndexInv ==
  /\ IndexTypeOK
  /\ NextNumber <= Cardinality(FiledTurns)
  /\ ~overlapped =>
       /\ \A t, u \in Turns : Between(t) /\ Between(u) => t = u
       /\ \A t \in Turns : Between(t) => number[t] = NextNumber
       /\ \A n \in TextNumbers : n \in Filed <=> n < NextNumber
  /\ TextsStay

LEMMA IndexInitInv == IndexInit => IndexInv
<1> SUFFICES ASSUME IndexInit PROVE IndexInv
  OBVIOUS
<1> USE DEF IndexInit
<1>1. Filed = {} /\ FiledTurns = {}
  BY DEF Filed, FiledTurns
<1>2. NextNumber = 0 /\ Cardinality(FiledTurns) = 0
  BY <1>1, FS_EmptySet DEF NextNumber
<1>3. Cardinality(Turns) \in Nat
  BY IndexAssumption, FS_CardinalityType
<1>4. IndexTypeOK
  <2>1. 0 \in TextNumbers
    BY <1>3 DEF TextNumbers
  <2> QED
    BY <2>1 DEF IndexTypeOK
<1>5. TextsStay
  BY DEF TextsStay
<1>6. \A t \in Turns : ~Between(t)
  BY DEF Between
<1> QED
  BY <1>1, <1>2, <1>3, <1>4, <1>5, <1>6 DEF IndexInv, TextNumbers

(* How many rows and filed texts there are; one that is not filed leaves     *)
(* room for its number.                                                      *)
LEMMA TextCounts ==
  ASSUME IndexTypeOK
  PROVE  /\ Cardinality(Turns) \in Nat /\ IsFiniteSet(Filed) /\ IsFiniteSet(FiledTurns)
         /\ NextNumber \in Nat /\ Cardinality(FiledTurns) \in Nat
         /\ Cardinality(FiledTurns) <= Cardinality(Turns)
         /\ \A t \in Turns \ FiledTurns : Cardinality(FiledTurns) < Cardinality(Turns)
<1>1. Cardinality(Turns) \in Nat
  BY IndexAssumption, FS_CardinalityType
<1>2. IsFiniteSet(TextNumbers)
  BY <1>1, FS_Interval DEF TextNumbers
<1>3. Filed \subseteq TextNumbers /\ FiledTurns \subseteq Turns
  BY DEF Filed, FiledTurns
<1>4. IsFiniteSet(Filed) /\ NextNumber \in Nat
  BY <1>2, <1>3, FS_Subset, FS_CardinalityType DEF NextNumber
<1>5. /\ IsFiniteSet(FiledTurns) /\ Cardinality(FiledTurns) <= Cardinality(Turns)
      /\ Cardinality(Turns) = Cardinality(FiledTurns) => Turns = FiledTurns
  BY <1>3, IndexAssumption, FS_Subset
<1>6. Cardinality(FiledTurns) \in Nat
  BY <1>5, FS_CardinalityType
<1> QED
  BY <1>1, <1>4, <1>5, <1>6

LEMMA IndexStepInv == IndexInv /\ [IndexNext]_indexVars => IndexInv'
<1> SUFFICES ASSUME IndexInv, [IndexNext]_indexVars
             PROVE  IndexInv'
  OBVIOUS
<1> USE DEF IndexInv, IndexTypeOK
<1>0. /\ Cardinality(Turns) \in Nat /\ IsFiniteSet(Filed) /\ IsFiniteSet(FiledTurns)
      /\ NextNumber \in Nat /\ Cardinality(FiledTurns) \in Nat
      /\ Cardinality(FiledTurns) <= Cardinality(Turns)
      /\ \A t \in Turns \ FiledTurns : Cardinality(FiledTurns) < Cardinality(Turns)
  BY TextCounts
<1>1. ASSUME UNCHANGED texts, UNCHANGED number, FiledTurns' = FiledTurns, overlapped' \in BOOLEAN,
             overlapped => overlapped',
             filing' \in [Turns -> {"idle", "count", "embed", "write", "filed", "failed"}],
             \A t \in Turns : Between(t)' => Between(t)
      PROVE  IndexInv'
  <2>1. Filed' = Filed /\ NextNumber' = NextNumber
    BY <1>1 DEF Filed, NextNumber
  <2>2. IndexTypeOK'
    BY <1>1
  <2>3. TextsStay'
    BY <1>1 DEF TextsStay, FiledTurns
  <2> QED
    BY <1>1, <2>1, <2>2, <2>3
<1>2. CASE UNCHANGED indexVars
  <2>1. FiledTurns' = FiledTurns /\ \A t \in Turns : Between(t)' <=> Between(t)
    BY <1>2 DEF indexVars, FiledTurns, Between
  <2> QED
    BY <1>1, <1>2, <2>1 DEF indexVars
<1>3. ASSUME NEW t \in Turns, StartFiling(t) \/ EmbedText(t) \/ CancelFiling(t)
      PROVE  IndexInv'
  <2>1. PICK to \in {"count", "write", "failed"} :
          /\ filing' = [filing EXCEPT ![t] = to] /\ filing[t] # "filed"
          /\ to = "write" => filing[t] = "embed"
    BY <1>3 DEF StartFiling, EmbedText, CancelFiling
  <2>2. UNCHANGED <<texts, number, overlapped>>
    BY <1>3 DEF StartFiling, EmbedText, CancelFiling
  <2>3. FiledTurns' = FiledTurns
    BY <2>1 DEF FiledTurns
  <2>4. \A u \in Turns : Between(u)' => Between(u)
    BY <2>1 DEF Between
  <2> QED
    BY <1>1, <2>1, <2>2, <2>3, <2>4
<1>4. ASSUME NEW t \in Turns, CountTexts(t)
      PROVE  IndexInv'
  <2>1. /\ filing' = [filing EXCEPT ![t] = "embed"] /\ filing[t] = "count"
        /\ number' = [number EXCEPT ![t] = NextNumber] /\ texts' = texts
        /\ overlapped' = (overlapped \/ \E u \in Turns : filing[u] \in {"embed", "write"})
    BY <1>4 DEF CountTexts
  <2>2. FiledTurns' = FiledTurns
    BY <2>1 DEF FiledTurns
  <2>3. Filed' = Filed /\ NextNumber' = NextNumber
    BY <2>1 DEF Filed, NextNumber
  <2>4. NextNumber \in TextNumbers
    BY <1>0 DEF TextNumbers
  <2>5. IndexTypeOK'
    BY <2>1, <2>4
  <2>6. ~overlapped' => ~overlapped /\ \A u \in Turns : ~Between(u)
    BY <2>1 DEF Between
  <2>7. \A u \in Turns : /\ u # t => (Between(u)' <=> Between(u)) /\ number'[u] = number[u]
                         /\ number'[t] = NextNumber
    BY <2>1 DEF Between
  <2>8. TextsStay'
    BY <2>1 DEF TextsStay
  <2> QED
    BY <2>2, <2>3, <2>5, <2>6, <2>7, <2>8
<1>5. ASSUME NEW t \in Turns, WriteText(t)
      PROVE  IndexInv'
  <2>1. /\ filing[t] = "write" /\ filing' = [filing EXCEPT ![t] = "filed"]
        /\ texts' = [texts EXCEPT ![number[t]] = t]
        /\ UNCHANGED <<number, overlapped>>
    BY <1>5 DEF WriteText
  <2>2. Between(t) /\ t \notin FiledTurns /\ FiledTurns' = FiledTurns \cup {t} /\ ~Between(t)'
    BY <2>1 DEF Between, FiledTurns
  <2>3. \A u \in Turns : u # t => (Between(u)' <=> Between(u))
    BY <2>1 DEF Between
  <2>4. Cardinality(FiledTurns') = Cardinality(FiledTurns) + 1
    BY <1>0, <2>2, FS_AddElement
  <2>5. Filed' = Filed \cup {number[t]}
    BY <2>1, IndexAssumption DEF Filed
  <2>6. NextNumber' = IF number[t] \in Filed THEN NextNumber ELSE NextNumber + 1
    BY <1>0, <2>5, FS_AddElement DEF NextNumber
  <2>7. IndexTypeOK'
    BY <2>1
  <2>8. NextNumber' <= Cardinality(FiledTurns')
    BY <1>0, <2>4, <2>6
  <2>9. ASSUME ~overlapped
        PROVE  /\ \A u \in Turns : ~Between(u)'
               /\ \A n \in TextNumbers : n \in Filed' <=> n < NextNumber'
    <3>1. number[t] = NextNumber /\ \A n \in TextNumbers : n \in Filed <=> n < NextNumber
      BY <2>2, <2>9
    <3>2. number[t] \notin Filed
      BY <3>1, <1>0
    <3>3. NextNumber' = NextNumber + 1
      BY <2>6, <3>2
    <3>4. \A n \in TextNumbers : n \in Nat
      BY <1>0 DEF TextNumbers
    <3>5. \A n \in TextNumbers : n \in Filed' <=> n < NextNumber'
      BY <3>1, <3>3, <3>4, <2>5, <1>0
    <3>6. \A u \in Turns : ~Between(u)'
      BY <2>2, <2>3, <2>9
    <3> QED
      BY <3>5, <3>6
  <2>10. TextsStay'
    <3> SUFFICES ASSUME ~overlapped, NEW u \in Turns, filing'[u] = "filed"
                 PROVE  \E n \in TextNumbers : texts'[n] = u
      BY <2>1 DEF TextsStay
    <3>1. number[t] \in TextNumbers /\ number[t] \notin Filed
      BY <2>2, <1>0
    <3>2. CASE u = t
      BY <3>1, <3>2, <2>1
    <3>3. CASE u # t
      <4>1. filing[u] = "filed"
        BY <3>3, <2>1
      <4>2. PICK n \in TextNumbers : texts[n] = u
        BY <4>1 DEF TextsStay
      <4>3. n \in Filed
        BY <4>2, IndexAssumption DEF Filed
      <4> QED
        BY <4>2, <4>3, <3>1, <2>1
    <3> QED
      BY <3>2, <3>3
  <2> QED
    BY <2>1, <2>7, <2>8, <2>9, <2>10
<1> QED
  BY <1>2, <1>3, <1>4, <1>5 DEF IndexNext

(* A text that was filed stays filed, for any turns, until two tasks         *)
(* overlap.                                                                  *)
THEOREM TextsTheorem == IndexSpec => []TextsStay
<1>1. IndexInv => TextsStay
  BY DEF IndexInv
<1> QED
  BY <1>1, IndexInitInv, IndexStepInv, PTL DEF IndexSpec

-----------------------------------------------------------------------------
(* Clusters.  A write that makes the number of rows a multiple builds them   *)
(* again, unless it is overtaken.  So, while nothing was missed, each        *)
(* multiple that the table has passed since the clusters were read belongs   *)
(* to a writer that has still to count, or a rebuild is on its way to read   *)
(* or to build.  A namespace where other stores have written is behind.      *)
Rebuilds(w) == writing[w] \in Rebuilding

Owned(ns) ==
  \/ \E w \in Writers : writing[w] = "naming" /\ into[w] = ns
  \/ clusteredFor = ns /\ \A w \in Writers : writing[w] # "naming"

Awaited(ns, m) ==
  \E v \in Writers : writing[v] = "counting" /\ into[v] = ns /\ Cardinality(counted[v]) = m

Caught(ns, keys) ==
  \A m \in Cardinality(keys) + 1..RowCount(ns) : m % RebuildEvery = 0 => Awaited(ns, m)

OneRebuilds == \A v, w \in Writers : Rebuilds(v) /\ Rebuilds(w) => v = w

RowsAreThere ==
  \A w \in Writers : writing[w] \in {"counting", "building"} => counted[w] \subseteq vectors[into[w]]

BuildsCatchUp ==
  \A w \in Writers : writing[w] = "building" => into[w] \in behind \/ Caught(into[w], counted[w])

Reads(ns) == \E w \in Writers : into[w] = ns /\ writing[w] \in {"reading", "building"}

ClustersCatchUp ==
  \A ns \in Namespaces : Owned(ns) /\ clustered # {} =>
    clustered \subseteq vectors[ns] /\ (ns \in behind \/ Caught(ns, clustered) \/ Reads(ns))

VectorInv ==
  /\ VectorTypeOK
  /\ ~passed /\ ~mixed /\ ~shrunk => OneRebuilds /\ RowsAreThere /\ BuildsCatchUp /\ ClustersCatchUp

LEMMA VectorInitInv == VectorInit => VectorInv
<1> SUFFICES ASSUME VectorInit PROVE VectorInv
  OBVIOUS
<1>1. \A w \in Writers : writing[w] = "idle"
  BY DEF VectorInit
<1>2. clustered = {}
  BY DEF VectorInit
<1>3. VectorTypeOK
  <2>1. \A n \in Earlier : 1..n \subseteq 1..MaxVectors
    BY SomeRows
  <2>2. vectors \in [Namespaces -> SUBSET (1..MaxVectors)]
    <3>1. {1..n : n \in Earlier} \subseteq SUBSET (1..MaxVectors)
      BY <2>1
    <3> QED
      BY <3>1 DEF VectorInit
  <2>3. into \in [Writers -> Namespaces]
    <3>1. (CHOOSE ns \in Namespaces : TRUE) \in Namespaces
      BY SomeRows
    <3> QED
      BY <3>1 DEF VectorInit
  <2> QED
    BY <2>2, <2>3 DEF VectorInit, VectorTypeOK, Steps
<1> QED
  BY <1>1, <1>2, <1>3 DEF VectorInv, OneRebuilds, Rebuilds, Rebuilding, RowsAreThere, BuildsCatchUp, ClustersCatchUp

LEMMA VectorCounts ==
  ASSUME NEW rowsOf \in SUBSET (1..MaxVectors)
  PROVE  /\ IsFiniteSet(rowsOf) /\ Cardinality(rowsOf) \in Nat
         /\ \A part \in SUBSET rowsOf : IsFiniteSet(part) /\ Cardinality(part) <= Cardinality(rowsOf)
<1>1. IsFiniteSet(1..MaxVectors)
  BY SomeRows, FS_Interval
<1>2. IsFiniteSet(rowsOf)
  BY <1>1, FS_Subset
<1> QED
  BY <1>2, FS_Subset, FS_CardinalityType

(* What the rebuilds of one writer do not touch.                             *)
LEMMA SameAwaited ==
  ASSUME NEW w \in Writers, VectorTypeOK, VectorTypeOK', UNCHANGED vectors,
         writing[w] # "counting", writing'[w] # "counting",
         \A v \in Writers \ {w} : UNCHANGED <<writing[v], into[v], counted[v]>>
  PROVE  \A ns \in Namespaces : \A keys : Caught(ns, keys) <=> Caught(ns, keys)'
<1>1. \A ns \in Namespaces : \A m : Awaited(ns, m) <=> Awaited(ns, m)'
  BY DEF Awaited
<1> QED
  BY <1>1 DEF Caught, RowCount

(* Types, for every action.                                                  *)
LEMMA VectorTypeStep == VectorTypeOK /\ [VectorNext]_vectorVars => VectorTypeOK'
<1> SUFFICES ASSUME VectorTypeOK, [VectorNext]_vectorVars
             PROVE  VectorTypeOK'
  OBVIOUS
<1> USE DEF VectorTypeOK, Steps, Goto, Hold
<1>1. ASSUME NEW w \in Writers, CountRows(w)
      PROVE  VectorTypeOK'
  <2>1. \E step \in {"reading", "idle"} : writing' = [writing EXCEPT ![w] = step]
    BY <1>1 DEF CountRows
  <2>2. counted' = [counted EXCEPT ![w] = {}]
    BY <1>1 DEF CountRows
  <2>3. passed' \in BOOLEAN /\ mixed' \in BOOLEAN
    BY <1>1 DEF CountRows
  <2> QED
    BY <1>1, <2>1, <2>2, <2>3 DEF CountRows
<1>2. ASSUME NEW w \in Writers, ReadRows(w)
      PROVE  VectorTypeOK'
  <2>1. \E step \in {"building", "idle"} : writing' = [writing EXCEPT ![w] = step]
    BY <1>2 DEF ReadRows
  <2>2. \E keys \in SUBSET (1..MaxVectors) : counted' = [counted EXCEPT ![w] = keys]
    BY <1>2 DEF ReadRows
  <2> QED
    BY <1>2, <2>1, <2>2 DEF ReadRows
<1>3. ASSUME NEW w \in Writers, Build(w) \/ BuildFails(w) \/ NameIndex(w)
      PROVE  VectorTypeOK'
  <2>1. \E step \in {"naming", "idle"} : writing' = [writing EXCEPT ![w] = step]
    BY <1>3 DEF Build, BuildFails, NameIndex
  <2>2. counted' = counted \/ counted' = [counted EXCEPT ![w] = {}]
    BY <1>3 DEF Build, BuildFails, NameIndex
  <2>3. counted' \in [Writers -> SUBSET (1..MaxVectors)] /\ writing' \in [Writers -> Steps]
    BY <2>1, <2>2
  <2>4. clustered' \subseteq 1..MaxVectors
    <3>1. clustered' \in {clustered, counted[w], {}}
      BY <1>3 DEF Build, BuildFails, NameIndex
    <3> QED
      BY <3>1
  <2>5. clusteredFor' \in Namespaces \cup {NoNamespace}
    BY <1>3 DEF Build, BuildFails, NameIndex
  <2> QED
    BY <1>3, <2>3, <2>4, <2>5 DEF Build, BuildFails, NameIndex
<1>4. ASSUME NEW w \in Writers, NEW ns \in Namespaces, IndexVector(w, ns)
      PROVE  VectorTypeOK'
  <2>1. PICK k \in vectors[ns] \cup ({Max(vectors[ns] \cup {0}) + 1} \cap 1..MaxVectors) :
          vectors' = [vectors EXCEPT ![ns] = @ \cup {k}]
    BY <1>4 DEF IndexVector, InsertVector
  <2>2. k \in 1..MaxVectors
    BY <2>1
  <2>3. vectors' \in [Namespaces -> SUBSET (1..MaxVectors)]
    BY <2>1, <2>2
  <2>4. counted' = [counted EXCEPT ![w] = vectors'[ns]]
    BY <1>4 DEF IndexVector
  <2>5. counted' \in [Writers -> SUBSET (1..MaxVectors)]
    BY <2>3, <2>4
  <2> QED
    BY <1>4, <2>3, <2>5 DEF IndexVector
<1>5. ASSUME NEW w \in Writers, NEW ns \in Namespaces, Tune(w, ns)
      PROVE  VectorTypeOK'
  BY <1>5 DEF Tune
<1>6. ASSUME NEW ns \in Namespaces, DeleteVectors(ns)
      PROVE  VectorTypeOK'
  BY <1>6 DEF DeleteVectors
<1>7. ASSUME NEW ns \in Namespaces, IndexElsewhere(ns)
      PROVE  VectorTypeOK'
  <2>1. PICK k \in 1..MaxVectors : vectors' = [vectors EXCEPT ![ns] = @ \cup {k}]
    BY <1>7 DEF IndexElsewhere, InsertVector
  <2>2. vectors' \in [Namespaces -> SUBSET (1..MaxVectors)]
    BY <2>1
  <2> QED
    BY <1>7, <2>2 DEF IndexElsewhere
<1>8. CASE UNCHANGED vectorVars
  BY <1>8 DEF vectorVars
<1> QED
  BY <1>1, <1>2, <1>3, <1>4, <1>5, <1>6, <1>7, <1>8 DEF VectorNext

(* A write: the rows of its namespace grow by one at most, and the multiple  *)
(* it may have reached is its own to count.                                  *)
LEMMA VectorWriteKeeps ==
  ASSUME VectorInv, VectorTypeOK', NEW w \in Writers, NEW ns \in Namespaces, IndexVector(w, ns)
  PROVE  VectorInv'
<1> USE DEF VectorInv, VectorTypeOK
<1>1. PICK k \in 1..MaxVectors : vectors' = [vectors EXCEPT ![ns] = @ \cup {k}]
  BY DEF IndexVector, InsertVector
<1>2. /\ writing[w] = "idle" /\ writing' = [writing EXCEPT ![w] = "counting"]
      /\ into' = [into EXCEPT ![w] = ns]
      /\ counted' = [counted EXCEPT ![w] = vectors'[ns]]
      /\ UNCHANGED <<clustered, clusteredFor, passed, mixed, shrunk, behind>>
  BY DEF IndexVector, Hold, Goto
<1> SUFFICES ASSUME ~passed, ~mixed, ~shrunk
             PROVE  OneRebuilds' /\ RowsAreThere' /\ BuildsCatchUp' /\ ClustersCatchUp'
  BY <1>2
<1>3. /\ \A v \in Writers \ {w} : UNCHANGED <<writing[v], into[v], counted[v]>>
      /\ writing'[w] = "counting" /\ into'[w] = ns /\ counted'[w] = vectors'[ns]
  BY <1>2
<1>4. \A n \in Namespaces : vectors[n] \subseteq vectors'[n] /\ (n # ns => vectors'[n] = vectors[n])
  BY <1>1
<1>5. \A n \in Namespaces : RowCount(n) \in Nat /\ RowCount(n)' \in Nat
  BY VectorCounts DEF RowCount
<1>6. RowCount(ns)' \in {RowCount(ns), RowCount(ns) + 1}
  <2>1. vectors'[ns] = vectors[ns] \cup {k}
    BY <1>1
  <2>2. IsFiniteSet(vectors[ns])
    BY VectorCounts
  <2> QED
    BY <2>1, <2>2, FS_AddElement DEF RowCount
<1>7. \A n \in Namespaces : \A m : Awaited(n, m) => Awaited(n, m)'
  BY <1>2, <1>3 DEF Awaited
<1>8. \A m : m = RowCount(ns)' => Awaited(ns, m)'
  BY <1>3 DEF Awaited, RowCount
<1>9. ASSUME NEW n \in Namespaces, NEW keys \in SUBSET (1..MaxVectors), Caught(n, keys)
      PROVE  Caught(n, keys)'
  <2> SUFFICES ASSUME NEW m \in Cardinality(keys) + 1..RowCount(n)', m % RebuildEvery = 0
               PROVE  Awaited(n, m)'
    BY DEF Caught
  <2>1. Cardinality(keys) \in Nat
    BY VectorCounts
  <2>2. CASE m <= RowCount(n)
    <3>1. m \in Cardinality(keys) + 1..RowCount(n)
      BY <2>1, <2>2, <1>5
    <3> QED
      BY <3>1, <1>7, <1>9 DEF Caught
  <2>3. CASE ~(m <= RowCount(n))
    <3>1. n = ns
      <4>1. n # ns => RowCount(n)' = RowCount(n)
        BY <1>4 DEF RowCount
      <4> QED
        BY <4>1, <2>1, <2>3, <1>5
    <3>2. PICK r, grown : r = RowCount(ns) /\ grown = RowCount(ns)'
      OBVIOUS
    <3>3. r \in Nat /\ grown \in {r, r + 1}
      BY <3>2, <1>5, <1>6
    <3>4. m \in Int /\ m <= grown /\ ~(m <= r)
      BY <3>1, <3>2, <3>3, <2>1, <2>3
    <3>5. m = grown
      BY <3>3, <3>4
    <3> QED
      BY <3>1, <3>2, <3>5, <1>8
  <2> QED
    BY <2>2, <2>3
<1>10. OneRebuilds'
  BY <1>3 DEF OneRebuilds, Rebuilds, Rebuilding
<1>11. RowsAreThere'
  BY <1>3, <1>4 DEF RowsAreThere
<1>12. BuildsCatchUp'
  <2> SUFFICES ASSUME NEW v \in Writers, writing'[v] = "building"
               PROVE  into[v]' \in behind' \/ Caught(into[v], counted[v])'
    BY DEF BuildsCatchUp
  <2>1. v # w /\ writing[v] = "building" /\ UNCHANGED <<into[v], counted[v]>>
    BY <1>3
  <2> QED
    BY <2>1, <1>2, <1>9 DEF BuildsCatchUp
<1>13. ClustersCatchUp'
  <2> SUFFICES ASSUME NEW n \in Namespaces, Owned(n)', clustered # {}
               PROVE  clustered \subseteq vectors'[n] /\ (n \in behind' \/ Caught(n, clustered)' \/ Reads(n)')
    BY <1>2 DEF ClustersCatchUp
  <2>1. Owned(n)
    BY <1>2, <1>3 DEF Owned
  <2>2. Reads(n) => Reads(n)'
    BY <1>2, <1>3 DEF Reads
  <2>3. clustered' = clustered /\ clustered \in SUBSET (1..MaxVectors)
    BY <1>2
  <2>4. clustered \subseteq vectors[n] /\ (n \in behind \/ Caught(n, clustered) \/ Reads(n))
    BY <2>1 DEF ClustersCatchUp
  <2>5. Caught(n, clustered) => Caught(n, clustered)'
    BY <2>3, <1>9
  <2> QED
    BY <2>2, <2>4, <2>5, <1>2, <1>4
<1> QED
  BY <1>10, <1>11, <1>12, <1>13

(* A count: of what the writer has written itself, or it was overtaken.  A   *)
(* multiple makes the writer rebuild, beside no other.                       *)
LEMMA CountKeeps ==
  ASSUME VectorInv, VectorTypeOK', NEW w \in Writers, CountRows(w)
  PROVE  VectorInv'
<1> USE DEF VectorInv, VectorTypeOK
<1> DEFINE ns == into[w]
           toRebuild == RowCount(ns) > 0 /\ RowCount(ns) % RebuildEvery = 0
<1>1. /\ writing[w] = "counting"
      /\ writing' = [writing EXCEPT ![w] = IF toRebuild THEN "reading" ELSE "idle"]
      /\ counted' = [counted EXCEPT ![w] = {}]
      /\ passed' = (passed \/ vectors[ns] # counted[w])
      /\ mixed' = (mixed \/ (toRebuild /\ OthersRebuild(w)))
      /\ UNCHANGED <<vectors, clustered, clusteredFor, into, shrunk, behind>>
  BY DEF CountRows, Hold, Goto
<1> SUFFICES ASSUME ~passed', ~mixed', ~shrunk'
             PROVE  OneRebuilds' /\ RowsAreThere' /\ BuildsCatchUp' /\ ClustersCatchUp'
  OBVIOUS
<1>2. /\ OneRebuilds /\ RowsAreThere /\ BuildsCatchUp /\ ClustersCatchUp
      /\ vectors[ns] = counted[w] /\ (toRebuild => ~OthersRebuild(w))
  BY <1>1
<1>3. /\ \A v \in Writers \ {w} : UNCHANGED <<writing[v], into[v], counted[v]>>
      /\ writing'[w] = IF toRebuild THEN "reading" ELSE "idle"
      /\ into'[w] = ns
  BY <1>1
<1>4. \A n \in Namespaces : RowCount(n)' = RowCount(n) /\ RowCount(n) \in Nat
  BY <1>1, VectorCounts DEF RowCount
<1>5. ASSUME NEW n \in Namespaces, NEW keys \in SUBSET (1..MaxVectors), Caught(n, keys), ~toRebuild \/ n # ns
      PROVE  Caught(n, keys)'
  <2> SUFFICES ASSUME NEW m \in Cardinality(keys) + 1..RowCount(n)', m % RebuildEvery = 0
               PROVE  Awaited(n, m)'
    BY DEF Caught
  <2>1. Cardinality(keys) \in Nat
    BY VectorCounts
  <2>2. m > 0 /\ Awaited(n, m)
    BY <2>1, <1>4, <1>5 DEF Caught
  <2>3. PICK v \in Writers : writing[v] = "counting" /\ into[v] = n /\ Cardinality(counted[v]) = m
    BY <2>2 DEF Awaited
  <2>4. v # w
    BY <2>2, <2>3, <1>2, <1>5 DEF RowCount
  <2> QED
    BY <2>3, <2>4, <1>3 DEF Awaited
<1>6. OneRebuilds'
  <2>1. \A v \in Writers : Rebuilds(v)' => Rebuilds(v) \/ (v = w /\ toRebuild)
    BY <1>3 DEF Rebuilds, Rebuilding
  <2> QED
    BY <2>1, <1>1, <1>2 DEF OneRebuilds, OthersRebuild, Rebuilds, Rebuilding
<1>7. RowsAreThere'
  BY <1>1, <1>2, <1>3 DEF RowsAreThere
<1>8. BuildsCatchUp'
  <2> SUFFICES ASSUME NEW v \in Writers, writing'[v] = "building"
               PROVE  into[v]' \in behind' \/ Caught(into[v], counted[v])'
    BY DEF BuildsCatchUp
  <2>1. v # w /\ writing[v] = "building" /\ UNCHANGED <<into[v], counted[v]>>
    BY <1>3
  <2>2. ~toRebuild
    BY <2>1, <1>2 DEF OthersRebuild, Rebuilding
  <2> QED
    BY <2>1, <2>2, <1>1, <1>2, <1>5 DEF BuildsCatchUp
<1>9. ClustersCatchUp'
  <2> SUFFICES ASSUME NEW n \in Namespaces, Owned(n)', clustered # {}
               PROVE  clustered \subseteq vectors[n] /\ (n \in behind' \/ Caught(n, clustered)' \/ Reads(n)')
    BY <1>1 DEF ClustersCatchUp
  <2>1. Owned(n)
    BY <1>1, <1>3 DEF Owned
  <2>2. clustered \subseteq vectors[n] /\ (n \in behind \/ Caught(n, clustered) \/ Reads(n))
    BY <2>1, <1>2 DEF ClustersCatchUp
  <2>3. Reads(n) => Reads(n)'
    BY <1>1, <1>3 DEF Reads
  <2>4. CASE toRebuild /\ n = ns
    BY <2>2, <2>4, <1>3 DEF Reads
  <2>5. CASE ~(toRebuild /\ n = ns)
    <3>1. clustered' = clustered /\ clustered \in SUBSET (1..MaxVectors)
      BY <1>1
    <3>2. Caught(n, clustered) => Caught(n, clustered)'
      BY <2>5, <3>1, <1>5
    <3> QED
      BY <1>1, <2>2, <2>3, <3>2
  <2> QED
    BY <2>4, <2>5
<1> QED
  BY <1>6, <1>7, <1>8, <1>9

(* A rebuild reads, builds and gives its name, beside no other.              *)
LEMMA RebuildKeeps ==
  ASSUME VectorInv, VectorTypeOK', NEW w \in Writers, ReadRows(w) \/ Build(w) \/ NameIndex(w)
  PROVE  VectorInv'
<1> USE DEF VectorInv, VectorTypeOK
<1>1. UNCHANGED <<vectors, into, passed, mixed, shrunk>> /\ (behind' = behind \/ behind' = behind \ {into[w]})
  BY DEF ReadRows, Build, NameIndex, Hold, Goto
<1> SUFFICES ASSUME ~passed, ~mixed, ~shrunk
             PROVE  OneRebuilds' /\ RowsAreThere' /\ BuildsCatchUp' /\ ClustersCatchUp'
  BY <1>1
<1>2. /\ Rebuilds(w) /\ writing'[w] \in {"idle", "building", "naming"}
      /\ \A v \in Writers \ {w} : UNCHANGED <<writing[v], into[v], counted[v]>>
  BY DEF ReadRows, Build, NameIndex, Hold, Goto, Rebuilds, Rebuilding
<1>3. \A v \in Writers \ {w} : ~Rebuilds(v) /\ ~Rebuilds(v)'
  BY <1>2 DEF OneRebuilds, Rebuilds, Rebuilding
<1>4. OneRebuilds'
  BY <1>3 DEF OneRebuilds
<1>5. \A ns \in Namespaces : \A keys : Caught(ns, keys) <=> Caught(ns, keys)'
  <2>1. writing[w] # "counting" /\ writing'[w] # "counting"
    BY <1>2 DEF Rebuilds, Rebuilding
  <2> QED
    BY <2>1, <1>1, <1>2, SameAwaited
<1>6. CASE ReadRows(w)
  <2>1. /\ writing[w] = "reading" /\ behind' = behind \ {into[w]} /\ UNCHANGED <<clustered, clusteredFor>>
        /\ vectors[into[w]] = {} => writing'[w] = "idle"
        /\ vectors[into[w]] # {} => writing'[w] = "building" /\ counted'[w] = vectors[into[w]]
    BY <1>6 DEF ReadRows, Hold, Goto
  <2>2. RowsAreThere'
    BY <2>1, <1>1, <1>2 DEF RowsAreThere
  <2>3. BuildsCatchUp'
    <3> SUFFICES ASSUME NEW v \in Writers, writing'[v] = "building"
                 PROVE  into[v]' \in behind' \/ Caught(into[v], counted[v])'
      BY DEF BuildsCatchUp
    <3>1. v = w /\ into'[v] = into[w] /\ counted'[v] = vectors[into[w]]
      BY <2>1, <1>1, <1>3 DEF Rebuilds, Rebuilding
    <3>2. Cardinality(vectors[into[w]]) \in Nat
      BY VectorCounts
    <3>3. Cardinality(vectors[into[w]]) + 1..Cardinality(vectors[into[w]]) = {}
      BY <3>2
    <3> QED
      BY <3>1, <3>3, <1>1 DEF Caught, RowCount
  <2>4. ClustersCatchUp'
    <3> SUFFICES ASSUME NEW n \in Namespaces, Owned(n)', clustered # {}
                 PROVE  clustered \subseteq vectors[n] /\ (n \in behind' \/ Caught(n, clustered)' \/ Reads(n)')
      BY <1>1, <2>1 DEF ClustersCatchUp
    <3>1. Owned(n)
      BY <1>1, <1>2, <2>1 DEF Owned
    <3>2. clustered \subseteq vectors[n] /\ (n \in behind \/ Caught(n, clustered) \/ Reads(n))
      BY <3>1 DEF ClustersCatchUp
    <3>3. Reads(n) => Reads(n)'
      BY <3>2, <2>1, <1>1, <1>2 DEF Reads
    <3>5. n = into[w] => Reads(n)'
      BY <3>2, <2>1, <1>1, <1>2 DEF Reads
    <3>4. Caught(n, clustered) => Caught(n, clustered)'
      BY <2>1, <1>5
    <3> QED
      BY <2>1, <3>2, <3>3, <3>4, <3>5
  <2> QED
    BY <1>4, <2>2, <2>3, <2>4
<1>7. CASE Build(w)
  <2>1. /\ writing[w] = "building" /\ writing'[w] \in {"idle", "naming"} /\ behind' = behind
        /\ clustered' # {} => clustered' = counted[w] /\ writing'[w] = "naming"
    BY <1>7 DEF Build, Hold, Goto
  <2>2. RowsAreThere'
    BY <2>1, <1>1, <1>2 DEF RowsAreThere
  <2>3. BuildsCatchUp'
    BY <2>1, <1>3 DEF BuildsCatchUp, Rebuilds, Rebuilding
  <2>4. ClustersCatchUp'
    <3> SUFFICES ASSUME NEW n \in Namespaces, Owned(n)', clustered' # {}
                 PROVE  clustered' \subseteq vectors[n] /\ (n \in behind \/ Caught(n, clustered)')
      BY <1>1, <2>1 DEF ClustersCatchUp
    <3>1. n = into[w] /\ clustered' = counted[w]
      BY <1>1, <1>3, <2>1 DEF Owned, Rebuilds, Rebuilding
    <3>2. counted[w] \subseteq vectors[n] /\ (n \in behind \/ Caught(n, counted[w]))
      BY <3>1, <2>1 DEF RowsAreThere, BuildsCatchUp
    <3> DEFINE keys == counted[w]
    <3>3. \A k : k = keys /\ k = clustered' => n \in behind \/ Caught(n, clustered)'
      BY <3>2, <1>5
    <3> QED
      BY <3>1, <3>2, <3>3
  <2> QED
    BY <1>4, <2>2, <2>3, <2>4
<1>8. CASE NameIndex(w)
  <2>1. /\ writing[w] = "naming" /\ writing'[w] = "idle" /\ clusteredFor' = into[w]
        /\ UNCHANGED <<clustered, counted, behind>>
    BY <1>8 DEF NameIndex, Goto
  <2>2. RowsAreThere'
    BY <2>1, <1>1, <1>2 DEF RowsAreThere
  <2>3. BuildsCatchUp'
    BY <2>1, <1>3 DEF BuildsCatchUp, Rebuilds, Rebuilding
  <2>4. ClustersCatchUp'
    <3> SUFFICES ASSUME NEW n \in Namespaces, Owned(n)', clustered # {}
                 PROVE  clustered \subseteq vectors[n] /\ (n \in behind' \/ Caught(n, clustered)' \/ Reads(n)')
      BY <1>1, <2>1 DEF ClustersCatchUp
    <3>1. Owned(n)
      BY <1>3, <2>1 DEF Owned, Rebuilds, Rebuilding
    <3>2. clustered \subseteq vectors[n] /\ (n \in behind \/ Caught(n, clustered) \/ Reads(n))
      BY <3>1 DEF ClustersCatchUp
    <3>3. Reads(n) => Reads(n)'
      BY <2>1, <1>1, <1>2 DEF Reads
    <3>4. Caught(n, clustered) => Caught(n, clustered)'
      BY <2>1, <1>5
    <3> QED
      BY <2>1, <3>2, <3>3, <3>4
  <2> QED
    BY <1>4, <2>2, <2>3, <2>4
<1> QED
  BY <1>6, <1>7, <1>8

(* tune begins a rebuild beside no other.                                    *)
LEMMA TuneKeeps ==
  ASSUME VectorInv, VectorTypeOK', NEW w \in Writers, NEW ns \in Namespaces, Tune(w, ns)
  PROVE  VectorInv'
<1> USE DEF VectorInv, VectorTypeOK
<1>1. /\ writing[w] = "idle" /\ writing' = [writing EXCEPT ![w] = "reading"]
      /\ into' = [into EXCEPT ![w] = ns] /\ mixed' = (mixed \/ OthersRebuild(w))
      /\ UNCHANGED <<vectors, clustered, clusteredFor, counted, passed, shrunk, behind>>
  BY DEF Tune, Goto
<1> SUFFICES ASSUME ~passed', ~mixed', ~shrunk'
             PROVE  OneRebuilds' /\ RowsAreThere' /\ BuildsCatchUp' /\ ClustersCatchUp'
  OBVIOUS
<1>2. OneRebuilds /\ RowsAreThere /\ BuildsCatchUp /\ ClustersCatchUp /\ ~OthersRebuild(w)
  BY <1>1
<1>3. /\ writing'[w] = "reading"
      /\ \A v \in Writers \ {w} : UNCHANGED <<writing[v], into[v], counted[v]>> /\ ~Rebuilds(v)'
  BY <1>1, <1>2 DEF OthersRebuild, Rebuilds
<1>4. OneRebuilds'
  BY <1>3 DEF OneRebuilds
<1>5. RowsAreThere' /\ BuildsCatchUp'
  BY <1>1, <1>2, <1>3 DEF RowsAreThere, BuildsCatchUp, Rebuilds, Rebuilding
<1>6. \A n \in Namespaces : \A keys : Caught(n, keys) <=> Caught(n, keys)'
  BY <1>1, <1>3, SameAwaited
<1>7. ClustersCatchUp'
  <2> SUFFICES ASSUME NEW n \in Namespaces, Owned(n)', clustered # {}
               PROVE  clustered \subseteq vectors[n] /\ (n \in behind' \/ Caught(n, clustered)' \/ Reads(n)')
    BY <1>1 DEF ClustersCatchUp
  <2>1. Owned(n)
    BY <1>1, <1>3 DEF Owned
  <2>2. clustered \subseteq vectors[n] /\ (n \in behind \/ Caught(n, clustered) \/ Reads(n))
    BY <2>1, <1>2 DEF ClustersCatchUp
  <2>3. ~Reads(n)
    BY <1>1, <1>2 DEF Reads, OthersRebuild, Rebuilding
  <2>4. Caught(n, clustered) => Caught(n, clustered)'
    BY <1>1, <1>6
  <2> QED
    BY <1>1, <2>2, <2>3, <2>4
<1> QED
  BY <1>4, <1>5, <1>7

(* Another store writes: the namespace is behind, the clusters in the table. *)
LEMMA ElsewhereVectorKeeps ==
  ASSUME VectorInv, VectorTypeOK', NEW ns \in Namespaces, IndexElsewhere(ns)
  PROVE  VectorInv'
<1> USE DEF VectorInv, VectorTypeOK
<1>1. PICK k \in 1..MaxVectors : vectors' = [vectors EXCEPT ![ns] = @ \cup {k}]
  BY DEF IndexElsewhere, InsertVector
<1>2. /\ ~passed /\ ~mixed /\ ~shrunk /\ behind' = behind \cup {ns}
      /\ UNCHANGED <<clustered, clusteredFor, writing, into, counted, passed, mixed, shrunk>>
  BY DEF IndexElsewhere
<1>3. \A n \in Namespaces : vectors[n] \subseteq vectors'[n] /\ (n # ns => vectors'[n] = vectors[n])
  BY <1>1
<1>4. \A n \in Namespaces : \A m : Awaited(n, m) <=> Awaited(n, m)'
  BY <1>2 DEF Awaited
<1>5. \A n \in Namespaces \ {ns} : \A keys : Caught(n, keys) <=> Caught(n, keys)'
  BY <1>3, <1>4 DEF Caught, RowCount
<1>6. OneRebuilds' /\ RowsAreThere'
  BY <1>2, <1>3 DEF OneRebuilds, Rebuilds, RowsAreThere
<1>7. BuildsCatchUp'
  <2> SUFFICES ASSUME NEW v \in Writers, writing[v] = "building", into[v] # ns, into[v] \notin behind
               PROVE  Caught(into[v], counted[v])'
    BY <1>2 DEF BuildsCatchUp
  <2>1. Caught(into[v], counted[v])
    BY <1>2 DEF BuildsCatchUp
  <2>2. PICK keys : keys = counted[v] /\ keys = counted'[v]
    BY <1>2
  <2>3. PICK n \in Namespaces \ {ns} : n = into[v] /\ n = into'[v]
    BY <1>2
  <2> QED
    BY <1>5, <2>1, <2>2, <2>3
<1>8. ClustersCatchUp'
  <2> SUFFICES ASSUME NEW n \in Namespaces, Owned(n)', clustered # {}
               PROVE  clustered \subseteq vectors'[n] /\ (n \in behind' \/ Caught(n, clustered)' \/ Reads(n)')
    BY <1>2 DEF ClustersCatchUp
  <2>1. Owned(n) /\ (Reads(n) => Reads(n)')
    BY <1>2 DEF Owned, Reads
  <2>2. clustered \subseteq vectors[n] /\ (n \in behind \/ Caught(n, clustered) \/ Reads(n))
    BY <1>2, <2>1 DEF ClustersCatchUp
  <2>3. PICK keys : keys = clustered /\ keys = clustered'
    BY <1>2
  <2>4. n # ns => (Caught(n, clustered) => Caught(n, clustered)')
    BY <1>5, <2>3
  <2> QED
    BY <1>2, <1>3, <2>1, <2>2, <2>4
<1> QED
  BY <1>6, <1>7, <1>8

LEMMA VectorStepInv == VectorInv /\ [VectorNext]_vectorVars => VectorInv'
<1> SUFFICES ASSUME VectorInv, [VectorNext]_vectorVars
             PROVE  VectorInv'
  OBVIOUS
<1>1. VectorTypeOK'
  BY VectorTypeStep DEF VectorInv
<1>2. CASE UNCHANGED vectorVars
  BY <1>1, <1>2 DEF vectorVars, VectorInv, OneRebuilds, Rebuilds, RowsAreThere, BuildsCatchUp, ClustersCatchUp,
                    Owned, Reads, Caught, Awaited, RowCount
<1>3. ASSUME NEW w \in Writers, BuildFails(w)
      PROVE  VectorInv'
  BY <1>1, <1>3 DEF BuildFails, VectorInv
<1>4. ASSUME NEW ns \in Namespaces, DeleteVectors(ns)
      PROVE  VectorInv'
  BY <1>1, <1>4 DEF DeleteVectors, VectorInv
<1> QED
  BY <1>1, <1>2, <1>3, <1>4, VectorWriteKeeps, CountKeeps, RebuildKeeps, TuneKeeps, ElsewhereVectorKeeps DEF VectorNext

(* Among as many numbers as RebuildEvery there is a multiple of it.          *)
LEMMA Multiples == \A n \in Nat : \E m \in n + 1..n + RebuildEvery : m % RebuildEvery = 0
<1> SUFFICES ASSUME NEW n \in Nat
             PROVE  \E m \in n + 1..n + RebuildEvery : m % RebuildEvery = 0
  OBVIOUS
<1>1. \A k \in Nat, r \in Nat \ {0} : k % r \in 0..r - 1
  OBVIOUS
<1>2. \A k \in Nat, r \in Nat \ {0} : (k + (r - (k % r))) % r = 0
  OBVIOUS
<1>3. RebuildEvery \in Nat \ {0}
  BY SomeRows
<1>4. n % RebuildEvery \in 0..RebuildEvery - 1 /\ (n + (RebuildEvery - (n % RebuildEvery))) % RebuildEvery = 0
  BY <1>1, <1>2, <1>3
<1>5. n + (RebuildEvery - (n % RebuildEvery)) \in n + 1..n + RebuildEvery
  BY <1>3, <1>4
<1> QED
  BY <1>4, <1>5

LEMMA VectorInvFresh == VectorInv => IndexIsFresh
<1> SUFFICES ASSUME VectorInv, ~passed, ~mixed, ~shrunk, \A w \in Writers : writing[w] = "idle",
                    NEW ns \in Namespaces \ behind
             PROVE  /\ Searched(ns) \subseteq vectors[ns]
                    /\ Cardinality(vectors[ns] \ Searched(ns)) < RebuildEvery
  BY DEF IndexIsFresh
<1> USE DEF VectorInv, VectorTypeOK
<1>1. vectors[ns] \in SUBSET (1..MaxVectors) /\ clustered \in SUBSET (1..MaxVectors)
  OBVIOUS
<1>2. CASE Searched(ns) = vectors[ns]
  <2>1. vectors[ns] \ Searched(ns) = {}
    BY <1>2
  <2>2. Cardinality(vectors[ns] \ Searched(ns)) = 0
    BY <2>1, FS_EmptySet
  <2>3. 0 < RebuildEvery
    BY SomeRows
  <2> QED
    BY <1>2, <2>2, <2>3
<1>3. CASE Searched(ns) # vectors[ns]
  <2>1. clusteredFor = ns /\ clustered # {} /\ Searched(ns) = clustered
    BY <1>3 DEF Searched
  <2>2. Owned(ns) /\ ~Reads(ns)
    BY <2>1 DEF Owned, Reads
  <2>3. clustered \subseteq vectors[ns] /\ Caught(ns, clustered)
    BY <2>1, <2>2 DEF ClustersCatchUp
  <2> DEFINE all == Cardinality(vectors[ns])
             old == Cardinality(clustered)
  <2>4. /\ all \in Nat /\ old \in Nat
        /\ IsFiniteSet(vectors[ns]) /\ IsFiniteSet(clustered)
    BY <1>1, VectorCounts
  <2>5. \A m \in old + 1..all : m % RebuildEvery # 0
    BY <2>3 DEF Caught, Awaited, RowCount
  <2>6. PICK m \in old + 1..old + RebuildEvery : m % RebuildEvery = 0
    BY <2>4, Multiples
  <2>7. all < old + RebuildEvery
    BY <2>4, <2>5, <2>6, SomeRows
  <2>8. Cardinality(vectors[ns] \ clustered) = all - Cardinality(vectors[ns] \cap clustered)
    BY <2>4, FS_Difference
  <2>9. vectors[ns] \cap clustered = clustered
    BY <2>3
  <2> HIDE DEF all, old
  <2>10. Cardinality(vectors[ns] \ clustered) = all - old
    BY <2>8, <2>9 DEF old
  <2> QED
    BY <2>1, <2>3, <2>4, <2>7, <2>10, SomeRows
<1> QED
  BY <1>2, <1>3

(* A search of clusters misses fewer rows than make a rebuild, for any       *)
(* writers, namespaces and sizes.                                            *)
THEOREM ClustersTheorem == VectorInit /\ [][VectorNext]_vectorVars => []IndexIsFresh
<1> QED
  BY VectorInitInv, VectorStepInv, VectorInvFresh, PTL

-----------------------------------------------------------------------------
(* The faiss index.  While no two operations crossed, the index differs from *)
(* the table by what is under way: a row that a writer has still to add is   *)
(* not in it, and one that a writer has still to take out is.  Writers work  *)
(* side by side only to add rows of different keys to an index that is there.*)
(* A writer whose vector has another length than the index takes works alone *)
(* and has the last row: the index then begins again with that one, and has  *)
(* those that came since.                                                    *)
FaissIds == 1..MaxIds

Adds(w)    == job[w].doing = "adding"
TakesOut(w)  == job[w].doing \in {"adding", "removing"}
HasRow(id) == \E k \in FaissKeys : rows[k] = id
ToAdd(id)  == \E w \in FaissWriters : Adds(w) /\ newId[w] = id
ToTake(id) == \E w \in FaissWriters : TakesOut(w) /\ oldId[w] = id

IdsInv ==
  /\ \A k, j \in FaissKeys : rows[k] = rows[j] /\ rows[k] # 0 => k = j
  /\ \A k \in FaissKeys : rows[k] <= nextId
  /\ \A w \in FaissWriters : oldId[w] <= nextId /\ newId[w] <= nextId /\ (Adds(w) => newId[w] # 0)
  /\ switched <= nextId

SideBySide ==
  \A v, w \in FaissWriters : v # w /\ AtWork(v) /\ AtWork(w) =>
    job[v].doing \in {"adding", "saving"} /\ job[v].key # job[w].key /\ index # NoIndex

AddedRows == \A w \in FaissWriters : Adds(w) => rows[job[w].key] = newId[w]

TakenRows ==
  /\ \A w \in FaissWriters : TakesOut(w) /\ oldId[w] # 0 => ~HasRow(oldId[w])
  /\ \A v, w \in FaissWriters : TakesOut(v) /\ TakesOut(w) /\ oldId[v] = oldId[w] /\ oldId[v] # 0 => v = w

WhileNone ==
  index = NoIndex =>
    /\ indexFile = NoIndex
    /\ \A id \in FaissIds : HasRow(id) => ToAdd(id)
    /\ \A w \in FaissWriters : AtWork(w) => job[w].doing = "dropping" \/ (Adds(w) /\ oldId[w] = 0)

WhileThere ==
  index # NoIndex /\ (\A w \in FaissWriters : job[w].doing # "dropping") =>
    /\ \A id \in FaissIds : id \in index <=> id >= switched /\ ((HasRow(id) /\ ~ToAdd(id)) \/ ToTake(id))
    /\ \/ \E id \in FaissIds : HasRow(id)
       \/ \E w \in FaissWriters : job[w].doing \in {"removing", "counting"}

Drops == \A w \in FaissWriters : job[w].doing = "dropping" => \A id \in FaissIds : ~HasRow(id)

Alone(w)  == \A v \in FaissWriters \ {w} : ~AtWork(v)
Misfit(w) == Adds(w) /\ index # NoIndex /\ dim[newId[w]] # indexDim

MisfitsAlone == \A w \in FaissWriters :
  /\ Adds(w) => newId[w] >= switched
  /\ Misfit(w) => newId[w] = nextId /\ Alone(w)

FileFits ==
  index # NoIndex /\ indexFile # NoIndex /\ ~spoilt /\ fileDim # indexDim =>
    \E w \in FaissWriters : job[w].doing = "saving" /\ Alone(w)

IndexFollows ==
  SideBySide /\ AddedRows /\ TakenRows /\ WhileNone /\ WhileThere /\ Drops /\ MisfitsAlone /\ FileFits

FaissInv ==
  /\ FaissTypeOK /\ IdsInv
  /\ opened /\ ~crossed /\ ~deceived => IndexFollows

LEMMA RowsOfTable ==
  ASSUME FaissTypeOK
  PROVE  RowIds \subseteq FaissIds /\ \A id \in FaissIds : id \in RowIds <=> HasRow(id)
BY FaissAssumption DEF FaissTypeOK, RowIds, Range, FaissIds, HasRow

LEMMA FaissInitInv == FaissInit => FaissInv
<1> SUFFICES ASSUME FaissInit PROVE FaissInv
  OBVIOUS
<1> USE DEF FaissInit
<1>1. \A w \in FaissWriters : job[w].doing = "idle"
  BY DEF Idle
<1>2. \A id \in FaissIds : ~HasRow(id)
  BY FaissAssumption DEF FaissIds, HasRow
<1>3. FaissTypeOK
  <2>1. (CHOOSE k \in FaissKeys : TRUE) \in FaissKeys
    BY FaissAssumption
  <2>2. Idle \in [doing : Doing, key : FaissKeys]
    BY <2>1 DEF Idle, Doing
  <2>3. 0 \in 0..MaxIds
    BY FaissAssumption
  <2>6. (CHOOSE d \in Dims : TRUE) \in Dims
    BY FaissAssumption
  <2>4. rows \in [FaissKeys -> 0..MaxIds] /\ job \in [FaissWriters -> [doing : Doing, key : FaissKeys]]
    BY <2>2, <2>3
  <2>5. oldId \in [FaissWriters -> 0..MaxIds] /\ newId \in [FaissWriters -> 0..MaxIds]
    BY <2>3
  <2>7. {indexDim, fileDim} \subseteq Dims
    BY <2>6
  <2> QED
    BY <2>3, <2>4, <2>5, <2>7 DEF FaissTypeOK
<1>4. IdsInv
  BY <1>1 DEF IdsInv, Adds
<1>5. MisfitsAlone /\ FileFits
  BY <1>1 DEF MisfitsAlone, Misfit, FileFits, Adds
<1> QED
  BY <1>1, <1>2, <1>3, <1>4, <1>5 DEF FaissInv, IndexFollows, SideBySide, AddedRows, TakenRows, WhileNone, WhileThere,
                                   Drops, Adds, TakesOut, AtWork

LEMMA FaissTypeStep == FaissTypeOK /\ IdsInv /\ [FaissNext]_faissVars => FaissTypeOK'
<1> SUFFICES ASSUME FaissTypeOK, IdsInv, [FaissNext]_faissVars
             PROVE  FaissTypeOK'
  OBVIOUS
<1>01. dim' = dim /\ opened' \in BOOLEAN
  BY DEF FaissNext, Restart, faissVars, FaissTypeOK
<1> USE DEF FaissTypeOK, Doing, BeginWrite, Do, inMemory, inFile
<1>0. Idle \in [doing : Doing, key : FaissKeys] /\ RowIds \in SUBSET (1..MaxIds)
  <2>1. (CHOOSE k \in FaissKeys : TRUE) \in FaissKeys
    BY FaissAssumption
  <2>2. Idle \in [doing : Doing, key : FaissKeys]
    BY <2>1 DEF Idle
  <2>3. RowIds \in SUBSET (1..MaxIds)
    BY RowsOfTable DEF FaissIds
  <2> QED
    BY <2>2, <2>3
<1>1. ASSUME NEW w \in FaissWriters, NEW k \in FaissKeys, InsertRow(w, k)
      PROVE  FaissTypeOK'
  <2>1. nextId + 1 \in 0..MaxIds
    BY <1>1, FaissAssumption DEF InsertRow
  <2>2. crossed' \in BOOLEAN
    BY <1>1 DEF InsertRow, Crosses
  <2> QED
    BY <1>01, <1>1, <2>1, <2>2 DEF InsertRow
<1>2. ASSUME NEW w \in FaissWriters, NEW k \in FaissKeys, DeleteRow(w, k)
      PROVE  FaissTypeOK'
  <2>1. 0 \in 0..MaxIds
    BY FaissAssumption
  <2>2. crossed' \in BOOLEAN
    BY <1>2 DEF DeleteRow, Crosses
  <2> QED
    BY <1>01, <1>2, <2>1, <2>2 DEF DeleteRow
<1>3. ASSUME NEW w \in FaissWriters, AddToIndex(w)
      PROVE  FaissTypeOK'
  <2>1. newId[w] \in 1..MaxIds /\ newId[w] \in 0..MaxIds
    BY <1>3, FaissAssumption DEF AddToIndex, IdsInv, Adds
  <2>2. Opened(dim[newId[w]]) \in SUBSET (1..MaxIds)
    BY DEF Opened
  <2>4. index' \in SUBSET (1..MaxIds)
    BY <1>3, <2>1, <2>2 DEF AddToIndex
  <2>5. indexDim' \in Dims /\ switched' \in 0..MaxIds
    BY <1>3, <2>1 DEF AddToIndex
  <2>3. index' \in SUBSET (1..MaxIds) /\ indexDim' \in Dims /\ switched' \in 0..MaxIds
    BY <2>4, <2>5
  <2> QED
    BY <1>01, <1>3, <2>3 DEF AddToIndex
<1>4. ASSUME NEW w \in FaissWriters, WriteIndex(w)
      PROVE  FaissTypeOK'
  <2>1. spoilt' \in BOOLEAN
    BY <1>4 DEF WriteIndex
  <2>2. indexFile' \in (SUBSET (1..MaxIds)) \cup {NoIndex} /\ fileDim' \in Dims
    BY <1>4 DEF WriteIndex
  <2>3. job' \in [FaissWriters -> [doing : Doing, key : FaissKeys]]
    BY <1>0, <1>4 DEF WriteIndex
  <2> QED
    BY <1>01, <1>4, <2>1, <2>2, <2>3 DEF WriteIndex
<1>5. ASSUME NEW w \in FaissWriters, RemoveFromIndex(w)
      PROVE  FaissTypeOK'
  <2>1. index' \in (SUBSET (1..MaxIds)) \cup {NoIndex}
    BY <1>5 DEF RemoveFromIndex
  <2> QED
    BY <1>01, <1>5, <2>1 DEF RemoveFromIndex
<1>6. ASSUME NEW w \in FaissWriters, CountLeft(w)
      PROVE  FaissTypeOK'
  <2>1. \E what \in {"dropping", "saving"} : job' = [job EXCEPT ![w].doing = what]
    BY <1>6 DEF CountLeft
  <2> QED
    BY <1>01, <1>6, <2>1 DEF CountLeft
<1>7. ASSUME NEW w \in FaissWriters, DeleteRows(w)
      PROVE  FaissTypeOK'
  <2>1. 0 \in 0..MaxIds
    BY FaissAssumption
  <2>2. crossed' \in BOOLEAN
    BY <1>7 DEF DeleteRows
  <2> QED
    BY <1>01, <1>7, <2>1, <2>2 DEF DeleteRows
<1>8. ASSUME NEW w \in FaissWriters, DropIndex(w)
      PROVE  FaissTypeOK'
  <2>1. job' \in [FaissWriters -> [doing : Doing, key : FaissKeys]]
    BY <1>0, <1>8 DEF DropIndex
  <2> QED
    BY <1>01, <1>8, <2>1 DEF DropIndex
<1>9. CASE SearchRebuilds
  <2>1. crossed' \in BOOLEAN
    BY <1>9 DEF SearchRebuilds
  <2>2. 0 \in 0..MaxIds
    BY FaissAssumption
  <2>3. fileDim' \in Dims /\ indexDim' \in Dims
    BY <1>9 DEF SearchRebuilds, Rebuilt
  <2>4. /\ index' \in (SUBSET (1..MaxIds)) \cup {NoIndex} /\ indexFile' \in (SUBSET (1..MaxIds)) \cup {NoIndex}
        /\ spoilt' \in BOOLEAN /\ switched' \in 0..MaxIds
    BY <1>0, <1>9, <2>2 DEF SearchRebuilds, Rebuilt
  <2> QED
    BY <1>01, <1>9, <2>1, <2>3, <2>4 DEF SearchRebuilds
<1>12. CASE ChangeElsewhere
  <2>1. PICK k \in FaissKeys, id \in {0, nextId + 1} \cap 0..MaxIds :
          rows' = [rows EXCEPT ![k] = id] /\ nextId' = IF id = 0 THEN nextId ELSE id
    BY <1>12 DEF ChangeElsewhere
  <2>2. indexFile' \in (SUBSET (1..MaxIds)) \cup {NoIndex}
    <3>1. rows' \in [FaissKeys -> 0..MaxIds]
      BY <2>1
    <3>2. RowIds' \in SUBSET (1..MaxIds)
      BY <3>1, FaissAssumption DEF RowIds, Range
    <3> QED
      BY <3>2, <1>12 DEF ChangeElsewhere
  <2>3. crossed' \in BOOLEAN /\ fileDim' \in Dims
    BY <1>12 DEF ChangeElsewhere
  <2> QED
    BY <1>01, <1>12, <2>1, <2>2, <2>3 DEF ChangeElsewhere
<1>10. CASE Restart
  <2>1. index' \in (SUBSET (1..MaxIds)) \cup {NoIndex} /\ indexFile' \in (SUBSET (1..MaxIds)) \cup {NoIndex}
    BY <1>0, <1>10 DEF Restart, Rebuilt, LooksRight
  <2>5. indexDim' \in Dims /\ fileDim' \in Dims
    BY <1>10 DEF Restart, Rebuilt
  <2>6. switched' \in 0..MaxIds
    BY <1>10, FaissAssumption DEF Restart, Rebuilt
  <2>2. spoilt' \in BOOLEAN
    BY <1>10 DEF Restart, Rebuilt
  <2>3. deceived' \in BOOLEAN
    BY <1>10 DEF Restart
  <2>4. job' \in [FaissWriters -> [doing : Doing, key : FaissKeys]]
    BY <1>0, <1>10 DEF Restart
  <2> QED
    BY <1>01, <1>10, <2>1, <2>2, <2>3, <2>4, <2>5, <2>6 DEF Restart
<1>11. CASE UNCHANGED faissVars
  BY <1>11 DEF faissVars
<1> QED
  BY <1>1, <1>2, <1>3, <1>4, <1>5, <1>6, <1>7, <1>8, <1>9, <1>10, <1>11, <1>12 DEF FaissNext

LEMMA IdsStep ==
  ASSUME FaissTypeOK, IdsInv, FaissTypeOK', [FaissNext]_faissVars
  PROVE  IdsInv'
<1> USE DEF FaissTypeOK, IdsInv
<1>1. ASSUME NEW w \in FaissWriters, NEW k \in FaissKeys, InsertRow(w, k)
      PROVE  IdsInv'
  <2>1. /\ nextId' = nextId + 1 /\ rows' = [rows EXCEPT ![k] = nextId + 1]
        /\ oldId' = [oldId EXCEPT ![w] = rows[k]] /\ newId' = [newId EXCEPT ![w] = nextId + 1]
        /\ job' = [job EXCEPT ![w] = [doing |-> "adding", key |-> k]]
    BY <1>1 DEF InsertRow, BeginWrite
  <2>2. \A j \in FaissKeys : rows[j] \in Nat /\ rows[j] <= nextId /\ nextId \in Nat
    BY FaissAssumption
  <2>3. \A i, j \in FaissKeys : rows'[i] = rows'[j] /\ rows'[i] # 0 => i = j
    BY <2>1, <2>2
  <2>4. \A j \in FaissKeys : rows'[j] <= nextId'
    BY <2>1, <2>2
  <2>5. \A v \in FaissWriters : oldId'[v] <= nextId' /\ newId'[v] <= nextId'
    <3>1. \A v \in FaissWriters : oldId[v] \in Nat /\ newId[v] \in Nat
      BY FaissAssumption
    <3> QED
      BY <3>1, <2>1, <2>2
  <2>7. switched' <= nextId'
    BY <1>1, <2>1, FaissAssumption DEF InsertRow, inMemory
  <2>6. \A v \in FaissWriters : Adds(v)' => newId'[v] # 0
    BY <2>1, <2>2 DEF Adds
  <2> QED
    BY <2>3, <2>4, <2>5, <2>6, <2>7
<1>2. ASSUME NEW w \in FaissWriters, NEW k \in FaissKeys, DeleteRow(w, k)
      PROVE  IdsInv'
  BY <1>2, FaissAssumption DEF DeleteRow, BeginWrite, Adds, inMemory
<1>3. ASSUME NEW w \in FaissWriters, DeleteRows(w)
      PROVE  IdsInv'
  BY <1>3, FaissAssumption DEF DeleteRows, BeginWrite, Adds, inMemory
<1>4. ASSUME UNCHANGED <<rows, nextId, oldId, newId>>, switched' <= nextId, \A w \in FaissWriters : Adds(w)' => Adds(w)
      PROVE  IdsInv'
  BY <1>4
<1>5. ASSUME NEW w \in FaissWriters,
             AddToIndex(w) \/ WriteIndex(w) \/ RemoveFromIndex(w) \/ CountLeft(w) \/ DropIndex(w)
      PROVE  IdsInv'
  <2>1. UNCHANGED <<rows, nextId, oldId, newId>>
    BY <1>5 DEF AddToIndex, WriteIndex, RemoveFromIndex, CountLeft, DropIndex
  <2>5. switched' <= nextId
    BY <1>5 DEF AddToIndex, WriteIndex, RemoveFromIndex, CountLeft, DropIndex, inMemory
  <2>3. \E what \in {"idle", "saving", "counting", "dropping"} :
          \/ job' = [job EXCEPT ![w].doing = what]
          \/ what = "idle" /\ job' = [job EXCEPT ![w] = Idle]
    BY <1>5 DEF AddToIndex, WriteIndex, RemoveFromIndex, CountLeft, DropIndex, Do
  <2>4. job'[w].doing # "adding" /\ \A v \in FaissWriters \ {w} : job'[v] = job[v]
    BY <2>3 DEF Idle
  <2>2. \A v \in FaissWriters : Adds(v)' => Adds(v)
    BY <2>4 DEF Adds
  <2> QED
    BY <2>1, <2>2, <2>5, <1>4
<1>7. CASE ChangeElsewhere
  <2>1. PICK k \in FaissKeys, id \in {0, nextId + 1} \cap 0..MaxIds :
          rows' = [rows EXCEPT ![k] = id] /\ nextId' = IF id = 0 THEN nextId ELSE id
    BY <1>7 DEF ChangeElsewhere
  <2>2. UNCHANGED <<job, oldId, newId, switched>>
    BY <1>7 DEF ChangeElsewhere, inMemory
  <2>3. nextId \in Nat /\ nextId' \in Nat /\ nextId <= nextId' /\ switched \in Nat
    BY <2>1, FaissAssumption
  <2>4. \A j \in FaissKeys : rows[j] \in Nat /\ rows[j] <= nextId
    BY FaissAssumption
  <2>5. \A i, j \in FaissKeys : rows'[i] = rows'[j] /\ rows'[i] # 0 => i = j
    BY <2>1, <2>3, <2>4
  <2>6. \A j \in FaissKeys : rows'[j] <= nextId'
    BY <2>1, <2>3, <2>4
  <2>7. \A v \in FaissWriters : oldId'[v] <= nextId' /\ newId'[v] <= nextId'
    <3>1. \A v \in FaissWriters : oldId[v] \in Nat /\ newId[v] \in Nat
      BY FaissAssumption
    <3> QED
      BY <3>1, <2>2, <2>3
  <2> QED
    BY <2>2, <2>3, <2>5, <2>6, <2>7 DEF Adds
<1>6. CASE SearchRebuilds \/ Restart \/ UNCHANGED faissVars
  <2>1. UNCHANGED <<rows, nextId, oldId, newId>>
    BY <1>6 DEF SearchRebuilds, Restart, faissVars
  <2>2. \A v \in FaissWriters : Adds(v)' => Adds(v)
    <3>1. job' = job \/ job' = [v \in FaissWriters |-> Idle]
      BY <1>6 DEF SearchRebuilds, Restart, faissVars
    <3> QED
      BY <3>1 DEF Idle, Adds
  <2>3. switched' = 0 \/ switched' = switched
    BY <1>6 DEF SearchRebuilds, Restart, Rebuilt, faissVars
  <2>4. switched' <= nextId
    BY <2>3, FaissAssumption
  <2> QED
    BY <2>1, <2>2, <2>4, <1>4
<1> QED
  BY <1>1, <1>2, <1>3, <1>5, <1>6, <1>7 DEF FaissNext

(* A row is inserted or replaced: the index still has the old id, and will   *)
(* have the new one when the writer has added it.                            *)
LEMMA InsertKeeps ==
  ASSUME FaissTypeOK, IdsInv, IndexFollows, FaissTypeOK', NEW w \in FaissWriters, NEW k \in FaissKeys,
         InsertRow(w, k), dim' = dim, ~Crosses(w, k, nextId + 1)
  PROVE  IndexFollows'
<1> USE DEF FaissTypeOK
<1>0. PICK new, old : new = nextId + 1 /\ old = rows[k]
  OBVIOUS
<1>1. /\ ~AtWork(w) /\ ~Adds(w) /\ ~TakesOut(w) /\ job[w].doing # "dropping"
      /\ nextId' = new /\ rows' = [rows EXCEPT ![k] = new]
      /\ oldId' = [oldId EXCEPT ![w] = old] /\ newId' = [newId EXCEPT ![w] = new]
      /\ job' = [job EXCEPT ![w] = [doing |-> "adding", key |-> k]]
      /\ UNCHANGED <<index, indexDim, switched, indexFile, fileDim, spoilt, deceived>>
  BY <1>0 DEF InsertRow, BeginWrite, AtWork, Adds, TakesOut, inMemory, inFile
<1>2. /\ job'[w].doing = "adding" /\ job'[w].key = k /\ oldId'[w] = old /\ newId'[w] = new
      /\ \A v \in FaissWriters \ {w} : job'[v] = job[v] /\ oldId'[v] = oldId[v] /\ newId'[v] = newId[v]
      /\ rows'[k] = new /\ \A j \in FaissKeys \ {k} : rows'[j] = rows[j]
  BY <1>1
<1>3. \A v \in FaissWriters \ {w} :
        AtWork(v) => /\ job[v].doing = "adding" /\ job[v].key # k /\ index # NoIndex
                     /\ dim[new] = indexDim /\ dim[newId[v]] = indexDim
  BY <1>0 DEF Crosses, Fits
<1>4. /\ new \in FaissIds /\ \A j \in FaissKeys : rows[j] # new /\ rows[j] \in Nat
      /\ \A v \in FaissWriters : oldId[v] # new
  <2>1. new \in FaissIds
    BY <1>0, <1>1, FaissAssumption DEF FaissIds
  <2>2. \A j \in FaissKeys : rows[j] # new /\ rows[j] \in Nat
    BY <1>0, FaissAssumption DEF IdsInv
  <2>3. \A v \in FaissWriters : oldId[v] # new
    BY <1>0, FaissAssumption DEF IdsInv
  <2> QED
    BY <2>1, <2>2, <2>3
<1>5. rows[k] = old /\ \A j \in FaissKeys : j # k /\ old # 0 => rows[j] # old
  BY <1>0 DEF IdsInv
<1>6. SideBySide'
  BY <1>1, <1>2, <1>3 DEF IndexFollows, SideBySide, AtWork
<1>7. AddedRows'
  BY <1>2, <1>3 DEF AddedRows, IndexFollows, Adds, AtWork
<1>8. TakenRows'
  <2>1. \A v \in FaissWriters \ {w} : (TakesOut(v)' <=> TakesOut(v)) /\ TakesOut(w)'
    BY <1>2 DEF TakesOut
  <2>2. \A id : HasRow(id)' => HasRow(id) \/ id = new
    BY <1>2 DEF HasRow
  <2>3. old # 0 => ~HasRow(old)'
    BY <1>2, <1>4, <1>5 DEF HasRow
  <2>4. \A v \in FaissWriters : TakesOut(v) /\ oldId[v] # 0 => oldId[v] # old
    BY <1>5 DEF TakenRows, IndexFollows, HasRow
  <2>5. \A v \in FaissWriters : TakesOut(v)' /\ oldId'[v] # 0 => ~HasRow(oldId[v])'
    <3> SUFFICES ASSUME NEW v \in FaissWriters, TakesOut(v)', oldId'[v] # 0
                 PROVE  ~HasRow(oldId[v])'
      OBVIOUS
    <3>1. CASE v = w
      BY <3>1, <1>2, <2>3 DEF HasRow
    <3>2. CASE v # w
      <4>1. TakesOut(v) /\ oldId'[v] = oldId[v] /\ oldId[v] # new /\ ~HasRow(oldId[v])
        BY <3>2, <1>2, <1>4, <2>1 DEF TakenRows, IndexFollows
      <4> QED
        BY <4>1, <1>2 DEF HasRow
    <3> QED
      BY <3>1, <3>2
  <2> QED
    BY <1>2, <2>1, <2>4, <2>5 DEF TakenRows, IndexFollows
<1>9. WhileNone'
  <2> SUFFICES ASSUME index = NoIndex
               PROVE  /\ indexFile = NoIndex
                      /\ \A id \in FaissIds : HasRow(id)' => ToAdd(id)'
                      /\ \A v \in FaissWriters : AtWork(v)' => job'[v].doing = "dropping" \/ (Adds(v)' /\ oldId'[v] = 0)
    BY <1>1 DEF WhileNone
  <2>1. indexFile = NoIndex /\ \A v \in FaissWriters : ~AtWork(v)
    BY <1>1, <1>3 DEF WhileNone, IndexFollows
  <2>2. \A id \in FaissIds : ~HasRow(id)
    BY <2>1 DEF WhileNone, IndexFollows, ToAdd, AtWork, Adds
  <2>3. old = 0
    BY <1>5, <2>2, FaissAssumption DEF HasRow, FaissIds
  <2>4. \A id \in FaissIds : HasRow(id)' => id = new
    BY <2>2, <1>2 DEF HasRow
  <2>5. \A v \in FaissWriters : AtWork(v)' => v = w
    BY <2>1, <1>2 DEF AtWork
  <2> QED
    BY <2>1, <2>3, <2>4, <2>5, <1>2 DEF ToAdd, Adds
<1>10. WhileThere'
  <2> SUFFICES ASSUME index # NoIndex
               PROVE  /\ \A id \in FaissIds :
                           id \in index <=> id >= switched /\ ((HasRow(id)' /\ ~ToAdd(id)') \/ ToTake(id)')
                      /\ \E id \in FaissIds : HasRow(id)'
    BY <1>1 DEF WhileThere
  <2>1. \A v \in FaissWriters : job[v].doing # "dropping"
    BY <1>1, <1>3 DEF AtWork
  <2>2. \A id \in FaissIds : id \in index <=> id >= switched /\ ((HasRow(id) /\ ~ToAdd(id)) \/ ToTake(id))
    BY <2>1 DEF WhileThere, IndexFollows
  <2>3. HasRow(new)' /\ ToAdd(new)' /\ ~HasRow(new) /\ ~ToTake(new) /\ ~ToTake(new)'
    <3>1. HasRow(new)' /\ ToAdd(new)' /\ ~HasRow(new)
      BY <1>2, <1>4 DEF HasRow, ToAdd, Adds
    <3>2. old # new
      BY <1>4, <1>5
    <3> QED
      BY <3>1, <3>2, <1>2, <1>4 DEF ToTake
  <2>4. ASSUME NEW id \in FaissIds, id # new, id # old
        PROVE  (HasRow(id)' <=> HasRow(id)) /\ (ToAdd(id)' <=> ToAdd(id)) /\ (ToTake(id)' <=> ToTake(id))
    <3>1. HasRow(id)' <=> HasRow(id)
      BY <2>4, <1>2, <1>5 DEF HasRow
    <3>2. ToAdd(id)' <=> ToAdd(id)
      BY <2>4, <1>1, <1>2 DEF ToAdd, Adds
    <3>3. ToTake(id)' <=> ToTake(id)
      BY <2>4, <1>1, <1>2 DEF ToTake, TakesOut
    <3> QED
      BY <3>1, <3>2, <3>3
  <2>5. ASSUME NEW id \in FaissIds, id = old
        PROVE  HasRow(id) /\ ~ToAdd(id) /\ ToTake(id)'
    <3>1. id # 0
      BY FaissAssumption DEF FaissIds
    <3>2. HasRow(id) /\ ToTake(id)'
      BY <2>5, <1>2, <1>5 DEF HasRow, ToTake, TakesOut
    <3>3. ASSUME NEW v \in FaissWriters, Adds(v), newId[v] = id
          PROVE  FALSE
      <4>1. v # w /\ rows[job[v].key] = id /\ job[v].key # k
        BY <3>3, <1>1, <1>3 DEF AddedRows, IndexFollows, Adds, AtWork
      <4> QED
        BY <4>1, <3>1, <2>5, <1>5
    <3> QED
      BY <3>2, <3>3 DEF ToAdd
  <2>6. \A id \in FaissIds : id \in index <=> id >= switched /\ ((HasRow(id)' /\ ~ToAdd(id)') \/ ToTake(id)')
    <3> SUFFICES ASSUME NEW id \in FaissIds
                 PROVE  id \in index <=> id >= switched /\ ((HasRow(id)' /\ ~ToAdd(id)') \/ ToTake(id)')
      OBVIOUS
    <3>1. CASE id = new
      BY <3>1, <2>2, <2>3
    <3>2. CASE id = old
      BY <3>2, <2>2, <2>5
    <3>3. CASE id # new /\ id # old
      BY <3>3, <2>2, <2>4
    <3> QED
      BY <3>1, <3>2, <3>3
  <2> QED
    BY <2>3, <2>6, <1>4
<1>11. Drops'
  BY <1>2, <1>3 DEF Drops, AtWork
<1>12. MisfitsAlone'
  <2> SUFFICES ASSUME NEW v \in FaissWriters
               PROVE  /\ Adds(v)' => newId'[v] >= switched
                      /\ Misfit(v)' => newId'[v] = new /\ Alone(v)'
    BY <1>1 DEF MisfitsAlone
  <2>1. CASE v = w
    <3>1. new >= switched
      BY <1>0, FaissAssumption DEF IdsInv
    <3>2. Misfit(w)' => Alone(w)'
      BY <1>1, <1>2, <1>3 DEF Misfit, Alone, AtWork
    <3> QED
      BY <2>1, <3>1, <3>2, <1>2
  <2>2. CASE v # w
    <3>1. (Adds(v)' <=> Adds(v)) /\ newId'[v] = newId[v] /\ (Adds(v) => AtWork(v))
      BY <2>2, <1>2 DEF Adds, AtWork
    <3>2. ~Misfit(v)'
      BY <2>2, <3>1, <1>1, <1>3 DEF Misfit
    <3> QED
      BY <3>1, <3>2 DEF MisfitsAlone, IndexFollows
  <2> QED
    BY <2>1, <2>2
<1>13. FileFits'
  <2>1. \A v \in FaissWriters : job[v].doing = "saving" => FALSE
    BY <1>1, <1>3 DEF AtWork
  <2> QED
    BY <2>1, <1>1 DEF FileFits, IndexFollows
<1> QED
  BY <1>6, <1>7, <1>8, <1>9, <1>10, <1>11, <1>12, <1>13 DEF IndexFollows

(* The new id of a row comes into the index and the old one goes.            *)
LEMMA FaissAddKeeps ==
  ASSUME FaissTypeOK, IdsInv, IndexFollows, FaissTypeOK', NEW w \in FaissWriters, AddToIndex(w), dim' = dim
  PROVE  IndexFollows'
<1> USE DEF FaissTypeOK
<1>0. PICK new, old : new = newId[w] /\ old = oldId[w]
  OBVIOUS
<1>1. /\ job[w].doing = "adding" /\ job' = [job EXCEPT ![w].doing = "saving"]
      /\ index' = (Opened(dim[new]) \ {old}) \cup {new} /\ indexDim' = dim[new]
      /\ switched' = IF index # NoIndex /\ dim[new] # indexDim THEN new ELSE switched
      /\ UNCHANGED <<rows, nextId, indexFile, fileDim, spoilt, oldId, newId, crossed, deceived>>
  BY <1>0 DEF AddToIndex, Do, inFile, Fits
<1>2. /\ job'[w].doing = "saving" /\ job'[w].key = job[w].key
      /\ \A v \in FaissWriters \ {w} : job'[v] = job[v]
  BY <1>1
<1>3. Adds(w) /\ TakesOut(w) /\ AtWork(w) /\ HasRow(new) /\ ToAdd(new) /\ new \in FaissIds
  <2>1. Adds(w) /\ TakesOut(w) /\ AtWork(w)
    BY <1>1 DEF Adds, TakesOut, AtWork
  <2>2. rows[job[w].key] = new /\ job[w].key \in FaissKeys
    BY <2>1, <1>0 DEF AddedRows, IndexFollows
  <2>3. new \in FaissIds
    BY <2>1, <1>0, FaissAssumption DEF IdsInv, FaissIds
  <2> QED
    BY <2>1, <2>2, <2>3, <1>0 DEF HasRow, ToAdd
<1>4. index' \in SUBSET FaissIds /\ index' # NoIndex
  <2>1. new \in index'
    BY <1>1
  <2>2. Opened(dim[new]) \in SUBSET FaissIds
    BY DEF Opened, FaissIds
  <2> QED
    BY <1>1, <1>3, <2>2, FaissAssumption DEF FaissIds
<1>5. SideBySide'
  <2>1. SideBySide
    BY DEF IndexFollows
  <2>2. \A v \in FaissWriters : AtWork(v)' => AtWork(v)
    BY <1>2, <1>3 DEF AtWork
  <2>3. \A v \in FaissWriters : job'[v].key = job[v].key /\ (job'[v].doing = "saving" \/ job'[v].doing = job[v].doing)
    BY <1>2
  <2> QED
    BY <2>1, <2>2, <2>3, <1>4 DEF SideBySide
<1>6. AddedRows' /\ TakenRows'
  <2>1. AddedRows'
    BY <1>1, <1>2 DEF AddedRows, IndexFollows, Adds
  <2>2. \A v \in FaissWriters : TakesOut(v)' => TakesOut(v)
    BY <1>2 DEF TakesOut
  <2>3. \A v \in FaissWriters : HasRow(oldId[v])' <=> HasRow(oldId[v])
    BY <1>1 DEF HasRow
  <2> QED
    BY <2>1, <2>2, <2>3, <1>1 DEF TakenRows, IndexFollows
<1>7. WhileNone'
  BY <1>4 DEF WhileNone
<1>8. \A v \in FaissWriters : v # w /\ AtWork(v) => job[v].doing \in {"adding", "saving"} /\ job[v].key # job[w].key
  BY <1>3 DEF SideBySide, IndexFollows
<1>9. \A v \in FaissWriters \ {w} : TakesOut(v) /\ oldId[v] = old => old = 0
  BY <1>0, <1>3 DEF TakenRows, IndexFollows
<1>14. new >= switched /\ new \in Nat /\ switched \in Nat
  BY <1>0, <1>3, FaissAssumption DEF MisfitsAlone, IndexFollows
<1>15. ASSUME index # NoIndex, dim[new] # indexDim
       PROVE  /\ Opened(dim[new]) = {} /\ switched' = new /\ new = nextId
              /\ \A v \in FaissWriters : AtWork(v) => v = w
  <2>1. new = nextId /\ Alone(w)
    BY <1>0, <1>3, <1>15 DEF MisfitsAlone, Misfit, IndexFollows
  <2>2. indexFile = NoIndex \/ spoilt \/ fileDim = indexDim
    BY <2>1, <1>1, <1>3, <1>15 DEF FileFits, IndexFollows, Alone
  <2>3. Opened(dim[new]) = {}
    BY <2>2, <1>15 DEF Opened
  <2> QED
    BY <2>1, <2>3, <1>1, <1>15 DEF Alone
<1>16. ~(index # NoIndex /\ dim[new] # indexDim) => switched' = switched
  BY <1>1
<1>10. \A id \in FaissIds : id \in index' <=> id >= switched' /\ ((HasRow(id)' /\ ~ToAdd(id)') \/ ToTake(id)')
  <2>1. ~ToAdd(new)' /\ ~ToTake(new)'
    <3>1. ASSUME NEW v \in FaissWriters, Adds(v)', newId'[v] = new
          PROVE  FALSE
      <4>1. v # w /\ Adds(v) /\ newId[v] = new
        BY <3>1, <1>1, <1>2 DEF Adds
      <4>2. AtWork(v) /\ rows[job[v].key] = new /\ rows[job[w].key] = new /\ new # 0
        BY <4>1, <1>0, <1>3, FaissAssumption DEF AddedRows, IndexFollows, Adds, AtWork, FaissIds
      <4>3. job[v].key = job[w].key
        BY <4>2 DEF IdsInv
      <4> QED
        BY <4>1, <4>2, <4>3, <1>8
    <3>2. ASSUME NEW v \in FaissWriters, TakesOut(v)', oldId'[v] = new
          PROVE  FALSE
      <4>1. TakesOut(v) /\ oldId[v] = new /\ new # 0
        BY <3>2, <1>1, <1>2, <1>3, FaissAssumption DEF TakesOut, FaissIds
      <4>2. ~HasRow(oldId[v])
        BY <4>1 DEF TakenRows, IndexFollows
      <4> QED
        BY <4>1, <4>2, <1>3 DEF HasRow
    <3> QED
      BY <3>1, <3>2 DEF ToAdd, ToTake
  <2>2. ASSUME NEW id \in FaissIds
        PROVE  /\ HasRow(id)' <=> HasRow(id)
               /\ id # new => (ToAdd(id)' <=> ToAdd(id))
               /\ id # old => (ToTake(id)' <=> ToTake(id))
               /\ id = old => ~ToTake(id)' /\ ~HasRow(id)
    <3>1. HasRow(id)' <=> HasRow(id)
      BY <1>1 DEF HasRow
    <3>2. id # new => (ToAdd(id)' <=> ToAdd(id))
      BY <1>0, <1>1, <1>2 DEF ToAdd, Adds
    <3>3. id # old => (ToTake(id)' <=> ToTake(id))
      BY <1>0, <1>1, <1>2 DEF ToTake, TakesOut
    <3>4. id = old => ~ToTake(id)' /\ ~HasRow(id)
      <4>1. id # 0
        BY FaissAssumption DEF FaissIds
      <4>2. id = old => ~HasRow(id)
        BY <4>1, <1>0, <1>3 DEF TakenRows, IndexFollows, HasRow
      <4>3. id = old => ~ToTake(id)'
        BY <4>1, <1>1, <1>2, <1>9 DEF ToTake, TakesOut
      <4> QED
        BY <4>2, <4>3
    <3> QED
      BY <3>1, <3>2, <3>3, <3>4
  <2>3. CASE index # NoIndex /\ dim[new] = indexDim
    <3>1. Opened(dim[new]) = index /\ \A v \in FaissWriters : job[v].doing # "dropping"
      BY <2>3, <1>1, <1>8 DEF Opened, AtWork
    <3>2. \A id \in FaissIds : id \in index <=> id >= switched /\ ((HasRow(id) /\ ~ToAdd(id)) \/ ToTake(id))
      BY <2>3, <3>1 DEF WhileThere, IndexFollows
    <3>5. switched' = switched
      BY <2>3, <1>16
    <3> SUFFICES ASSUME NEW id \in FaissIds
                 PROVE  id \in index' <=> id >= switched /\ ((HasRow(id)' /\ ~ToAdd(id)') \/ ToTake(id)')
      BY <3>5
    <3>3. CASE id = new
      BY <3>3, <2>1, <2>2, <1>1, <1>3, <1>14
    <3>4. CASE id # new
      BY <3>1, <3>2, <3>4, <2>2, <1>1
    <3> QED
      BY <3>3, <3>4
  <2>5. CASE index # NoIndex /\ dim[new] # indexDim
    <3>1. index' = {new} /\ switched' = new
      BY <2>5, <1>1, <1>15
    <3>2. \A id : ~ToAdd(id)' /\ ~ToTake(id)'
      BY <2>5, <1>2, <1>15 DEF ToAdd, ToTake, Adds, TakesOut, AtWork
    <3>3. \A id \in FaissIds : HasRow(id)' => id <= new
      <4>1. \A id : HasRow(id)' => HasRow(id)
        BY <1>1 DEF HasRow
      <4> QED
        BY <4>1, <2>5, <1>15 DEF HasRow, IdsInv
    <3>4. \A id \in FaissIds : id >= new /\ HasRow(id)' <=> id = new
      BY <3>3, <2>2, <1>3, <1>14, FaissAssumption DEF FaissIds
    <3> QED
      BY <3>1, <3>2, <3>4
  <2>4. CASE index = NoIndex
    <3>1. \A v \in FaissWriters : AtWork(v) => v = w
      BY <2>4, <1>3 DEF SideBySide, IndexFollows
    <3>2. Opened(dim[new]) = {}
      BY <2>4 DEF Opened, WhileNone, IndexFollows
    <3>5. switched' = switched
      BY <2>4, <1>16
    <3>3. \A id \in FaissIds : HasRow(id) <=> id = new
      BY <2>4, <3>1, <1>0, <1>3 DEF WhileNone, IndexFollows, ToAdd, Adds, AtWork
    <3>4. \A id : ~ToAdd(id)' /\ ~ToTake(id)'
      BY <3>1, <1>2 DEF ToAdd, ToTake, Adds, TakesOut, AtWork
    <3>6. index' = {new} /\ \A id \in FaissIds : HasRow(id)' <=> id = new
      BY <3>2, <3>3, <2>2, <1>1
    <3> QED
      BY <3>4, <3>5, <3>6, <1>14
  <2> QED
    BY <2>3, <2>4, <2>5
<1>11. WhileThere'
  <2>1. HasRow(new)'
    BY <1>1, <1>3 DEF HasRow
  <2> QED
    BY <2>1, <1>3, <1>10 DEF WhileThere
<1>12. Drops'
  BY <1>2, <1>8 DEF Drops, AtWork
<1>17. MisfitsAlone'
  <2> SUFFICES ASSUME NEW v \in FaissWriters, Adds(v)'
               PROVE  newId'[v] >= switched' /\ ~Misfit(v)'
    BY DEF MisfitsAlone, Misfit
  <2>1. v # w /\ Adds(v) /\ AtWork(v) /\ newId'[v] = newId[v]
    BY <1>1, <1>2 DEF Adds, AtWork
  <2>2. index # NoIndex
    BY <2>1, <1>3 DEF SideBySide, IndexFollows
  <2>3. dim[new] = indexDim
    BY <2>1, <2>2, <1>15
  <2>4. ~Misfit(v)
    BY <2>1, <1>3 DEF MisfitsAlone, Alone, IndexFollows
  <2>5. ~Misfit(v)'
    BY <2>1, <2>2, <2>3, <2>4, <1>1 DEF Misfit
  <2> QED
    BY <2>1, <2>3, <2>5, <1>16 DEF MisfitsAlone, IndexFollows
<1>18. FileFits'
  <2>1. CASE index = NoIndex
    BY <2>1, <1>1 DEF FileFits, WhileNone, IndexFollows
  <2>2. CASE index # NoIndex /\ dim[new] # indexDim
    BY <2>2, <1>2, <1>15 DEF FileFits, Alone, AtWork
  <2>3. CASE index # NoIndex /\ dim[new] = indexDim
    <3>1. indexDim' = indexDim
      BY <2>3, <1>1
    <3>2. \A v \in FaissWriters : ~(job[v].doing = "saving" /\ Alone(v))
      BY <1>1, <1>3 DEF Alone
    <3> QED
      BY <2>3, <3>1, <3>2, <1>1 DEF FileFits, IndexFollows
  <2> QED
    BY <2>1, <2>2, <2>3
<1> QED
  BY <1>5, <1>6, <1>7, <1>11, <1>12, <1>17, <1>18 DEF IndexFollows

(* The index is written to its file by a writer that has added or taken out. *)
LEMMA SaveKeeps ==
  ASSUME FaissTypeOK, IdsInv, IndexFollows, FaissTypeOK', NEW w \in FaissWriters, WriteIndex(w), dim' = dim
  PROVE  IndexFollows'
<1> USE DEF FaissTypeOK
<1>1. /\ job[w].doing = "saving" /\ job' = [job EXCEPT ![w] = Idle]
      /\ UNCHANGED <<rows, nextId, index, indexDim, switched, oldId, newId, crossed, deceived>>
      /\ index # NoIndex => fileDim' = indexDim
  BY DEF WriteIndex, inMemory
<1>2. /\ job'[w].doing = "idle" /\ \A v \in FaissWriters \ {w} : job'[v] = job[v]
      /\ AtWork(w) /\ ~AtWork(w)' /\ index # NoIndex
  BY <1>1 DEF Idle, AtWork, IndexFollows, WhileNone, Adds
<1>3. \A v \in FaissWriters : /\ AtWork(v)' => v # w /\ AtWork(v) /\ job'[v] = job[v]
                              /\ (Adds(v)' <=> Adds(v)) /\ (TakesOut(v)' <=> TakesOut(v))
  BY <1>1, <1>2 DEF AtWork, Adds, TakesOut
<1>4. \A id : (HasRow(id)' <=> HasRow(id)) /\ (ToAdd(id)' <=> ToAdd(id)) /\ (ToTake(id)' <=> ToTake(id))
  BY <1>1, <1>3 DEF HasRow, ToAdd, ToTake
<1>5. SideBySide' /\ AddedRows'
  BY <1>1, <1>3 DEF SideBySide, AddedRows, IndexFollows, Adds, AtWork
<1>6. TakenRows'
  <2>1. \A v \in FaissWriters : HasRow(oldId[v])' <=> HasRow(oldId[v])
    BY <1>1 DEF HasRow
  <2> QED
    BY <2>1, <1>1, <1>3 DEF TakenRows, IndexFollows
<1>7. WhileNone'
  BY <1>1, <1>2 DEF WhileNone
<1>8. WhileThere' /\ Drops'
  <2>1. \A v \in FaissWriters : job'[v].doing \in {"dropping", "removing", "counting"} <=>
                                job[v].doing \in {"dropping", "removing", "counting"}
    BY <1>1, <1>2
  <2>2. \A v \in FaissWriters, what \in {"dropping", "removing", "counting"} :
          job'[v].doing = what <=> job[v].doing = what
    BY <1>1, <1>2
  <2> QED
    BY <2>2, <1>1, <1>4 DEF WhileThere, Drops, IndexFollows
<1>9. MisfitsAlone' /\ FileFits'
  <2>1. \A v \in FaissWriters : Alone(v) => Alone(v)'
    BY <1>3 DEF Alone
  <2>2. \A v \in FaissWriters : (Adds(v)' => Adds(v)) /\ (Misfit(v)' => Misfit(v))
    BY <1>1, <1>3 DEF Misfit
  <2>3. MisfitsAlone'
    BY <2>1, <2>2, <1>1 DEF MisfitsAlone, IndexFollows
  <2> QED
    BY <2>3, <1>1, <1>2 DEF FileFits
<1> QED
  BY <1>5, <1>6, <1>7, <1>8, <1>9 DEF IndexFollows

(* A writer that takes rows out works alone.                                 *)
LEMMA AloneKeeps ==
  ASSUME FaissTypeOK, IdsInv, IndexFollows, FaissTypeOK', NEW w \in FaissWriters,
         RemoveFromIndex(w) \/ CountLeft(w) \/ DropIndex(w), dim' = dim
  PROVE  IndexFollows'
<1> USE DEF FaissTypeOK
<1>1. /\ job[w].doing \in {"removing", "counting", "dropping"} /\ AtWork(w)
      /\ UNCHANGED <<rows, nextId, indexDim, switched, fileDim, oldId, newId, crossed, deceived>>
      /\ UNCHANGED <<indexFile, spoilt>> \/ index' = NoIndex
  BY DEF RemoveFromIndex, CountLeft, DropIndex, AtWork, inMemory, inFile
<1>2. \A v \in FaissWriters \ {w} : ~AtWork(v)
  BY <1>1 DEF SideBySide, IndexFollows
<1>3. /\ \A v \in FaissWriters \ {w} : job'[v] = job[v] /\ ~AtWork(v)'
      /\ job'[w].doing \in {"counting", "dropping", "saving", "idle"}
  <2>1. \E what \in {"counting", "dropping", "saving", "idle"} :
          \/ job' = [job EXCEPT ![w].doing = what]
          \/ what = "idle" /\ job' = [job EXCEPT ![w] = Idle]
    BY DEF RemoveFromIndex, CountLeft, DropIndex, Do
  <2> QED
    BY <2>1, <1>2 DEF AtWork, Idle
<1>4. \A v \in FaissWriters : ~Adds(v)' /\ ~TakesOut(v)' /\ ~Adds(v)
  BY <1>1, <1>2, <1>3 DEF Adds, TakesOut, AtWork
<1>11. MisfitsAlone'
  BY <1>4 DEF MisfitsAlone, Misfit
<1>12. FileFits'
  <2>1. \A v \in FaissWriters : ~(job[v].doing = "saving" /\ Alone(v))
    BY <1>1 DEF Alone
  <2>2. index = NoIndex => index' = NoIndex
    BY DEF RemoveFromIndex, CountLeft, DropIndex, inMemory
  <2> QED
    BY <2>1, <2>2, <1>1 DEF FileFits, IndexFollows
<1>5. SideBySide' /\ AddedRows' /\ TakenRows' /\ MisfitsAlone' /\ FileFits'
  BY <1>3, <1>4, <1>11, <1>12 DEF SideBySide, AddedRows, TakenRows
<1>6. \A id : HasRow(id)' <=> HasRow(id)
  BY <1>1 DEF HasRow
<1>7. \A id : ~ToAdd(id) /\ ~ToAdd(id)' /\ ~ToTake(id)'
  BY <1>4 DEF ToAdd, ToTake
<1>8. CASE RemoveFromIndex(w)
  <2>1. /\ job[w].doing = "removing" /\ job'[w].doing = "counting"
        /\ index # NoIndex => index' = index \ {oldId[w]}
    BY <1>8 DEF RemoveFromIndex, Do
  <2>2. index # NoIndex
    BY <2>1, <1>1, <1>4 DEF WhileNone, IndexFollows
  <2>3. index' \in SUBSET FaissIds /\ index' # NoIndex
    BY <2>1, <2>2, FaissAssumption DEF FaissIds
  <2>4. \A v \in FaissWriters : job[v].doing # "dropping" /\ job'[v].doing # "dropping"
    BY <2>1, <1>2, <1>3 DEF AtWork
  <2>5. TakesOut(w) /\ \A v \in FaissWriters : TakesOut(v) => v = w
    BY <2>1, <1>2 DEF TakesOut, AtWork
  <2>6. \A id \in FaissIds : id \in index <=> id >= switched /\ (HasRow(id) \/ id = oldId[w])
    BY <2>2, <2>4, <2>5, <1>7 DEF WhileThere, IndexFollows, ToTake
  <2>7. \A id \in FaissIds : id = oldId[w] => ~HasRow(id)
    <3>1. TakenRows
      BY DEF IndexFollows
    <3>2. oldId[w] # 0 => ~HasRow(oldId[w])
      BY <3>1, <2>5 DEF TakenRows
    <3> QED
      BY <3>2, FaissAssumption DEF FaissIds
  <2>8. \A id \in FaissIds : id \in index' <=> id >= switched' /\ HasRow(id)'
    BY <2>1, <2>2, <2>6, <2>7, <1>1, <1>6
  <2> QED
    BY <2>1, <2>3, <2>4, <2>8, <1>5, <1>7 DEF IndexFollows, WhileNone, WhileThere, Drops
<1>9. CASE CountLeft(w)
  <2>1. /\ job[w].doing = "counting" /\ UNCHANGED <<index, indexFile>>
        /\ job'[w].doing = IF RowIds = {} THEN "dropping" ELSE "saving"
    BY <1>9 DEF CountLeft, Do, inMemory, inFile
  <2>2. index # NoIndex
    BY <2>1, <1>1, <1>4 DEF WhileNone, IndexFollows
  <2>3. \A v \in FaissWriters : job[v].doing # "dropping" /\ ~TakesOut(v)
    BY <2>1, <1>2 DEF AtWork, TakesOut
  <2>4. \A id \in FaissIds : id \in index <=> id >= switched /\ HasRow(id)
    BY <2>2, <2>3, <1>7 DEF WhileThere, IndexFollows, ToTake
  <2>5. RowIds = {} <=> \A id \in FaissIds : ~HasRow(id)
    BY RowsOfTable
  <2>6. WhileThere'
    BY <2>1, <2>2, <2>4, <2>5, <1>1, <1>4, <1>6, <1>7 DEF WhileThere, ToTake
  <2>7. Drops'
    BY <2>1, <2>5, <1>3, <1>6 DEF Drops, AtWork
  <2> QED
    BY <2>1, <2>2, <2>6, <2>7, <1>5 DEF IndexFollows, WhileNone
<1>10. CASE DropIndex(w)
  <2>1. /\ job[w].doing = "dropping" /\ index' = NoIndex /\ indexFile' = NoIndex
        /\ job'[w].doing = "idle"
    BY <1>10 DEF DropIndex, Idle
  <2>2. \A id \in FaissIds : ~HasRow(id)
    BY <2>1 DEF Drops, IndexFollows
  <2>3. \A v \in FaissWriters : ~AtWork(v)'
    BY <2>1, <1>3 DEF AtWork
  <2> QED
    BY <2>1, <2>2, <2>3, <1>5, <1>6 DEF IndexFollows, WhileNone, WhileThere, Drops, AtWork
<1> QED
  BY <1>8, <1>9, <1>10

(* One row is deleted, or all of them, while nobody else is at work.         *)
LEMMA DeleteKeeps ==
  ASSUME FaissTypeOK, IdsInv, IndexFollows, FaissTypeOK', NEW w \in FaissWriters,
         (\E k \in FaissKeys : DeleteRow(w, k)) \/ DeleteRows(w), ~crossed', dim' = dim
  PROVE  IndexFollows'
<1> USE DEF FaissTypeOK
<1>1. /\ ~AtWork(w) /\ \A v \in FaissWriters \ {w} : ~AtWork(v)
      /\ UNCHANGED <<nextId, index, indexDim, switched, indexFile, fileDim, spoilt, newId>>
  BY DEF DeleteRow, DeleteRows, BeginWrite, AtWork, inMemory, inFile
<1>2. PICK k \in FaissKeys, what \in {"removing", "dropping"} :
        /\ job' = [job EXCEPT ![w] = [doing |-> what, key |-> k]]
        /\ oldId' = [oldId EXCEPT ![w] = rows[k]]
        /\ what = "removing" => rows[k] # 0 /\ rows' = [rows EXCEPT ![k] = 0]
        /\ what = "dropping" => rows' = [j \in FaissKeys |-> 0]
  BY DEF DeleteRow, DeleteRows, BeginWrite
<1>3. /\ job'[w].doing = what /\ \A v \in FaissWriters \ {w} : job'[v] = job[v] /\ ~AtWork(v)'
  BY <1>1, <1>2 DEF AtWork
<1>4. \A v \in FaissWriters : ~Adds(v)' /\ ~Adds(v) /\ ~TakesOut(v) /\ (TakesOut(v)' => v = w) /\ ~AtWork(v)
  BY <1>1, <1>2, <1>3 DEF Adds, TakesOut, AtWork
<1>5. PICK old : old = rows[k]
  OBVIOUS
<1>6. oldId'[w] = old
  BY <1>2, <1>5
<1>7. \A id : ~ToAdd(id) /\ ~ToTake(id) /\ ~ToAdd(id)'
  BY <1>4 DEF ToAdd, ToTake
<1>8. SideBySide' /\ AddedRows' /\ MisfitsAlone' /\ FileFits'
  <2>1. MisfitsAlone'
    BY <1>4 DEF MisfitsAlone, Misfit
  <2>2. FileFits'
    BY <1>1, <1>4 DEF FileFits, IndexFollows, AtWork
  <2> QED
    BY <2>1, <2>2, <1>3, <1>4 DEF SideBySide, AddedRows
<1>9. CASE what = "removing"
  <2>1. /\ old \in FaissIds /\ HasRow(old) /\ TakesOut(w)'
        /\ rows'[k] = 0 /\ \A j \in FaissKeys \ {k} : rows'[j] = rows[j]
    BY <1>2, <1>3, <1>5, <1>9, FaissAssumption DEF FaissIds, HasRow, TakesOut
  <2>2. index # NoIndex
    BY <2>1, <1>7 DEF WhileNone, IndexFollows
  <2>3. \A id \in FaissIds : id \in index <=> id >= switched /\ HasRow(id)
    BY <2>2, <1>4, <1>7 DEF WhileThere, IndexFollows, AtWork
  <2>4. \A id \in FaissIds : HasRow(id)' <=> HasRow(id) /\ id # old
    <3>1. \A j \in FaissKeys : rows[j] = old => j = k
      BY <2>1, <1>5, FaissAssumption DEF IdsInv, FaissIds
    <3> QED
      BY <3>1, <2>1, <1>5, FaissAssumption DEF HasRow, FaissIds
  <2>5. \A id \in FaissIds : ToTake(id)' <=> id = old
    BY <2>1, <1>4, <1>6 DEF ToTake
  <2>6. WhileThere'
    BY <2>1, <2>3, <2>4, <2>5, <1>1, <1>3, <1>7, <1>9 DEF WhileThere
  <2>7. TakenRows'
    <3>1. ~HasRow(oldId[w])'
      BY <2>1, <2>4, <1>6 DEF HasRow
    <3> QED
      BY <3>1, <1>4 DEF TakenRows
  <2>8. WhileNone' /\ Drops'
    BY <2>2, <1>1, <1>3, <1>9 DEF WhileNone, Drops, AtWork
  <2> QED
    BY <2>6, <2>7, <2>8, <1>8 DEF IndexFollows
<1>10. CASE what = "dropping"
  <2>1. \A id \in FaissIds : ~HasRow(id)'
    BY <1>2, <1>10, FaissAssumption DEF HasRow, FaissIds
  <2>2. \A v \in FaissWriters : ~TakesOut(v)'
    BY <1>3, <1>4, <1>10 DEF TakesOut
  <2>3. TakenRows' /\ WhileThere' /\ Drops'
    BY <2>1, <2>2, <1>3, <1>10 DEF TakenRows, WhileThere, Drops
  <2>4. WhileNone'
    BY <2>1, <1>1, <1>3, <1>10 DEF WhileNone, IndexFollows, AtWork
  <2> QED
    BY <2>3, <2>4, <1>8 DEF IndexFollows
<1> QED
  BY <1>9, <1>10

(* A search that rebuilds crosses whoever has inserted the rows; a process   *)
(* that begins again has the index of its rows, or was deceived.             *)
LEMMA BeginKeeps ==
  ASSUME FaissTypeOK, IdsInv, IndexFollows, FaissTypeOK', SearchRebuilds \/ Restart, opened', ~crossed', ~deceived',
         dim' = dim
  PROVE  IndexFollows'
<1> USE DEF FaissTypeOK
<1>0. RowIds \subseteq FaissIds /\ \A id \in FaissIds : id \in RowIds <=> HasRow(id)
  BY RowsOfTable
<1>1. ASSUME SearchRebuilds
      PROVE  FALSE
  <2>1. index = NoIndex /\ RowIds # {} /\ \A v \in FaissWriters : ~AtWork(v)
    BY <1>1 DEF SearchRebuilds
  <2>2. \E id \in FaissIds : HasRow(id)
    BY <2>1, <1>0
  <2> QED
    BY <2>1, <2>2 DEF IndexFollows, WhileNone, ToAdd, Adds, AtWork
<1>2. CASE Restart
  <2>1. job' = [w \in FaissWriters |-> Idle] /\ UNCHANGED <<rows, nextId, oldId, newId>>
    BY <1>2 DEF Restart
  <2>2. \A v \in FaissWriters : job'[v].doing = "idle"
    BY <2>1 DEF Idle
  <2>3. \A id : HasRow(id)' <=> HasRow(id)
    BY <2>1 DEF HasRow
  <2>4. RowIds = {} => index' = NoIndex /\ indexFile' = NoIndex
    BY <1>2 DEF Restart
  <2>5. RowIds # {} => index' = RowIds /\ switched' = 0 /\ fileDim' = indexDim'
    BY <1>2 DEF Restart, LooksRight, Rebuilt
  <2>12. MisfitsAlone'
    BY <2>2 DEF MisfitsAlone, Misfit, Adds
  <2>13. FileFits'
    BY <2>4, <2>5 DEF FileFits
  <2>6. RowIds # NoIndex
    BY <1>0, FaissAssumption DEF FaissIds
  <2>7. \A v \in FaissWriters : ~AtWork(v)' /\ ~Adds(v)' /\ ~TakesOut(v)' /\ job'[v].doing # "dropping"
    BY <2>2 DEF AtWork, Adds, TakesOut
  <2>8. SideBySide' /\ AddedRows' /\ TakenRows' /\ Drops'
    BY <2>7 DEF SideBySide, AddedRows, TakenRows, Drops
  <2>9. \A id : ~ToAdd(id)' /\ ~ToTake(id)'
    BY <2>7 DEF ToAdd, ToTake
  <2>10. CASE RowIds = {}
    BY <2>3, <2>4, <2>7, <2>8, <2>10, <2>12, <2>13, <1>0 DEF IndexFollows, WhileNone, WhileThere
  <2>11. CASE RowIds # {}
    <3>1. \A id \in FaissIds : id >= switched'
      BY <2>5, <2>11, FaissAssumption DEF FaissIds
    <3>2. WhileThere'
      BY <3>1, <2>3, <2>5, <2>9, <2>11, <1>0 DEF WhileThere
    <3>3. WhileNone'
      BY <2>5, <2>6, <2>11 DEF WhileNone
    <3> QED
      BY <3>2, <3>3, <2>8, <2>12, <2>13 DEF IndexFollows
  <2> QED
    BY <2>10, <2>11
<1> QED
  BY <1>1, <1>2

LEMMA FaissStepInv == FaissInv /\ [FaissNext]_faissVars => FaissInv'
<1> SUFFICES ASSUME FaissInv, [FaissNext]_faissVars
             PROVE  FaissInv'
  OBVIOUS
<1>1. FaissTypeOK /\ IdsInv
  BY DEF FaissInv
<1>2. FaissTypeOK' /\ IdsInv'
  BY <1>1, FaissTypeStep, IdsStep
<1> SUFFICES ASSUME opened', ~crossed', ~deceived'
             PROVE  IndexFollows'
  BY <1>2 DEF FaissInv
<1>6. opened /\ dim' = dim
  BY DEF FaissNext, faissVars
<1>3. IndexFollows
  <2>0. crossed \in BOOLEAN /\ deceived \in BOOLEAN
    BY <1>1 DEF FaissTypeOK
  <2>1. ASSUME NEW w \in FaissWriters,
               \/ AddToIndex(w) \/ WriteIndex(w) \/ RemoveFromIndex(w) \/ CountLeft(w) \/ DropIndex(w)
        PROVE  ~crossed /\ ~deceived
    <3>1. crossed' = crossed /\ deceived' = deceived
      BY <2>1 DEF AddToIndex, WriteIndex, RemoveFromIndex, CountLeft, DropIndex
    <3> QED
      BY <3>1, Zenon
  <2>2. ASSUME NEW w \in FaissWriters, NEW k \in FaissKeys, InsertRow(w, k) \/ DeleteRow(w, k)
        PROVE  ~crossed /\ ~deceived
    <3>1. UNCHANGED deceived /\ \E yes \in BOOLEAN : crossed' = (crossed \/ yes)
      <4>1. CASE InsertRow(w, k)
        BY <4>1 DEF InsertRow, Crosses
      <4>2. CASE DeleteRow(w, k)
        BY <4>2 DEF DeleteRow
      <4> QED
        BY <2>2, <4>1, <4>2
    <3> QED
      BY <3>1, <2>0
  <2>3. ASSUME NEW w \in FaissWriters, DeleteRows(w)
        PROVE  ~crossed /\ ~deceived
    BY <2>3, <2>0 DEF DeleteRows
  <2>4. ASSUME SearchRebuilds
        PROVE  ~crossed /\ ~deceived
    BY <2>4, <2>0 DEF SearchRebuilds
  <2>5. ASSUME Restart
        PROVE  ~crossed /\ ~deceived
    <3>1. ~crossed
      BY <2>5 DEF Restart
    <3>2. ~deceived
      <4>1. \E yes, also \in BOOLEAN : deceived' = (deceived \/ yes \/ also)
        BY <2>5 DEF Restart
      <4> QED
        BY <4>1, <2>0
    <3> QED
      BY <3>1, <3>2
  <2>6. ASSUME UNCHANGED faissVars
        PROVE  ~crossed /\ ~deceived
    <3>1. crossed' = crossed /\ deceived' = deceived
      BY <2>6 DEF faissVars
    <3> QED
      BY <3>1, Zenon
  <2>8. ASSUME ChangeElsewhere
        PROVE  FALSE
    BY <2>8 DEF ChangeElsewhere
  <2>7. ~crossed /\ ~deceived
    BY <2>1, <2>2, <2>3, <2>4, <2>5, <2>6, <2>8, Zenon DEF FaissNext
  <2> QED
    BY <2>7, <1>6 DEF FaissInv
<1>4. ASSUME NEW w \in FaissWriters, NEW k \in FaissKeys, InsertRow(w, k)
      PROVE  IndexFollows'
  <2>1. ~Crosses(w, k, nextId + 1)
    BY <1>4 DEF InsertRow
  <2> QED
    BY <2>1, <1>1, <1>2, <1>3, <1>4, <1>6, InsertKeeps
<1>5. CASE UNCHANGED faissVars
  BY <1>3, <1>5 DEF faissVars, IndexFollows, SideBySide, AddedRows, TakenRows, WhileNone, WhileThere, Drops,
                    MisfitsAlone, Misfit, FileFits, Alone, AtWork, Adds, TakesOut, HasRow, ToAdd, ToTake
<1>7. CASE ChangeElsewhere
  BY <1>7 DEF ChangeElsewhere
<1> QED
  BY <1>1, <1>2, <1>3, <1>4, <1>5, <1>6, <1>7, FaissAddKeeps, SaveKeeps, AloneKeeps, DeleteKeeps, BeginKeeps DEF FaissNext

LEMMA FaissInvFound == FaissInv => EveryRowIsFound
<1> SUFFICES ASSUME FaissInv, opened, ~crossed, ~deceived, \A w \in FaissWriters : ~AtWork(w)
             PROVE  index = IF RowIds = {} THEN NoIndex ELSE {id \in RowIds : id >= switched}
  BY DEF EveryRowIsFound
<1>1. RowIds \subseteq FaissIds /\ \A id \in FaissIds : id \in RowIds <=> HasRow(id)
  BY RowsOfTable DEF FaissInv
<1>2. \A w \in FaissWriters : ~Adds(w) /\ ~TakesOut(w) /\ job[w].doing \notin {"dropping", "removing", "counting"}
  BY DEF AtWork, Adds, TakesOut
<1>3. \A id : ~ToAdd(id) /\ ~ToTake(id)
  BY <1>2 DEF ToAdd, ToTake
<1>4. IndexFollows /\ FaissTypeOK
  BY DEF FaissInv
<1>5. CASE index = NoIndex
  BY <1>1, <1>3, <1>4, <1>5 DEF IndexFollows, WhileNone
<1>6. CASE index # NoIndex
  <2>1. /\ \A id \in FaissIds : id \in index <=> id >= switched /\ HasRow(id)
        /\ \E id \in FaissIds : HasRow(id)
    BY <1>2, <1>3, <1>4, <1>6 DEF IndexFollows, WhileThere
  <2>2. index \subseteq FaissIds
    BY <1>4, <1>6 DEF FaissTypeOK, FaissIds
  <2> QED
    BY <2>1, <2>2, <1>1
<1> QED
  BY <1>5, <1>6

(* Every row of the faiss backend is found, for any writers, keys and ids,   *)
(* whatever is inserted, replaced and deleted, and wherever the process ends,*)
(* since the length of the vectors changed last.                             *)
THEOREM FaissTheorem == FaissInit /\ [][FaissNext]_faissVars => []EveryRowIsFound
<1> QED
  BY FaissInitInv, FaissStepInv, FaissInvFound, PTL

-----------------------------------------------------------------------------
(* All of them in one process: the service that goes on takes its own steps, *)
(* and the others stay where they begin.                                     *)
RetrievalInv == KnowledgeInv /\ IndexInv /\ VectorInv /\ FaissInv

LEMMA ServicesInit == InitServices => RetrievalInv
  BY KnowledgeInitInv, IndexInitInv, VectorInitInv, FaissInitInv DEF InitServices, RetrievalInv

LEMMA ServicesStep ==
  ASSUME NextServices
  PROVE  [KnowledgeNext]_knowledgeVars /\ [IndexNext]_indexVars /\ [VectorNext]_vectorVars /\ [FaissNext]_faissVars
<1>1. [KnowledgeNext]_knowledgeVars
  BY DEF NextServices, Others
<1>2. [IndexNext]_indexVars
  BY DEF NextServices, Others
<1>3. [VectorNext]_vectorVars
  BY DEF NextServices, Others
<1>4. [FaissNext]_faissVars
  BY DEF NextServices, Others
<1> QED
  BY <1>1, <1>2, <1>3, <1>4

(* What was uploaded, filed or indexed is found by the searches over it,     *)
(* whichever of the services goes on.                                        *)
THEOREM RetrievalTheorem == SpecServices => []RetrievalIsRight
<1> DEFINE all == <<vars, rewardVars, limiterVars, a2aVars, knowledgeVars, indexVars, historyVars, delegationVars,
                    calendarVars, serverVars, contextVars, filesVars, vectorVars, faissVars, planVars, mailVars,
                    service>>
<1>1. RetrievalInv /\ [NextServices]_all => RetrievalInv'
  <2> SUFFICES ASSUME RetrievalInv, [NextServices]_all
               PROVE  RetrievalInv'
    OBVIOUS
  <2>1. CASE UNCHANGED all
    <3>1. /\ UNCHANGED knowledgeVars /\ UNCHANGED indexVars
          /\ UNCHANGED vectorVars /\ UNCHANGED faissVars
      BY <2>1
    <3> QED
      BY <3>1, KnowledgeStepInv, IndexStepInv, VectorStepInv, FaissStepInv DEF RetrievalInv
  <2>2. CASE NextServices
    BY <2>2, ServicesStep, KnowledgeStepInv, IndexStepInv, VectorStepInv, FaissStepInv DEF RetrievalInv
  <2> QED
    BY <2>1, <2>2
<1>2. RetrievalInv => RetrievalIsRight
  <2>1. IndexInv => TextsStay
    BY DEF IndexInv
  <2> QED
    BY <2>1, KnowledgeInvFound, VectorInvFresh, FaissInvFound DEF RetrievalInv, RetrievalIsRight
<1> QED
  BY <1>1, <1>2, ServicesInit, PTL DEF SpecServices

-----------------------------------------------------------------------------
(***************************************************************************)
(* The rate bound of RateLimiter, for any clients, rates, capacities and   *)
(* windows: what a client got through and what its bucket would give it    *)
(* now never exceed the bound together.                                    *)
(***************************************************************************)

(* What c could still get through now.                                       *)
Credit(c) == Price * granted[c] + Refilled(c) <= Capacity + Rate * (now - since[c])

LimiterInv ==
  /\ now \in Nat /\ known \subseteq Clients
  /\ tokens \in [Clients -> 0..Capacity]
  /\ used \in [Clients -> Nat] /\ granted \in [Clients -> Nat] /\ since \in [Clients -> Nat]
  /\ \A c \in Clients : used[c] <= now /\ since[c] <= now /\ Credit(c)

-----------------------------------------------------------------------------
LEMMA TimesNat == ASSUME NEW a \in Nat, NEW b \in Nat PROVE a * b \in Nat
  OBVIOUS

LEMMA TimesNext == ASSUME NEW a \in Nat, NEW b \in Nat PROVE a * (b + 1) = a * b + a
  OBVIOUS

LEMMA TimesMonotone ==
  ASSUME NEW a \in Nat, NEW b \in Nat, NEW d \in Nat, b <= d PROVE a * b <= a * d
  OBVIOUS

(* A bucket holds between nothing and its capacity.                          *)
LEMMA RefilledRange == ASSUME LimiterInv, NEW c \in Clients PROVE Refilled(c) \in 0..Capacity
<1>1. Rate * (now - used[c]) \in Nat
  BY LimiterAssumption, TimesNat DEF LimiterInv
<1>2. tokens[c] \in Nat
  BY LimiterAssumption DEF LimiterInv
<1>3. QED
  BY <1>1, <1>2, LimiterAssumption DEF LimiterInv, Refilled

(* A bucket idle for longer than MaxIdle is full.                            *)
LEMMA IdleIsFull ==
  ASSUME LimiterInv, NEW c \in Clients, now - used[c] > MaxIdle PROVE Refilled(c) = Capacity
<1>1. Rate * MaxIdle <= Rate * (now - used[c])
  BY LimiterAssumption, TimesMonotone DEF LimiterInv
<1>2. tokens[c] \in Nat /\ Rate * (now - used[c]) \in Nat /\ Rate * MaxIdle \in Nat
  BY LimiterAssumption, TimesNat DEF LimiterInv
<1>3. QED
  BY <1>1, <1>2, LimiterAssumption DEF Refilled

LEMMA TickCredit == ASSUME LimiterInv, Tick PROVE LimiterInv'
<1>1. now' = now + 1 /\ UNCHANGED <<known, tokens, used, granted, since>>
  BY DEF Tick
<1>2. ASSUME NEW c \in Clients PROVE Credit(c)'
  <2>1. /\ now - used[c] \in Nat /\ now' - used[c] = (now - used[c]) + 1
        /\ now - since[c] \in Nat /\ now' - since[c] = (now - since[c]) + 1
    BY <1>1 DEF LimiterInv
  <2>2. /\ Rate * (now' - used[c]) = Rate * (now - used[c]) + Rate
        /\ Rate * (now' - since[c]) = Rate * (now - since[c]) + Rate
    BY <2>1, TimesNext, LimiterAssumption
  <2>3. /\ Rate * (now - used[c]) \in Nat /\ Rate * (now - since[c]) \in Nat
        /\ Price * granted[c] \in Nat /\ tokens[c] \in Nat
    BY <2>1, TimesNat, LimiterAssumption DEF LimiterInv
  <2>4. Refilled(c)' <= Refilled(c) + Rate
    BY <1>1, <2>2, <2>3, LimiterAssumption DEF Refilled
  <2>5. Credit(c)
    BY DEF LimiterInv
  <2>6. Refilled(c) \in Nat /\ Refilled(c)' \in Nat
    BY <1>1, <2>2, <2>3, LimiterAssumption DEF Refilled
  <2>7. QED
    BY <1>1, <2>2, <2>3, <2>4, <2>5, <2>6, LimiterAssumption DEF Credit
<1>3. QED
  BY <1>1, <1>2 DEF LimiterInv

(* After a check, c has what is left in its bucket, and no other bucket has  *)
(* changed but those that were full and are gone.                            *)
LEMMA CheckCredit == ASSUME LimiterInv, NEW d \in Clients, Check(d) PROVE LimiterInv'
<1> DEFINE admitted == Refilled(d) >= Price
<1>1. Refilled(d) \in 0..Capacity
  BY RefilledRange
<1>2. /\ tokens' = [tokens EXCEPT ![d] = IF admitted THEN Refilled(d) - Price ELSE Refilled(d)]
      /\ used' = [used EXCEPT ![d] = now]
      /\ granted' = [granted EXCEPT ![d] = IF admitted THEN @ + 1 ELSE @]
      /\ known' = (known \cup {d}) \ Stale(known \cup {d}, used')
      /\ now' = now /\ since' = since
  BY DEF Check
<1>3. /\ tokens' \in [Clients -> 0..Capacity] /\ used' \in [Clients -> Nat]
      /\ granted' \in [Clients -> Nat] /\ known' \subseteq Clients
  BY <1>1, <1>2, LimiterAssumption DEF LimiterInv
<1>4. ASSUME NEW c \in Clients PROVE used'[c] <= now
  BY <1>2 DEF LimiterInv
<1>5. ASSUME NEW c \in Clients PROVE c \in known' \/ c \notin known \cup {d} \/ now - used'[c] > MaxIdle
  BY <1>2 DEF Stale
<1>6. Credit(d)'
  <2>1. used'[d] = now /\ granted[d] \in Nat /\ now - since[d] \in Nat
    BY <1>2 DEF LimiterInv
  <2>2. d \in known'
    BY <1>5, <2>1, LimiterAssumption DEF LimiterInv
  <2>3. Rate * (now' - used'[d]) = 0
    BY <1>2, <2>1, LimiterAssumption DEF LimiterInv
  <2>4. Refilled(d)' = tokens'[d]
    BY <1>3, <2>2, <2>3, LimiterAssumption DEF Refilled
  <2>5. /\ Price * (granted[d] + 1) = Price * granted[d] + Price
        /\ Price * granted[d] \in Nat /\ Rate * (now - since[d]) \in Nat
    BY <2>1, TimesNext, TimesNat, LimiterAssumption
  <2>6. Price * granted[d] + Refilled(d) <= Capacity + Rate * (now - since[d])
    BY DEF LimiterInv, Credit
  <2>7. CASE admitted
    <3>1. tokens'[d] = Refilled(d) - Price /\ granted'[d] = granted[d] + 1
      BY <1>2, <2>7 DEF LimiterInv
    <3>2. QED
      BY <1>1, <1>2, <2>4, <2>5, <2>6, <3>1, LimiterAssumption DEF Credit
  <2>8. CASE ~admitted
    <3>1. tokens'[d] = Refilled(d) /\ granted'[d] = granted[d]
      BY <1>2, <2>8 DEF LimiterInv
    <3>2. QED
      BY <1>1, <1>2, <2>4, <2>6, <3>1 DEF Credit
  <2>9. QED
    BY <2>7, <2>8
<1>7. ASSUME NEW c \in Clients, c # d PROVE Credit(c)'
  <2>1. UNCHANGED <<tokens[c], used[c], granted[c], since[c], now>>
    BY <1>2, <1>7 DEF LimiterInv
  <2>2. Credit(c)
    BY DEF LimiterInv
  <2>3. Refilled(c)' = Refilled(c)
    <3>1. CASE c \in known /\ c \in known'
      BY <2>1, <3>1 DEF Refilled
    <3>2. CASE c \in known /\ c \notin known'
      <4>1. now - used[c] > MaxIdle
        BY <1>5, <2>1, <3>2
      <4>2. QED
        BY <3>2, <4>1, IdleIsFull DEF Refilled
    <3>3. CASE c \notin known
      <4>1. c \notin known'
        BY <1>2, <1>7, <3>3
      <4>2. QED
        BY <3>3, <4>1 DEF Refilled
    <3>4. QED
      BY <3>1, <3>2, <3>3
  <2>4. QED
    BY <2>1, <2>2, <2>3 DEF Credit
<1>8. QED
  BY <1>2, <1>3, <1>4, <1>6, <1>7 DEF LimiterInv

LEMMA WatchCredit == ASSUME LimiterInv, NEW d \in Clients, Watch(d) PROVE LimiterInv'
<1>1. /\ granted' = [granted EXCEPT ![d] = 0] /\ since' = [since EXCEPT ![d] = now]
      /\ UNCHANGED <<now, known, tokens, used>>
  BY DEF Watch
<1>2. ASSUME NEW c \in Clients PROVE Credit(c)'
  <2>1. Refilled(c)' = Refilled(c) /\ Refilled(c) \in 0..Capacity
    BY <1>1, RefilledRange DEF Refilled
  <2>2. CASE c = d
    <3>1. Price * granted'[c] = 0 /\ Rate * (now' - since'[c]) = 0
      BY <1>1, <2>2, LimiterAssumption DEF LimiterInv
    <3>2. QED
      BY <2>1, <3>1, LimiterAssumption DEF Credit
  <2>3. CASE c # d
    <3>1. UNCHANGED <<granted[c], since[c]>> /\ Credit(c)
      BY <1>1, <2>3 DEF LimiterInv
    <3>2. QED
      BY <1>1, <2>1, <3>1 DEF Credit
  <2>4. QED
    BY <2>2, <2>3
<1>3. QED
  BY <1>1, <1>2 DEF LimiterInv

LEMMA LimiterInitInv == LimiterInit => LimiterInv
<1>1. SUFFICES ASSUME LimiterInit, NEW c \in Clients PROVE Credit(c)
  BY <1>1, LimiterAssumption DEF LimiterInit, LimiterInv
<1>2. Price * 0 = 0 /\ Rate * (0 - 0) = 0
  BY LimiterAssumption
<1>3. QED
  BY <1>1, <1>2, LimiterAssumption DEF LimiterInit, Credit, Refilled

LEMMA LimiterStepInv == LimiterInv /\ [LimiterNext]_limiterVars => LimiterInv'
<1>1. SUFFICES ASSUME LimiterInv, [LimiterNext]_limiterVars PROVE LimiterInv'
  OBVIOUS
<1>2. CASE Tick
  BY <1>1, <1>2, TickCredit
<1>3. CASE \E c \in Clients : Check(c)
  BY <1>1, <1>3, CheckCredit
<1>4. CASE \E c \in Clients : Watch(c)
  BY <1>1, <1>4, WatchCredit
<1>5. CASE UNCHANGED limiterVars
  BY <1>1, <1>5 DEF LimiterInv, Credit, Refilled, limiterVars
<1>6. QED
  BY <1>1, <1>2, <1>3, <1>4, <1>5 DEF LimiterNext

(* In any window of time, a client of any limiter gets through at most what  *)
(* a full bucket holds and what flows into it in that time.                  *)
THEOREM RateTheorem == LimiterSpec => []RateBound
<1>1. LimiterInv => RateBound
  <2>1. SUFFICES ASSUME LimiterInv, NEW c \in Clients
                 PROVE Price * granted[c] <= Capacity + Rate * (now - since[c])
    BY DEF RateBound
  <2>2. Credit(c) /\ Refilled(c) \in 0..Capacity
    BY <2>1, RefilledRange DEF LimiterInv
  <2>3. Price * granted[c] \in Nat /\ Rate * (now - since[c]) \in Nat
    BY <2>1, TimesNat, LimiterAssumption DEF LimiterInv
  <2>4. QED
    BY <2>2, <2>3, LimiterAssumption DEF Credit
<1>2. QED
  BY <1>1, LimiterInitInv, LimiterStepInv, PTL DEF LimiterSpec

-----------------------------------------------------------------------------
(***************************************************************************)
(* That every answer in the table of History has its question, for any     *)
(* number of chats, sessions and messages.                                 *)
(***************************************************************************)

Row(m) == m \in [id : {m.id}, at : Nat, session : Sessions, asked : Nat]

(* A question is stored before what answers it.                              *)
Shape ==
  /\ clock \in Nat /\ IsFiniteSet(saved)
  /\ \A m \in saved : Row(m) /\ m.asked <= m.at /\ m.at <= clock
  /\ asking \in [Chats -> SUBSET [session : Sessions, asked : Nat]]
  /\ saving \subseteq [chat : Chats, session : Sessions, asked : Nat, late : BOOLEAN]
  /\ doomed \in [Chats -> SUBSET Sessions] /\ due \in [Chats -> SUBSET Sessions]

Asked(q, s) == \E m \in saved : m.session = s /\ m.at = q /\ m.asked = q

(* Who may still answer an exchange that nobody took apart, finds its        *)
(* question where the answer will be.                                        *)
Answerable(t) == t.asked <= clock /\ (t.asked = 0 \/ t.asked \in broken \/ Asked(t.asked, t.session))

Pending ==
  /\ \A c \in Chats : \A t \in asking[c] : Answerable(t)
  /\ \A w \in saving : Answerable(w)

(* A prune selects only sessions that it may delete under a turn.            *)
Rightly == \A c \in Chats : doomed[c] \subseteq due[c]

HistoryInv == Shape /\ Pending /\ Rightly /\ AnswersHaveQuestions

LEMMA ImageFinite ==
  ASSUME NEW S, IsFiniteSet(S), NEW f, DOMAIN f = S
  PROVE  IsFiniteSet({f[x] : x \in S})
<1>1. PICK g \in [S -> {f[x] : x \in S}] : \A x \in S : g[x] = f[x]
  <2>1. [x \in S |-> f[x]] \in [S -> {f[x] : x \in S}]
    OBVIOUS
  <2>2. QED
    BY <2>1
<1>2. \A y \in {f[x] : x \in S} : \E x \in S : g[x] = y
  BY <1>1
<1>3. g \in Surjection(S, {f[x] : x \in S})
  BY <1>1, <1>2 DEF Surjection
<1>4. QED
  BY <1>3, FS_Surjection

LEMMA SomeFinite == ASSUME HistoryInv, NEW s PROVE IsFiniteSet(Of(s)) /\ Cardinality(Of(s)) \in Nat
  BY FS_Subset, FS_CardinalityType DEF HistoryInv, Shape, Of

LEMMA HistoryInitInv == HistoryInit => HistoryInv
  BY FS_EmptySet DEF HistoryInit, HistoryInv, Shape, Pending, Rightly, AnswersHaveQuestions

(* A question that no request broke is still found when what was selected is *)
(* gone.                                                                     *)
LEMMA OpenStays ==
  ASSUME NEW messages \in SUBSET saved, Breaks(messages), clock' = clock,
         saved \ messages \subseteq saved',
         NEW t, t.asked \in Unfinished, Answerable(t)
  PROVE  Answerable(t)'
<1>1. broken \subseteq broken'
  BY DEF Breaks
<1>2. CASE t.asked = 0 \/ t.asked \in broken
  BY <1>1, <1>2 DEF Answerable
<1>3. CASE Asked(t.asked, t.session)
  <2>1. PICK m \in saved : m.session = t.session /\ m.at = t.asked /\ m.asked = t.asked
    BY <1>3 DEF Asked
  <2>2. CASE m \in messages
    BY <2>1, <2>2 DEF Breaks, Questions, Answerable
  <2>3. CASE m \notin messages
    <3>1. m \in saved'
      BY <2>1, <2>3
    <3>2. QED
      BY <3>1, <2>1 DEF Answerable, Asked
  <2>4. QED
    BY <2>2, <2>3
<1>4. QED
  BY <1>2, <1>3 DEF Answerable

LEMMA PendingStays ==
  ASSUME HistoryInv, NEW messages \in SUBSET saved, Breaks(messages), UNCHANGED <<clock, asking, saving>>,
         saved \ messages \subseteq saved'
  PROVE  Pending'
<1>1. \A c \in Chats : \A t \in asking[c] : t.asked \in Unfinished
  BY DEF Unfinished
<1>2. \A w \in saving : w.asked \in Unfinished
  BY DEF Unfinished
<1>3. QED
  BY <1>1, <1>2, OpenStays DEF HistoryInv, Pending

(* Messages are deleted, and those that stay do not lose their question.     *)
LEMMA DeletionInv ==
  ASSUME HistoryInv, NEW messages \in SUBSET saved, Breaks(messages),
         saved' = saved \ messages, UNCHANGED <<clock, asking, saving>>,
         doomed' \in [Chats -> SUBSET Sessions], due' \in [Chats -> SUBSET Sessions], Rightly',
         \A m \in saved \ messages, q \in messages :
           q.session = m.session /\ q.at = m.asked /\ q.asked = m.asked => m.at = m.asked
  PROVE  HistoryInv'
<1>1. Shape'
  BY FS_Subset DEF HistoryInv, Shape
<1>2. AnswersHaveQuestions'
  BY DEF HistoryInv, AnswersHaveQuestions, Breaks
<1>3. Pending'
  BY PendingStays
<1>4. QED
  BY <1>1, <1>2, <1>3 DEF HistoryInv

LEMMA DeleteSessionInv == ASSUME HistoryInv, NEW s \in Sessions, DeleteSession(s) PROVE HistoryInv'
<1>1. Rightly' /\ doomed' \in [Chats -> SUBSET Sessions] /\ due' \in [Chats -> SUBSET Sessions]
  BY DEF DeleteSession, HistoryInv, Rightly, Shape
<1>2. QED
  BY <1>1, DeletionInv DEF DeleteSession, Of

LEMMA DeleteOutdatedInv == ASSUME HistoryInv, NEW c \in Chats, DeleteOutdated(c) PROVE HistoryInv'
<1>1. Rightly' /\ doomed' \in [Chats -> SUBSET Sessions] /\ due' \in [Chats -> SUBSET Sessions]
  BY DEF DeleteOutdated, HistoryInv, Rightly, Shape
<1>2. DEFINE gone == {m \in saved : m.session \in doomed[c]}
<1>3. Breaks(gone) /\ saved' = saved \ gone
  <2>1. gone = {m \in saved : m.session \in doomed[c] \cap due[c]}
    BY DEF HistoryInv, Rightly
  <2>2. QED
    BY <2>1 DEF DeleteOutdated
<1>4. \A m \in saved \ gone, q \in gone : q.session # m.session
  OBVIOUS
<1>5. QED
  BY <1>1, <1>3, <1>4, DeletionInv DEF DeleteOutdated

(* The last messages go: a question among them is not before what stays.     *)
LEMMA UndoInv == ASSUME HistoryInv, NEW s \in Sessions, Undo(s) PROVE HistoryInv'
<1>1. Rightly' /\ doomed' \in [Chats -> SUBSET Sessions] /\ due' \in [Chats -> SUBSET Sessions]
  BY DEF Undo, HistoryInv, Rightly, Shape
<1>2. PICK n \in 1..MaxUndone : \E last \in LastOnes(s, n) : saved' = saved \ last /\ Breaks(last)
  BY DEF Undo
<1>3. PICK last \in LastOnes(s, n) : saved' = saved \ last /\ Breaks(last)
  BY <1>2
<1>4. last \in SUBSET Of(s) /\ \A m \in last, o \in Of(s) \ last : m.at >= o.at
  BY <1>3 DEF LastOnes
<1>5. last \in SUBSET saved
  BY <1>4 DEF Of
<1>6. \A m \in saved \ last, q \in last :
        q.session = m.session /\ q.at = m.asked /\ q.asked = m.asked => m.at = m.asked
  <2>1. TAKE m \in saved \ last, q \in last
  <2>2. HAVE q.session = m.session /\ q.at = m.asked /\ q.asked = m.asked
  <2>3. m \in Of(s) \ last
    BY <1>4, <2>2 DEF Of
  <2>4. m.asked >= m.at
    BY <1>4, <2>2, <2>3
  <2>5. m.at \in Nat /\ m.asked \in Nat /\ m.asked <= m.at
    BY DEF HistoryInv, Shape, Row
  <2>6. QED
    BY <2>4, <2>5
<1>7. QED
  BY <1>1, <1>3, <1>5, <1>6, DeletionInv DEF Undo

(* Renamed messages take their questions along.                              *)
LEMMA RenameInv ==
  ASSUME HistoryInv, NEW s \in Sessions, NEW t \in Sessions, RenameSession(s, t) PROVE HistoryInv'
<1>1. \A m \in Of(s) : /\ m \in saved /\ m.session = s /\ Row(m)
                       /\ [m EXCEPT !.session = t].session = t
                       /\ [m EXCEPT !.session = t].at = m.at
                       /\ [m EXCEPT !.session = t].asked = m.asked
                       /\ Row([m EXCEPT !.session = t])
  BY DEF Of, HistoryInv, Shape, Row
<1>2. saved' = (saved \ Of(s)) \cup {[m EXCEPT !.session = t] : m \in Of(s)}
  BY DEF RenameSession
<1>3. Shape'
  <2>1. ASSUME NEW m \in saved' PROVE Row(m) /\ m.asked <= m.at /\ m.at <= clock
    <3>1. CASE m \in saved
      BY <3>1 DEF HistoryInv, Shape
    <3>2. CASE m \notin saved
      <4>1. PICK o \in Of(s) : m = [o EXCEPT !.session = t]
        BY <1>2, <3>2
      <4>2. QED
        BY <4>1, <1>1 DEF HistoryInv, Shape
    <3>3. QED
      BY <3>1, <3>2
  <2>2. IsFiniteSet(saved')
    <3>1. DEFINE moved == [m \in Of(s) |-> [m EXCEPT !.session = t]]
    <3>2. DOMAIN moved = Of(s) /\ \A m \in Of(s) : moved[m] = [m EXCEPT !.session = t]
      OBVIOUS
    <3>3. {moved[m] : m \in Of(s)} = {[m EXCEPT !.session = t] : m \in Of(s)}
      BY <3>2
    <3> HIDE DEF moved
    <3>6. IsFiniteSet({moved[m] : m \in Of(s)})
      BY <3>2, SomeFinite, ImageFinite
    <3>4. IsFiniteSet(saved \ Of(s))
      BY FS_Subset DEF HistoryInv, Shape
    <3>5. QED
      BY <1>2, <3>3, <3>4, <3>6, FS_Union
  <2>3. QED
    BY <2>1, <2>2 DEF RenameSession, HistoryInv, Shape
<1>4. Pending'
  BY <1>2, PendingStays DEF RenameSession, Of
<1>5. Rightly'
  BY DEF RenameSession, HistoryInv, Rightly
<1>6. ASSUME NEW m \in saved', m.asked \notin broken'
      PROVE  \E q \in saved' : q.session = m.session /\ q.at = m.asked /\ q.asked = m.asked
  <2>1. broken \subseteq broken'
    BY DEF RenameSession, Breaks
  <2>2. CASE m \in saved \ Of(s)
    <3>1. PICK q \in saved : q.session = m.session /\ q.at = m.asked /\ q.asked = m.asked
      BY <1>6, <2>1, <2>2 DEF HistoryInv, AnswersHaveQuestions
    <3>2. q \in saved'
      BY <3>1, <2>2, <1>2 DEF Of
    <3>3. QED
      BY <3>1, <3>2
  <2>3. CASE m \notin saved \ Of(s)
    <3>1. PICK o \in Of(s) : m = [o EXCEPT !.session = t]
      BY <1>2, <2>3
    <3>2. o.asked \notin broken
      BY <1>1, <3>1, <1>6, <2>1
    <3>3. PICK q \in saved : q.session = o.session /\ q.at = o.asked /\ q.asked = o.asked
      BY <1>1, <3>1, <3>2 DEF HistoryInv, AnswersHaveQuestions
    <3>4. q \in Of(s) /\ [q EXCEPT !.session = t] \in saved'
      BY <1>1, <1>2, <3>3 DEF Of
    <3>5. QED
      BY <1>1, <3>1, <3>3, <3>4
  <2>4. QED
    BY <2>2, <2>3
<1>7. QED
  BY <1>3, <1>4, <1>5, <1>6 DEF HistoryInv, AnswersHaveQuestions

LEMMA ForkInv ==
  ASSUME HistoryInv, NEW s \in Sessions, NEW t \in Sessions, Fork(s, t) PROVE HistoryInv'
<1> DEFINE copy(m) == [m EXCEPT !.session = t, !.id = clock + Rank(m)]
<1>1. \A m \in Of(s) : /\ m \in saved /\ m.session = s /\ Row(m)
                       /\ copy(m).session = t /\ copy(m).at = m.at /\ copy(m).asked = m.asked
                       /\ Row(copy(m))
  BY DEF Of, HistoryInv, Shape, Row
<1>2. /\ saved' = saved \cup {copy(m) : m \in Of(s)}
      /\ broken' = broken /\ UNCHANGED <<asking, saving, doomed, due>>
  BY DEF Fork
<1> HIDE DEF copy
<1>3. clock' \in Nat /\ clock <= clock' /\ clock \in Nat
  <2>1. clock' = clock + Cardinality(Of(s))
    BY DEF Fork
  <2>2. Cardinality(Of(s)) \in Nat /\ clock \in Nat
    BY SomeFinite DEF HistoryInv, Shape
  <2>3. QED
    BY <2>1, <2>2
<1>4. Shape'
  <2>1. ASSUME NEW m \in saved' PROVE Row(m) /\ m.asked <= m.at /\ m.at <= clock'
    <3>1. CASE m \in saved
      BY <1>3, <3>1 DEF HistoryInv, Shape, Row
    <3>2. CASE m \notin saved
      <4>1. PICK o \in Of(s) : m = copy(o)
        BY <1>2, <3>2
      <4>2. o.asked <= o.at /\ o.at <= clock /\ o.at \in Nat /\ clock \in Nat
        BY <1>1 DEF HistoryInv, Shape, Row
      <4>3. QED
        BY <4>1, <4>2, <1>1, <1>3
    <3>3. QED
      BY <3>1, <3>2
  <2>2. IsFiniteSet(saved')
    <3>1. DEFINE copies == [m \in Of(s) |-> copy(m)]
    <3>2. DOMAIN copies = Of(s) /\ \A m \in Of(s) : copies[m] = copy(m)
      OBVIOUS
    <3>3. {copies[m] : m \in Of(s)} = {copy(m) : m \in Of(s)}
      BY <3>2
    <3> HIDE DEF copies
    <3>4. IsFiniteSet({copies[m] : m \in Of(s)})
      BY <3>2, SomeFinite, ImageFinite
    <3>5. QED
      BY <1>2, <3>3, <3>4, FS_Union DEF HistoryInv, Shape
  <2>3. QED
    BY <1>2, <1>3, <2>1, <2>2 DEF HistoryInv, Shape
<1>5. ASSUME NEW x, Answerable(x), x.asked \in Nat PROVE Answerable(x)'
  <2>1. x.asked <= clock'
    BY <1>3, <1>5 DEF Answerable
  <2>2. Asked(x.asked, x.session) => Asked(x.asked, x.session)'
    BY <1>2 DEF Asked
  <2>3. QED
    BY <1>2, <1>5, <2>1, <2>2 DEF Answerable
<1>6. Pending'
  <2>1. \A c \in Chats : \A x \in asking[c] : Answerable(x) /\ x.asked \in Nat
    BY DEF HistoryInv, Pending, Shape
  <2>2. \A x \in saving : Answerable(x) /\ x.asked \in Nat
    BY DEF HistoryInv, Pending, Shape
  <2>3. QED
    BY <1>2, <1>5, <2>1, <2>2 DEF Pending
<1>7. Rightly'
  BY <1>2 DEF HistoryInv, Rightly
<1>8. ASSUME NEW m \in saved', m.asked \notin broken'
      PROVE  \E q \in saved' : q.session = m.session /\ q.at = m.asked /\ q.asked = m.asked
  <2>1. CASE m \in saved
    BY <2>1, <1>2, <1>8 DEF HistoryInv, AnswersHaveQuestions
  <2>2. CASE m \notin saved
    <3>1. PICK o \in Of(s) : m = copy(o)
      BY <1>2, <2>2
    <3>5. o \in saved /\ o.asked \notin broken
      BY <1>1, <1>2, <1>8, <3>1
    <3>2. PICK q \in saved : q.session = o.session /\ q.at = o.asked /\ q.asked = o.asked
      BY <3>5 DEF HistoryInv, AnswersHaveQuestions
    <3>3. q \in Of(s) /\ copy(q) \in saved'
      BY <1>1, <1>2, <3>2 DEF Of
    <3>4. QED
      BY <1>1, <3>1, <3>2, <3>3
  <2>3. QED
    BY <2>1, <2>2
<1>9. QED
  BY <1>4, <1>6, <1>7, <1>8 DEF HistoryInv, AnswersHaveQuestions

(* Turns.                                                                    *)
LEMMA TurnInv ==
  ASSUME HistoryInv, NEW c \in Chats,
         (\E s \in Sessions : SaveQuestion(c, s)) \/ SaveAnswer(c) \/ EndTurn(c) \/ CutShort(c)
  PROVE  HistoryInv'
<1>1. UNCHANGED <<saved, clock, doomed, due, broken>>
  BY DEF SaveQuestion, SaveAnswer, EndTurn, CutShort
<1>2. ASSUME NEW x, Answerable(x) PROVE Answerable(x)'
  BY <1>1, <1>2 DEF Answerable, Asked
<1>3. AnswersHaveQuestions' /\ Rightly'
  BY <1>1 DEF HistoryInv, AnswersHaveQuestions, Rightly
<1>4. CASE \E s \in Sessions : SaveQuestion(c, s)
  <2>1. PICK s \in Sessions : SaveQuestion(c, s)
    BY <1>4
  <2>2. PICK t \in {[session |-> s, asked |-> 0]} : asking' = [asking EXCEPT ![c] = {t}] /\ Save(c, t)
    BY <2>1 DEF SaveQuestion
  <2>3. t \in [session : Sessions, asked : Nat] /\ t.asked = 0
    BY <2>2
  <2>4. Shape'
    <3>1. [chat |-> c, session |-> t.session, asked |-> t.asked, late |-> FALSE]
            \in [chat : Chats, session : Sessions, asked : Nat, late : BOOLEAN]
      BY <2>3
    <3>2. saving' \subseteq [chat : Chats, session : Sessions, asked : Nat, late : BOOLEAN]
      BY <2>2, <3>1 DEF HistoryInv, Shape, Save
    <3>3. asking' \in [Chats -> SUBSET [session : Sessions, asked : Nat]]
      BY <2>2, <2>3 DEF HistoryInv, Shape
    <3>4. QED
      BY <1>1, <3>2, <3>3 DEF HistoryInv, Shape
  <2>5. Answerable(t)
    BY <2>3 DEF Answerable, HistoryInv, Shape
  <2>6. Pending'
    BY <1>2, <2>2, <2>3, <2>5 DEF HistoryInv, Pending, Shape, Save, Answerable, Asked
  <2>7. QED
    BY <1>3, <2>4, <2>6 DEF HistoryInv
<1>5. CASE SaveAnswer(c)
  <2>1. PICK t \in asking[c] : Save(c, t)
    BY <1>5 DEF SaveAnswer
  <2>2. asking' = asking /\ t \in [session : Sessions, asked : Nat]
    BY <1>5 DEF SaveAnswer, HistoryInv, Shape
  <2>3. Shape'
    <3>1. [chat |-> c, session |-> t.session, asked |-> t.asked, late |-> FALSE]
            \in [chat : Chats, session : Sessions, asked : Nat, late : BOOLEAN]
      BY <2>2
    <3>2. saving' \subseteq [chat : Chats, session : Sessions, asked : Nat, late : BOOLEAN]
      BY <2>1, <3>1 DEF HistoryInv, Shape, Save
    <3>3. QED
      BY <1>1, <2>2, <3>2 DEF HistoryInv, Shape
  <2>4. Pending'
    BY <1>2, <2>1, <2>2 DEF HistoryInv, Pending, Save, Answerable, Asked
  <2>5. QED
    BY <1>3, <2>3, <2>4 DEF HistoryInv
<1>6. CASE EndTurn(c)
  <2>1. asking' = [asking EXCEPT ![c] = {}] /\ saving' = saving
    BY <1>6 DEF EndTurn
  <2>2. Shape'
    BY <1>1, <2>1 DEF HistoryInv, Shape
  <2>3. Pending'
    BY <1>2, <2>1 DEF HistoryInv, Pending, Shape
  <2>4. QED
    BY <1>3, <2>2, <2>3 DEF HistoryInv
<1>7. CASE CutShort(c)
  <2>1. PICK taken \in {{}, Own(c)} :
          /\ asking' = [asking EXCEPT ![c] = {}]
          /\ saving' = (saving \ Own(c)) \cup {[w EXCEPT !.late = TRUE] : w \in taken}
    BY <1>7 DEF CutShort
  <2>2. \A w \in taken : /\ w \in saving
                         /\ [w EXCEPT !.late = TRUE] \in
                              [chat : Chats, session : Sessions, asked : Nat, late : BOOLEAN]
                         /\ [w EXCEPT !.late = TRUE].asked = w.asked
                         /\ [w EXCEPT !.late = TRUE].session = w.session
    <3>1. \A w \in taken : w \in saving /\ w \in [chat : Chats, session : Sessions, asked : Nat, late : BOOLEAN]
      BY <2>1 DEF Own, HistoryInv, Shape
    <3>2. QED
      BY <3>1
  <2>3. Shape'
    BY <1>1, <2>1, <2>2 DEF HistoryInv, Shape
  <2>4. \A w \in saving' : Answerable(w)
    BY <2>1, <2>2 DEF HistoryInv, Pending, Answerable, Asked
  <2>5. Pending'
    BY <1>2, <2>1, <2>4 DEF HistoryInv, Pending, Shape
  <2>6. QED
    BY <1>3, <2>3, <2>5 DEF HistoryInv
<1>8. QED
  BY <1>4, <1>5, <1>6, <1>7

(* Of the sessions that may be pruned each is outrun: those that stay are    *)
(* MaxSessions, and all at least as new.                                     *)
LEMMA OutdatedOutrun ==
  ASSUME NEW messages, IsFiniteSet(messages), NEW old \in Outdated(messages)
  PROVE  old \subseteq Outrun(messages)
<1> DEFINE names == Named(messages)
<1>1. /\ old \in SUBSET names /\ Cardinality(names \ old) = MaxSessions
      /\ \A s \in old, r \in names \ old : Newest(s, messages) <= Newest(r, messages)
  BY DEF Outdated
<1>2. IsFiniteSet(names)
  <2>1. DEFINE f == [m \in messages |-> m.session]
  <2>2. DOMAIN f = messages /\ {f[m] : m \in messages} = names
    BY DEF Named
  <2> HIDE DEF f
  <2>3. QED
    BY <2>2, ImageFinite
<1>3. ASSUME NEW s \in old PROVE s \in Outrun(messages)
  <2> DEFINE ahead == {r \in names \ {s} : Newest(s, messages) <= Newest(r, messages)}
  <2>1. ahead \in SUBSET names /\ names \ old \in SUBSET ahead
    BY <1>1, <1>3
  <2>2. IsFiniteSet(ahead) /\ Cardinality(ahead) \in Nat
    BY <2>1, <1>2, FS_Subset, FS_CardinalityType
  <2> HIDE DEF ahead
  <2>3. MaxSessions <= Cardinality(ahead)
    BY <1>1, <2>1, <2>2, FS_Subset
  <2>4. QED
    BY <1>1, <1>3, <2>3 DEF Outrun, ahead
<1>4. QED
  BY <1>3

LEMMA WrittenInv == ASSUME HistoryInv, NEW w \in saving, Written(w) PROVE HistoryInv'
<1>1. PICK moment, question, row, turn :
        /\ moment = clock + 1 /\ question = (IF w.asked = 0 THEN moment ELSE w.asked)
        /\ row = [id |-> moment, at |-> moment, session |-> w.session, asked |-> question]
        /\ turn = [session |-> w.session, asked |-> question]
  OBVIOUS
<1>2. /\ clock' = moment /\ saving' = saving \ {w} /\ saved' = saved \cup {row}
      /\ asking' = (IF w.late THEN asking ELSE [asking EXCEPT ![w.chat] = {turn}])
      /\ broken' = broken
  BY <1>1 DEF Written
<1>3. /\ clock \in Nat /\ w \in [chat : Chats, session : Sessions, asked : Nat, late : BOOLEAN]
      /\ Answerable(w)
  BY DEF HistoryInv, Shape, Pending
<1>4. question \in Nat /\ moment \in Nat /\ question <= moment /\ clock <= moment
  BY <1>1, <1>3 DEF Answerable
<1>5. /\ row.at = moment /\ row.session = w.session /\ row.asked = question /\ Row(row)
      /\ turn \in [session : Sessions, asked : Nat] /\ turn.session = w.session /\ turn.asked = question
  BY <1>1, <1>3, <1>4 DEF Row
<1>6. IsFiniteSet(saved')
  BY <1>2, FS_AddElement DEF HistoryInv, Shape
<1>7. \A m \in saved' : Row(m) /\ m.asked <= m.at /\ m.at <= moment
  BY <1>2, <1>3, <1>4, <1>5 DEF HistoryInv, Shape, Row
<1>8. doomed' \in [Chats -> SUBSET Sessions] /\ due' \in [Chats -> SUBSET Sessions] /\ Rightly'
  <2>1. CASE UNCHANGED <<doomed, due>>
    BY <2>1 DEF HistoryInv, Shape, Rightly
  <2>2. CASE \E old \in Outdated(saved') :
               doomed' = [doomed EXCEPT ![w.chat] = old] /\ due' = [due EXCEPT ![w.chat] = Outrun(saved')]
    <3>1. PICK old \in Outdated(saved') :
            doomed' = [doomed EXCEPT ![w.chat] = old] /\ due' = [due EXCEPT ![w.chat] = Outrun(saved')]
      BY <2>2
    <3>2. old \subseteq Outrun(saved')
      BY <1>6, OutdatedOutrun
    <3>3. Outrun(saved') \subseteq Sessions
      BY <1>7 DEF Outrun, Named, Row
    <3> HIDE DEF Outrun
    <3>4. QED
      BY <1>3, <3>1, <3>2, <3>3 DEF HistoryInv, Shape, Rightly
  <2>3. QED
    BY <2>1, <2>2 DEF Written
<1>9. Shape'
  BY <1>2, <1>3, <1>4, <1>5, <1>6, <1>7, <1>8 DEF HistoryInv, Shape
<1>10. ASSUME NEW x, Answerable(x), x.asked \in Nat PROVE Answerable(x)'
  BY <1>2, <1>3, <1>4, <1>10 DEF Answerable, Asked
<1>11. question \in broken \/ \E m \in saved' : m.session = w.session /\ m.at = question /\ m.asked = question
  <2>1. CASE w.asked = 0
    BY <1>1, <1>2, <1>5, <2>1
  <2>2. CASE w.asked # 0
    BY <1>1, <1>2, <1>3, <2>2 DEF Answerable, Asked
  <2>3. QED
    BY <2>1, <2>2
<1>12. Pending'
  <2>1. Answerable(turn)'
    BY <1>2, <1>4, <1>5, <1>11 DEF Answerable, Asked
  <2>2. \A x \in saving : Answerable(x) /\ x.asked \in Nat
    BY DEF HistoryInv, Pending, Shape
  <2>3. \A c \in Chats : \A x \in asking[c] : Answerable(x) /\ x.asked \in Nat
    BY DEF HistoryInv, Pending, Shape
  <2>4. \A c \in Chats : asking'[c] \subseteq asking[c] \cup {turn}
    BY <1>2, <1>3 DEF HistoryInv, Shape
  <2>5. QED
    BY <1>2, <1>10, <2>1, <2>2, <2>3, <2>4 DEF Pending
<1>13. AnswersHaveQuestions'
  BY <1>2, <1>5, <1>11 DEF HistoryInv, AnswersHaveQuestions
<1>14. QED
  BY <1>8, <1>9, <1>12, <1>13 DEF HistoryInv

LEMMA HistoryStepInv == HistoryInv /\ [HistoryNext]_historyVars => HistoryInv'
<1>1. SUFFICES ASSUME HistoryInv, [HistoryNext]_historyVars PROVE HistoryInv'
  OBVIOUS
<1>2. CASE UNCHANGED historyVars
  BY <1>1, <1>2 DEF historyVars, HistoryInv, Shape, Pending, Rightly, AnswersHaveQuestions, Answerable, Asked
<1>3. ASSUME NEW c \in Chats, SaveAnswer(c) \/ EndTurn(c) \/ CutShort(c) PROVE HistoryInv'
  BY <1>1, <1>3, TurnInv
<1>4. ASSUME NEW c \in Chats, DeleteOutdated(c) PROVE HistoryInv'
  BY <1>1, <1>4, DeleteOutdatedInv
<1>5. ASSUME NEW c \in Chats, NEW s \in Sessions, SaveQuestion(c, s) PROVE HistoryInv'
  BY <1>1, <1>5, TurnInv
<1>6. ASSUME NEW w \in saving, Written(w) PROVE HistoryInv'
  BY <1>1, <1>6, WrittenInv
<1>7. ASSUME NEW s \in Sessions, DeleteSession(s) \/ Undo(s) PROVE HistoryInv'
  BY <1>1, <1>7, DeleteSessionInv, UndoInv
<1>8. ASSUME NEW s \in Sessions, NEW t \in Sessions, RenameSession(s, t) \/ Fork(s, t) PROVE HistoryInv'
  BY <1>1, <1>8, RenameInv, ForkInv
<1>9. QED
  BY <1>1, <1>2, <1>3, <1>4, <1>5, <1>6, <1>7, <1>8 DEF HistoryNext

(* Every answer in the table has its question, whatever is pruned, undone,   *)
(* forked, merged or saved late, unless its exchange was taken apart.        *)
THEOREM AnswersTheorem == HistorySpec => []AnswersHaveQuestions
<1>1. HistoryInv => AnswersHaveQuestions
  BY DEF HistoryInv
<1>2. QED
  BY HistoryInitInv, HistoryStepInv, <1>1, PTL DEF HistorySpec

-----------------------------------------------------------------------------
(***************************************************************************)
(* A2ABus: a full bus forgets what was read before anything unread, for    *)
(* any agents, limits and numbers of messages.                             *)
(***************************************************************************)

LEMMA LeastElement ==
  ASSUME NEW T, T \subseteq Nat, T # {}
  PROVE  \E x \in T : \A y \in T : x <= y
<1>1. PICK x \in T : \A y \in T : <<y, x>> \notin OpToRel(<, Nat)
  BY WFMin, NatLessThanWellFounded
<1>2. ASSUME NEW y \in T PROVE x <= y
  <2>1. x \in Nat /\ y \in Nat
    OBVIOUS
  <2>2. ~(y < x)
    BY <1>1, <2>1 DEF OpToRel
  <2>3. QED
    BY <2>1, <2>2
<1>3. QED
  BY <1>2

(* A sequence without its i-th element.                                      *)
LEMMA Removing ==
  ASSUME NEW S, NEW q \in Seq(S), NEW i \in 1..Len(q)
  PROVE  /\ RemoveAt(q, i) \in Seq(S) /\ Len(RemoveAt(q, i)) = Len(q) - 1
         /\ \A j \in 1..(Len(q) - 1) : RemoveAt(q, i)[j] = IF j < i THEN q[j] ELSE q[j + 1]
<1> DEFINE a == SubSeq(q, 1, i - 1)
           b == SubSeq(q, i + 1, Len(q))
           p == RemoveAt(q, i)
<1>1. Len(q) \in Nat /\ DOMAIN q = 1..Len(q) /\ \A j \in 1..Len(q) : q[j] \in S
  BY ElementOfSeq, LenProperties
<1>2. a \in Seq(S) /\ Len(a) = i - 1 /\ \A j \in 1..(i - 1) : a[j] = q[j]
  <2>1. 1 \in Int /\ i - 1 \in Int /\ \A j \in 1..(i - 1) : q[j] \in S
    BY <1>1
  <2> HIDE DEF a
  <2>2. /\ a \in Seq(S) /\ Len(a) = IF 1 <= i - 1 THEN (i - 1) - 1 + 1 ELSE 0
        /\ \A j \in 1..((i - 1) - 1 + 1) : a[j] = q[1 + j - 1]
    BY <2>1, SubSeqProperties DEF a
  <2> QED
    BY <2>2, <1>1
<1>3. b \in Seq(S) /\ Len(b) = Len(q) - i /\ \A j \in 1..(Len(q) - i) : b[j] = q[i + j]
  <2>1. i + 1 \in Int /\ Len(q) \in Int /\ \A j \in (i + 1)..Len(q) : q[j] \in S
    BY <1>1
  <2> HIDE DEF b
  <2>2. /\ b \in Seq(S) /\ Len(b) = IF i + 1 <= Len(q) THEN Len(q) - (i + 1) + 1 ELSE 0
        /\ \A j \in 1..(Len(q) - (i + 1) + 1) : b[j] = q[(i + 1) + j - 1]
    BY <2>1, SubSeqProperties DEF b
  <2>3. \A j \in 1..(Len(q) - i) : j \in 1..(Len(q) - (i + 1) + 1) /\ (i + 1) + j - 1 = i + j
    BY <1>1
  <2>4. (IF i + 1 <= Len(q) THEN Len(q) - (i + 1) + 1 ELSE 0) = Len(q) - i
    <3>1. \A n \in Nat : \A k \in 1..n : (IF k + 1 <= n THEN n - (k + 1) + 1 ELSE 0) = n - k
      OBVIOUS
    <3>2. QED
      BY <3>1, <1>1
  <2> QED
    BY <2>2, <2>3, <2>4
<1>4. /\ p \in Seq(S) /\ Len(p) = Len(a) + Len(b)
      /\ \A j \in 1..(Len(a) + Len(b)) : p[j] = IF j <= Len(a) THEN a[j] ELSE b[j - Len(a)]
  <2> HIDE DEF a, b
  <2>1. p = a \o b
    BY DEF RemoveAt, a, b
  <2>2. /\ a \o b \in Seq(S) /\ Len(a \o b) = Len(a) + Len(b)
        /\ \A j \in 1..(Len(a) + Len(b)) : (a \o b)[j] = IF j <= Len(a) THEN a[j] ELSE b[j - Len(a)]
    BY <1>2, <1>3, ConcatProperties
  <2> QED
    BY <2>1, <2>2
<1> HIDE DEF a, b, p
<1>5. /\ Len(p) = Len(q) - 1
      /\ \A j \in 1..Len(p) : p[j] = IF j < i THEN q[j] ELSE q[j + 1]
  BY <1>1, <1>2, <1>3, <1>4
<1>6. QED
  BY <1>4, <1>5 DEF p

Letter == [id : 1..MaxSent, read : BOOLEAN]
Rising(m) == \A i, j \in DOMAIN m : i < j => m[i].id < m[j].id

(* A message has a number that was given out.                                *)
A2AInv == A2ATypeOK /\ \A i \in DOMAIN posted : posted[i].id <= sent

(* Pruning takes out at most one message: a read one, or the first of        *)
(* messages that are all unread.                                             *)
LEMMA PrunedFacts ==
  ASSUME NEW m \in Seq(Letter), m # <<>>
  PROVE  IF Len(m) <= MaxMessages THEN Pruned(m) = m
         ELSE \E k \in 1..Len(m) :
                /\ Pruned(m) = RemoveAt(m, k)
                /\ m[k].read \/ (k = 1 /\ \A i \in 1..Len(m) : ~m[i].read)
<1> DEFINE read == {i \in DOMAIN m : m[i].read}
<1>1. Len(m) \in Nat /\ Len(m) > 0 /\ DOMAIN m = 1..Len(m)
  BY LenProperties, EmptySeq
<1>2. CASE Len(m) <= MaxMessages
  BY <1>2 DEF Pruned
<1>3. CASE ~(Len(m) <= MaxMessages) /\ read = {}
  <2>1. Pruned(m) = RemoveAt(m, 1)
    BY <1>3 DEF Pruned
  <2>2. \A i \in 1..Len(m) : ~m[i].read
    BY <1>1, <1>3
  <2>3. QED
    BY <1>1, <1>3, <2>1, <2>2
<1>4. CASE ~(Len(m) <= MaxMessages) /\ read # {}
  <2> DEFINE first == CHOOSE i \in read : \A j \in read : i <= j
  <2>1. read \subseteq Nat
    BY <1>1
  <2>2. \E i \in read : \A j \in read : i <= j
    <3> HIDE DEF read
    <3>1. QED
      BY <1>4, <2>1, LeastElement
  <2>3. first \in read
    <3> HIDE DEF read
    <3>1. QED
      BY <2>2
  <2>4. Pruned(m) = RemoveAt(m, first)
    BY <1>4 DEF Pruned
  <2>5. first \in 1..Len(m) /\ m[first].read
    BY <1>1, <2>3
  <2> HIDE DEF first
  <2>6. QED
    BY <1>4, <2>4, <2>5
<1>5. QED
  BY <1>2, <1>3, <1>4

LEMMA A2AInitInv == A2AInit => A2AInv
  BY A2AAssumption, EmptySeq DEF A2AInit, A2AInv, A2ATypeOK

(* Sending keeps the order, and takes nothing unread from what is left.      *)
LEMMA PostKeeps ==
  ASSUME A2AInv, NEW s, NEW r, Post(s, r)
  PROVE  /\ A2AInv'
         /\ \A i \in DOMAIN posted : Forgotten(posted[i]) =>
              /\ Len(posted') = MaxMessages
              /\ \A j \in DOMAIN posted' : ~posted'[j].read /\ posted'[j].id > posted[i].id
<1> DEFINE new == [id |-> sent + 1, read |-> FALSE]
           m   == Append(posted, new)
           n   == Len(posted)
<1>1. /\ posted \in Seq(Letter) /\ n \in Nat /\ n <= MaxMessages /\ DOMAIN posted = 1..n
      /\ sent \in 0..MaxSent /\ Rising(posted) /\ \A i \in 1..n : posted[i].id <= sent
  BY LenProperties DEF A2AInv, A2ATypeOK, Letter, Rising
<1>2. sent' = sent + 1 /\ sent' \in 0..MaxSent /\ posted' = Pruned(m)
      /\ UNCHANGED <<registered, retired>>
  BY <1>1, A2AAssumption DEF Post
<1>3. new \in Letter /\ new.id = sent + 1 /\ new.read = FALSE
  BY <1>1, <1>2, A2AAssumption DEF Letter
<1> HIDE DEF new
<1>4. /\ m \in Seq(Letter) /\ Len(m) = n + 1 /\ DOMAIN m = 1..(n + 1)
      /\ \A i \in 1..n : m[i] = posted[i]
      /\ m[n + 1] = new /\ m # <<>>
  BY <1>1, <1>3, AppendProperties, LenProperties, EmptySeq
<1> HIDE DEF m, n
<1>5. \A i \in 1..(n + 1) : m[i] \in Letter
  BY <1>4, ElementOfSeq
<1>6. /\ \A i, j \in 1..(n + 1) : i < j => m[i].id < m[j].id
      /\ \A i \in 1..(n + 1) : m[i].id <= sent + 1
  <2>1. \A i, j \in 1..n : i < j => posted[i].id < posted[j].id
    BY <1>1 DEF Rising
  <2>2. \A i \in 1..n : posted[i].id \in Nat
    <3>1. \A i \in 1..n : posted[i] \in Letter
      BY <1>1, ElementOfSeq DEF n
    <3>2. QED
      BY <3>1 DEF Letter
  <2>3. \A i \in 1..n : m[i].id = posted[i].id
    BY <1>4
  <2>4. m[n + 1].id = sent + 1 /\ sent \in Nat
    BY <1>1, <1>3, <1>4
  <2>5. \A i \in 1..(n + 1) : i \in 1..n \/ i = n + 1
    BY <1>1
  <2>6. \A i, j \in 1..(n + 1) : i < j => i \in 1..n
    BY <1>1
  <2>7. \A i \in 1..n : m[i].id < sent + 1
    BY <1>1, <2>2, <2>3, <2>4
  <2>8. \A i \in 1..(n + 1) : m[i].id <= sent + 1
    BY <2>2, <2>3, <2>4, <2>5, <2>7
  <2>9. ASSUME NEW i \in 1..(n + 1), NEW j \in 1..(n + 1), i < j PROVE m[i].id < m[j].id
    <3>1. CASE j \in 1..n
      BY <2>1, <2>3, <2>6, <2>9, <3>1
    <3>2. CASE j = n + 1
      BY <2>4, <2>6, <2>7, <2>9, <3>2
    <3>3. QED
      BY <2>5, <3>1, <3>2
  <2>10. QED
    BY <2>8, <2>9
<1>7. CASE n + 1 <= MaxMessages
  <2>1. posted' = m
    BY <1>2, <1>4, <1>7, PrunedFacts
  <2>2. A2AInv'
    BY <1>1, <1>2, <1>4, <1>6, <1>7, <2>1 DEF A2AInv, A2ATypeOK, Letter
  <2>3. ASSUME NEW i \in DOMAIN posted PROVE ~Forgotten(posted[i])
    BY <1>1, <1>4, <2>1 DEF Forgotten
  <2>4. QED
    BY <2>2, <2>3
<1>8. CASE ~(n + 1 <= MaxMessages)
  <2>1. PICK k \in 1..(n + 1) : /\ posted' = RemoveAt(m, k)
                                /\ m[k].read \/ (k = 1 /\ \A i \in 1..(n + 1) : ~m[i].read)
    BY <1>2, <1>4, <1>8, PrunedFacts
  <2>2. /\ posted' \in Seq(Letter) /\ Len(posted') = n
        /\ \A j \in 1..n : posted'[j] = IF j < k THEN m[j] ELSE m[j + 1]
    <3>1. /\ RemoveAt(m, k) \in Seq(Letter) /\ Len(RemoveAt(m, k)) = Len(m) - 1
          /\ \A j \in 1..(Len(m) - 1) : RemoveAt(m, k)[j] = IF j < k THEN m[j] ELSE m[j + 1]
      <4>1. k \in 1..Len(m)
        BY <1>4
      <4>2. QED
        BY <1>4, <4>1, Removing
    <3>2. (n + 1) - 1 = n
      BY <1>1
    <3>3. Len(m) - 1 = n
      BY <1>4, <3>2
    <3>4. QED
      BY <2>1, <3>1, <3>3
  <2>3. n = MaxMessages /\ DOMAIN posted' = 1..n
    <3>1. DOMAIN posted' = 1..Len(posted')
      BY <2>2, LenProperties
    <3>2. n = MaxMessages
      BY <1>1, <1>8, A2AAssumption
    <3>3. QED
      BY <2>2, <3>1, <3>2
  <2>4. ASSUME NEW i \in 1..n, NEW j \in 1..n, i < j PROVE posted'[i].id < posted'[j].id
    <3> DEFINE a == IF i < k THEN i ELSE i + 1
               b == IF j < k THEN j ELSE j + 1
    <3>1. a \in 1..(n + 1) /\ b \in 1..(n + 1) /\ a < b
      BY <1>1, <2>4
    <3>2. posted'[i] = m[a] /\ posted'[j] = m[b]
      BY <2>2
    <3> HIDE DEF a, b
    <3>3. QED
      BY <1>6, <3>1, <3>2
  <2>5. \A i \in 1..n : posted'[i].id <= sent'
    <3>1. ASSUME NEW i \in 1..n
          PROVE  \E a \in 1..(n + 1) : posted'[i] = m[a]
      <4>1. (IF i < k THEN i ELSE i + 1) \in 1..(n + 1)
        BY <1>1
      <4>2. QED
        BY <2>2, <4>1
    <3>2. QED
      BY <1>2, <1>6, <3>1
  <2>6. A2AInv'
    BY <1>1, <1>2, <2>2, <2>3, <2>4, <2>5 DEF A2AInv, A2ATypeOK, Letter
  <2>7. ASSUME NEW i \in DOMAIN posted, Forgotten(posted[i])
        PROVE  \A j \in 1..n : ~posted'[j].read /\ posted'[j].id > posted[i].id
    <3>1. i \in 1..n /\ posted[i] = m[i] /\ ~m[i].read /\ \A j \in 1..n : posted'[j].id # m[i].id
      BY <1>1, <1>4, <2>3, <2>7 DEF Forgotten
    <3>2. i = k
      <4>1. CASE i < k
        BY <2>2, <3>1, <4>1
      <4>2. CASE i > k
        <5>1. i - 1 \in 1..n /\ ~(i - 1 < k) /\ (i - 1) + 1 = i
          BY <1>1, <3>1, <4>2
        <5>2. posted'[i - 1] = m[i]
          BY <2>2, <5>1
        <5>3. QED
          BY <3>1, <5>1, <5>2
      <4>3. QED
        BY <4>1, <4>2, <3>1, <1>1
    <3>3. k = 1 /\ \A j \in 1..(n + 1) : ~m[j].read
      BY <2>1, <3>1, <3>2
    <3>4. \A j \in 1..n : posted'[j] = m[j + 1] /\ j + 1 \in 1..(n + 1) /\ 1 < j + 1
      BY <1>1, <2>2, <3>3
    <3>5. \A j \in 1..n : m[1].id < m[j + 1].id
      <4>1. 1 \in 1..(n + 1)
        BY <1>1
      <4>2. QED
        BY <1>6, <3>4, <4>1
    <3>6. \A j \in 1..n : m[j + 1].id > m[1].id
      <4>1. \A j \in 1..n : m[1].id \in Int /\ m[j + 1].id \in Int
        BY <1>1, <1>5, <3>4 DEF Letter
      <4>2. QED
        BY <3>5, <4>1
    <3>7. QED
      BY <3>1, <3>2, <3>3, <3>4, <3>6
  <2>8. QED
    BY <2>2, <2>3, <2>6, <2>7
<1>9. QED
  BY <1>7, <1>8

(* Marking a message forgets none.                                           *)
LEMMA MarkReadKeeps ==
  ASSUME A2AInv, NEW k \in DOMAIN posted, MarkRead(k)
  PROVE  A2AInv' /\ \A i \in DOMAIN posted : ~Forgotten(posted[i])
<1> DEFINE e == [posted[k] EXCEPT !.read = TRUE]
<1>1. /\ posted \in Seq(Letter) /\ Len(posted) \in Nat /\ DOMAIN posted = 1..Len(posted)
      /\ posted[k] \in Letter
  <2>1. posted \in Seq(Letter)
    BY DEF A2AInv, A2ATypeOK, Letter
  <2>2. Len(posted) \in Nat /\ DOMAIN posted = 1..Len(posted)
    BY <2>1, LenProperties
  <2>3. QED
    BY <2>1, <2>2, ElementOfSeq
<1>2. e \in Letter /\ e.id = posted[k].id /\ posted' = [posted EXCEPT ![k] = e]
  BY <1>1 DEF MarkRead, Letter
<1> HIDE DEF e
<1>3. /\ posted' \in Seq(Letter) /\ Len(posted') = Len(posted)
      /\ \A i \in 1..Len(posted) : posted'[i] = IF i = k THEN e ELSE posted[i]
  BY <1>1, <1>2, ExceptSeq
<1>4. DOMAIN posted' = DOMAIN posted /\ \A i \in DOMAIN posted : posted'[i].id = posted[i].id
  <2>1. DOMAIN posted' = 1..Len(posted')
    BY <1>3, LenProperties
  <2>2. \A i \in 1..Len(posted) : posted'[i].id = posted[i].id
    BY <1>2, <1>3
  <2>3. QED
    BY <1>1, <1>3, <2>1, <2>2
<1>5. A2AInv'
  <2>1. sent' = sent /\ registered' = registered /\ retired' = retired
    BY DEF MarkRead
  <2>2. QED
    BY <1>3, <1>4, <2>1 DEF A2AInv, A2ATypeOK, Letter
<1>6. QED
  BY <1>4, <1>5 DEF Forgotten

LEMMA A2AStep ==
  ASSUME A2AInv, [A2ANext]_a2aVars
  PROVE  /\ A2AInv'
         /\ \A i \in DOMAIN posted : Forgotten(posted[i]) =>
              /\ Len(posted') = MaxMessages
              /\ \A j \in DOMAIN posted' : ~posted'[j].read /\ posted'[j].id > posted[i].id
<1>1. CASE \E s, r \in Agents : Post(s, r)
  BY <1>1, PostKeeps
<1>2. CASE \E k \in DOMAIN posted : MarkRead(k)
  BY <1>2, MarkReadKeeps
<1>3. CASE posted' = posted /\ sent' = sent /\ registered' \subseteq Agents /\ retired' \subseteq Agents \ registered'
  <2>1. A2AInv'
    BY <1>3 DEF A2AInv, A2ATypeOK
  <2>2. QED
    BY <1>3, <2>1 DEF Forgotten
<1>4. CASE \E a \in Agents : Register(a) \/ Unregister(a)
  <2>1. /\ posted' = posted /\ sent' = sent
        /\ registered' \subseteq Agents /\ retired' \subseteq Agents \ registered'
    BY <1>4 DEF Register, Unregister, A2AInv, A2ATypeOK
  <2>2. QED
    BY <2>1, <1>3
<1>5. CASE UNCHANGED a2aVars
  <2>1. /\ posted' = posted /\ sent' = sent
        /\ registered' \subseteq Agents /\ retired' \subseteq Agents \ registered'
    BY <1>5 DEF a2aVars, A2AInv, A2ATypeOK
  <2>2. QED
    BY <2>1, <1>3
<1>6. QED
  BY <1>1, <1>2, <1>4, <1>5 DEF A2ANext

(* A full bus forgets what was read before anything unread, and an unread    *)
(* message only when as many newer ones as it holds are unread as well.      *)
THEOREM UnreadTheorem == A2ASpec => UnreadLast
<1>1. A2AInv /\ [A2ANext]_a2aVars => A2AInv'
  BY A2AStep
<1>2. A2AInv /\ [A2ANext]_a2aVars =>
        [\A i \in DOMAIN posted : Forgotten(posted[i]) =>
           /\ Len(posted') = MaxMessages
           /\ \A j \in DOMAIN posted' : ~posted'[j].read /\ posted'[j].id > posted[i].id]_a2aVars
  BY A2AStep
<1>3. QED
  BY A2AInitInv, <1>1, <1>2, PTL DEF A2ASpec, UnreadLast

-----------------------------------------------------------------------------
(***************************************************************************)
(* Delegated runs, for any depth and any number of them.  A run is going   *)
(* on only below a caller that waits, one level above it at least; ids are *)
(* given out in order, so the ones a caller takes are of nobody yet.       *)
(***************************************************************************)
Begun == {d \in Spawned : stage[d] # "new"}

AwaitedRuns ==
  \A c \in Spawned : Active(c) => stage[caller[c]] \in Waits /\ level[caller[c]] < level[c]

TrueList ==
  \A c \in Spawned :
    /\ listed[c] \in {"running", "waiting"} => Active(c) \/ stage[c] = "cut"
    /\ listed[c] = "over" => stage[c] = "ended"
    /\ stage[c] = "new" => listed[c] = "none"

DelegationInv ==
  /\ DelegationTypeOK
  /\ \E n \in 0..MaxSpawned : Begun = 1..n
  /\ stage[Turn] # "new"
  /\ AwaitedRuns /\ TrueList

LEMMA DelegationInitInv == DelegationInit => DelegationInv
<1> SUFFICES ASSUME DelegationInit
             PROVE  DelegationInv
  OBVIOUS
<1> USE DelegationAssumption DEF DelegationInit, Spawned, Callers, Turn
<1>1. DelegationTypeOK
  BY DEF DelegationTypeOK, Stages, Listed
<1>2. Begun = 1..0
  BY DEF Begun
<1>3. AwaitedRuns /\ TrueList
  BY DEF AwaitedRuns, TrueList, Active
<1> QED
  BY <1>1, <1>2, <1>3 DEF DelegationInv

(* What a caller starts was of nobody.                                       *)
LEMMA SpawnKeeps ==
  ASSUME DelegationInv, NEW c \in Callers, stage[c] \in {"working", "calling"}, NEW at \in 0..MaxDepth,
         level[c] < at, NEW n \in 1..2, Spawn(c, at, n), UNCHANGED script
  PROVE  DelegationInv'
<1> USE DelegationAssumption DEF Turn
<1>1. PICK m \in 0..MaxSpawned : Begun = 1..m
  BY DEF DelegationInv
<1>2. Cardinality(Begun) = m
  BY <1>1, FS_Interval
<1> DEFINE fresh == (m + 1)..(m + n)
<1>3. /\ fresh \subseteq Spawned
      /\ stage' = [d \in Callers |-> IF d \in fresh THEN "working" ELSE IF d = c THEN "calling" ELSE stage[d]]
      /\ listed' = [d \in Callers |-> IF d \in fresh THEN "running" ELSE listed[d]]
      /\ caller' = [d \in Callers |-> IF d \in fresh THEN c ELSE caller[d]]
      /\ level' = [d \in Callers |-> IF d \in fresh THEN at ELSE level[d]]
      /\ UNCHANGED stops
  BY <1>2 DEF Spawn, Begun
<1>4. \A d \in fresh : d \in Spawned /\ d # Turn /\ d # c /\ stage[d] = "new"
  <2>1. \A d \in fresh : d \in Spawned /\ d \notin Begun /\ d # Turn
    BY <1>1, <1>3 DEF Spawned
  <2>2. \A d \in fresh : stage[d] = "new"
    BY <2>1 DEF Begun
  <2> QED
    BY <2>1, <2>2
<1>5. m + n \in 0..MaxSpawned /\ Begun' = 1..(m + n)
  <2>1. m + n \in Spawned
    BY <1>3
  <2>2. Begun' = Begun \cup fresh
    BY <1>3, <1>4 DEF Begun, Callers
  <2> QED
    BY <2>1, <2>2, <1>1 DEF Spawned
<1> HIDE DEF fresh
<1>6. DelegationTypeOK'
  <2> USE <1>3 DEF DelegationInv, DelegationTypeOK
  <2>1. stage' \in [Callers -> Stages]
    BY DEF Stages
  <2>2. listed' \in [Callers -> Listed]
    BY DEF Listed
  <2>3. caller' \in [Callers -> Callers] /\ level' \in [Callers -> 0..MaxDepth]
    OBVIOUS
  <2> QED
    BY <2>1, <2>2, <2>3
<1>7. stage'[Turn] # "new"
  BY <1>3 DEF DelegationInv, Callers
<1>8. AwaitedRuns'
  <2> SUFFICES ASSUME NEW d \in Spawned, Active(d)'
               PROVE  stage'[caller'[d]] \in Waits /\ level'[caller'[d]] < level'[d]
    BY DEF AwaitedRuns
  <2>1. CASE d \in fresh
    BY <2>1, <1>3, <1>4 DEF Waits, Callers, DelegationInv, DelegationTypeOK
  <2>2. CASE d \notin fresh
    <3>1. Active(d) /\ caller'[d] = caller[d] /\ level'[d] = level[d]
      BY <2>2, <1>3 DEF Active, Callers
    <3>2. caller[d] \in Callers /\ stage[caller[d]] \in Waits /\ level[caller[d]] < level[d]
      BY <3>1 DEF DelegationInv, AwaitedRuns, DelegationTypeOK, Callers
    <3>3. caller[d] \notin fresh
      BY <3>2, <1>4 DEF Waits
    <3> QED
      BY <3>1, <3>2, <3>3, <1>3 DEF Waits
  <2> QED
    BY <2>1, <2>2
<1>9. TrueList'
  <2> SUFFICES ASSUME NEW d \in Spawned
               PROVE  /\ listed'[d] \in {"running", "waiting"} => Active(d)' \/ stage'[d] = "cut"
                      /\ listed'[d] = "over" => stage'[d] = "ended"
                      /\ stage'[d] = "new" => listed'[d] = "none"
    BY DEF TrueList
  <2>1. CASE d \in fresh
    BY <2>1, <1>3 DEF Active, Callers
  <2>2. CASE d \notin fresh
    BY <2>2, <1>3 DEF Active, Callers, DelegationInv, TrueList
  <2> QED
    BY <2>1, <2>2
<1> QED
  BY <1>5, <1>6, <1>7, <1>8, <1>9 DEF DelegationInv

(* The other steps change what one caller is doing; it waits on as long as   *)
(* runs below it go on.                                                      *)
LEMMA CallerKeeps ==
  ASSUME DelegationInv, NEW c \in Callers, stage[c] # "new", NEW s \in Stages \ {"new"},
         stage' = [stage EXCEPT ![c] = s], UNCHANGED <<caller, level>>,
         s \in Waits \/ stage[c] \notin Waits \/ Settled(c),
         s \in {"ended", "cut"} \/ Active(c)
  PROVE  Begun' = Begun /\ stage'[Turn] # "new" /\ AwaitedRuns' /\ stage' \in [Callers -> Stages]
<1> USE DEF DelegationInv, DelegationTypeOK
<1>1. Begun' = Begun
  BY DEF Begun, Callers
<1>2. AwaitedRuns'
  <2> SUFFICES ASSUME NEW d \in Spawned, Active(d)'
               PROVE  stage'[caller'[d]] \in Waits /\ level'[caller'[d]] < level'[d]
    BY DEF AwaitedRuns
  <2>1. Active(d)
    BY DEF Active, Callers
  <2>2. caller[d] \in Callers /\ stage[caller[d]] \in Waits /\ level[caller[d]] < level[d]
    BY <2>1 DEF AwaitedRuns, Callers
  <2>3. CASE caller[d] = c
    BY <2>1, <2>2, <2>3 DEF Settled, Below, Active
  <2>4. CASE caller[d] # c
    BY <2>2, <2>4
  <2> QED
    BY <2>3, <2>4
<1> QED
  BY <1>1, <1>2 DEF Callers, Turn

LEMMA DelegationStepInv == DelegationInv /\ [DelegationNext]_delegationVars => DelegationInv'
<1> SUFFICES ASSUME DelegationInv, [DelegationNext]_delegationVars
             PROVE  DelegationInv'
  OBVIOUS
<1> USE DelegationAssumption
<1>0. DelegationTypeOK /\ TrueList
  BY DEF DelegationInv
<1>1. ASSUME NEW c \in Callers, Delegate(c) \/ Dispatch(c)
      PROVE  DelegationInv'
  <2>1. CASE Delegate(c)
    BY <2>1, <1>0, SpawnKeeps DEF Delegate, Runs, DelegationTypeOK
  <2>2. CASE Dispatch(c)
    BY <2>2, <1>0, SpawnKeeps DEF Dispatch, DelegationTypeOK
  <2> QED
    BY <1>1, <2>1, <2>2
<1>2. ASSUME NEW c \in Callers, NEW s \in Stages \ {"new"}, stage[c] # "new", stage' = [stage EXCEPT ![c] = s],
             UNCHANGED <<caller, level>>, s \in Waits \/ stage[c] \notin Waits \/ Settled(c),
             s \in {"ended", "cut"} \/ Active(c), TrueList',
             listed' \in [Callers -> Listed], script' \in [Callers -> {"none", "running", "over"}],
             stops' \in 0..MaxStops
      PROVE  DelegationInv'
  BY <1>2, CallerKeeps DEF DelegationInv, DelegationTypeOK
<1>3. ASSUME NEW c \in Callers, Execute(c) \/ Return(c) \/ RunTimeout(c) \/ CallTimeout(c)
      PROVE  DelegationInv'
  <2>1. PICK s \in {"calling", "working", "expired", "late"} : stage' = [stage EXCEPT ![c] = s]
    BY <1>3 DEF Execute, Return, RunTimeout, CallTimeout
  <2>2. /\ stage[c] \in {"working", "calling", "late"} /\ UNCHANGED <<listed, caller, level, stops>>
        /\ s \in Waits \/ Settled(c)
    BY <1>3, <2>1, <1>0 DEF Execute, Return, RunTimeout, CallTimeout, Runs, Waits, DelegationTypeOK, Stages
  <2>3. script' \in [Callers -> {"none", "running", "over"}]
    BY <1>3, <1>0 DEF Execute, Return, RunTimeout, CallTimeout, DelegationTypeOK
  <2>4. TrueList'
    BY <2>1, <2>2, <1>0 DEF TrueList, Active, DelegationTypeOK
  <2> QED
    BY <2>1, <2>2, <2>3, <2>4, <1>0, <1>2 DEF Stages, Active, DelegationTypeOK
<1>4. ASSUME NEW c \in Callers, ScriptEnds(c) \/ Approve(c)
      PROVE  DelegationInv'
  <2>1. UNCHANGED <<stage, caller, level, stops>>
    BY <1>4 DEF ScriptEnds, Approve
  <2>2. DelegationTypeOK'
    <3>1. CASE ScriptEnds(c)
      BY <3>1, <1>0 DEF ScriptEnds, DelegationTypeOK
    <3>2. CASE Approve(c)
      BY <3>2, <1>0 DEF Approve, DelegationTypeOK, Listed
    <3> QED
      BY <1>4, <3>1, <3>2
  <2>3. TrueList'
    <3>1. CASE ScriptEnds(c)
      BY <3>1, <1>0 DEF ScriptEnds, TrueList, Active
    <3>2. CASE Approve(c)
      BY <3>2, <1>0 DEF Approve, TrueList, Active, DelegationTypeOK
    <3> QED
      BY <1>4, <3>1, <3>2
  <2> QED
    BY <2>1, <2>2, <2>3 DEF DelegationInv, Begun, AwaitedRuns, Active
<1>5. ASSUME NEW c \in Callers, Pause(c)
      PROVE  DelegationInv'
  <2>1. CASE listed[c] = "stopped"
    <3>1. /\ stage[c] = "working" /\ stage' = [stage EXCEPT ![c] = "failing"]
          /\ UNCHANGED <<listed, caller, level, script, stops>>
      BY <1>5, <2>1 DEF Pause, Runs
    <3>2. TrueList'
      BY <3>1, <1>0 DEF TrueList, Active, DelegationTypeOK
    <3> QED
      BY <3>1, <3>2, <2>1, <1>0, <1>5, <1>2 DEF Pause, Runs, DelegationTypeOK, Stages, Waits, Active
  <2>2. CASE listed[c] # "stopped"
    <3>1. /\ stage[c] = "working" /\ listed' = [listed EXCEPT ![c] = "waiting"]
          /\ UNCHANGED <<stage, caller, level, script, stops>>
      BY <1>5, <2>2 DEF Pause, Runs
    <3>2. TrueList' /\ DelegationTypeOK'
      BY <3>1, <1>0 DEF TrueList, Active, DelegationTypeOK, Listed
    <3> QED
      BY <3>1, <3>2 DEF DelegationInv, Begun, AwaitedRuns, Active
  <2> QED
    BY <2>1, <2>2
<1>6. ASSUME NEW c \in Callers, Stop(c)
      PROVE  DelegationInv'
  <2>1. stage[c] # "new" /\ UNCHANGED <<caller, level, script>> /\ stops' \in 0..MaxStops
    BY <1>6, <1>0 DEF Stop, DelegationTypeOK
  <2>2. listed' = [listed EXCEPT ![c] = "stopped"] /\ listed' \in [Callers -> Listed]
    BY <1>6, <1>0 DEF Stop, DelegationTypeOK, Listed
  <2>3. CASE stage[c] = "working" /\ listed[c] = "waiting"
    <3>1. stage' = [stage EXCEPT ![c] = "failing"]
      BY <2>3, <1>6 DEF Stop
    <3>2. TrueList'
      BY <3>1, <2>2, <2>3, <1>0 DEF TrueList, Active, DelegationTypeOK
    <3> QED
      BY <3>1, <3>2, <2>1, <2>2, <2>3, <1>0, <1>2 DEF Stages, Waits, Active, DelegationTypeOK
  <2>4. CASE ~(stage[c] = "working" /\ listed[c] = "waiting")
    <3>1. stage' = stage
      BY <2>4, <1>6, <1>0 DEF Stop, DelegationTypeOK
    <3> QED
      BY <3>1, <2>1, <2>2 DEF DelegationInv, DelegationTypeOK, Begun, AwaitedRuns, TrueList, Active
  <2> QED
    BY <2>3, <2>4
<1>7. ASSUME NEW c \in Callers, End(c)
      PROVE  DelegationInv'
  <2>1. /\ stage[c] \in {"working", "failing"} \/ (stage[c] = "expired" /\ Settled(c))
        /\ stage' = [stage EXCEPT ![c] = "ended"] /\ listed' = [listed EXCEPT ![c] = "over"]
        /\ UNCHANGED <<caller, level, script, stops>>
    BY <1>7 DEF End, Runs
  <2>2. TrueList'
    BY <2>1, <1>0 DEF TrueList, Active, DelegationTypeOK
  <2> QED
    BY <2>1, <2>2, <1>0, <1>2 DEF DelegationTypeOK, Stages, Listed, Waits, Active
<1>8. ASSUME NEW c \in Callers, Unwind(c)
      PROVE  DelegationInv'
  <2>1. /\ Active(c) /\ Settled(c) /\ stage' = [stage EXCEPT ![c] = "cut"]
        /\ UNCHANGED <<listed, caller, level, script, stops>>
    BY <1>8 DEF Unwind
  <2>2. TrueList'
    BY <2>1, <1>0 DEF TrueList, Active, DelegationTypeOK
  <2> QED
    BY <2>1, <2>2, <1>0, <1>2 DEF DelegationTypeOK, Stages, Active
<1>9. CASE Abandon
  <2>1. TrueList'
    BY <1>9, <1>0 DEF TrueList, Active, DelegationTypeOK, Abandon, Turn, Spawned
  <2> QED
    BY <2>1, <1>9, <1>0, <1>2 DEF Abandon, DelegationTypeOK, Stages, Waits, Active, Callers
<1>10. CASE UNCHANGED delegationVars
  BY <1>10 DEF delegationVars, DelegationInv, DelegationTypeOK, Begun, AwaitedRuns, TrueList, Active
<1> QED
  BY <1>1, <1>3, <1>4, <1>5, <1>6, <1>7, <1>8, <1>9, <1>10 DEF DelegationNext

LEMMA DelegationInvAwaited == DelegationInv => DelegatesAreAwaited
  BY DEF DelegationInv, DelegationTypeOK, AwaitedRuns, TrueList, DelegatesAreAwaited, Callers

-----------------------------------------------------------------------------
(***************************************************************************)
(* The mail: the list has what callers were told of, and of what is read   *)
(* beyond the one message of the inbox, somebody was given it.             *)
(***************************************************************************)
MailLetter == [id : Nat, status : {"sent", "draft"}]

MailInv ==
  /\ drafts \in Seq(MailLetter) /\ drafts = confirmed /\ Len(drafts) <= MaxDrafts
  /\ seen = (Received \ Unread) \cup got
  /\ mailed \in Nat

LEMMA MailInitInv == MailInit => MailInv
  BY MailAssumption DEF MailInit, MailInv

LEMMA MailStepInv == MailInv /\ [MailNext]_mailVars => MailInv'
<1> SUFFICES ASSUME MailInv, [MailNext]_mailVars
             PROVE  MailInv'
  OBVIOUS
<1> USE MailAssumption DEF MailInv
<1>1. ASSUME NEW status \in {"sent", "draft"}, Compose(status)
      PROVE  MailInv'
  <2> DEFINE letter == [id |-> mailed + 1, status |-> status]
  <2>1. /\ drafts' = Append(drafts, letter) /\ confirmed' = Append(confirmed, letter)
        /\ mailed' = mailed + 1 /\ UNCHANGED <<seen, got>> /\ Len(drafts) < MaxDrafts
    BY <1>1 DEF Compose, DraftsFull
  <2>2. letter \in MailLetter
    BY DEF MailLetter
  <2> HIDE DEF letter
  <2>3. drafts' \in Seq(MailLetter) /\ Len(drafts') = Len(drafts) + 1
    BY <2>1, <2>2
  <2> QED
    BY <2>1, <2>3 DEF Unread
<1>2. CASE SendDraft \/ SaveDraft
  BY <1>1, <1>2 DEF SendDraft, SaveDraft
<1>3. CASE GetMessage
  BY <1>3 DEF GetMessage, Unread
<1>4. CASE MailRestarts
  BY <1>4 DEF MailRestarts, Unread
<1>5. CASE Authenticate \/ UNCHANGED mailVars
  BY <1>5 DEF Authenticate, mailVars, Unread
<1> QED
  BY <1>2, <1>3, <1>4, <1>5 DEF MailNext

LEMMA MailInvKept == MailInv => MailIsKept
<1> SUFFICES ASSUME MailInv
             PROVE  MailIsKept
  OBVIOUS
<1> USE MailAssumption DEF MailInv
<1>1. ASSUME NEW l \in ToSet(FolderList("drafts"))
      PROVE  l.read = (l.id \in got)
  <2>1. PICK i \in DOMAIN drafts : l = [id |-> drafts[i].id, read |-> drafts[i].id \in seen]
    BY DEF ToSet, FolderList
  <2>2. drafts[i].id \in Nat
    <3>1. drafts[i] \in MailLetter
      BY <2>1
    <3> QED
      BY <3>1 DEF MailLetter
  <2>3. drafts[i].id \in seen <=> drafts[i].id \in got
    BY <2>2 DEF Unread
  <2> QED
    BY <2>1, <2>3
<1>2. ASSUME NEW l \in FolderList("inbox")
      PROVE  l.read = (l.id \in got \/ l.id \notin Unread)
  <2>1. PICK r \in Received : l = [id |-> r, read |-> r \in seen]
    BY DEF FolderList
  <2>2. r \in seen <=> r \in got \/ r \notin Unread
    OBVIOUS
  <2> QED
    BY <2>1, <2>2
<1> QED
  BY <1>1, <1>2 DEF MailIsKept

-----------------------------------------------------------------------------
(***************************************************************************)
(* The tools of the chats.  While a chat collects them, what it has comes  *)
(* from the clients that have answered, each of which is loaded still; a   *)
(* server is only unloaded or loaded again by the one chat there is.       *)
(***************************************************************************)
AnyClient == McpClients \cup {BuiltinClient}
Collects(u) == doing[u] \in {"refreshing", "chatting", "agent"}

ServersTypes ==
  /\ link \in [McpClients -> Links]
  /\ loaded \in [Servers -> McpClients \cup {NoClient}]
  /\ tools \in [Users -> ToolMaps] /\ agentTools \in [Users -> ToolMaps]
  /\ offered \in [Users -> SUBSET ToolNames]
  /\ asked \in [Users -> SUBSET McpClients] /\ answered \in [Users -> SUBSET McpClients]
  /\ doing \in [Users -> Doings] /\ reload \in [Users -> Servers]

(* What a chat is doing, and what it is not doing.                           *)
Orderly ==
  \A u \in Users :
    /\ doing[u] # "nothing" => Started
    /\ doing[u] # "refreshing" => asked[u] = {}
    /\ doing[u] # "agent" => agentTools[u] = NoTools
    /\ reload[u] # DocServer => Users = {u} /\ doing[u] \in {"unloading", "refreshing", "chatting"}

Collected ==
  \A u \in Users : Collects(u) =>
    /\ asked[u] \subseteq Loaded /\ answered[u] \subseteq Loaded
    /\ \A c \in answered[u] : link[c] \in {"ready", "dead"} /\ Offers(c[1]) \subseteq DOMAIN tools[u]
    /\ Range(tools[u]) \subseteq answered[u] \cup {BuiltinClient}
    /\ Range(agentTools[u]) \subseteq Range(tools[u])

Announced ==
  \A u \in Users : doing[u] \in {"chatting", "agent"} =>
    offered[u] = DOMAIN tools[u] /\ "builtin" \in offered[u] /\ tools[u]["builtin"] = BuiltinClient

ServersInv == ServersTypes /\ Orderly /\ Collected /\ Announced

LEMMA SomeTools ==
  ASSUME NEW f, NEW names \in SUBSET ToolNames, f \in [names -> AnyClient]
  PROVE  f \in ToolMaps
  BY DEF ToolMaps, AnyClient

LEMMA ToolMap ==
  ASSUME NEW f \in ToolMaps
  PROVE  DOMAIN f \subseteq ToolNames /\ f \in [DOMAIN f -> AnyClient] /\ Range(f) \subseteq AnyClient
  BY DEF ToolMaps, AnyClient, Range

LEMMA NoToolsMap == NoTools \in ToolMaps /\ Range(NoTools) = {}
<1>1. NoTools \in [{} -> AnyClient]
  BY DEF NoTools
<1> QED
  BY <1>1, SomeTools DEF NoTools, Range

LEMMA TakenMap ==
  ASSUME NEW f \in ToolMaps, NEW names \in SUBSET ToolNames, NEW c \in AnyClient
  PROVE  /\ Taken(f, names, c) \in ToolMaps /\ DOMAIN Taken(f, names, c) = names \cup DOMAIN f
         /\ \A t \in names : Taken(f, names, c)[t] = c
         /\ Range(Taken(f, names, c)) \subseteq Range(f) \cup {c}
<1>1. names \cup DOMAIN f \in SUBSET ToolNames /\ f \in [DOMAIN f -> AnyClient]
  BY ToolMap
<1>2. Taken(f, names, c) \in [names \cup DOMAIN f -> AnyClient]
  BY <1>1 DEF Taken
<1>3. Taken(f, names, c) \in ToolMaps
  BY <1>1, <1>2, SomeTools
<1>4. Range(Taken(f, names, c)) \subseteq Range(f) \cup {c}
  BY DEF Taken, Range
<1> QED
  BY <1>3, <1>4 DEF Taken

LEMMA AllowedMap ==
  ASSUME NEW u \in Users, tools[u] \in ToolMaps, NEW caps
  PROVE  Allowed(u, caps) \in ToolMaps /\ Range(Allowed(u, caps)) \subseteq Range(tools[u])
<1> DEFINE names == {t \in DOMAIN tools[u] : t \in caps \/ \E s \in (caps \cap Servers) \ {DocServer} : tools[u][t] = loaded[s]}
<1>1. Allowed(u, caps) = [t \in names |-> tools[u][t]] /\ names \subseteq DOMAIN tools[u]
  BY DEF Allowed, Restrict
<1> HIDE DEF names
<1>2. names \subseteq ToolNames /\ tools[u] \in [DOMAIN tools[u] -> AnyClient]
  BY <1>1, ToolMap
<1>3. Allowed(u, caps) \in [names -> AnyClient]
  BY <1>1, <1>2
<1>4. Range(Allowed(u, caps)) \subseteq Range(tools[u])
  BY <1>1 DEF Range
<1> QED
  BY <1>2, <1>3, <1>4, SomeTools

LEMMA ServersInitInv == ServersInit => ServersInv
<1> SUFFICES ASSUME ServersInit
             PROVE  ServersInv
  OBVIOUS
<1>1. [t \in {"builtin"} |-> BuiltinClient] \in ToolMaps
  <2>1. [t \in {"builtin"} |-> BuiltinClient] \in [{"builtin"} -> AnyClient]
    BY DEF AnyClient
  <2> QED
    BY <2>1, SomeTools DEF ToolNames
<1>2. ServersTypes
  BY <1>1, NoToolsMap, DocIsConfigured DEF ServersInit, ServersTypes, Links, Doings, ToolNames
<1>3. Orderly /\ Collected /\ Announced
  BY DEF ServersInit, Orderly, Collected, Collects, Announced
<1> QED
  BY <1>2, <1>3 DEF ServersInv

(* A chat collects its tools anew, from the clients that are loaded now.     *)
LEMMA RefreshKeeps ==
  ASSUME ServersInv, NEW u \in Users, Refresh(u, Loaded'), doing' = [doing EXCEPT ![u] = "refreshing"],
         doing[u] # "agent", Started', link' \in [McpClients -> Links],
         loaded' \in [Servers -> McpClients \cup {NoClient}], reload' \in [Users -> Servers],
         Users = {u} \/ UNCHANGED <<link, loaded>>,
         reload'[u] # DocServer => Users = {u}, \A v \in Users \ {u} : reload'[v] = reload[v]
  PROVE  ServersInv'
<1> USE DEF ServersInv, ServersTypes
<1>1. /\ tools' = [tools EXCEPT ![u] = NoTools] /\ asked' = [asked EXCEPT ![u] = Loaded']
      /\ answered' = [answered EXCEPT ![u] = {}] /\ UNCHANGED <<offered, agentTools>>
  BY DEF Refresh
<1>2. Loaded' \subseteq McpClients
  BY DEF Loaded
<1>3. ServersTypes'
  BY <1>1, <1>2, NoToolsMap DEF Doings
<1>4. Orderly'
  BY <1>1 DEF Orderly
<1>5. Collected'
  <2> SUFFICES ASSUME NEW v \in Users, Collects(v)'
               PROVE  /\ asked'[v] \subseteq Loaded' /\ answered'[v] \subseteq Loaded'
                      /\ \A c \in answered'[v] : link'[c] \in {"ready", "dead"} /\ Offers(c[1]) \subseteq DOMAIN tools'[v]
                      /\ Range(tools'[v]) \subseteq answered'[v] \cup {BuiltinClient}
                      /\ Range(agentTools'[v]) \subseteq Range(tools'[v])
    BY DEF Collected, Offers, McpClients, Links
  <2>1. CASE v = u
    <3>1. agentTools'[v] = NoTools /\ tools'[v] = NoTools /\ answered'[v] = {} /\ asked'[v] = Loaded'
      BY <2>1, <1>1 DEF Orderly
    <3> QED
      BY <3>1, NoToolsMap
  <2>2. CASE v # u
    <3>1. /\ Collects(v) /\ Loaded' = Loaded /\ link' = link /\ tools'[v] = tools[v] /\ asked'[v] = asked[v]
          /\ answered'[v] = answered[v] /\ agentTools'[v] = agentTools[v]
      BY <2>2, <1>1 DEF Collects, Loaded
    <3> QED
      BY <3>1 DEF Collected
  <2> QED
    BY <2>1, <2>2
<1>6. Announced'
  BY <1>1 DEF Announced
<1> QED
  BY <1>3, <1>4, <1>5, <1>6

(* A server that is loaded gets a client of its own, which is not connected. *)
LEMMA AddKeeps ==
  ASSUME ServersInv, NEW u \in Users, Users = {u}, doing[u] = "chatting", NEW s \in Servers, AddServer(u, s),
         reload' \in [Users -> Servers], reload'[u] = DocServer
  PROVE  ServersInv'
<1>1. /\ link' = [link EXCEPT ![Later(s)] = "idle"] /\ loaded' = [loaded EXCEPT ![s] = Later(s)]
      /\ Refresh(u, Loaded') /\ doing' = [doing EXCEPT ![u] = "refreshing"]
  BY DEF AddServer, Loaded
<1>2. Later(s) \in McpClients /\ \A q \in Servers : First(q) # Later(s) /\ First(q) \in McpClients
  BY DEF Later, First, McpClients
<1>3. Started'
  BY <1>1, <1>2 DEF ServersInv, ServersTypes, Orderly, Started, Tried
<1>4. link' \in [McpClients -> Links] /\ loaded' \in [Servers -> McpClients \cup {NoClient}]
  BY <1>1, <1>2 DEF ServersInv, ServersTypes, Links
<1> QED
  BY <1>1, <1>3, <1>4, RefreshKeeps

LEMMA CommandKeeps ==
  ASSUME ServersInv, NEW u \in Users, Initialize(u) \/ LoadServer(u) \/ Unload(u) \/ Detached(u) \/ Reload(u)
  PROVE  ServersInv'
<1> USE DEF ServersInv, ServersTypes
<1>1. CASE Initialize(u) \/ Detached(u)
  <2>1. /\ Refresh(u, Loaded) /\ doing' = [doing EXCEPT ![u] = "refreshing"]
        /\ UNCHANGED <<link, loaded, reload>> /\ doing[u] \in {"nothing", "unloading"}
    BY <1>1 DEF Initialize, Detached
  <2>2. Started' /\ Loaded' = Loaded
    <3>1. Started
      BY <1>1 DEF Initialize, Detached, Orderly
    <3> QED
      BY <3>1, <2>1 DEF Started, Tried, Loaded
  <2>3. Refresh(u, Loaded')
    BY <2>1, <2>2 DEF Refresh
  <2>4. reload[u] # DocServer => Users = {u}
    BY DEF Orderly
  <2> QED
    BY <2>1, <2>2, <2>3, <2>4, RefreshKeeps
<1>2. CASE LoadServer(u)
  <2>1. /\ Users = {u} /\ doing[u] = "chatting" /\ reload[u] = DocServer /\ UNCHANGED reload
        /\ \E s \in Servers : AddServer(u, s)
    BY <1>2 DEF LoadServer, Commands
  <2> QED
    BY <2>1, AddKeeps
<1>3. CASE Reload(u)
  <2>1. Users = {u} /\ doing[u] = "chatting"
    BY <1>3 DEF Reload, Orderly
  <2>2. reload' \in [Users -> Servers] /\ reload'[u] = DocServer /\ AddServer(u, reload[u])
    BY <1>3, DocIsConfigured DEF Reload
  <2> QED
    BY <2>1, <2>2, AddKeeps
<1>4. CASE Unload(u)
  <2>1. /\ Users = {u} /\ doing[u] = "chatting" /\ doing' = [doing EXCEPT ![u] = "unloading"]
        /\ UNCHANGED <<tools, offered, asked, answered, agentTools>>
    BY <1>4 DEF Unload, Commands
  <2>2. PICK s \in Servers, r \in Servers :
          /\ loaded[s] # NoClient /\ loaded' = [loaded EXCEPT ![s] = NoClient]
          /\ link' = [link EXCEPT ![loaded[s]] = "closed"] /\ reload' = [reload EXCEPT ![u] = r]
    BY <1>4, DocIsConfigured DEF Unload
  <2>3. Started'
    BY <2>1, <2>2 DEF Orderly, Started, Tried, First, McpClients
  <2>4. ServersTypes'
    BY <2>1, <2>2 DEF Doings, Links
  <2>5. Orderly'
    BY <2>1, <2>2, <2>3 DEF Orderly
  <2>6. Collected' /\ Announced'
    BY <2>1 DEF Collected, Collects, Announced
  <2> QED
    BY <2>4, <2>5, <2>6
<1> QED
  BY <1>1, <1>2, <1>3, <1>4

LEMMA AnswerKeeps ==
  ASSUME ServersInv, NEW u \in Users, ClientAnswers(u)
  PROVE  ServersInv'
<1> USE DEF ServersInv, ServersTypes
<1>1. PICK c \in asked[u] :
        /\ asked' = [asked EXCEPT ![u] = @ \ {c}]
        /\ \/ /\ link[c] = "ready"
              /\ tools' = [tools EXCEPT ![u] = Registered(u, c)]
              /\ answered' = [answered EXCEPT ![u] = @ \cup {c}]
           \/ UNCHANGED <<tools, answered>>
  BY DEF ClientAnswers
<1>2. UNCHANGED <<link, loaded, offered, doing, reload, agentTools>>
  BY DEF ClientAnswers
<1>3. doing[u] = "refreshing" /\ c \in McpClients /\ c \in Loaded /\ agentTools[u] = NoTools
  BY <1>1 DEF Orderly, Collected, Collects
<1>4. Loaded' = Loaded /\ (Started <=> Started') /\ \A v \in Users : Collects(v)' <=> Collects(v)
  BY <1>2 DEF Loaded, Started, Tried, Collects
<1>5. c[1] \in Servers /\ Offers(c[1]) \subseteq ToolNames
  BY <1>3 DEF McpClients, First, Later, Offers, ToolNames
<1>6. /\ Registered(u, c) \in ToolMaps /\ DOMAIN Registered(u, c) = Offers(c[1]) \cup DOMAIN tools[u]
      /\ Range(Registered(u, c)) \subseteq Range(tools[u]) \cup {c}
  <2>1. tools[u] \in ToolMaps /\ Offers(c[1]) \in SUBSET ToolNames /\ c \in AnyClient
    BY <1>3, <1>5 DEF AnyClient
  <2> QED
    <3>1. PICK s : s = c[1]
      OBVIOUS
    <3>2. Taken(tools[u], Offers(s), c) \in ToolMaps
      BY ONLY <2>1, <3>1, TakenMap
    <3>3. DOMAIN Taken(tools[u], Offers(s), c) = Offers(s) \cup DOMAIN tools[u]
      BY ONLY <2>1, <3>1, TakenMap
    <3>4. Range(Taken(tools[u], Offers(s), c)) \subseteq Range(tools[u]) \cup {c}
      BY ONLY <2>1, <3>1, TakenMap
    <3> QED
      BY <3>1, <3>2, <3>3, <3>4 DEF Registered
<1>7. ServersTypes'
  BY <1>1, <1>2, <1>3, <1>6
<1>8. Orderly'
  BY <1>1, <1>2, <1>3, <1>4 DEF Orderly
<1>9. Collected'
  <2> SUFFICES ASSUME NEW v \in Users, Collects(v)
               PROVE  /\ asked'[v] \subseteq Loaded /\ answered'[v] \subseteq Loaded
                      /\ \A d \in answered'[v] : link[d] \in {"ready", "dead"} /\ Offers(d[1]) \subseteq DOMAIN tools'[v]
                      /\ Range(tools'[v]) \subseteq answered'[v] \cup {BuiltinClient}
                      /\ Range(agentTools[v]) \subseteq Range(tools'[v])
    BY <1>2, <1>4 DEF Collected, Offers
  <2>1. /\ asked[v] \subseteq Loaded /\ answered[v] \subseteq Loaded
        /\ \A d \in answered[v] : link[d] \in {"ready", "dead"} /\ Offers(d[1]) \subseteq DOMAIN tools[v]
        /\ Range(tools[v]) \subseteq answered[v] \cup {BuiltinClient}
        /\ Range(agentTools[v]) \subseteq Range(tools[v])
    BY DEF Collected
  <2>2. asked'[v] \subseteq Loaded
    BY <2>1, <1>1
  <2>3. CASE UNCHANGED <<tools, answered>> \/ v # u
    <3>1. tools'[v] = tools[v] /\ answered'[v] = answered[v]
      BY <2>3, <1>1
    <3> QED
      BY <3>1, <2>1, <2>2
  <2>4. CASE v = u /\ link[c] = "ready" /\ tools' = [tools EXCEPT ![u] = Registered(u, c)]
             /\ answered' = [answered EXCEPT ![u] = @ \cup {c}]
    <3>1. tools'[v] = Registered(u, c) /\ answered'[v] = answered[v] \cup {c}
      BY <2>4
    <3>2. Range(agentTools[v]) = {}
      BY <2>4, <1>3, NoToolsMap
    <3> QED
      BY <3>1, <3>2, <2>1, <2>2, <2>4, <1>3, <1>6
  <2> QED
    BY <2>3, <2>4, <1>1
<1>10. Announced'
  BY <1>1, <1>2, <1>3 DEF Announced
<1> QED
  BY <1>7, <1>8, <1>9, <1>10

LEMMA ChatKeeps ==
  ASSUME ServersInv, NEW u \in Users, Refreshed(u) \/ AgentStarts(u) \/ AgentEnds(u)
  PROVE  ServersInv'
<1> USE DEF ServersInv, ServersTypes
<1>1. UNCHANGED <<link, loaded, asked, answered, reload>> /\ Loaded' = Loaded /\ (Started' <=> Started)
  BY DEF Refreshed, AgentStarts, AgentEnds, Loaded, Started, Tried
<1>2. CASE Refreshed(u)
  <2>1. /\ doing[u] = "refreshing" /\ asked[u] = {} /\ doing' = [doing EXCEPT ![u] = "chatting"]
        /\ tools' = [tools EXCEPT ![u] = Taken(@, {"builtin"}, BuiltinClient)]
        /\ offered' = [offered EXCEPT ![u] = DOMAIN tools'[u]] /\ UNCHANGED agentTools
    BY <1>2 DEF Refreshed
  <2> DEFINE new == Taken(tools[u], {"builtin"}, BuiltinClient)
  <2>2. /\ new \in ToolMaps /\ DOMAIN new = {"builtin"} \cup DOMAIN tools[u] /\ new["builtin"] = BuiltinClient
        /\ Range(new) \subseteq Range(tools[u]) \cup {BuiltinClient}
    <3>1. tools[u] \in ToolMaps /\ {"builtin"} \in SUBSET ToolNames /\ BuiltinClient \in AnyClient
      BY DEF ToolNames, AnyClient
    <3>2. PICK names : names = {"builtin"}
      OBVIOUS
    <3>3. Taken(tools[u], names, BuiltinClient) \in ToolMaps
      BY ONLY <3>1, <3>2, TakenMap
    <3>4. DOMAIN Taken(tools[u], names, BuiltinClient) = names \cup DOMAIN tools[u]
      BY ONLY <3>1, <3>2, TakenMap
    <3>5. Taken(tools[u], {"builtin"}, BuiltinClient)["builtin"] = BuiltinClient
      BY DEF Taken
    <3>6. Range(Taken(tools[u], names, BuiltinClient)) \subseteq Range(tools[u]) \cup {BuiltinClient}
      BY ONLY <3>1, <3>2, TakenMap
    <3> QED
      BY <3>2, <3>3, <3>4, <3>5, <3>6
  <2>3. tools' = [tools EXCEPT ![u] = new]
    BY <2>1
  <2> HIDE DEF new
  <2>4. DOMAIN new \subseteq ToolNames
    BY <2>2, ToolMap
  <2>5. ServersTypes'
    BY <2>1, <2>2, <2>3, <2>4, <1>1 DEF Doings
  <2>6. Orderly'
    BY <2>1, <1>1 DEF Orderly
  <2>7. agentTools[u] = NoTools
    BY <2>1 DEF Orderly
  <2>8. Collected'
    <3> SUFFICES ASSUME NEW v \in Users, Collects(v)'
                 PROVE  /\ asked[v] \subseteq Loaded /\ answered[v] \subseteq Loaded
                        /\ \A d \in answered[v] : link[d] \in {"ready", "dead"} /\ Offers(d[1]) \subseteq DOMAIN tools'[v]
                        /\ Range(tools'[v]) \subseteq answered[v] \cup {BuiltinClient}
                        /\ Range(agentTools[v]) \subseteq Range(tools'[v])
      BY <1>1, <2>1 DEF Collected, Offers
    <3>1. Collects(v)
      BY <2>1 DEF Collects
    <3>2. CASE v = u
      <4>1. tools'[v] = new /\ Range(agentTools[v]) = {}
        BY <3>2, <2>3, <2>7, NoToolsMap
      <4> QED
        BY <4>1, <3>1, <3>2, <2>2 DEF Collected
    <3>3. CASE v # u
      BY <3>1, <3>3, <2>3 DEF Collected
    <3> QED
      BY <3>2, <3>3
  <2>9. Announced'
    BY <2>1, <2>2, <2>3 DEF Announced
  <2> QED
    BY <2>5, <2>6, <2>8, <2>9
<1>3. CASE AgentStarts(u)
  <2>1. PICK caps \in SUBSET ToolNames : agentTools' = [agentTools EXCEPT ![u] = Allowed(u, caps)]
    BY <1>3 DEF AgentStarts
  <2>2. /\ doing[u] = "chatting" /\ reload[u] = DocServer /\ doing' = [doing EXCEPT ![u] = "agent"]
        /\ UNCHANGED <<tools, offered>>
    BY <1>3 DEF AgentStarts
  <2>3. Allowed(u, caps) \in ToolMaps /\ Range(Allowed(u, caps)) \subseteq Range(tools[u])
    BY AllowedMap
  <2>4. ServersTypes'
    BY <2>1, <2>2, <2>3, <1>1 DEF Doings
  <2>5. Orderly' /\ Announced'
    BY <2>1, <2>2, <1>1 DEF Orderly, Announced
  <2>6. Collected'
    BY <2>1, <2>2, <2>3, <1>1 DEF Collected, Collects
  <2> QED
    BY <2>4, <2>5, <2>6
<1>4. CASE AgentEnds(u)
  <2>1. /\ doing[u] = "agent" /\ doing' = [doing EXCEPT ![u] = "chatting"]
        /\ agentTools' = [agentTools EXCEPT ![u] = NoTools] /\ UNCHANGED <<tools, offered>>
    BY <1>4 DEF AgentEnds
  <2>2. ServersTypes'
    BY <2>1, <1>1, NoToolsMap DEF Doings
  <2>3. Orderly' /\ Announced'
    BY <2>1, <1>1 DEF Orderly, Announced
  <2>4. Collected'
    BY <2>1, <1>1, NoToolsMap DEF Collected, Collects
  <2> QED
    BY <2>2, <2>3, <2>4
<1> QED
  BY <1>2, <1>3, <1>4

(* Nobody connects once a chat has begun; a server that dies is not noticed. *)
LEMMA LinkKeeps ==
  ASSUME ServersInv, Shutdown \/ \E s \in Servers : Connect(s) \/ ConnectFails(s) \/ ServerDies(s)
  PROVE  ServersInv'
<1> USE DEF ServersInv, ServersTypes
<1>1. CASE Shutdown
  <2>1. /\ \A u \in Users : doing[u] = "chatting" /\ reload[u] = DocServer
        /\ doing' = [u \in Users |-> "stopped"] /\ link' = [c \in McpClients |-> "closed"]
        /\ UNCHANGED <<loaded, tools, offered, asked, answered, reload, agentTools>>
    BY <1>1 DEF Shutdown
  <2>2. Started'
    BY <2>1 DEF Started, Tried, First, McpClients
  <2>3. ServersTypes'
    BY <2>1 DEF Links, Doings
  <2> QED
    BY <2>1, <2>2, <2>3 DEF Orderly, Collected, Collects, Announced
<1>2. ASSUME NEW s \in Servers, Connect(s) \/ ConnectFails(s)
      PROVE  ServersInv'
  <2>1. ~Started
    BY <1>2 DEF Connect, ConnectFails, Advance, Started, Tried
  <2>2. \A u \in Users : doing[u] = "nothing"
    BY <2>1 DEF Orderly
  <2>3. First(s) \in McpClients /\ UNCHANGED <<tools, offered, asked, answered, doing, reload, agentTools>>
    BY <1>2 DEF Connect, ConnectFails, First, McpClients
  <2>4. link' \in [McpClients -> Links]
    BY <1>2, <2>3 DEF Connect, ConnectFails, Advance, Links
  <2>5. loaded' \in [Servers -> McpClients \cup {NoClient}]
    BY <1>2, <2>3 DEF Connect, ConnectFails
  <2> QED
    BY <2>2, <2>3, <2>4, <2>5 DEF Orderly, Collected, Collects, Announced
<1>3. ASSUME NEW s \in Servers, ServerDies(s)
      PROVE  ServersInv'
  <2>1. /\ First(s) \in McpClients /\ link[First(s)] = "ready" /\ link' = [link EXCEPT ![First(s)] = "dead"]
        /\ UNCHANGED <<loaded, tools, offered, asked, answered, doing, reload, agentTools>>
    BY <1>3 DEF ServerDies, First, McpClients
  <2>2. Started => Started'
    BY <2>1 DEF Started, Tried, First, McpClients
  <2>3. ServersTypes' /\ Loaded' = Loaded
    BY <2>1 DEF Links, Loaded
  <2>4. Orderly' /\ Announced'
    BY <2>1, <2>2 DEF Orderly, Announced
  <2>5. Collected'
    BY <2>1, <2>3 DEF Collected, Collects, Offers
  <2> QED
    BY <2>3, <2>4, <2>5
<1> QED
  BY <1>1, <1>2, <1>3

LEMMA ServersStepInv == ServersInv /\ [ServersNext]_serverVars => ServersInv'
<1>1. ServersInv /\ UNCHANGED serverVars => ServersInv'
  BY DEF serverVars, ServersInv, ServersTypes, Orderly, Collected, Announced, Collects, Started, Tried, Loaded, Offers
<1> QED
  BY <1>1, CommandKeeps, AnswerKeeps, ChatKeeps, LinkKeeps DEF ServersNext

LEMMA ServersInvServed == ServersInv => ToolsAreServed
<1> SUFFICES ASSUME ServersInv, NEW u \in Users, doing[u] \in {"chatting", "agent"}
             PROVE  /\ offered[u] = DOMAIN tools[u]
                    /\ tools[u]["builtin"] = BuiltinClient
                    /\ \A c \in answered[u] : Offers(c[1]) \subseteq offered[u]
                    /\ \A c \in (Range(tools[u]) \cup Range(agentTools[u])) \ {BuiltinClient} :
                         c \in answered[u] \cap Loaded /\ link[c] \in {"ready", "dead"}
  BY DEF ToolsAreServed
<1> QED
  BY DEF ServersInv, Collected, Collects, Announced

-----------------------------------------------------------------------------
(***************************************************************************)
(* The virtual files.  A path that has not strayed is in memory or under a *)
(* route, never both, and what is there is what the agent expects; a real  *)
(* file has a real directory; the permissions keep memory out of what they *)
(* protect.                                                                *)
(***************************************************************************)
FilesInv ==
  /\ FilesTypeOK
  /\ \A p \in Path : disk[p] # NoFile => p[1] \in made
  /\ \A p \in Path : p[1] \in routed /\ files[p] # NoFile => p \in strayed
  /\ \A p \in Path \ strayed : Read(p) = expected[p]
  /\ \A p \in ReadOnly \X Names : files[p] = NoFile

LEMMA Protected == \A d \in ReadOnly : ~Permits("write", d)
<1> SUFFICES ASSUME NEW d \in ReadOnly, Permits("write", d)
             PROVE  FALSE
  OBVIOUS
<1> DEFINE matching == {i \in DOMAIN Rules : "write" \in Rules[i].ops /\ d \in Rules[i].dirs}
<1>1. matching = {1, 2}
  BY SomeAreReadOnly DEF Rules
<1>2. Min({1, 2}) = 1
  BY DEF Min
<1>3. Rules[Min(matching)].mode = "allow"
  BY DEF Permits
<1> HIDE DEF matching
<1> QED
  BY <1>1, <1>2, <1>3 DEF Rules

LEMMA FilesInitInv == FilesInit => FilesInv
<1> SUFFICES ASSUME FilesInit
             PROVE  FilesInv
  OBVIOUS
<1>1. FilesTypeOK
  BY DEF FilesInit, FilesTypeOK, Tree
<1>2. \A p \in ReadOnly \X Names : p \in Path
  BY SomeAreReadOnly DEF Path
<1> QED
  BY <1>1, <1>2 DEF FilesInit, FilesInv, Read, OnDisk, Path

LEMMA Paths == \A p \in Path : p[1] \in Directories /\ \A d \in Directories : p \in In(d) <=> p[1] = d
  BY DEF Path, In

LEMMA ReadOnlyPaths == \A p \in ReadOnly \X Names : p \in Path /\ p[1] \in ReadOnly
  BY SomeAreReadOnly DEF Path

(* A step is right when it is for every path that has not strayed.           *)
LEMMA PathByPath ==
  ASSUME FilesInv, FilesTypeOK', NEW paths, Stray(paths),
         \A p \in Path : disk'[p] # NoFile => p[1] \in made',
         \A p \in Path : /\ p \notin strayed /\ p \notin paths /\ (p[1] \in routed => files[p] = NoFile)
                         /\ (p[1] \in routed' => files'[p] = NoFile) /\ Read(p) = expected[p]
                         => Read(p)' = expected'[p],
         \A p \in Path : p[1] \in ReadOnly => files'[p] = files[p] \/ files'[p] = NoFile
  PROVE  FilesInv'
<1>1. strayed' = strayed \cup paths \cup {p \in Path : p[1] \in routed' /\ files'[p] # NoFile}
  BY DEF Stray
<1>2. \A p \in Path : p[1] \in routed' /\ files'[p] # NoFile => p \in strayed'
  BY <1>1
<1>3. ASSUME NEW p \in Path \ strayed'
      PROVE  Read(p)' = expected'[p]
  <2>1. p \notin strayed /\ p \notin paths /\ (p[1] \in routed' => files'[p] = NoFile)
    BY <1>1, <1>3
  <2>2. (p[1] \in routed => files[p] = NoFile) /\ Read(p) = expected[p]
    BY <2>1 DEF FilesInv
  <2> QED
    BY <2>1, <2>2
<1>4. \A p \in ReadOnly \X Names : files'[p] = NoFile
  BY ReadOnlyPaths DEF FilesInv
<1> QED
  BY <1>2, <1>3, <1>4 DEF FilesInv

LEMMA AddRouteKeeps == ASSUME FilesInv, NEW d \in Directories, AddRoute(d) PROVE FilesInv'
<1>1. /\ routed' = routed \cup {d} /\ made' = made \cup {d} /\ UNCHANGED <<files, disk>> /\ Stray({})
      /\ expected' = [p \in Path |-> IF p \in In(d) /\ disk[p] # NoFile THEN disk[p] ELSE expected[p]]
  BY DEF AddRoute
<1>2. FilesTypeOK'
  BY <1>1 DEF FilesInv, FilesTypeOK, Tree, Stray
<1>3. \A p \in Path : disk'[p] # NoFile => p[1] \in made'
  BY <1>1 DEF FilesInv
<1>4. ASSUME NEW p \in Path, p[1] \in routed' => files'[p] = NoFile, Read(p) = expected[p]
      PROVE  Read(p)' = expected'[p]
  BY <1>1, <1>4, Paths DEF Read, OnDisk
<1> QED
  BY <1>1, <1>2, <1>3, <1>4, PathByPath

LEMMA WriteKeeps ==
  ASSUME FilesInv, NEW p \in Path, NEW c \in Contents, WriteFile(p, c) \/ EditFile(p, c)
  PROVE  FilesInv'
<1>1. /\ \/ /\ disk' = [disk EXCEPT ![p] = c] /\ files' = files /\ p[1] \in routed /\ p[1] \in made'
         \/ files' = [files EXCEPT ![p] = c] /\ disk' = disk /\ ~OnDisk(p) /\ made' = made
      /\ expected' = [expected EXCEPT ![p] = c] /\ routed' = routed /\ Stray({}) /\ p[1] \notin ReadOnly
      /\ made \subseteq made' /\ made' \subseteq made \cup {p[1]} /\ p[1] \in Directories
  <2>1. CASE WriteFile(p, c)
    BY <2>1, Protected, Paths DEF WriteFile, OnDisk
  <2>2. CASE EditFile(p, c)
    BY <2>2, Protected, Paths DEF EditFile, OnDisk, FilesInv
  <2> QED
    BY <2>1, <2>2
<1>2. FilesTypeOK'
  BY <1>1 DEF FilesInv, FilesTypeOK, Tree, Stray
<1>3. \A r \in Path : disk'[r] # NoFile => r[1] \in made'
  BY <1>1 DEF FilesInv, FilesTypeOK, Tree
<1>4. ASSUME NEW r \in Path, r[1] \in routed' => files'[r] = NoFile, Read(r) = expected[r]
      PROVE  Read(r)' = expected'[r]
  BY <1>1, <1>4, SomeAreReadOnly DEF Read, OnDisk, FilesInv, FilesTypeOK, Tree
<1>5. \A r \in Path : r[1] \in ReadOnly => files'[r] = files[r]
  BY <1>1 DEF FilesInv, FilesTypeOK, Tree
<1> QED
  BY <1>1, <1>2, <1>3, <1>4, <1>5, PathByPath

LEMMA DeleteFileKeeps == ASSUME FilesInv, NEW p \in Path, DeleteFile(p) PROVE FilesInv'
<1>1. /\ \/ OnDisk(p) /\ disk' = [disk EXCEPT ![p] = NoFile] /\ files' = files
         \/ ~OnDisk(p) /\ files' = [files EXCEPT ![p] = NoFile] /\ disk' = disk
      /\ expected' = [expected EXCEPT ![p] = NoFile] /\ UNCHANGED <<made, routed>> /\ Stray({})
  BY DEF DeleteFile
<1>2. FilesTypeOK'
  BY <1>1 DEF FilesInv, FilesTypeOK, Tree, Stray
<1>3. \A r \in Path : disk'[r] # NoFile => r[1] \in made'
  BY <1>1 DEF FilesInv, FilesTypeOK, Tree
<1>4. ASSUME NEW r \in Path, r[1] \in routed' => files'[r] = NoFile, Read(r) = expected[r]
      PROVE  Read(r)' = expected'[r]
  BY <1>1, <1>4 DEF Read, OnDisk, FilesInv, FilesTypeOK, Tree
<1>5. \A r \in Path : files'[r] = files[r] \/ files'[r] = NoFile
  BY <1>1 DEF FilesInv, FilesTypeOK, Tree
<1> QED
  BY <1>1, <1>2, <1>3, <1>4, <1>5, PathByPath

LEMMA DeleteDirectoryKeeps == ASSUME FilesInv, NEW d \in Directories, DeleteDirectory(d) PROVE FilesInv'
<1>1. /\ \/ d \in routed \cap made /\ disk' = Emptied(disk, d) /\ made' = made \ {d} /\ files' = files
         \/ d \notin routed \cap made /\ files' = Emptied(files, d) /\ disk' = disk /\ made' = made
      /\ expected' = Emptied(expected, d) /\ routed' = routed /\ Stray({})
  BY DEF DeleteDirectory
<1>2. \A tree \in Tree : /\ Emptied(tree, d) \in Tree
                         /\ \A r \in Path : Emptied(tree, d)[r] = IF r[1] = d THEN NoFile ELSE tree[r]
  BY Paths DEF Emptied, Tree
<1>3. FilesTypeOK'
  BY <1>1, <1>2 DEF FilesInv, FilesTypeOK, Stray
<1>4. \A r \in Path : disk'[r] # NoFile => r[1] \in made'
  BY <1>1, <1>2 DEF FilesInv, FilesTypeOK
<1>5. ASSUME NEW r \in Path, r[1] \in routed' => files'[r] = NoFile, Read(r) = expected[r]
      PROVE  Read(r)' = expected'[r]
  BY <1>1, <1>2, <1>5 DEF Read, OnDisk, FilesInv, FilesTypeOK
<1>6. \A r \in Path : files'[r] = files[r] \/ files'[r] = NoFile
  BY <1>1, <1>2 DEF FilesInv, FilesTypeOK
<1> QED
  BY <1>1, <1>3, <1>4, <1>5, <1>6, PathByPath

LEMMA MoveKeeps == ASSUME FilesInv, NEW p \in Path, NEW q \in Path, MoveFile(p, q) PROVE FilesInv'
<1> DEFINE moved(tree) == [[tree EXCEPT ![p] = NoFile] EXCEPT ![q] = tree[p]]
<1>1. /\ \/ files[p] # NoFile /\ files' = moved(files) /\ disk' = disk
         \/ files[p] = NoFile /\ OnDisk(p) /\ q[1] \in routed \cap made /\ disk' = moved(disk) /\ files' = files
      /\ expected' = moved(expected) /\ UNCHANGED <<made, routed>> /\ Stray(IF p \in strayed THEN {q} ELSE {})
      /\ p[1] \notin ReadOnly /\ q[1] \notin ReadOnly
  BY Protected DEF MoveFile
<1>2. \A tree \in Tree : /\ moved(tree) \in Tree
                         /\ \A r \in Path : moved(tree)[r] = IF r = q THEN tree[p] ELSE IF r = p THEN NoFile ELSE tree[r]
  BY DEF Tree
<1> HIDE DEF moved
<1>3. FilesTypeOK'
  BY <1>1, <1>2 DEF FilesInv, FilesTypeOK, Stray
<1>4. \A r \in Path : disk'[r] # NoFile => r[1] \in made'
  BY <1>1, <1>2 DEF FilesInv, FilesTypeOK
<1>5. ASSUME NEW r \in Path, r \notin strayed, r \notin (IF p \in strayed THEN {q} ELSE {}),
             r[1] \in routed => files[r] = NoFile, r[1] \in routed' => files'[r] = NoFile, Read(r) = expected[r]
      PROVE  Read(r)' = expected'[r]
  <2>1. CASE r = q
    <3>1. p \notin strayed
      BY <2>1, <1>5
    <3>2. Read(p) = expected[p] /\ (p[1] \in routed => files[p] = NoFile)
      BY <3>1 DEF FilesInv
    <3> QED
      BY <2>1, <3>2, <1>1, <1>2, <1>5 DEF Read, OnDisk, FilesInv, FilesTypeOK
  <2>2. CASE r # q
    BY <2>2, <1>1, <1>2, <1>5 DEF Read, OnDisk, FilesInv, FilesTypeOK
  <2> QED
    BY <2>1, <2>2
<1>6. \A r \in Path : r[1] \in ReadOnly => files'[r] = files[r]
  BY <1>1, <1>2 DEF FilesInv, FilesTypeOK
<1> QED
  BY <1>1, <1>3, <1>4, <1>5, <1>6, PathByPath

LEMMA CopyKeeps == ASSUME FilesInv, NEW p \in Path, NEW q \in Path, CopyFile(p, q) PROVE FilesInv'
<1> DEFINE text == IF files[p] # NoFile THEN files[p] ELSE disk[p]
<1>1. /\ \/ /\ files[p] # NoFile \/ (OnDisk(p) /\ q[1] \notin routed)
            /\ files' = [files EXCEPT ![q] = text] /\ disk' = disk /\ made' = made
         \/ /\ files[p] = NoFile /\ OnDisk(p) /\ q[1] \in routed
            /\ disk' = [disk EXCEPT ![q] = disk[p]] /\ files' = files /\ made' = made \cup {q[1]}
      /\ expected' = [expected EXCEPT ![q] = expected[p]] /\ routed' = routed
      /\ Stray(IF p \in strayed THEN {q} ELSE {}) /\ q[1] \notin ReadOnly /\ q[1] \in Directories
  BY Protected, Paths DEF CopyFile
<1>2. FilesTypeOK'
  BY <1>1 DEF FilesInv, FilesTypeOK, Stray, Tree
<1>3. \A r \in Path : disk'[r] # NoFile => r[1] \in made'
  BY <1>1 DEF FilesInv, FilesTypeOK, Tree
<1>4. ASSUME NEW r \in Path, r \notin strayed, r \notin (IF p \in strayed THEN {q} ELSE {}),
             r[1] \in routed => files[r] = NoFile, r[1] \in routed' => files'[r] = NoFile, Read(r) = expected[r]
      PROVE  Read(r)' = expected'[r]
  <2>1. CASE r = q
    <3>1. p \notin strayed
      BY <2>1, <1>4
    <3>2. Read(p) = expected[p] /\ (p[1] \in routed => files[p] = NoFile)
      BY <3>1 DEF FilesInv
    <3> QED
      BY <2>1, <3>2, <1>1, <1>4 DEF Read, OnDisk, FilesInv, FilesTypeOK, Tree
  <2>2. CASE r # q
    BY <2>2, <1>1, <1>4 DEF Read, OnDisk, FilesInv, FilesTypeOK, Tree
  <2> QED
    BY <2>1, <2>2
<1>5. \A r \in Path : r[1] \in ReadOnly => files'[r] = files[r]
  BY <1>1 DEF FilesInv, FilesTypeOK, Tree
<1> QED
  BY <1>1, <1>2, <1>3, <1>4, <1>5, PathByPath

LEMMA FilesStepInv == FilesInv /\ [FilesNext]_filesVars => FilesInv'
<1> SUFFICES ASSUME FilesInv, [FilesNext]_filesVars
             PROVE  FilesInv'
  OBVIOUS
<1>1. ASSUME NEW d \in Directories, CreateDirectory(d)
      PROVE  FilesInv'
  BY <1>1 DEF CreateDirectory, FilesInv, FilesTypeOK, Read, OnDisk
<1>2. CASE UNCHANGED filesVars
  BY <1>2 DEF filesVars, FilesInv, FilesTypeOK, Read, OnDisk
<1> QED
  BY <1>1, <1>2, AddRouteKeeps, WriteKeeps, DeleteFileKeeps, DeleteDirectoryKeeps, MoveKeeps, CopyKeeps DEF FilesNext

(* The listing of a directory, entry by entry.                               *)
LEMMA ListedAsRead ==
  ASSUME FilesInv, NEW d \in Directories
  PROVE  ListDirectory(d) = {<<p[2], Read(p)>> : p \in {q \in In(d) : Read(q) # NoFile}}
<1>1. \A p \in In(d) : p \in Path /\ p[1] = d /\ p[2] \in Names
  BY DEF In, Path
<1>2. \A p \in In(d) : OnDisk(p) <=> d \in routed \cap made /\ disk[p] # NoFile
  BY <1>1 DEF OnDisk, FilesInv
<1>3. Real(d) = {<<p[2], disk[p]>> : p \in {q \in In(d) : OnDisk(q)}}
  BY <1>2 DEF Real
<1>4. ListDirectory(d) \subseteq {<<p[2], Read(p)>> : p \in {q \in In(d) : Read(q) # NoFile}}
  <2> SUFFICES ASSUME NEW e \in ListDirectory(d)
               PROVE  \E p \in In(d) : Read(p) # NoFile /\ e = <<p[2], Read(p)>>
    OBVIOUS
  <2>1. CASE e \in Real(d)
    <3>1. PICK p \in In(d) : OnDisk(p) /\ e = <<p[2], disk[p]>>
      BY <2>1, <1>3
    <3> QED
      BY <3>1 DEF Read, OnDisk
  <2>2. CASE e \notin Real(d)
    <3>1. e \in InMemory(d) /\ \A r \in Real(d) : r[1] # e[1]
      BY <2>2 DEF ListDirectory
    <3>2. PICK p \in In(d) : files[p] # NoFile /\ e = <<p[2], files[p]>>
      BY <3>1 DEF InMemory
    <3>3. ~OnDisk(p)
      <4>1. OnDisk(p) => <<p[2], disk[p]>> \in Real(d)
        BY <1>3
      <4>2. <<p[2], disk[p]>>[1] = e[1]
        BY <3>2
      <4> QED
        BY <4>1, <4>2, <3>1
    <3> QED
      BY <3>2, <3>3 DEF Read
  <2> QED
    BY <2>1, <2>2
<1>5. ASSUME NEW p \in In(d), Read(p) # NoFile
      PROVE  <<p[2], Read(p)>> \in ListDirectory(d)
  <2>1. CASE OnDisk(p)
    BY <2>1, <1>3 DEF Read, ListDirectory
  <2>2. CASE ~OnDisk(p)
    <3>1. <<p[2], files[p]>> \in InMemory(d) /\ Read(p) = files[p]
      BY <2>2, <1>5 DEF InMemory, Read
    <3>2. ASSUME NEW r \in Real(d)
          PROVE  r[1] # p[2]
      <4>1. PICK q \in In(d) : OnDisk(q) /\ r = <<q[2], disk[q]>>
        BY <3>2, <1>3
      <4>2. r[1] = q[2]
        BY <4>1
      <4>3. q[2] = p[2] => q = p
        BY DEF In
      <4> QED
        BY <4>1, <4>2, <4>3, <2>2
    <3>3. <<p[2], files[p]>>[1] = p[2]
      OBVIOUS
    <3> QED
      BY <3>1, <3>2, <3>3 DEF ListDirectory
  <2> QED
    BY <2>1, <2>2
<1> QED
  BY <1>4, <1>5

(* A path is there if either store has it.                                   *)
LEMMA ThereAre ==
  ASSUME FilesInv, NEW d \in Directories, NEW p \in In(d)
  PROVE  /\ p \in Path /\ p[1] = d /\ p[2] \in Names
         /\ OnDisk(p) <=> d \in routed \cap made /\ disk[p] # NoFile
         /\ Read(p) # NoFile <=> OnDisk(p) \/ files[p] # NoFile
<1>1. p \in Path /\ p[1] = d /\ p[2] \in Names
  BY DEF In, Path
<1>2. OnDisk(p) <=> d \in routed \cap made /\ disk[p] # NoFile
  BY <1>1 DEF OnDisk, FilesInv
<1> QED
  BY <1>1, <1>2 DEF Read, OnDisk

(* A search finds nothing that is not there, and a piece of a name all there *)
(* is of it under a root.                                                    *)
LEMMA SearchesAre == FilesInv => SearchesAreRight
<1> SUFFICES ASSUME FilesInv, NEW m \in Patterns
             PROVE  /\ \A d \in Directories :
                         /\ SearchFiles(d, m) \subseteq There(d)
                         /\ PieceOfName(m) => SearchFiles(d, m) = {p \in There(d) : p[2] \in m.inName}
                    /\ \A p \in SearchAll(m) : Read(p) # NoFile /\ (p[1] \in routed => p \in strayed)
                    /\ \A p \in m.glob \cup m.inPath : Read(p) # NoFile /\ p[1] \notin routed => p \in SearchAll(m)
  BY DEF SearchesAreRight
<1>1. m.glob \subseteq Path /\ m.inPath \subseteq Path /\ m.inName \subseteq Names
  BY DEF Patterns
<1>2. ASSUME NEW d \in Directories
      PROVE  SearchFiles(d, m) \subseteq There(d)
  <2> SUFFICES ASSUME NEW p \in SearchFiles(d, m)
               PROVE  p \in There(d)
    OBVIOUS
  <2>1. p \in In(d) /\ (files[p] # NoFile \/ (d \in routed \cap made /\ disk[p] # NoFile))
    BY DEF SearchFiles, SearchAll
  <2> QED
    BY <2>1, ThereAre DEF There
<1>3. ASSUME NEW d \in Directories, PieceOfName(m)
      PROVE  SearchFiles(d, m) = {p \in There(d) : p[2] \in m.inName}
  <2>1. \A p \in In(d) : p \in m.glob \cup m.inPath <=> p[2] \in m.inName
    <3>1. \A p \in In(d) : p = <<d, p[2]>>
      BY DEF In
    <3> QED
      BY <3>1, <1>3 DEF PieceOfName
  <2>2. \A p \in In(d) : p \in SearchFiles(d, m) <=>
          p[2] \in m.inName /\ (files[p] # NoFile \/ (d \in routed \cap made /\ disk[p] # NoFile))
    BY <2>1 DEF SearchFiles, SearchAll
  <2>3. \A p \in In(d) : p \in SearchFiles(d, m) <=> p[2] \in m.inName /\ Read(p) # NoFile
    BY <2>2, ThereAre
  <2>4. SearchFiles(d, m) \subseteq In(d)
    BY DEF SearchFiles
  <2> QED
    BY <2>3, <2>4 DEF There
<1>4. ASSUME NEW p \in m.glob \cup m.inPath
      PROVE  p \in Path /\ p \in In(p[1]) /\ p[1] \in Directories
  BY <1>1 DEF Path, In
<1>5. ASSUME NEW p \in SearchAll(m)
      PROVE  Read(p) # NoFile /\ (p[1] \in routed => p \in strayed)
  <2>1. p \in m.glob \cup m.inPath /\ files[p] # NoFile
    BY DEF SearchAll
  <2> QED
    BY <2>1, <1>4, ThereAre DEF FilesInv
<1>6. ASSUME NEW p \in m.glob \cup m.inPath, Read(p) # NoFile, p[1] \notin routed
      PROVE  p \in SearchAll(m)
  BY <1>6 DEF SearchAll, Read, OnDisk
<1> QED
  BY <1>2, <1>3, <1>5, <1>6

LEMMA FilesInvOneTree == FilesInv => OneTree
  BY ListedAsRead, SearchesAre DEF FilesInv, OneTree, Info, Read, There

-----------------------------------------------------------------------------
(***************************************************************************)
(* The log of rewards implements the durable map: for any keys, values,    *)
(* batches, failed writes and crashes.                                     *)
(***************************************************************************)

(* What a log holds for a key: the last line with the key counts.            *)
With(q, k) == {i \in DOMAIN q : k \in DOMAIN q[i]}
Found(q, k, old) == IF With(q, k) = {} THEN old ELSE q[Rewards!Max(With(q, k))][k]

LEMMA LastElement ==
  ASSUME NEW n \in Nat, NEW T \in SUBSET (1..n), T # {}
  PROVE  Rewards!Max(T) \in T /\ \A y \in T : y <= Rewards!Max(T)
<1>0. \A x \in T : x \in Nat /\ n - x \in Nat
  OBVIOUS
<1> DEFINE down == {n - x : x \in T}
<1>1. PICK z \in down : \A y \in down : z <= y
  <2>1. down \subseteq Nat /\ down # {}
    BY <1>0
  <2> HIDE DEF down
  <2> QED
    BY <2>1, LeastElement
<1>2. PICK x \in T : z = n - x
  BY <1>1
<1>3. ASSUME NEW y \in T PROVE x >= y
  <2>1. n - y \in down
    OBVIOUS
  <2>2. n - x <= n - y
    BY <1>1, <1>2, <2>1
  <2>3. x \in Nat /\ y \in Nat
    BY <1>0
  <2> HIDE DEF down
  <2> QED
    BY <2>2, <2>3
<1> QED
  BY <1>3 DEF Rewards!Max

LEMMA FoundLast ==
  ASSUME NEW q \in Seq(Rewards!Lines), NEW k, With(q, k) # {}
  PROVE  /\ Rewards!Max(With(q, k)) \in With(q, k)
         /\ \A i \in With(q, k) : i <= Rewards!Max(With(q, k))
<1>1. Len(q) \in Nat /\ With(q, k) \in SUBSET (1..Len(q))
  BY DEF With
<1> QED
  BY <1>1, LastElement

LEMMA FoundKind ==
  ASSUME NEW q \in Seq(Rewards!Lines), NEW k \in Keys, NEW old
  PROVE  /\ Found(q, k, old) \in Values \cup {old}
         /\ With(q, k) # {} => Found(q, k, old) \in Values
<1>1. CASE With(q, k) = {}
  BY <1>1 DEF Found
<1>2. CASE With(q, k) # {}
  <2>1. PICK i \in With(q, k) : i = Rewards!Max(With(q, k))
    BY <1>2, FoundLast
  <2>2. i \in DOMAIN q /\ k \in DOMAIN q[i]
    BY DEF With
  <2>3. q[i] \in Rewards!Lines
    BY <2>2
  <2>4. q[i][k] \in Values
    BY <2>2, <2>3 DEF Rewards!Lines
  <2> QED
    BY <1>2, <2>1, <2>4 DEF Found
<1> QED
  BY <1>1, <1>2

LEMMA FoundAppend ==
  ASSUME NEW q \in Seq(Rewards!Lines), NEW line \in Rewards!Lines, NEW k, NEW old
  PROVE  Found(Append(q, line), k, old) = IF k \in DOMAIN line THEN line[k] ELSE Found(q, k, old)
<1> DEFINE n == Len(q)
           p == Append(q, line)
<1>1. n \in Nat /\ DOMAIN q = 1..n /\ DOMAIN p = 1..(n + 1) /\ p[n + 1] = line /\ \A i \in 1..n : p[i] = q[i]
  OBVIOUS
<1>2. p \in Seq(Rewards!Lines)
  OBVIOUS
<1> HIDE DEF n, p
<1>3. CASE k \in DOMAIN line
  <2>1. n + 1 \in With(p, k)
    BY <1>1, <1>3 DEF With
  <2>2. Rewards!Max(With(p, k)) \in With(p, k) /\ n + 1 <= Rewards!Max(With(p, k))
    BY <1>2, <2>1, FoundLast
  <2>3. Rewards!Max(With(p, k)) = n + 1
    BY <1>1, <2>2 DEF With
  <2> QED
    BY <1>1, <1>3, <2>1, <2>3 DEF Found, p
<1>4. CASE k \notin DOMAIN line
  <2>1. With(p, k) = With(q, k)
    BY <1>1, <1>4 DEF With
  <2>2. With(q, k) # {} => Rewards!Max(With(q, k)) \in 1..n
    BY <1>1, FoundLast DEF With
  <2> QED
    BY <1>1, <1>4, <2>1, <2>2 DEF Found, p
<1> QED
  BY <1>3, <1>4

LEMMA JunkFacts == Rewards!Junk \in Rewards!Lines /\ DOMAIN Rewards!Junk = {}
<1>1. Rewards!Junk = [k \in {} |-> k] /\ [k \in {} |-> k] \in [{} -> Values]
  BY DEF Rewards!Junk
<1> QED
  BY <1>1 DEF Rewards!Lines

LEMMA FoundSpoilt ==
  ASSUME NEW q \in Seq(Rewards!Lines), q # <<>>, NEW k, k \notin DOMAIN q[Len(q)], NEW old
  PROVE  Found([q EXCEPT ![Len(q)] = Rewards!Junk], k, old) = Found(q, k, old)
<1> DEFINE n == Len(q)
           p == [q EXCEPT ![n] = Rewards!Junk]
<1>1. n \in Nat /\ DOMAIN q = 1..n /\ DOMAIN p = 1..n /\ \A i \in 1..n : i # n => p[i] = q[i]
  OBVIOUS
<1>2. n \in 1..n => p[n] = Rewards!Junk
  OBVIOUS
<1>3. k \notin DOMAIN q[n]
  OBVIOUS
<1> HIDE DEF n, p
<1>4. With(p, k) = With(q, k)
  BY <1>1, <1>2, <1>3, JunkFacts DEF With
<1>5. With(q, k) # {} => Rewards!Max(With(q, k)) \in 1..n /\ Rewards!Max(With(q, k)) # n
  BY <1>1, <1>3, FoundLast DEF With
<1>6. Found(p, k, old) = Found(q, k, old)
  BY <1>1, <1>4, <1>5 DEF Found
<1> QED
  BY <1>6 DEF n, p

LEMMA FoundOne ==
  ASSUME NEW line \in Rewards!Lines, NEW k, NEW old
  PROVE  Found(<<line>>, k, old) = IF k \in DOMAIN line THEN line[k] ELSE old
<1> DEFINE p == <<line>>
<1>1. p \in Seq(Rewards!Lines) /\ DOMAIN p = 1..1 /\ p[1] = line
  OBVIOUS
<1> HIDE DEF p
<1>2. CASE k \in DOMAIN line
  <2>1. With(p, k) # {} /\ With(p, k) \subseteq {1}
    BY <1>1, <1>2 DEF With
  <2>2. Rewards!Max(With(p, k)) = 1
    BY <1>1, <2>1, FoundLast
  <2> QED
    BY <1>1, <1>2, <2>1, <2>2 DEF Found, p
<1>3. CASE k \notin DOMAIN line
  <2>1. With(p, k) = {}
    BY <1>1, <1>3 DEF With
  <2> QED
    BY <1>3, <2>1 DEF Found, p
<1> QED
  BY <1>2, <1>3

LEMMA ReadBackFacts ==
  ASSUME NEW line
  PROVE  /\ Rewards!ReadBack(line) \in {Rewards!Junk, line}
         /\ (\E j \in DOMAIN line : line[j] \in Splitting) => Rewards!ReadBack(line) = Rewards!Junk
         /\ (\A j \in DOMAIN line : line[j] \notin Splitting) => Rewards!ReadBack(line) = line
BY DEF Rewards!ReadBack

(* A namespace in use has no file of the old format any more, and one that   *)
(* has such a file holds what it holds; only the last line may lack its      *)
(* newline; and between the snapshot and the unlink of the old file, the     *)
(* snapshot has every key that the old file has, or came back as junk.       *)
Working == rewardsPc \in {"append", "replace"}
RewardsInv ==
  /\ log \in Seq(Rewards!Lines) /\ ended \in BOOLEAN /\ (~ended => log # <<>>)
  /\ legacy \in Rewards!Maps \cup {Gone} /\ rewards \in Rewards!Maps \cup {Unloaded}
  /\ rewardsPc \in {"idle", "migrate", "unlink", "append", "replace"} /\ rewardsItems \in SUBSET Keys
  /\ (Working => rewards # Unloaded) /\ (~Working => rewardsItems = {})
  /\ rewardsPc = "append" => \A k \in rewardsItems : rewards[k] \in Values
  /\ rewardsPc \in {"migrate", "unlink"} => legacy # Gone
  /\ legacy # Gone => ended /\ rewards = Unloaded
  /\ legacy # Gone => Rewards!Stored = legacy
  /\ rewardsPc = "unlink" =>
       \/ \A k \in Keys : With(log, k) = {} => legacy[k] = NoValue
       \/ Rewards!Durable!Spoils(legacy) /\ \A k \in Keys : With(log, k) = {}

Frail == IF ended THEN {} ELSE DOMAIN log[Len(log)]

LEMMA StoredNow ==
  RewardsInv => /\ Rewards!Stored = [k \in Keys |-> Found(log, k, Rewards!FromLegacy(k))]
                /\ Rewards!Stored \in Rewards!Maps
                /\ \A k \in Keys : Rewards!FromLegacy(k) \in Values \cup {NoValue}
<1> SUFFICES ASSUME RewardsInv
             PROVE  /\ Rewards!Stored = [k \in Keys |-> Found(log, k, Rewards!FromLegacy(k))]
                    /\ Rewards!Stored \in Rewards!Maps
                    /\ \A k \in Keys : Rewards!FromLegacy(k) \in Values \cup {NoValue}
  OBVIOUS
<1>1. Rewards!Stored = [k \in Keys |-> Found(log, k, Rewards!FromLegacy(k))]
  BY DEF Rewards!Stored, Found, With
<1>2. \A k \in Keys : Rewards!FromLegacy(k) \in Values \cup {NoValue}
  BY DEF Rewards!FromLegacy, RewardsInv, Rewards!Maps
<1>3. \A k \in Keys : Found(log, k, Rewards!FromLegacy(k)) \in Values \cup {NoValue}
  BY <1>2, FoundKind DEF RewardsInv
<1> QED
  BY <1>1, <1>2, <1>3 DEF Rewards!Maps

LEMMA StoredThen ==
  Rewards!Stored' =
    [k \in Keys |-> Found(log', k, IF legacy' = Gone THEN NoValue ELSE legacy'[k])]
BY DEF Rewards!Stored, Rewards!FromLegacy, Found, With

LEMMA StoredNextKind == RewardsInv' => Rewards!Stored' \in Rewards!Maps
<1> SUFFICES ASSUME RewardsInv' PROVE Rewards!Stored' \in Rewards!Maps
  OBVIOUS
<1>1. ASSUME NEW k \in Keys
      PROVE  Found(log', k, IF legacy' = Gone THEN NoValue ELSE legacy'[k]) \in Values \cup {NoValue}
  <2>1. PICK old \in Values \cup {NoValue} : old = IF legacy' = Gone THEN NoValue ELSE legacy'[k]
    BY DEF RewardsInv, Rewards!Maps
  <2>2. Found(log', k, old) \in Values \cup {old}
    BY FoundKind DEF RewardsInv
  <2> QED
    BY <2>1, <2>2
<1> QED
  BY <1>1, StoredThen DEF Rewards!Maps

LEMMA StoredStays ==
  ASSUME UNCHANGED <<log, ended, legacy>>
  PROVE  Rewards!Stored' = Rewards!Stored /\ Frail' = Frail
BY StoredThen DEF Rewards!Stored, Rewards!FromLegacy, Found, With, Frail

(* A snapshot holds the map it was made of, or nothing at all.               *)
LEMMA CompactedFacts ==
  ASSUME RewardsInv, NEW m \in Rewards!Maps, Rewards!Compacted(m), UNCHANGED legacy
  PROVE  /\ log' \in Seq(Rewards!Lines) /\ log' # <<>> /\ ended' = TRUE /\ Frail' = {}
         /\ \/ /\ Rewards!Stored' = [k \in Keys |-> IF m[k] = NoValue THEN Rewards!FromLegacy(k) ELSE m[k]]
               /\ \A k \in Keys : With(log', k) = {} => m[k] = NoValue
            \/ /\ Rewards!Stored' = [k \in Keys |-> Rewards!FromLegacy(k)]
               /\ Rewards!Durable!Spoils(m) /\ \A k \in Keys : With(log', k) = {}
<1> DEFINE whole == Rewards!Snapshot(m)
<1>1. DOMAIN whole = {k \in Keys : m[k] # NoValue} /\ \A k \in DOMAIN whole : whole[k] = m[k] /\ whole[k] \in Values
  BY DEF Rewards!Snapshot, Rewards!Restrict, Rewards!Maps
<1>2. whole \in Rewards!Lines
  <2>1. whole = [k \in DOMAIN whole |-> whole[k]]
    BY DEF Rewards!Snapshot, Rewards!Restrict
  <2>2. whole \in [DOMAIN whole -> Values]
    BY <2>1, <1>1
  <2>3. DOMAIN whole \in SUBSET Keys
    BY <1>1
  <2> HIDE DEF whole
  <2> QED
    BY <2>2, <2>3 DEF Rewards!Lines
<1>3. log' = <<Rewards!ReadBack(whole)>> /\ ended' = TRUE
  BY DEF Rewards!Compacted
<1> HIDE DEF whole
<1>4. PICK line \in Rewards!Lines : line = Rewards!ReadBack(whole)
  BY <1>2, ReadBackFacts, JunkFacts
<1>5. log' = <<line>>
  BY <1>3, <1>4
<1>6. log' \in Seq(Rewards!Lines) /\ log' # <<>> /\ DOMAIN log' = {1} /\ log'[1] = line
  BY <1>5
<1>7. ASSUME NEW k \in Keys
      PROVE  Found(log', k, IF legacy' = Gone THEN NoValue ELSE legacy'[k]) =
               IF k \in DOMAIN line THEN line[k] ELSE Rewards!FromLegacy(k)
  <2>1. PICK old : old = Rewards!FromLegacy(k) /\ old = IF legacy' = Gone THEN NoValue ELSE legacy'[k]
    BY DEF Rewards!FromLegacy
  <2>2. Found(<<line>>, k, old) = IF k \in DOMAIN line THEN line[k] ELSE old
    BY FoundOne
  <2> QED
    BY <1>5, <2>1, <2>2
<1>8. CASE \A j \in DOMAIN whole : whole[j] \notin Splitting
  <2>1. line = whole
    BY <1>4, <1>8, ReadBackFacts
  <2>2. Rewards!Stored' = [k \in Keys |-> IF m[k] = NoValue THEN Rewards!FromLegacy(k) ELSE m[k]]
    BY <1>1, <1>7, <2>1, StoredThen
  <2>3. \A k \in Keys : With(log', k) = {} => m[k] = NoValue
    BY <1>1, <1>6, <2>1 DEF With
  <2> QED
    BY <1>3, <1>6, <2>2, <2>3 DEF Frail
<1>9. CASE \E j \in DOMAIN whole : whole[j] \in Splitting
  <2>1. line = Rewards!Junk
    BY <1>4, <1>9, ReadBackFacts
  <2>2. DOMAIN line = {}
    BY <2>1, JunkFacts
  <2>3. Rewards!Stored' = [k \in Keys |-> Rewards!FromLegacy(k)]
    BY <1>7, <2>2, StoredThen
  <2>4. \A k \in Keys : With(log', k) = {}
    BY <1>6, <2>2 DEF With
  <2>5. Rewards!Durable!Spoils(m)
    BY <1>1, <1>9 DEF Rewards!Durable!Spoils
  <2> QED
    BY <1>3, <1>6, <2>3, <2>4, <2>5 DEF Frail
<1> QED
  BY <1>8, <1>9

(* A line that is written whole or in part sets its own key; it spoils the   *)
(* line before it if that was cut off.                                       *)
LEMMA WrittenFacts ==
  ASSUME RewardsInv, rewardsPc = "append", NEW k \in rewardsItems,
         NEW line \in {Rewards!Junk, Rewards!Entry(k)}, log' = Rewards!Written(line), UNCHANGED legacy
  PROVE  /\ log' \in Seq(Rewards!Lines) /\ log' # <<>>
         /\ ended => /\ log'[Len(log')] = line /\ DOMAIN line \in SUBSET {k}
                     /\ \A j \in Keys : Rewards!Stored'[j] = IF j \in DOMAIN line THEN rewards[j] ELSE Rewards!Stored[j]
         /\ ~ended => /\ DOMAIN log'[Len(log')] = {}
                      /\ \A j \in Keys \ Frail : Rewards!Stored'[j] = Rewards!Stored[j]
<1>1. line \in Rewards!Lines /\ DOMAIN line \in SUBSET {k} /\ \A j \in DOMAIN line : line[j] = rewards[j]
  <2>1. CASE line = Rewards!Junk
    BY <2>1, JunkFacts
  <2>2. CASE line = Rewards!Entry(k)
    <3>1. line = [j \in {k} |-> rewards[k]] /\ rewards[k] \in Values /\ {k} \in SUBSET Keys
      BY <2>2 DEF Rewards!Entry, RewardsInv
    <3>2. line \in [{k} -> Values]
      BY <3>1
    <3> QED
      BY <3>1, <3>2 DEF Rewards!Lines
  <2> QED
    BY <2>1, <2>2
<1>2. log \in Seq(Rewards!Lines)
  BY DEF RewardsInv
<1>3. PICK old : old = [j \in Keys |-> Rewards!FromLegacy(j)]
  OBVIOUS
<1>4. /\ \A j \in Keys : Rewards!Stored[j] = Found(log, j, old[j])
      /\ \A j \in Keys : Rewards!Stored'[j] = Found(log', j, old[j])
  BY <1>3, StoredNow, StoredThen DEF Rewards!FromLegacy
<1>5. CASE ended
  <2>1. log' = Append(log, line)
    BY <1>5 DEF Rewards!Written
  <2>2. log' \in Seq(Rewards!Lines) /\ log' # <<>> /\ log'[Len(log')] = line
    BY <1>1, <1>2, <2>1
  <2>3. \A j \in Keys : Found(Append(log, line), j, old[j]) = IF j \in DOMAIN line THEN line[j] ELSE Found(log, j, old[j])
    BY <1>1, <1>2, FoundAppend
  <2> QED
    BY <1>1, <1>4, <1>5, <2>1, <2>2, <2>3
<1>6. CASE ~ended
  <2>1. log' = [log EXCEPT ![Len(log)] = Rewards!Junk] /\ log # <<>>
    BY <1>6 DEF Rewards!Written, RewardsInv
  <2>2. log' \in Seq(Rewards!Lines) /\ log' # <<>> /\ Len(log') = Len(log) /\ log'[Len(log')] = Rewards!Junk
    BY <1>2, <2>1, JunkFacts
  <2>3. ASSUME NEW j \in Keys, j \notin DOMAIN log[Len(log)]
        PROVE  Found([log EXCEPT ![Len(log)] = Rewards!Junk], j, old[j]) = Found(log, j, old[j])
    BY <1>2, <2>1, <2>3, FoundSpoilt
  <2> QED
    BY <1>4, <1>6, <2>1, <2>2, <2>3, JunkFacts DEF Frail
<1> QED
  BY <1>5, <1>6

(* The end of a write, by an error or a crash.                               *)
LEMMA CutOffKeeps ==
  ASSUME RewardsInv, Rewards!CutOff, UNCHANGED legacy, rewardsPc' = "idle", rewardsItems' = {},
         rewards' = rewards \/ rewards' = Unloaded
  PROVE  RewardsInv' /\ Rewards!Durable!CutOff
<1>1. CASE UNCHANGED <<log, ended>>
  <2>2. Rewards!Stored' = Rewards!Stored /\ Frail' = Frail
    BY <1>1, StoredStays
  <2>1. RewardsInv'
    BY <1>1, <2>2 DEF RewardsInv, Working
  <2> QED
    BY <1>1, <2>1, <2>2 DEF Rewards!Durable!CutOff, Frail
<1>2. CASE rewardsPc = "append" /\ ended' = FALSE /\
           \E k \in rewardsItems : \E line \in {Rewards!Junk, Rewards!ReadBack(Rewards!Entry(k))} : log' = Rewards!Written(line)
  <2>0. PICK k \in rewardsItems : \E line \in {Rewards!Junk, Rewards!ReadBack(Rewards!Entry(k))} : log' = Rewards!Written(line)
    BY <1>2
  <2>1. PICK line \in {Rewards!Junk, Rewards!Entry(k)} : log' = Rewards!Written(line)
    BY <2>0, ReadBackFacts
  <2>2. /\ log' \in Seq(Rewards!Lines) /\ log' # <<>>
        /\ ended => /\ log'[Len(log')] = line /\ DOMAIN line \in SUBSET {k}
                    /\ \A j \in Keys : Rewards!Stored'[j] = IF j \in DOMAIN line THEN rewards[j] ELSE Rewards!Stored[j]
        /\ ~ended => /\ DOMAIN log'[Len(log')] = {}
                     /\ \A j \in Keys \ Frail : Rewards!Stored'[j] = Rewards!Stored[j]
    BY <1>2, <2>1, WrittenFacts
  <2>3. legacy = Gone /\ legacy' = Gone /\ rewards # Unloaded
    BY <1>2 DEF RewardsInv, Working
  <2>4. RewardsInv'
    BY <1>2, <2>2, <2>3 DEF RewardsInv, Working
  <2>5. Rewards!Stored' \in Rewards!Maps
    BY <2>4, StoredNextKind
  <2>6. PICK d \in SUBSET rewardsItems :
          /\ d = DOMAIN log'[Len(log')] /\ Rewards!Durable!AtMostOne(d)
          /\ \A j \in Keys \ Frail : Rewards!Stored'[j] = IF j \in d THEN rewards[j] ELSE Rewards!Stored[j]
    BY <2>2, <2>1 DEF Rewards!Durable!AtMostOne, Frail
  <2>7. Frail' = d
    BY <1>2, <2>6 DEF Frail
  <2> QED
    BY <1>2, <2>1, <2>4, <2>5, <2>6, <2>7 DEF Rewards!Durable!CutOff, Frail, Rewards!Maps, Rewards!Durable!Maps
<1> QED
  BY <1>1, <1>2 DEF Rewards!CutOff

(* Every step keeps the invariant, and is one of the durable map or leaves   *)
(* it as it is.                                                              *)
LEMMA RewardsStep ==
  ASSUME RewardsInv, [Rewards!Next]_rewardVars
  PROVE  RewardsInv' /\ [Rewards!Durable!Next]_(Rewards!Durable!vars)
<1>0. Rewards!Stored \in Rewards!Maps /\ \A k \in Keys : Rewards!FromLegacy(k) \in Values \cup {NoValue}
  BY StoredNow
<1>1. CASE UNCHANGED rewardVars
  <2>2. UNCHANGED <<log, ended, legacy, rewards, rewardsItems>>
    BY <1>1 DEF rewardVars
  <2>3. Rewards!Stored' = Rewards!Stored /\ Frail' = Frail
    BY <2>2, StoredStays
  <2>1. RewardsInv'
    BY <1>1, <2>3 DEF rewardVars, RewardsInv, Working
  <2> QED
    BY <2>1, <2>2, <2>3 DEF Rewards!Durable!vars, Frail
<1>2. CASE Rewards!Load
  <2>1. UNCHANGED <<log, ended, legacy, rewardsItems>>
    BY <1>2 DEF Rewards!Load
  <2>2. Rewards!Stored' = Rewards!Stored /\ Frail' = Frail
    BY <2>1, StoredStays
  <2>3. RewardsInv'
    BY <1>0, <1>2, <2>1, <2>2 DEF Rewards!Load, RewardsInv, Working
  <2>4. CASE legacy = Gone
    BY <1>2, <2>1, <2>2, <2>3, <2>4 DEF Rewards!Load, Rewards!Durable!Load, Rewards!Durable!Next, Frail
  <2>5. CASE legacy # Gone
    BY <1>2, <2>1, <2>2, <2>3, <2>5 DEF Rewards!Load, Rewards!Durable!vars, Frail
  <2> QED
    BY <2>4, <2>5
<1>3. CASE Rewards!Migrate
  <2>1. /\ Rewards!Compacted(Rewards!Stored) /\ UNCHANGED <<legacy, rewards, rewardsItems>>
        /\ legacy # Gone /\ ended = TRUE /\ rewardsPc' = "unlink"
    BY <1>3 DEF Rewards!Migrate, RewardsInv
  <2>2. PICK m \in Rewards!Maps : m = Rewards!Stored /\ m = legacy
    BY <1>0, <2>1 DEF RewardsInv
  <2>3. /\ log' \in Seq(Rewards!Lines) /\ log' # <<>> /\ ended' = TRUE /\ Frail' = {}
        /\ \/ /\ Rewards!Stored' = [k \in Keys |-> IF m[k] = NoValue THEN Rewards!FromLegacy(k) ELSE m[k]]
              /\ \A k \in Keys : With(log', k) = {} => m[k] = NoValue
           \/ /\ Rewards!Stored' = [k \in Keys |-> Rewards!FromLegacy(k)]
              /\ Rewards!Durable!Spoils(m) /\ \A k \in Keys : With(log', k) = {}
    BY <2>1, <2>2, CompactedFacts
  <2>4. m = [k \in Keys |-> m[k]] /\ \A k \in Keys : Rewards!FromLegacy(k) = m[k]
    BY <2>1, <2>2 DEF Rewards!FromLegacy, Rewards!Maps
  <2>5. Rewards!Stored' = m
    BY <2>3, <2>4
  <2>6. \/ \A k \in Keys : With(log', k) = {} => legacy'[k] = NoValue
        \/ Rewards!Durable!Spoils(legacy') /\ \A k \in Keys : With(log', k) = {}
    BY <2>1, <2>2, <2>3 DEF Rewards!Durable!Spoils
  <2>7. RewardsInv'
    BY <2>1, <2>2, <2>3, <2>5, <2>6 DEF RewardsInv, Working, Rewards!Durable!Spoils
  <2> QED
    BY <2>1, <2>2, <2>3, <2>5, <2>7 DEF Rewards!Durable!vars, Frail
<1>4. CASE Rewards!Unlink
  <2>1. /\ rewards' = Rewards!Stored /\ legacy' = Gone /\ UNCHANGED <<log, ended, rewardsItems>>
        /\ rewards = Unloaded /\ ended = TRUE /\ legacy # Gone /\ Rewards!Stored = legacy
    BY <1>4 DEF Rewards!Unlink, RewardsInv
  <2>2. \A k \in Keys : Rewards!Stored[k] = Found(log, k, legacy[k])
    BY <2>1, StoredNow DEF Rewards!FromLegacy
  <2>3. Rewards!Stored' = [k \in Keys |-> Found(log, k, NoValue)]
    BY <2>1, StoredThen
  <2>4. \/ Rewards!Stored' = Rewards!Stored
        \/ Rewards!Durable!Spoils(Rewards!Stored) /\ Rewards!Stored' = Rewards!Durable!Empty
    <3>1. CASE \A k \in Keys : With(log, k) = {} => legacy[k] = NoValue
      <4>1. \A k \in Keys : Found(log, k, NoValue) = Rewards!Stored[k]
        BY <2>2, <3>1 DEF Found
      <4> QED
        BY <1>0, <2>3, <4>1 DEF Rewards!Maps
    <3>2. CASE Rewards!Durable!Spoils(legacy) /\ \A k \in Keys : With(log, k) = {}
      BY <2>1, <2>3, <3>2 DEF Found, Rewards!Durable!Empty
    <3> QED
      BY <1>4, <3>1, <3>2 DEF Rewards!Unlink, RewardsInv
  <2>5. RewardsInv'
    BY <1>0, <1>4, <2>1 DEF Rewards!Unlink, RewardsInv, Working
  <2>6. Rewards!Durable!Load
    BY <2>1, <2>4 DEF Rewards!Durable!Load, Frail
  <2> QED
    BY <2>5, <2>6 DEF Rewards!Durable!Next
<1>5. CASE Rewards!Replace
  <2>1. PICK m \in Rewards!Maps : m = rewards /\ legacy = Gone
    BY <1>5 DEF Rewards!Replace, RewardsInv, Working
  <2>2. Rewards!Compacted(m) /\ UNCHANGED <<legacy, rewards>> /\ rewardsItems' = {} /\ rewardsPc' = "idle"
    BY <1>5, <2>1 DEF Rewards!Replace
  <2>3. /\ log' \in Seq(Rewards!Lines) /\ log' # <<>> /\ ended' = TRUE /\ Frail' = {}
        /\ \/ Rewards!Stored' = [k \in Keys |-> IF m[k] = NoValue THEN Rewards!FromLegacy(k) ELSE m[k]]
           \/ Rewards!Stored' = [k \in Keys |-> Rewards!FromLegacy(k)] /\ Rewards!Durable!Spoils(m)
    BY <2>1, <2>2, CompactedFacts
  <2>4. RewardsInv'
    BY <2>1, <2>2, <2>3 DEF RewardsInv, Working
  <2>5. m # Unloaded
    BY <1>5, <2>1 DEF Rewards!Replace, RewardsInv, Working
  <2>6. \A k \in Keys : Rewards!FromLegacy(k) = NoValue
    BY <2>1 DEF Rewards!FromLegacy
  <2>7. CASE Rewards!Stored' = [k \in Keys |-> IF m[k] = NoValue THEN Rewards!FromLegacy(k) ELSE m[k]]
    <3>1. Rewards!Stored' = m
      BY <2>6, <2>7 DEF Rewards!Maps
    <3>2. {} \in SUBSET Keys /\ Rewards!Durable!AtMostOne({} \ Frail)
      BY DEF Rewards!Durable!AtMostOne
    <3>3. Rewards!Durable!Persist
      BY <2>1, <2>2, <2>3, <2>5, <3>1, <3>2 DEF Rewards!Durable!Persist, Rewards!Durable!Maps, Rewards!Maps, Frail
    <3> QED
      BY <2>4, <3>3 DEF Rewards!Durable!Next
  <2>8. CASE Rewards!Stored' = [k \in Keys |-> Rewards!FromLegacy(k)] /\ Rewards!Durable!Spoils(m)
    <3>1. Rewards!Stored' = Rewards!Durable!Empty
      BY <2>6, <2>8 DEF Rewards!Durable!Empty
    <3>2. Rewards!Stored' \in Rewards!Durable!Maps
      BY <3>1 DEF Rewards!Durable!Empty, Rewards!Durable!Maps
    <3>3. Rewards!Durable!Persist
      BY <2>1, <2>2, <2>3, <2>5, <2>8, <3>1, <3>2 DEF Rewards!Durable!Persist, Frail
    <3> QED
      BY <2>4, <3>3 DEF Rewards!Durable!Next
  <2> QED
    BY <2>3, <2>7, <2>8
<1>6. ASSUME NEW f \in Rewards!Lines, Rewards!Upsert(f)
      PROVE  RewardsInv' /\ [Rewards!Durable!Next]_(Rewards!Durable!vars)
  <2>1. /\ UNCHANGED <<log, ended, legacy>> /\ rewardsItems = {} /\ rewards \in Rewards!Maps /\ legacy = Gone
        /\ rewards # Unloaded /\ rewardsPc' \in {"append", "replace"} /\ rewardsItems' = DOMAIN f
        /\ rewards' = [k \in Keys |-> IF k \in DOMAIN f THEN f[k] ELSE rewards[k]]
    BY <1>6 DEF Rewards!Upsert, Rewards!Changed, RewardsInv, Working
  <2>2. DOMAIN f \in SUBSET Keys /\ \A k \in DOMAIN f : f[k] \in Values
    BY DEF Rewards!Lines
  <2>3. rewards' \in Rewards!Maps /\ \A k \in Keys \ DOMAIN f : rewards'[k] = rewards[k]
    BY <2>1, <2>2 DEF Rewards!Maps
  <2>4. RewardsInv'
    <3>1. rewards' # Unloaded
      BY <2>3, ConstantsAssumption DEF Rewards!Maps, Maps
    <3> QED
      BY <2>1, <2>2, <2>3, <3>1 DEF RewardsInv, Working
  <2>5. Rewards!Durable!Change
    BY <2>1, <2>2, <2>3, StoredStays DEF Rewards!Durable!Change, Rewards!Durable!Maps, Rewards!Maps, Frail
  <2> QED
    BY <2>4, <2>5 DEF Rewards!Durable!Next
<1>7. ASSUME NEW ks \in SUBSET Keys, Rewards!Delete(ks)
      PROVE  RewardsInv' /\ [Rewards!Durable!Next]_(Rewards!Durable!vars)
  <2>1. PICK found \in SUBSET Keys :
          /\ UNCHANGED <<log, ended, legacy>> /\ rewardsItems = {} /\ rewards \in Rewards!Maps /\ legacy = Gone
          /\ rewards # Unloaded /\ rewardsPc' = "replace" /\ rewardsItems' = found
          /\ rewards' = [k \in Keys |-> IF k \in found THEN NoValue ELSE rewards[k]]
    BY <1>7 DEF Rewards!Delete, RewardsInv, Working
  <2>2. rewards' \in Rewards!Maps /\ \A k \in Keys \ found : rewards'[k] = rewards[k]
    BY <2>1 DEF Rewards!Maps
  <2>3. RewardsInv'
    <3>1. rewards' # Unloaded
      BY <2>2, ConstantsAssumption DEF Rewards!Maps, Maps
    <3> QED
      BY <2>1, <2>2, <3>1 DEF RewardsInv, Working
  <2>4. Rewards!Durable!Change
    BY <2>1, <2>2, StoredStays DEF Rewards!Durable!Change, Rewards!Durable!Maps, Rewards!Maps, Frail
  <2> QED
    BY <2>3, <2>4 DEF Rewards!Durable!Next
<1>8. ASSUME NEW k \in Keys, Rewards!AppendLine(k)
      PROVE  RewardsInv' /\ [Rewards!Durable!Next]_(Rewards!Durable!vars)
  <2> DEFINE line == Rewards!ReadBack(Rewards!Entry(k))
  <2>1. /\ rewardsPc = "append" /\ k \in rewardsItems /\ log' = Rewards!Written(line) /\ ended' = TRUE
        /\ rewardsItems' = rewardsItems \ {k} /\ UNCHANGED <<legacy, rewards>>
        /\ rewardsPc' = IF rewardsItems' = {} THEN "idle" ELSE rewardsPc
    BY <1>8 DEF Rewards!AppendLine
  <2>0. line \in {Rewards!Junk, Rewards!Entry(k)}
    BY ReadBackFacts
  <2>2. /\ log' \in Seq(Rewards!Lines) /\ log' # <<>>
        /\ ended => \A j \in Keys : Rewards!Stored'[j] = IF j \in DOMAIN line THEN rewards[j] ELSE Rewards!Stored[j]
        /\ ~ended => \A j \in Keys \ Frail : Rewards!Stored'[j] = Rewards!Stored[j]
    BY <2>0, <2>1, WrittenFacts
  <2>3. DOMAIN line \in SUBSET {k} /\ (rewards[k] \notin Splitting => DOMAIN line = {k})
    <3>1. DOMAIN Rewards!Entry(k) = {k} /\ Rewards!Entry(k)[k] = rewards[k]
      BY DEF Rewards!Entry
    <3> QED
      BY <3>1, ReadBackFacts, JunkFacts
  <2> HIDE DEF line
  <2>4. legacy = Gone /\ rewards \in Rewards!Maps /\ rewards # Unloaded
    BY <2>1 DEF RewardsInv, Working
  <2>5. RewardsInv'
    BY <2>1, <2>2, <2>4 DEF RewardsInv, Working
  <2>6. Rewards!Stored' \in Rewards!Maps
    BY <2>5, StoredNextKind
  <2>7. Rewards!Durable!Persist
    <3> DEFINE lost == IF ended THEN {} ELSE Keys \cap ({k} \cup Frail)
    <3>1. lost \in SUBSET Keys
      OBVIOUS
    <3>2. IF ~ended THEN Rewards!Durable!AtMostOne(lost \ Frail) ELSE lost = {}
      BY DEF Rewards!Durable!AtMostOne
    <3>3. \A j \in Keys \ lost :
            Rewards!Stored'[j] \in {rewards[j]} \cup
              IF j \in rewardsItems \ rewardsItems' /\ rewards[j] \notin Splitting THEN {} ELSE {Rewards!Stored[j]}
      BY <2>1, <2>2, <2>3
    <3>4. Frail' = {}
      BY <2>1 DEF Frail
    <3> HIDE DEF lost
    <3> QED
      BY <2>1, <2>4, <2>6, <3>1, <3>2, <3>3, <3>4
         DEF Rewards!Durable!Persist, Rewards!Durable!Maps, Rewards!Maps, Frail
  <2> QED
    BY <2>5, <2>7 DEF Rewards!Durable!Next
<1>9. CASE Rewards!Fail
  <2>1. Rewards!CutOff /\ UNCHANGED <<legacy, rewards>> /\ rewardsPc' = "idle" /\ rewardsItems' = {}
    BY <1>9 DEF Rewards!Fail
  <2>2. RewardsInv' /\ Rewards!Durable!CutOff
    BY <2>1, CutOffKeeps
  <2>3. CASE rewards # Unloaded
    BY <2>1, <2>2, <2>3 DEF Rewards!Durable!Fail, Rewards!Durable!Next
  <2>4. CASE rewards = Unloaded
    <3>1. rewardsPc # "append" /\ rewardsItems = {}
      BY <2>4 DEF RewardsInv, Working
    <3>2. UNCHANGED <<log, ended>>
      BY <2>1, <3>1 DEF Rewards!CutOff
    <3> QED
      BY <2>1, <2>2, <3>1, <3>2, StoredStays DEF Rewards!Durable!vars, Frail
  <2> QED
    BY <2>3, <2>4
<1>10. CASE Rewards!Crash
  <2>1. Rewards!CutOff /\ UNCHANGED legacy /\ rewards' = Unloaded /\ rewardsPc' = "idle" /\ rewardsItems' = {}
    BY <1>10 DEF Rewards!Crash
  <2>2. RewardsInv' /\ Rewards!Durable!CutOff
    BY <2>1, CutOffKeeps
  <2> QED
    BY <2>1, <2>2 DEF Rewards!Durable!Crash, Rewards!Durable!Next
<1> QED
  BY <1>1, <1>2, <1>3, <1>4, <1>5, <1>6, <1>7, <1>8, <1>9, <1>10 DEF Rewards!Next

LEMMA RewardsInitInv == Rewards!Init => RewardsInv /\ Rewards!Durable!Init
<1> SUFFICES ASSUME Rewards!Init PROVE RewardsInv /\ Rewards!Durable!Init
  OBVIOUS
<1>0. ASSUME legacy # Gone PROVE Rewards!Stored = legacy
  <2>1. \A k \in Keys : {i \in DOMAIN log : k \in DOMAIN log[i]} = {}
    BY DEF Rewards!Init
  <2> QED
    BY <1>0, <2>1 DEF Rewards!Init, Rewards!Stored, Rewards!FromLegacy, Rewards!Maps
<1>1. RewardsInv
  BY <1>0 DEF Rewards!Init, RewardsInv, Working
<1>2. Rewards!Stored \in Rewards!Maps
  BY <1>1, StoredNow
<1> QED
  BY <1>1, <1>2 DEF Rewards!Init, Rewards!Durable!Init, Rewards!Maps, Rewards!Durable!Maps

-----------------------------------------------------------------------------
(***************************************************************************)
(* The types.  What the invariants above leave out: the bounds of the      *)
(* counters, the room that the rewards have for the lines to come, and the *)
(* ids of the messages, of which no two have one.                          *)
(***************************************************************************)
LimiterTypes == LimiterInv /\ now <= MaxTime

LEMMA LimiterTyped ==
  /\ LimiterInit => LimiterTypes
  /\ LimiterTypes /\ [LimiterNext]_limiterVars => LimiterTypes'
  /\ LimiterTypes => LimiterTypeOK
<1>1. LimiterInit => LimiterTypes
  BY LimiterInitInv, LimiterAssumption DEF LimiterInit, LimiterTypes
<1>2. LimiterTypes /\ [LimiterNext]_limiterVars => LimiterTypes'
  <2> SUFFICES ASSUME LimiterTypes, [LimiterNext]_limiterVars
               PROVE  LimiterTypes'
    OBVIOUS
  <2>1. LimiterInv'
    BY LimiterStepInv DEF LimiterTypes
  <2>2. UNCHANGED now \/ (now < MaxTime /\ now' = now + 1)
    BY DEF LimiterNext, Tick, Check, Watch, limiterVars
  <2>3. now' <= MaxTime
    BY <2>2, LimiterAssumption DEF LimiterTypes, LimiterInv
  <2> QED
    BY <2>1, <2>3 DEF LimiterTypes
<1>3. LimiterTypes => LimiterTypeOK
  BY LimiterAssumption DEF LimiterTypes, LimiterInv, LimiterTypeOK
<1> QED
  BY <1>1, <1>2, <1>3

-----------------------------------------------------------------------------
MailTypes ==
  /\ MailInv /\ mailToken \in BOOLEAN /\ mailed <= MaxMailed
  /\ seen \subseteq Received \cup 1..MaxMailed
  /\ \A i \in DOMAIN drafts : drafts[i].id \in 1..mailed /\ drafts[i].status \in {"sent", "draft"}

LEMMA ComposeTyped ==
  ASSUME MailTypes, NEW status \in {"sent", "draft"}, Compose(status), MailInv'
  PROVE  MailTypes'
<1> DEFINE letter == [id |-> mailed + 1, status |-> status]
<1>1. /\ drafts' = Append(drafts, letter) /\ mailed' = mailed + 1 /\ mailed < MaxMailed
      /\ UNCHANGED <<mailToken, seen>>
  BY DEF Compose
<1>2. letter.id = mailed + 1 /\ letter.status = status
  OBVIOUS
<1> HIDE DEF letter
<1>3. drafts \in Seq(MailLetter) /\ mailed \in Nat
  BY DEF MailTypes, MailInv
<1>4. /\ DOMAIN drafts' = 1..(Len(drafts) + 1) /\ drafts'[Len(drafts) + 1] = letter
      /\ \A i \in 1..Len(drafts) : i \in DOMAIN drafts /\ drafts'[i] = drafts[i]
  BY <1>1, <1>3
<1>5. ASSUME NEW i \in DOMAIN drafts'
      PROVE  drafts'[i].id \in 1..mailed' /\ drafts'[i].status \in {"sent", "draft"}
  <2>1. CASE i = Len(drafts) + 1
    BY <1>1, <1>2, <1>3, <1>4, <2>1
  <2>2. CASE i # Len(drafts) + 1
    <3>1. i \in 1..Len(drafts)
      BY <1>3, <1>4, <2>2
    <3>2. drafts[i].id \in 1..mailed /\ drafts[i].status \in {"sent", "draft"}
      BY <1>4, <3>1 DEF MailTypes
    <3> QED
      BY <1>1, <1>3, <1>4, <3>1, <3>2
  <2> QED
    BY <2>1, <2>2
<1> QED
  BY <1>1, <1>3, <1>5, MailAssumption DEF MailTypes

LEMMA MailTyped ==
  /\ MailInit => MailTypes
  /\ MailTypes /\ [MailNext]_mailVars => MailTypes'
  /\ MailTypes => MailTypeOK
<1>1. MailInit => MailTypes
  <2> SUFFICES ASSUME MailInit
               PROVE  MailTypes
    OBVIOUS
  <2>1. mailToken \in BOOLEAN
    BY DEF MailInit
  <2>4. \A i : i \notin DOMAIN drafts
    <3>1. drafts = <<>>
      BY DEF MailInit
    <3> QED
      BY <3>1
  <2>2. MailInv /\ mailed <= MaxMailed
    BY MailInitInv, MailAssumption DEF MailInit
  <2>3. seen \subseteq Received \cup 1..MaxMailed
    BY DEF MailInit
  <2> QED
    BY <2>1, <2>2, <2>3, <2>4 DEF MailTypes
<1>2. MailTypes /\ [MailNext]_mailVars => MailTypes'
  <2> SUFFICES ASSUME MailTypes, [MailNext]_mailVars
               PROVE  MailTypes'
    OBVIOUS
  <2>1. MailInv'
    BY MailStepInv DEF MailTypes
  <2>2. CASE SendDraft \/ SaveDraft
    BY <2>1, <2>2, ComposeTyped DEF SendDraft, SaveDraft
  <2>3. CASE GetMessage
    <3>1. PICK id \in Received \cup LetterIds(drafts) : seen' = seen \cup {id}
      BY <2>3 DEF GetMessage
    <3>2. id \in Received \cup 1..MaxMailed
      <4>1. SUFFICES ASSUME id \in LetterIds(drafts) PROVE id \in 1..MaxMailed
        BY <3>1
      <4>2. PICK i \in DOMAIN drafts : id = drafts[i].id
        BY <4>1 DEF LetterIds, ToSet
      <4>3. id \in 1..mailed /\ mailed <= MaxMailed /\ mailed \in Nat
        BY <4>2 DEF MailTypes, MailInv
      <4> QED
        BY <4>3, MailAssumption
    <3>3. UNCHANGED <<mailToken, drafts, mailed>>
      BY <2>3 DEF GetMessage
    <3> QED
      BY <2>1, <3>1, <3>2, <3>3 DEF MailTypes
  <2>4. CASE MailRestarts
    <3>1. mailToken' \in BOOLEAN
      BY <2>4 DEF MailRestarts
    <3>4. \A i : i \notin DOMAIN drafts'
      <4>1. drafts' = <<>>
        BY <2>4 DEF MailRestarts
      <4> QED
        BY <4>1
    <3>2. mailed' <= MaxMailed
      BY <2>4 DEF MailRestarts, MailTypes
    <3>3. seen' \subseteq Received \cup 1..MaxMailed
      BY <2>4 DEF MailRestarts
    <3> QED
      BY <2>1, <3>1, <3>2, <3>3, <3>4 DEF MailTypes
  <2>5. CASE Authenticate \/ UNCHANGED mailVars
    BY <2>1, <2>5 DEF Authenticate, mailVars, MailTypes
  <2> QED
    BY <2>2, <2>3, <2>4, <2>5 DEF MailNext
<1>3. MailTypes => MailTypeOK
  <2> SUFFICES ASSUME MailTypes
               PROVE  MailTypeOK
    OBVIOUS
  <2>1. ASSUME NEW l \in ToSet(drafts)
        PROVE  l.id \in 1..mailed /\ l.status \in {"sent", "draft"}
    <3>1. PICK i \in DOMAIN drafts : l = drafts[i]
      BY DEF ToSet
    <3> QED
      BY <3>1 DEF MailTypes
  <2> QED
    BY <2>1, MailAssumption DEF MailTypes, MailInv, MailTypeOK
<1> QED
  BY <1>1, <1>2, <1>3

-----------------------------------------------------------------------------
ServersTyping == ServersInv /\ commands \in 0..MaxCommands

LEMMA ServersTyped ==
  /\ ServersInit => ServersTyping
  /\ ServersTyping /\ [ServersNext]_serverVars => ServersTyping'
  /\ ServersTyping => ServersTypeOK
<1>1. ServersInit => ServersTyping
  BY ServersInitInv, DocIsConfigured DEF ServersInit, ServersTyping
<1>2. ServersTyping /\ [ServersNext]_serverVars => ServersTyping'
  <2> SUFFICES ASSUME ServersTyping, [ServersNext]_serverVars
               PROVE  ServersTyping'
    OBVIOUS
  <2>1. ServersInv'
    BY ServersStepInv DEF ServersTyping
  <2>2. UNCHANGED commands \/ (commands < MaxCommands /\ commands' = commands + 1)
    BY DEF ServersNext, Connect, ConnectFails, ServerDies, Initialize, ClientAnswers, Refreshed, LoadServer, Unload,
           Commands, Detached, Reload, AgentStarts, AgentEnds, Shutdown, serverVars
  <2>3. commands' \in 0..MaxCommands
    BY <2>2, DocIsConfigured DEF ServersTyping
  <2> QED
    BY <2>1, <2>3 DEF ServersTyping
<1>3. ServersTyping => ServersTypeOK
  BY DEF ServersTyping, ServersInv, ServersTypes, ServersTypeOK
<1> QED
  BY <1>1, <1>2, <1>3

-----------------------------------------------------------------------------
RewardsTypes ==
  /\ RewardsInv /\ Len(log) <= MaxLines /\ (Working => rewardsItems # {})
  /\ rewardsPc = "append" => Len(log) + Cardinality(rewardsItems) <= MaxLines

LEMMA ItemsAreFinite ==
  ASSUME RewardsInv
  PROVE  /\ IsFiniteSet(rewardsItems) /\ Cardinality(rewardsItems) \in Nat
         /\ \A k \in rewardsItems : Cardinality(rewardsItems \ {k}) = Cardinality(rewardsItems) - 1
         /\ rewardsItems # {} => Cardinality(rewardsItems) >= 1
<1>1. IsFiniteSet(rewardsItems)
  BY RewardsAssumption, FS_Subset DEF RewardsInv
<1> QED
  BY <1>1, FS_CardinalityType, FS_RemoveElement, FS_EmptySet

LEMMA WrittenLength ==
  ASSUME RewardsInv, NEW line \in Rewards!Lines
  PROVE  Len(Rewards!Written(line)) <= Len(log) + 1 /\ Len(log) \in Nat
<1>1. log \in Seq(Rewards!Lines)
  BY DEF RewardsInv
<1>2. Len(Append(log, line)) = Len(log) + 1 /\ Len(log) \in Nat
  BY <1>1
<1>3. Len([log EXCEPT ![Len(log)] = Rewards!Junk]) = Len(log)
  BY <1>1
<1> QED
  BY <1>2, <1>3 DEF Rewards!Written

LEMMA SameSize == \A S : Rewards!Cardinality(S) = Cardinality(S)
BY DEF Rewards!Cardinality, Cardinality

LEMMA RewardsTyped ==
  /\ Rewards!Init => RewardsTypes
  /\ RewardsTypes /\ [Rewards!Next]_rewardVars => RewardsTypes'
  /\ RewardsTypes => Rewards!TypeOK
<1>1. Rewards!Init => RewardsTypes
  <2> SUFFICES ASSUME Rewards!Init
               PROVE  RewardsTypes
    OBVIOUS
  <2>1. Len(log) = 0
    BY DEF Rewards!Init
  <2>2. rewardsPc = "idle"
    BY DEF Rewards!Init
  <2> QED
    BY <2>1, <2>2, RewardsInitInv, RewardsAssumption DEF RewardsTypes, Working
<1>2. RewardsTypes /\ [Rewards!Next]_rewardVars => RewardsTypes'
  <2> SUFFICES ASSUME RewardsTypes, [Rewards!Next]_rewardVars
               PROVE  RewardsTypes'
    OBVIOUS
  <2>1. RewardsInv /\ RewardsInv'
    BY RewardsStep DEF RewardsTypes
  <2>2. Len(log) \in Nat /\ Len(log) <= MaxLines /\ MaxLines \in Nat \ {0}
    BY <2>1, RewardsAssumption DEF RewardsTypes, RewardsInv
  <2>3. CASE UNCHANGED rewardVars
    BY <2>1, <2>3 DEF rewardVars, RewardsTypes, Working
  <2>4. CASE Rewards!Load
    BY <2>1, <2>2, <2>4 DEF Rewards!Load, RewardsTypes, Working
  <2>5. ASSUME NEW m, Rewards!Compacted(m)
        PROVE  Len(log') <= MaxLines
    <3>1. log' = <<Rewards!ReadBack(Rewards!Snapshot(m))>>
      BY <2>5 DEF Rewards!Compacted
    <3>2. Len(log') = 1
      BY <3>1
    <3> QED
      BY <2>2, <3>2
  <2>6. CASE Rewards!Migrate
    BY <2>1, <2>5, <2>6 DEF Rewards!Migrate, RewardsTypes, Working
  <2>7. CASE Rewards!Unlink
    BY <2>1, <2>2, <2>7 DEF Rewards!Unlink, RewardsTypes, Working
  <2>8. CASE Rewards!Replace
    BY <2>1, <2>5, <2>8 DEF Rewards!Replace, RewardsTypes, Working
  <2>9. ASSUME NEW f \in Rewards!Lines, Rewards!Upsert(f)
        PROVE  RewardsTypes'
    <3>1. DOMAIN f # {}
      <4>3. f # Rewards!Junk
        BY <2>9 DEF Rewards!Upsert
      <4>1. SUFFICES ASSUME DOMAIN f = {} PROVE f = Rewards!Junk
        BY <4>3
      <4>2. f = [x \in DOMAIN f |-> f[x]]
        BY DEF Rewards!Lines
      <4> QED
        BY <4>1, <4>2 DEF Rewards!Junk
    <3>2. /\ log' = log /\ rewardsItems' = DOMAIN f
          /\ \/ rewardsPc' = "replace"
             \/ Len(log) + Cardinality(DOMAIN f) <= MaxLines /\ rewardsPc' = "append"
      <4>1. log' = log /\ rewardsItems' = DOMAIN f
        BY <2>9 DEF Rewards!Upsert
      <4>2. \/ rewardsPc' = "replace"
            \/ Len(log) + Cardinality(DOMAIN f) <= MaxLines /\ rewardsPc' = "append"
        BY <2>9, SameSize DEF Rewards!Upsert
      <4> QED
        BY <4>1, <4>2
    <3> QED
      BY <2>1, <2>2, <3>1, <3>2 DEF RewardsTypes, Working
  <2>10. ASSUME NEW ks \in SUBSET Keys, Rewards!Delete(ks)
         PROVE  RewardsTypes'
    <3>1. rewardsItems' # {} /\ log' = log /\ rewardsPc' = "replace"
      BY <2>10 DEF Rewards!Delete
    <3> QED
      BY <2>1, <2>2, <3>1 DEF RewardsTypes, Working
  <2>11. ASSUME NEW k \in Keys, Rewards!AppendLine(k)
         PROVE  RewardsTypes'
    <3> DEFINE line == Rewards!ReadBack(Rewards!Entry(k))
    <3>1. /\ rewardsPc = "append" /\ k \in rewardsItems /\ log' = Rewards!Written(line)
          /\ rewardsItems' = rewardsItems \ {k}
          /\ rewardsPc' = IF rewardsItems' = {} THEN "idle" ELSE rewardsPc
      BY <2>11 DEF Rewards!AppendLine
    <3>2. line \in Rewards!Lines
      <4>1. rewards[k] \in Values
        BY <2>1, <3>1 DEF RewardsInv
      <4>2. Rewards!Entry(k) \in [{k} -> Values]
        BY <4>1 DEF Rewards!Entry
      <4>3. Rewards!Entry(k) \in Rewards!Lines
        BY <4>2 DEF Rewards!Lines
      <4> QED
        BY <4>3, ReadBackFacts, JunkFacts
    <3> HIDE DEF line
    <3>3. Len(log') <= Len(log) + 1
      BY <2>1, <3>1, <3>2, WrittenLength
    <3>4. Cardinality(rewardsItems') = Cardinality(rewardsItems) - 1 /\ Cardinality(rewardsItems) \in Nat
      BY <2>1, <3>1, ItemsAreFinite
    <3>5. Len(log) + Cardinality(rewardsItems) <= MaxLines
      BY <3>1 DEF RewardsTypes
    <3>6. Len(log') \in Nat /\ Cardinality(rewardsItems') \in Nat
      <4>1. log' \in Seq(Rewards!Lines)
        BY <2>1 DEF RewardsInv
      <4>2. IsFiniteSet(rewardsItems')
        BY <2>1, <3>1, ItemsAreFinite, FS_RemoveElement
      <4> QED
        BY <4>1, <4>2, FS_CardinalityType
    <3> QED
      BY <2>1, <2>2, <3>1, <3>3, <3>4, <3>5, <3>6 DEF RewardsTypes, Working
  <2>12. ASSUME Rewards!CutOff
         PROVE  Len(log') <= MaxLines
    <3>1. CASE UNCHANGED log
      BY <2>2, <3>1
    <3>2. CASE log' # log
      <4>1. /\ rewardsPc = "append"
            /\ \E k \in rewardsItems :
                 \E line \in {Rewards!Junk, Rewards!ReadBack(Rewards!Entry(k))} : log' = Rewards!Written(line)
        BY <2>12, <3>2 DEF Rewards!CutOff
      <4>10. PICK k \in rewardsItems :
               \E line \in {Rewards!Junk, Rewards!ReadBack(Rewards!Entry(k))} : log' = Rewards!Written(line)
        BY <4>1
      <4>2. PICK line \in {Rewards!Junk, Rewards!Entry(k)} : log' = Rewards!Written(line)
        BY <4>10, ReadBackFacts
      <4>3. line \in Rewards!Lines
        <5>1. rewards[k] \in Values
          BY <2>1, <4>1 DEF RewardsInv
        <5>2. Rewards!Entry(k) \in [{k} -> Values]
          BY <5>1 DEF Rewards!Entry
        <5>3. k \in Keys
          BY <2>1 DEF RewardsInv
        <5>4. Rewards!Entry(k) \in Rewards!Lines
          BY <5>2, <5>3 DEF Rewards!Lines
        <5> QED
          BY <5>4, <4>2, JunkFacts
      <4>4. Len(log') <= Len(log) + 1
        BY <2>1, <4>2, <4>3, WrittenLength
      <4>5. Cardinality(rewardsItems) \in Nat /\ Cardinality(rewardsItems) >= 1
        BY <2>1, ItemsAreFinite
      <4>6. Len(log) + Cardinality(rewardsItems) <= MaxLines
        BY <4>1 DEF RewardsTypes
      <4>7. Len(log') \in Nat
        <5>1. log' \in Seq(Rewards!Lines)
          BY <2>1 DEF RewardsInv
        <5> QED
          BY <5>1
      <4> QED
        BY <2>2, <4>4, <4>5, <4>6, <4>7
    <3> QED
      BY <3>1, <3>2
  <2>13. CASE Rewards!Fail \/ Rewards!Crash
    BY <2>1, <2>12, <2>13 DEF Rewards!Fail, Rewards!Crash, RewardsTypes, Working
  <2> QED
    BY <2>3, <2>4, <2>6, <2>7, <2>8, <2>9, <2>10, <2>11, <2>13 DEF Rewards!Next
<1>3. RewardsTypes => Rewards!TypeOK
  <2> SUFFICES ASSUME RewardsTypes
               PROVE  Rewards!TypeOK
    OBVIOUS
  <2>1. log = <<>> => ended
    BY DEF RewardsTypes, RewardsInv
  <2> QED
    BY <2>1 DEF RewardsTypes, RewardsInv, Working, Rewards!TypeOK
<1> QED
  BY <1>1, <1>2, <1>3

-----------------------------------------------------------------------------
(* Rows are numbered as they are made, a fork's by the rank of what they     *)
(* copy.                                                                     *)
Numbered ==
  /\ \A m \in saved : m \in [id : 1..clock, at : Nat \ {0}, session : Sessions, asked : Nat \ {0}]
  /\ \A m, n \in saved : m.id = n.id => m = n
HistoryTypes == HistoryInv /\ Numbered /\ clock <= MaxSaved /\ broken \subseteq Times

Upto(m, S) == {o \in S : o.at < m.at \/ (o.at = m.at /\ o.id <= m.id)}

LEMMA Ranks ==
  ASSUME NEW S, IsFiniteSet(S), \A m \in S : m.id \in Nat /\ m.at \in Nat,
         \A m, n \in S : m.id = n.id => m = n
  PROVE  /\ \A m \in S : Cardinality(Upto(m, S)) \in 1..Cardinality(S)
         /\ \A m, n \in S : Cardinality(Upto(m, S)) = Cardinality(Upto(n, S)) => m = n
<1>1. ASSUME NEW m \in S
      PROVE  /\ m \in Upto(m, S) /\ Upto(m, S) \subseteq S /\ IsFiniteSet(Upto(m, S))
             /\ Cardinality(Upto(m, S)) \in 1..Cardinality(S)
  <2>1. m \in Upto(m, S) /\ Upto(m, S) \subseteq S
    BY DEF Upto
  <2>2. IsFiniteSet(Upto(m, S)) /\ Cardinality(Upto(m, S)) <= Cardinality(S)
    BY <2>1, FS_Subset
  <2>3. Cardinality(Upto(m, S)) # 0
    BY <2>1, <2>2, FS_EmptySet
  <2> QED
    BY <2>1, <2>2, <2>3, FS_CardinalityType
<1>2. ASSUME NEW m \in S, NEW n \in S, m.at < n.at \/ (m.at = n.at /\ m.id < n.id)
      PROVE  Cardinality(Upto(m, S)) < Cardinality(Upto(n, S))
  <2>1. n \notin Upto(m, S)
    BY <1>2 DEF Upto
  <2>2. Upto(m, S) \subseteq Upto(n, S)
    BY <1>2 DEF Upto
  <2>3. n \in Upto(n, S) /\ IsFiniteSet(Upto(n, S)) /\ IsFiniteSet(Upto(m, S))
    BY <1>1
  <2>4. Cardinality(Upto(m, S)) <= Cardinality(Upto(n, S)) /\ Cardinality(Upto(m, S)) # Cardinality(Upto(n, S))
    BY <2>1, <2>2, <2>3, FS_Subset
  <2>5. Cardinality(Upto(m, S)) \in Nat /\ Cardinality(Upto(n, S)) \in Nat
    BY <2>3, FS_CardinalityType
  <2> QED
    BY <2>4, <2>5
<1>3. ASSUME NEW m \in S, NEW n \in S, Cardinality(Upto(m, S)) = Cardinality(Upto(n, S))
      PROVE  m = n
  <2>1. Cardinality(Upto(m, S)) \in Nat
    BY <1>1
  <2>2. m.id = n.id
    BY <1>2, <1>3, <2>1
  <2> QED
    BY <2>2
<1> QED
  BY <1>1, <1>3

LEMMA NumberedFork ==
  ASSUME HistoryTypes, NEW s \in Sessions, NEW t \in Sessions, Fork(s, t) PROVE Numbered' /\ clock' <= MaxSaved
<1> DEFINE copy(m) == [m EXCEPT !.session = t, !.id = clock + Rank(m)]
           S == Of(s)
<1>1. /\ saved' = saved \cup {copy(m) : m \in S}
      /\ clock' = clock + Cardinality(S) /\ clock' <= MaxSaved
  BY DEF Fork
<1>2. IsFiniteSet(S) /\ Cardinality(S) \in Nat /\ clock \in Nat
  BY SomeFinite DEF HistoryTypes, HistoryInv, Shape
<1>3. \A m \in S : m \in saved /\ m.session = s
  BY DEF Of
<1>4. \A m \in saved : m \in [id : 1..clock, at : Nat \ {0}, session : Sessions, asked : Nat \ {0}]
  BY DEF HistoryTypes, Numbered
<1>5. \A m \in S : Rank(m) = Cardinality(Upto(m, S))
  BY <1>3 DEF Rank, Upto
<1>6. \A m, n \in saved : m.id = n.id => m = n
  BY DEF HistoryTypes, Numbered
<1>7. /\ \A m \in S : Rank(m) \in 1..Cardinality(S)
      /\ \A m, n \in S : Rank(m) = Rank(n) => m = n
  <2>1. \A m \in S : m.id \in Nat /\ m.at \in Nat
    BY <1>2, <1>3, <1>4
  <2>2. \A m, n \in S : m.id = n.id => m = n
    BY <1>3, <1>6
  <2> HIDE DEF S
  <2>3. /\ \A m \in S : Cardinality(Upto(m, S)) \in 1..Cardinality(S)
        /\ \A m, n \in S : Cardinality(Upto(m, S)) = Cardinality(Upto(n, S)) => m = n
    BY <1>2, <2>1, <2>2, Ranks
  <2> QED
    BY <1>5, <2>3
<1>8. ASSUME NEW m \in S
      PROVE  /\ copy(m) \in [id : clock + 1..clock', at : Nat \ {0}, session : Sessions, asked : Nat \ {0}]
             /\ copy(m).id = clock + Rank(m)
  <2>1. m \in [id : 1..clock, at : Nat \ {0}, session : Sessions, asked : Nat \ {0}]
    BY <1>3, <1>4
  <2>2. clock + Rank(m) \in clock + 1..clock'
    <3>1. PICK r : r = Rank(m)
      OBVIOUS
    <3>2. PICK size : size = Cardinality(S)
      OBVIOUS
    <3>3. r \in 1..size /\ size \in Nat /\ clock' = clock + size
      BY <1>1, <1>2, <1>7, <3>1, <3>2
    <3>4. clock + r \in clock + 1..clock'
      BY <1>2, <3>3
    <3> QED
      BY <3>1, <3>4
  <2> QED
    BY <2>1, <2>2
<1> HIDE DEF copy, S
<1>9. ASSUME NEW m \in saved'
      PROVE  m \in [id : 1..clock', at : Nat \ {0}, session : Sessions, asked : Nat \ {0}]
  <2>1. CASE m \in saved
    BY <1>1, <1>2, <1>4, <2>1
  <2>2. CASE m \notin saved
    <3>1. PICK o \in S : m = copy(o)
      BY <1>1, <2>2
    <3> QED
      BY <1>2, <1>8, <3>1
  <2> QED
    BY <2>1, <2>2
<1>10. ASSUME NEW m \in saved', NEW n \in saved', m.id = n.id
       PROVE  m = n
  <2>1. CASE m \in saved /\ n \in saved
    BY <1>6, <1>10, <2>1
  <2>2. \A o \in S, p \in saved : copy(o).id # p.id
    BY <1>2, <1>4, <1>8
  <2>3. CASE m \notin saved /\ n \notin saved
    <3>1. PICK o \in S : m = copy(o)
      BY <1>1, <2>3
    <3>2. PICK p \in S : n = copy(p)
      BY <1>1, <2>3
    <3>3. Rank(o) = Rank(p)
      <4>1. clock + Rank(o) = clock + Rank(p) /\ Rank(o) \in Nat /\ Rank(p) \in Nat
        BY <1>7, <1>8, <1>10, <1>2, <3>1, <3>2
      <4> QED
        BY <1>2, <4>1
    <3> QED
      BY <1>7, <3>1, <3>2, <3>3
  <2> QED
    BY <1>1, <1>10, <2>1, <2>2, <2>3
<1> QED
  BY <1>1, <1>9, <1>10 DEF Numbered

LEMMA NumberedRename ==
  ASSUME Numbered, NEW s \in Sessions, NEW t \in Sessions, RenameSession(s, t) PROVE Numbered'
<1> DEFINE moved(m) == IF m.session = s THEN [m EXCEPT !.session = t] ELSE m
<1>1. /\ saved' = (saved \ Of(s)) \cup {[m EXCEPT !.session = t] : m \in Of(s)} /\ clock' = clock
  BY DEF RenameSession
<1>2. \A m \in saved' : \E o \in saved : m = moved(o)
  BY <1>1 DEF Of
<1>3. ASSUME NEW o \in saved
      PROVE  /\ moved(o) \in [id : 1..clock, at : Nat \ {0}, session : Sessions, asked : Nat \ {0}]
             /\ moved(o).id = o.id
  <2>1. o \in [id : 1..clock, at : Nat \ {0}, session : Sessions, asked : Nat \ {0}]
    BY DEF Numbered
  <2> QED
    BY <2>1
<1> HIDE DEF moved
<1>4. ASSUME NEW m \in saved', NEW n \in saved', m.id = n.id
      PROVE  m = n
  <2>1. PICK o \in saved : m = moved(o)
    BY <1>2
  <2>2. PICK p \in saved : n = moved(p)
    BY <1>2
  <2>3. o.id = p.id
    BY <1>3, <1>4, <2>1, <2>2
  <2> QED
    BY <2>1, <2>2, <2>3 DEF Numbered
<1>5. ASSUME NEW m \in saved'
      PROVE  m \in [id : 1..clock', at : Nat \ {0}, session : Sessions, asked : Nat \ {0}]
  BY <1>1, <1>2, <1>3
<1> QED
  BY <1>4, <1>5 DEF Numbered

LEMMA NumberedWritten ==
  ASSUME HistoryTypes, NEW w \in saving, Written(w) PROVE Numbered' /\ clock' <= MaxSaved
<1>1. PICK question, row :
        /\ question = (IF w.asked = 0 THEN clock + 1 ELSE w.asked)
        /\ row = [id |-> clock + 1, at |-> clock + 1, session |-> w.session, asked |-> question]
  OBVIOUS
<1>2. clock' = clock + 1 /\ saved' = saved \cup {row} /\ clock < MaxSaved
  BY <1>1 DEF Written
<1>3. clock \in Nat /\ w \in [chat : Chats, session : Sessions, asked : Nat, late : BOOLEAN]
  BY DEF HistoryTypes, HistoryInv, Shape
<1>4. question \in Nat \ {0}
  BY <1>1, <1>3
<1>5. /\ row \in [id : 1..clock', at : Nat \ {0}, session : Sessions, asked : Nat \ {0}]
      /\ row.id = clock + 1
  BY <1>1, <1>2, <1>3, <1>4
<1>6. ASSUME NEW m \in saved
      PROVE  m \in [id : 1..clock', at : Nat \ {0}, session : Sessions, asked : Nat \ {0}] /\ m.id # row.id
  <2>1. m \in [id : 1..clock, at : Nat \ {0}, session : Sessions, asked : Nat \ {0}]
    BY DEF HistoryTypes, Numbered
  <2> QED
    BY <1>2, <1>3, <1>5, <2>1
<1>7. \A m, n \in saved' : m.id = n.id => m = n
  BY <1>2, <1>6 DEF HistoryTypes, Numbered
<1> QED
  BY <1>2, <1>3, <1>5, <1>6, <1>7, HistoryAssumption DEF Numbered

LEMMA NumberedFewer ==
  ASSUME Numbered, saved' \subseteq saved, clock' = clock PROVE Numbered'
BY DEF Numbered

LEMMA BrokenAreTimes ==
  ASSUME HistoryTypes, NEW messages \in SUBSET saved, Breaks(messages)
  PROVE  broken' \subseteq Times
<1>1. ASSUME NEW q \in Questions(messages)
      PROVE  q \in Times
  <2>1. PICK m \in messages : q = m.asked
    BY DEF Questions
  <2>2. m \in saved /\ m.asked <= m.at /\ m.at <= clock /\ clock <= MaxSaved /\ clock \in Nat
    BY DEF HistoryTypes, HistoryInv, Shape
  <2>3. m.asked \in Nat /\ m.at \in Nat
    BY <2>2 DEF HistoryTypes, Numbered
  <2> QED
    BY <2>1, <2>2, <2>3, HistoryAssumption DEF Times
<1> QED
  BY <1>1 DEF Breaks, HistoryTypes

LEMMA HistoryTyped ==
  /\ HistoryInit => HistoryTypes
  /\ HistoryTypes /\ [HistoryNext]_historyVars => HistoryTypes'
  /\ HistoryTypes => HistoryTypeOK
<1>1. HistoryInit => HistoryTypes
  BY HistoryInitInv, HistoryAssumption DEF HistoryInit, HistoryTypes, Numbered
<1>2. HistoryTypes /\ [HistoryNext]_historyVars => HistoryTypes'
  <2> SUFFICES ASSUME HistoryTypes, [HistoryNext]_historyVars
               PROVE  HistoryTypes'
    OBVIOUS
  <2>1. HistoryInv'
    BY HistoryStepInv DEF HistoryTypes
  <2>2. ASSUME UNCHANGED <<saved, clock, broken>>
        PROVE  HistoryTypes'
    BY <2>1, <2>2, NumberedFewer DEF HistoryTypes
  <2>3. CASE UNCHANGED historyVars
    BY <2>2, <2>3 DEF historyVars
  <2>4. ASSUME NEW c \in Chats, SaveAnswer(c) \/ EndTurn(c) \/ CutShort(c)
        PROVE  HistoryTypes'
    BY <2>2, <2>4 DEF SaveAnswer, EndTurn, CutShort
  <2>5. ASSUME NEW c \in Chats, NEW s \in Sessions, SaveQuestion(c, s)
        PROVE  HistoryTypes'
    BY <2>2, <2>5 DEF SaveQuestion
  <2>6. ASSUME NEW messages \in SUBSET saved, Breaks(messages), saved' \subseteq saved, clock' = clock
        PROVE  HistoryTypes'
    BY <2>1, <2>6, NumberedFewer, BrokenAreTimes DEF HistoryTypes
  <2>7. ASSUME NEW c \in Chats, DeleteOutdated(c)
        PROVE  HistoryTypes'
    <3> DEFINE gone == {m \in saved : m.session \in doomed[c] \cap due[c]}
    <3>1. gone \in SUBSET saved /\ Breaks(gone) /\ saved' \subseteq saved /\ clock' = clock
      BY <2>7 DEF DeleteOutdated
    <3> HIDE DEF gone
    <3> QED
      BY <2>6, <3>1
  <2>8. ASSUME NEW s \in Sessions, DeleteSession(s)
        PROVE  HistoryTypes'
    <3>1. Of(s) \in SUBSET saved /\ Breaks(Of(s)) /\ saved' \subseteq saved /\ clock' = clock
      BY <2>8 DEF DeleteSession, Of
    <3> QED
      BY <2>6, <3>1
  <2>9. ASSUME NEW s \in Sessions, Undo(s)
        PROVE  HistoryTypes'
    <3>1. PICK n \in 1..MaxUndone : \E last \in LastOnes(s, n) : saved' = saved \ last /\ Breaks(last)
      BY <2>9 DEF Undo
    <3>2. PICK last \in LastOnes(s, n) : saved' = saved \ last /\ Breaks(last)
      BY <3>1
    <3>3. last \in SUBSET saved /\ clock' = clock
      BY <2>9 DEF LastOnes, Of, Undo
    <3> QED
      BY <2>6, <3>2, <3>3
  <2>10. ASSUME NEW s \in Sessions, NEW t \in Sessions, RenameSession(s, t)
         PROVE  HistoryTypes'
    <3>1. Of(s) \in SUBSET saved /\ Breaks(Of(s)) /\ clock' = clock
      BY <2>10 DEF RenameSession, Of
    <3>2. broken' \subseteq Times
      BY <3>1, BrokenAreTimes
    <3>3. Numbered'
      BY <2>10, NumberedRename DEF HistoryTypes
    <3> QED
      BY <2>1, <3>1, <3>2, <3>3 DEF HistoryTypes
  <2>11. ASSUME NEW s \in Sessions, NEW t \in Sessions, Fork(s, t)
         PROVE  HistoryTypes'
    <3>1. broken' = broken
      BY <2>11 DEF Fork
    <3> QED
      BY <2>1, <2>11, <3>1, NumberedFork DEF HistoryTypes
  <2>12. ASSUME NEW w \in saving, Written(w)
         PROVE  HistoryTypes'
    <3>1. broken' = broken
      BY <2>12 DEF Written
    <3> QED
      BY <2>1, <2>12, <3>1, NumberedWritten DEF HistoryTypes
  <2> QED
    BY <2>3, <2>4, <2>5, <2>7, <2>8, <2>9, <2>10, <2>11, <2>12 DEF HistoryNext
<1>3. HistoryTypes => HistoryTypeOK
  <2> SUFFICES ASSUME HistoryTypes
               PROVE  HistoryTypeOK
    OBVIOUS
  <2>1. clock \in Nat /\ clock <= MaxSaved /\ MaxSaved \in Nat
    BY HistoryAssumption DEF HistoryTypes, HistoryInv, Shape
  <2>2. clock \in Times
    BY <2>1 DEF Times
  <2>3. ASSUME NEW m \in saved
        PROVE  m \in Messages
    <3>1. m \in [id : 1..clock, at : Nat \ {0}, session : Sessions, asked : Nat \ {0}]
      BY DEF HistoryTypes, Numbered
    <3>2. m.asked <= m.at /\ m.at <= clock
      BY DEF HistoryTypes, HistoryInv, Shape
    <3>3. m.id \in Times \ {0} /\ m.at \in Times \ {0} /\ m.asked \in Times \ {0}
      BY <2>1, <3>1, <3>2 DEF Times
    <3> QED
      BY <3>1, <3>3 DEF Messages
  <2>4. ASSUME NEW c \in Chats, NEW t \in asking[c]
        PROVE  t \in [session : Sessions, asked : Times]
    <3>1. t \in [session : Sessions, asked : Nat] /\ t.asked <= clock
      BY DEF HistoryTypes, HistoryInv, Shape, Pending, Answerable
    <3>2. t.asked \in Times
      BY <2>1, <3>1 DEF Times
    <3> QED
      BY <3>1, <3>2
  <2>5. asking \in [Chats -> SUBSET [session : Sessions, asked : Times]]
    BY <2>4 DEF HistoryTypes, HistoryInv, Shape
  <2>6. ASSUME NEW w \in saving
        PROVE  w \in [chat : Chats, session : Sessions, asked : Times, late : BOOLEAN]
    <3>1. w \in [chat : Chats, session : Sessions, asked : Nat, late : BOOLEAN] /\ w.asked <= clock
      BY DEF HistoryTypes, HistoryInv, Shape, Pending, Answerable
    <3>2. w.asked \in Times
      BY <2>1, <3>1 DEF Times
    <3> QED
      BY <3>1, <3>2
  <2> QED
    BY <2>2, <2>3, <2>5, <2>6 DEF HistoryTypeOK, HistoryTypes, HistoryInv, Shape, Numbered
<1> QED
  BY <1>1, <1>2, <1>3

-----------------------------------------------------------------------------
(***************************************************************************)
(* The calendar. A server whose save counts holds what the file has. The   *)
(* times of a day are sorted, since a finite set of times has an order;    *)
(* merged, they leave free what they left free before; and the windows the *)
(* sweep lists lie between them, with none missing.                        *)
(***************************************************************************)
(* sorted() of a finite set of times.                                        *)
SortedOf(q, T) ==
  /\ q \in [1..Cardinality(T) -> T]
  /\ \A i, j \in DOMAIN q : i < j => q[i] # q[j] /\ InTime(q[i], q[j])

LEMMA EarliestOf ==
  ASSUME NEW T, T \subseteq Nat \X Nat, T # {}
  PROVE  \E x \in T : \A y \in T : InTime(x, y)
<1> DEFINE firsts == {t[1] : t \in T}
<1>0. \A t \in T : t[1] \in Nat /\ t[2] \in Nat
  OBVIOUS
<1>1. firsts \subseteq Nat /\ firsts # {}
  BY <1>0
<1> HIDE DEF firsts
<1>2. PICK a \in firsts : \A b \in firsts : a <= b
  BY <1>1, SmallestOf
<1> USE DEF firsts
<1> DEFINE among  == {t \in T : t[1] = a}
           second == {t[2] : t \in among}
<1>3. second \subseteq Nat /\ second # {}
  BY <1>0, <1>2
<1> HIDE DEF second
<1>4. PICK c \in second : \A d \in second : c <= d
  BY <1>3, SmallestOf
<1> USE DEF second
<1>5. PICK x \in T : x[1] = a /\ x[2] = c
  BY <1>4
<1>6. ASSUME NEW y \in T PROVE InTime(x, y)
  <2>1. a <= y[1] /\ y[1] \in Nat /\ a \in Nat
    BY <1>0, <1>1, <1>2
  <2>2. CASE y[1] = a
    BY <1>4, <1>5, <2>2 DEF InTime
  <2>3. CASE y[1] # a
    BY <1>5, <2>1, <2>3 DEF InTime
  <2> QED
    BY <2>2, <2>3
<1> QED
  BY <1>5, <1>6

Sortable(T) == \E q : SortedOf(q, T)

LEMMA SortedMore ==
  ASSUME NEW T, IsFiniteSet(T), NEW x \in T, \A y \in T : InTime(x, y), Sortable(T \ {x})
  PROVE  Sortable(T)
<1> DEFINE n == Cardinality(T)
<1>1. PICK p : SortedOf(p, T \ {x})
  BY DEF Sortable
<1>2. n \in Nat \ {0} /\ Cardinality(T \ {x}) = n - 1
  BY FS_RemoveElement, FS_CardinalityType, FS_EmptySet
<1> HIDE DEF n
<1>3. /\ DOMAIN p = 1..n - 1
      /\ \A i \in 1..n - 1 : p[i] \in T \ {x}
      /\ \A i, j \in 1..n - 1 : i < j => p[i] # p[j] /\ InTime(p[i], p[j])
  BY <1>1, <1>2 DEF SortedOf
<1> DEFINE q == [i \in 1..n |-> IF i = 1 THEN x ELSE p[i - 1]]
<1>4. \A i \in 1..n : i # 1 => i - 1 \in 1..n - 1
  BY <1>2
<1>5. q \in [1..n -> T] /\ q[1] = x /\ \A i \in 1..n : i # 1 => q[i] = p[i - 1]
  BY <1>2, <1>3, <1>4
<1> HIDE DEF q
<1>6. ASSUME NEW i \in 1..n, NEW j \in 1..n, i < j
      PROVE  q[i] # q[j] /\ InTime(q[i], q[j])
  <2>1. j # 1 /\ q[j] = p[j - 1] /\ p[j - 1] \in T \ {x}
    BY <1>3, <1>4, <1>5, <1>6
  <2>2. CASE i = 1
    BY <1>5, <2>1, <2>2
  <2>3. CASE i # 1
    <3>1. q[i] = p[i - 1] /\ i - 1 \in 1..n - 1 /\ j - 1 \in 1..n - 1 /\ i - 1 < j - 1
      BY <1>4, <1>5, <1>6, <2>1, <2>3
    <3> QED
      BY <1>3, <2>1, <3>1
  <2> QED
    BY <2>2, <2>3
<1>7. SortedOf(q, T)
  <2>1. DOMAIN q = 1..n
    BY <1>5
  <2> QED
    BY <1>5, <1>6, <2>1 DEF SortedOf, n
<1> QED
  BY <1>7 DEF Sortable

LEMMA SortedExists ==
  ASSUME NEW T, T \subseteq Nat \X Nat, IsFiniteSet(T)
  PROVE  Sortable(T)
<1> DEFINE n     == Cardinality(T)
           holds == {i \in 0..n : \A U \in SUBSET T : Cardinality(U) = i => Sortable(U)}
<1>1. n \in Nat
  BY FS_CardinalityType
<1>2. 0 \in holds
  <2>1. ASSUME NEW U \in SUBSET T, Cardinality(U) = 0
        PROVE  Sortable(U)
    <3>1. U = {}
      BY <2>1, FS_Subset, FS_EmptySet
    <3> DEFINE q == [i \in 1..0 |-> 0]
    <3>2. q \in [1..Cardinality(U) -> U] /\ DOMAIN q = {}
      BY <2>1, <3>1
    <3> HIDE DEF q
    <3>3. SortedOf(q, U)
      BY <3>2 DEF SortedOf
    <3> QED
      BY <3>3 DEF Sortable
  <2> QED
    BY <1>1, <2>1
<1>3. ASSUME NEW i \in 1..n, i - 1 \in holds
      PROVE  i \in holds
  <2>1. ASSUME NEW U \in SUBSET T, Cardinality(U) = i
        PROVE  Sortable(U)
    <3>1. IsFiniteSet(U) /\ U # {} /\ U \subseteq Nat \X Nat
      BY <1>1, <2>1, FS_Subset, FS_EmptySet
    <3>2. PICK x \in U : \A y \in U : InTime(x, y)
      BY <3>1, EarliestOf
    <3>3. Cardinality(U \ {x}) = i - 1 /\ U \ {x} \in SUBSET T
      BY <2>1, <3>1, FS_RemoveElement
    <3>4. Sortable(U \ {x})
      BY <1>3, <3>3
    <3> QED
      BY <3>1, <3>2, <3>4, SortedMore
  <2> QED
    BY <1>1, <2>1
<1>4. \A i \in 1..n : i - 1 \in holds => i \in holds
  BY <1>3
<1> HIDE DEF holds, n
<1>5. n \in holds
  BY <1>1, <1>2, <1>4, CountingUp
<1> QED
  BY <1>5 DEF holds, n

LEMMA SortedHasAll ==
  ASSUME NEW T, IsFiniteSet(T), NEW q, SortedOf(q, T), NEW t \in T
  PROVE  \E i \in 1..Cardinality(T) : q[i] = t
<1> DEFINE n == Cardinality(T)
<1>1. n \in Nat /\ IsFiniteSet(1..n) /\ Cardinality(1..n) = n
  <2>1. n \in Nat
    BY FS_CardinalityType
  <2> HIDE DEF n
  <2> QED
    BY <2>1, FS_Interval
<1>2. q \in [1..n -> T] /\ \A i, j \in 1..n : i < j => q[i] # q[j]
  <2>1. q \in [1..n -> T]
    BY DEF SortedOf
  <2>2. DOMAIN q = 1..n
    BY <2>1
  <2> QED
    BY <2>1, <2>2 DEF SortedOf
<1>3. q \in Injection(1..n, T)
  <2>1. ASSUME NEW i \in 1..n, NEW j \in 1..n, q[i] = q[j] PROVE i = j
    <3>1. i < j \/ j < i \/ i = j
      BY <1>1
    <3> QED
      BY <1>2, <2>1, <3>1
  <2> QED
    BY <1>2, <2>1 DEF Injection, IsInjective
<1>4. q \in Surjection(1..n, T)
  BY <1>1, <1>3, FS_Injection
<1> QED
  BY <1>4 DEF Surjection

(* What free_slots sorts: the times of the day's events, in order.           *)
TimesOf(s, date) == {<<e.start, Ends(e)>> : e \in {f \in events[s] : f.date = date}}

InOrder(q, s, date) ==
  /\ q \in Seq(Nat \X Nat) /\ \A i \in 1..Len(q) : q[i][1] < q[i][2]
  /\ \A i, j \in 1..Len(q) : i < j => q[i][1] <= q[j][1]
  /\ \A i \in 1..Len(q) : \E e \in events[s] : e.date = date /\ q[i] = <<e.start, Ends(e)>>
  /\ \A e \in events[s] : e.date = date => \E i \in 1..Len(q) : q[i] = <<e.start, Ends(e)>>

LEMMA BusyTimesAre ==
  ASSUME NEW s, NEW date, IsFiniteSet(events[s]), events[s] \subseteq Event
  PROVE  InOrder(BusyTimes(s, date), s, date)
<1> DEFINE T == TimesOf(s, date)
           day == {f \in events[s] : f.date = date}
<1>1. \A e \in day : /\ e.start \in Nat /\ Ends(e) \in Nat /\ e.start < Ends(e)
                     /\ e \in events[s] /\ e.date = date
  <2> TAKE e \in day
  <2>1. e \in events[s] /\ e.date = date /\ e \in Event
    OBVIOUS
  <2>2. e.start \in Nat /\ e.length \in Nat \ {0}
    BY <2>1, InstantsAreNumbers DEF Event
  <2> QED
    BY <2>1, <2>2 DEF Ends
<1>2. T \subseteq Nat \X Nat /\ \A t \in T : t[1] < t[2] /\ \E e \in events[s] : e.date = date /\ t = <<e.start, Ends(e)>>
  BY <1>1 DEF TimesOf
<1>3. IsFiniteSet(T)
  <2>1. IsFiniteSet(day)
    BY FS_Subset
  <2> DEFINE f == [e \in day |-> <<e.start, Ends(e)>>]
  <2>2. f \in Surjection(day, T)
    BY DEF Surjection, TimesOf
  <2> HIDE DEF f
  <2> QED
    BY <2>1, <2>2, FS_Surjection
<1> DEFINE q == BusyTimes(s, date)
<1>4. q = CHOOSE p \in [1..Cardinality(T) -> T] :
            \A i, j \in DOMAIN p : i < j => p[i] # p[j] /\ InTime(p[i], p[j])
  BY DEF BusyTimes, TimesOf
<1>5. \A e \in events[s] : e.date = date => <<e.start, Ends(e)>> \in T
  BY DEF TimesOf
<1> HIDE DEF T, q
<1>6. \E p \in [1..Cardinality(T) -> T] : \A i, j \in DOMAIN p : i < j => p[i] # p[j] /\ InTime(p[i], p[j])
  BY <1>2, <1>3, SortedExists DEF Sortable, SortedOf
<1>7. SortedOf(q, T)
  BY <1>4, <1>6 DEF SortedOf
<1> DEFINE n == Cardinality(T)
<1>8. n \in Nat
  BY <1>3, FS_CardinalityType
<1>9. q \in [1..n -> T]
  BY <1>7 DEF SortedOf
<1>10. \A t \in T : \E i \in 1..n : q[i] = t
  BY <1>3, <1>7, SortedHasAll
<1> HIDE DEF n
<1>11. q \in Seq(Nat \X Nat) /\ Len(q) = n
  <2>1. q \in [1..n -> Nat \X Nat]
    BY <1>2, <1>9
  <2>2. q \in Seq(Nat \X Nat)
    BY <1>8, <2>1
  <2>3. DOMAIN q = 1..n
    BY <1>9
  <2> QED
    BY <1>8, <2>2, <2>3, LenProperties
<1>12. \A i \in 1..n : q[i] \in T
  BY <1>9
<1>13. \A i, j \in 1..n : i < j => q[i][1] <= q[j][1]
  <2> TAKE i, j \in 1..n
  <2>1. HAVE i < j
  <2>2. InTime(q[i], q[j])
    BY <1>7, <1>9, <2>1 DEF SortedOf
  <2>3. q[i] \in Nat \X Nat /\ q[j] \in Nat \X Nat
    BY <1>2, <1>12
  <2> QED
    BY <2>2, <2>3 DEF InTime
<1>14. \A i \in 1..n : q[i][1] < q[i][2] /\ \E e \in events[s] : e.date = date /\ q[i] = <<e.start, Ends(e)>>
  BY <1>2, <1>12
<1>15. \A e \in events[s] : e.date = date => \E i \in 1..n : q[i] = <<e.start, Ends(e)>>
  BY <1>5, <1>10
<1>16. Len(q) = n
  BY <1>11
<1> QED
  <2>1. InOrder(q, s, date)
    BY <1>11, <1>13, <1>14, <1>15 DEF InOrder
  <2> QED
    BY <2>1 DEF q

(* Merging: the stretches that the merged times leave are those that the     *)
(* busy times leave, and they follow each other with a gap between.          *)
Busy(q) ==
  /\ q \in Seq(Nat \X Nat) /\ \A i \in 1..Len(q) : q[i][1] < q[i][2]
  /\ \A i, j \in 1..Len(q) : i < j => q[i][1] <= q[j][1]

Avoids(x, y, q, n) == \A k \in 1..n : q[k][2] <= x \/ y <= q[k][1]

Spans(done, q, n) == \A k \in 1..n : \E j \in 1..Len(done) : done[j][1] <= q[k][1] /\ q[k][2] <= done[j][2]

Apart(done) ==
  /\ done \in Seq(Nat \X Nat) /\ \A j \in 1..Len(done) : done[j][1] < done[j][2]
  /\ \A j, k \in 1..Len(done) : j < k => done[j][2] < done[k][1]

MergeInv(done, q, n) ==
  /\ Apart(done)
  /\ IF n = 0 THEN done = <<>> ELSE done # <<>> /\ done[Len(done)][1] <= q[n][1]
  /\ Spans(done, q, n)
  /\ \A x, y \in Nat : x < y /\ Avoids(x, y, q, n) => Avoids(x, y, done, Len(done))

LEMMA Larger ==
  ASSUME NEW a \in Int, NEW b \in Int
  PROVE  Max({a, b}) \in {a, b} /\ Max({a, b}) >= a /\ Max({a, b}) >= b
<1>1. \E x \in {a, b} : \A y \in {a, b} : x >= y
  <2>1. a >= b \/ b >= a
    OBVIOUS
  <2> QED
    BY <2>1
<1>2. Max({a, b}) \in {a, b} /\ \A y \in {a, b} : Max({a, b}) >= y
  BY <1>1 DEF Max
<1> QED
  BY <1>2

LEMMA MaxOfTwo ==
  ASSUME NEW a \in Nat, NEW b \in Nat
  PROVE  Max({a, b}) \in {a, b} /\ Max({a, b}) >= a /\ Max({a, b}) >= b /\ Max({a, b}) \in Nat
<1>1. a \in Int /\ b \in Int
  OBVIOUS
<1>2. Max({a, b}) \in {a, b} /\ Max({a, b}) >= a /\ Max({a, b}) >= b
  BY <1>1, Larger
<1> QED
  BY <1>2

LEMMA Appended ==
  ASSUME NEW q, Busy(q), NEW n \in 1..Len(q), NEW done, MergeInv(done, q, n - 1),
         done = <<>> \/ done[Len(done)][2] < q[n][1]
  PROVE  MergeInv(Append(done, q[n]), q, n)
<1> DEFINE L == Len(done)
           b == q[n]
           w == Append(done, b)
<1>1. /\ done \in Seq(Nat \X Nat) /\ L \in Nat
      /\ \A j \in 1..L : done[j][1] < done[j][2]
      /\ \A j, k \in 1..L : j < k => done[j][2] < done[k][1]
  BY DEF MergeInv, Apart
<1>2. q \in Seq(Nat \X Nat) /\ b \in Nat \X Nat /\ b[1] < b[2]
  BY DEF Busy
<1>3. w \in Seq(Nat \X Nat) /\ Len(w) = L + 1 /\ w[L + 1] = b /\ \A j \in 1..L : w[j] = done[j]
  BY <1>1, <1>2
<1> HIDE DEF w
<1>4. \A j \in 1..L + 1 : j = L + 1 \/ j \in 1..L
  BY <1>1
<1>5. \A j \in 1..L : done[j] \in Nat \X Nat
  BY <1>1
<1>6. ASSUME NEW j \in 1..L PROVE done[j][2] < b[1]
  <2>1. L # 0
    BY <1>1, <1>6
  <2>2. done[L][2] < b[1] /\ L \in 1..L
    BY <1>1, <2>1
  <2>3. j = L \/ j < L
    BY <1>1
  <2>4. done[j] \in Nat \X Nat /\ done[L] \in Nat \X Nat
    BY <1>5, <2>2
  <2>5. CASE j < L
    <3>1. done[j][2] < done[L][1] /\ done[L][1] < done[L][2]
      BY <1>1, <2>2, <2>5
    <3>2. done[j][2] \in Nat /\ done[L][1] \in Nat /\ done[L][2] \in Nat /\ b[1] \in Nat
      BY <1>2, <2>4
    <3> QED
      BY <2>2, <3>1, <3>2
  <2> QED
    BY <2>2, <2>3, <2>5
<1>7. Apart(w)
  <2>1. \A j \in 1..L + 1 : w[j][1] < w[j][2]
    BY <1>1, <1>2, <1>3, <1>4
  <2>2. ASSUME NEW j \in 1..L + 1, NEW k \in 1..L + 1, j < k
        PROVE  w[j][2] < w[k][1]
    <3>1. j \in 1..L
      BY <1>1, <2>2
    <3>2. CASE k = L + 1
      BY <1>3, <1>6, <3>1, <3>2
    <3>3. CASE k \in 1..L
      BY <1>1, <1>3, <2>2, <3>1, <3>3
    <3> QED
      BY <1>4, <3>2, <3>3
  <2> QED
    BY <1>3, <2>1, <2>2 DEF Apart
<1>8. Spans(w, q, n)
  <2> SUFFICES ASSUME NEW k \in 1..n
               PROVE  \E j \in 1..Len(w) : w[j][1] <= q[k][1] /\ q[k][2] <= w[j][2]
    BY DEF Spans
  <2>1. CASE k = n
    <3>1. L + 1 \in 1..Len(w)
      BY <1>1, <1>3
    <3>2. b[1] <= b[1] /\ b[2] <= b[2]
      BY <1>2
    <3> QED
      BY <1>3, <2>1, <3>1, <3>2
  <2>2. CASE k # n
    <3>1. k \in 1..n - 1
      BY <2>2
    <3>2. PICK j \in 1..L : done[j][1] <= q[k][1] /\ q[k][2] <= done[j][2]
      BY <3>1 DEF MergeInv, Spans
    <3>3. Len(w) = L + 1 /\ L \in Nat /\ w[j] = done[j]
      BY <1>1, <1>3
    <3>4. j \in 1..Len(w)
      BY <3>3
    <3> QED
      BY <3>2, <3>3, <3>4
  <2> QED
    BY <2>1, <2>2
<1>9. ASSUME NEW x \in Nat, NEW y \in Nat, x < y, Avoids(x, y, q, n)
      PROVE  Avoids(x, y, w, Len(w))
  <2>1. Avoids(x, y, q, n - 1) /\ (b[2] <= x \/ y <= b[1])
    BY <1>9 DEF Avoids
  <2>2. Avoids(x, y, done, L)
    BY <1>9, <2>1 DEF MergeInv
  <2> QED
    BY <1>3, <1>4, <2>1, <2>2 DEF Avoids
<1>10. n # 0 /\ w # <<>> /\ w[Len(w)][1] <= q[n][1]
  <2>1. b[1] <= b[1]
    BY <1>2
  <2>2. w # <<>>
    BY <1>1, <1>3
  <2> QED
    BY <1>3, <2>1, <2>2
<1> QED
  BY <1>7, <1>8, <1>9, <1>10 DEF MergeInv, w

LEMMA Widened ==
  ASSUME NEW q, Busy(q), NEW n \in 1..Len(q), NEW done, MergeInv(done, q, n - 1),
         done # <<>>, q[n][1] <= done[Len(done)][2]
  PROVE  MergeInv(Append(Front(done), <<Last(done)[1], Max({Last(done)[2], q[n][2]})>>), q, n)
<1> DEFINE L == Len(done)
           b == q[n]
           d == done[L]
           m == Max({d[2], b[2]})
           w == Append(Front(done), <<d[1], m>>)
<1>1. /\ done \in Seq(Nat \X Nat) /\ L \in Nat
      /\ \A j \in 1..L : done[j][1] < done[j][2] /\ done[j] \in Nat \X Nat
      /\ \A j, k \in 1..L : j < k => done[j][2] < done[k][1]
  BY DEF MergeInv, Apart
<1>2. q \in Seq(Nat \X Nat) /\ b \in Nat \X Nat /\ b[1] < b[2] /\ n - 1 \in 0..Len(q)
  BY DEF Busy
<1>3. L \in 1..L /\ d \in Nat \X Nat
  <2>1. L # 0
    BY <1>1
  <2> QED
    BY <1>1, <2>1
<1>4. d[1] <= b[1]
  <2>1. n - 1 # 0 /\ d[1] <= q[n - 1][1]
    BY DEF MergeInv
  <2>2. n - 1 \in 1..Len(q)
    BY <1>2, <2>1
  <2>3. q[n - 1][1] <= b[1] /\ q[n - 1] \in Nat \X Nat
    <3>1. q[n - 1] \in Nat \X Nat /\ n - 1 < n /\ n \in 1..Len(q)
      BY <1>2, <2>2
    <3> QED
      BY <2>2, <3>1 DEF Busy
  <2>4. d[1] \in Nat /\ q[n - 1][1] \in Nat /\ b[1] \in Nat
    BY <1>2, <1>3, <2>3
  <2> QED
    BY <2>1, <2>3, <2>4
<1>5. m \in {d[2], b[2]} /\ m >= d[2] /\ m >= b[2] /\ m \in Nat
  BY <1>2, <1>3, MaxOfTwo
<1> HIDE DEF m
<1>6. PICK t : t = <<d[1], m>>
  OBVIOUS
<1>7. t \in Nat \X Nat /\ t[1] = d[1] /\ t[2] = m
  BY <1>3, <1>5, <1>6
<1>8. w = Append(SubSeq(done, 1, L - 1), t)
  BY <1>6 DEF Front
<1>9. w \in Seq(Nat \X Nat) /\ Len(w) = L /\ w[L] = t /\ \A j \in 1..L - 1 : w[j] = done[j]
  <2> DEFINE f == SubSeq(done, 1, L - 1)
  <2>1. f \in Seq(Nat \X Nat) /\ Len(f) = L - 1 /\ \A j \in 1..L - 1 : f[j] = done[j]
    <3>1. /\ L - 1 \in Int /\ 1 \in Int /\ \A j \in 1..L - 1 : done[j] \in Nat \X Nat
          /\ 1 <= L /\ L \in Nat
      BY <1>1, <1>3
    <3>2. /\ f \in Seq(Nat \X Nat) /\ Len(f) = (IF 1 <= L - 1 THEN L - 1 - 1 + 1 ELSE 0)
          /\ \A j \in 1..(L - 1) - 1 + 1 : f[j] = done[1 + j - 1]
      BY <3>1, SubSeqProperties
    <3>3. Len(f) = L - 1
      <4>1. PICK c : c = Len(f)
        OBVIOUS
      <4>2. c = IF 1 <= L - 1 THEN L - 1 - 1 + 1 ELSE 0
        BY <3>2, <4>1
      <4>3. PICK l : l = L
        OBVIOUS
      <4>4. c = l - 1
        BY <3>1, <4>2, <4>3
      <4> QED
        BY <4>1, <4>3, <4>4
    <3>4. ASSUME NEW j \in 1..L - 1 PROVE f[j] = done[j]
      <4>1. j \in 1..(L - 1) - 1 + 1 /\ 1 + j - 1 = j
        BY <3>1
      <4> QED
        BY <3>2, <4>1
    <3> QED
      BY <3>2, <3>3, <3>4
  <2> HIDE DEF f
  <2>2. Append(f, t) \in Seq(Nat \X Nat) /\ Len(Append(f, t)) = L /\ Append(f, t)[L] = t
        /\ \A j \in 1..L - 1 : Append(f, t)[j] = f[j]
    BY <1>1, <1>3, <1>7, <2>1
  <2> QED
    BY <1>8, <2>1, <2>2 DEF f
<1> HIDE DEF w
<1>10. \A j \in 1..L : j = L \/ j \in 1..L - 1
  BY <1>1
<1>11. Apart(w)
  <2>1. w[L][1] < w[L][2]
    BY <1>1, <1>3, <1>5, <1>7, <1>9
  <2>2. \A j \in 1..L : w[j][1] < w[j][2]
    BY <1>1, <1>9, <1>10, <2>1
  <2>3. ASSUME NEW j \in 1..L, NEW k \in 1..L, j < k
        PROVE  w[j][2] < w[k][1]
    <3>3. j \in 1..L - 1
      <4>1. L \in Nat
        BY <1>1
      <4> QED
        BY <2>3, <4>1
    <3>1. w[j] = done[j]
      BY <1>9, <3>3
    <3>2. w[k][1] = done[k][1]
      BY <1>7, <1>9, <1>10
    <3> QED
      BY <1>1, <2>3, <3>1, <3>2
  <2> QED
    BY <1>9, <2>2, <2>3 DEF Apart
<1>12. Spans(w, q, n)
  <2> SUFFICES ASSUME NEW k \in 1..n
               PROVE  \E j \in 1..Len(w) : w[j][1] <= q[k][1] /\ q[k][2] <= w[j][2]
    BY DEF Spans
  <2>1. CASE k = n
    BY <1>2, <1>3, <1>4, <1>5, <1>7, <1>9, <2>1
  <2>2. CASE k # n
    <3>1. k \in 1..n - 1
      BY <2>2
    <3>2. PICK j \in 1..L : done[j][1] <= q[k][1] /\ q[k][2] <= done[j][2]
      BY <3>1 DEF MergeInv, Spans
    <3>3. CASE j \in 1..L - 1
      BY <1>9, <3>2, <3>3
    <3>4. CASE j = L
      <4>1. q[k] \in Nat \X Nat
        BY <1>2, <3>1 DEF Busy
      <4> QED
        <5>1. d[1] <= q[k][1] /\ q[k][2] <= d[2]
          BY <3>2, <3>4
        <5>2. q[k][2] <= m
          BY <1>3, <1>5, <4>1, <5>1
        <5>3. L \in 1..Len(w) /\ w[L][1] <= q[k][1] /\ q[k][2] <= w[L][2]
          BY <1>3, <1>7, <1>9, <5>1, <5>2
        <5> QED
          BY <5>3
    <3> QED
      BY <1>10, <3>3, <3>4
  <2> QED
    BY <2>1, <2>2
<1>13. ASSUME NEW x \in Nat, NEW y \in Nat, x < y, Avoids(x, y, q, n)
       PROVE  Avoids(x, y, w, Len(w))
  <2>1. Avoids(x, y, q, n - 1) /\ (b[2] <= x \/ y <= b[1])
    BY <1>13 DEF Avoids
  <2>2. Avoids(x, y, done, L)
    BY <1>13, <2>1 DEF MergeInv
  <2>3. d[2] <= x \/ y <= d[1]
    BY <1>3, <2>2 DEF Avoids
  <2>5. d[1] \in Nat /\ d[2] \in Nat /\ b[1] \in Nat /\ b[2] \in Nat
    BY <1>2, <1>3
  <2>4. m <= x \/ y <= d[1]
    <3>1. CASE y <= d[1]
      BY <3>1
    <3>2. CASE d[2] <= x
      BY <1>1, <1>3, <1>4, <1>5, <1>13, <2>1, <2>5, <3>2
    <3> QED
      BY <2>3, <3>1, <3>2
  <2> QED
    BY <1>7, <1>9, <1>10, <2>2, <2>4 DEF Avoids
<1>14. n # 0 /\ w # <<>> /\ w[Len(w)][1] <= q[n][1]
  <2>1. w # <<>>
    BY <1>3, <1>9
  <2> QED
    BY <1>4, <1>7, <1>9, <2>1
<1> QED
  BY <1>11, <1>12, <1>13, <1>14 DEF MergeInv, w, m, Last

LEMMA MergeStep ==
  ASSUME NEW q, Busy(q), NEW n \in 1..Len(q), NEW done, MergeInv(done, q, n - 1)
  PROVE  MergeInv(Merge(done, q[n]), q, n)
<1>1. CASE done # <<>> /\ q[n][1] <= Last(done)[2]
  BY <1>1, Widened DEF Merge, Last
<1>2. CASE ~(done # <<>> /\ q[n][1] <= Last(done)[2])
  <2>1. Merge(done, q[n]) = Append(done, q[n])
    BY <1>2 DEF Merge
  <2>2. CASE done = <<>>
    BY <2>1, <2>2, Appended
  <2>3. CASE done # <<>>
    <3>1. done \in Seq(Nat \X Nat) /\ q \in Seq(Nat \X Nat)
      BY DEF MergeInv, Apart, Busy
    <3>2. done[Len(done)] \in Nat \X Nat /\ q[n] \in Nat \X Nat
      <4>1. Len(done) \in 1..Len(done)
        BY <2>3, <3>1
      <4> QED
        BY <3>1, <4>1
    <3>3. done[Len(done)][2] < q[n][1]
      BY <1>2, <2>3, <3>2 DEF Last
    <3> QED
      BY <2>1, <3>3, Appended
  <2> QED
    BY <2>2, <2>3
<1> QED
  BY <1>1, <1>2

LEMMA MergedAre ==
  ASSUME NEW q, Busy(q)
  PROVE  MergeInv(Merged(q), q, Len(q))
<1> DEFINE n == Len(q)
           Is(h) == h = [i \in 0..n |-> IF i = 0 THEN <<>> ELSE Merge(h[i - 1], q[i])]
<1>1. n \in Nat /\ \A i \in 1..n : q[i] \in Nat \X Nat
  BY DEF Busy
<1>2. Merged(q) = (CHOOSE h : Is(h))[n]
  BY DEF Merged
<1> HIDE DEF n
<1>3. MergeInv(<<>>, q, 0)
  <2> DEFINE e == <<>>
  <2>1. e \in Seq(Nat \X Nat) /\ Len(e) = 0
    OBVIOUS
  <2>2. Apart(e) /\ Spans(e, q, 0) /\ \A x, y \in Nat : Avoids(x, y, e, Len(e))
    BY <2>1 DEF Apart, Spans, Avoids
  <2> QED
    BY <2>2 DEF MergeInv
<1>4. PICK step : \A i \in 1..n, done \in Seq(Nat \X Nat) :
                    step[i][done] = IF Merge(done, q[i]) \in Seq(Nat \X Nat) THEN Merge(done, q[i]) ELSE <<>>
  <2> DEFINE step == [i \in 1..n |-> [done \in Seq(Nat \X Nat) |->
                        IF Merge(done, q[i]) \in Seq(Nat \X Nat) THEN Merge(done, q[i]) ELSE <<>>]]
  <2>1. \A i \in 1..n, done \in Seq(Nat \X Nat) :
                    step[i][done] = IF Merge(done, q[i]) \in Seq(Nat \X Nat) THEN Merge(done, q[i]) ELSE <<>>
    OBVIOUS
  <2> HIDE DEF step
  <2> QED
    BY <2>1
<1>5. PICK f : Unfolds(f, step, n, Seq(Nat \X Nat), <<>>)
  <2>1. <<>> \in Seq(Nat \X Nat)
    OBVIOUS
  <2>2. ASSUME NEW i \in 1..n, NEW done \in Seq(Nat \X Nat)
        PROVE  step[i][done] \in Seq(Nat \X Nat)
    BY <1>4, <2>1
  <2>3. StepsWithin(step, n, Seq(Nat \X Nat))
    BY <2>2 DEF StepsWithin
  <2> QED
    BY <1>1, <2>1, <2>3, RecursionExists
<1>6. \A i \in 0..n : MergeInv(f[i], q, i)
  <2> DEFINE holds == {i \in 0..n : MergeInv(f[i], q, i)}
  <2>1. 0 \in holds
    BY <1>1, <1>3, <1>5 DEF Unfolds
  <2>2. ASSUME NEW i \in 1..n, i - 1 \in holds PROVE i \in holds
    <3>1. MergeInv(f[i - 1], q, i - 1) /\ f[i - 1] \in Seq(Nat \X Nat)
      BY <2>2 DEF MergeInv, Apart
    <3>2. MergeInv(Merge(f[i - 1], q[i]), q, i)
      BY <3>1, MergeStep DEF n
    <3>3. f[i] = Merge(f[i - 1], q[i])
      BY <1>4, <1>5, <3>1, <3>2 DEF MergeInv, Apart, Unfolds
    <3> QED
      BY <3>2, <3>3
  <2>3. \A i \in 1..n : i - 1 \in holds => i \in holds
    BY <2>2
  <2> HIDE DEF holds
  <2>4. \A i \in 0..n : i \in holds
    BY <1>1, <2>1, <2>3, CountingUp
  <2> QED
    BY <2>4 DEF holds
<1>7. ASSUME NEW i \in 1..n
      PROVE  f[i] = Merge(f[i - 1], q[i])
  <2>1. i - 1 \in 0..n
    BY <1>1
  <2>2. MergeInv(f[i - 1], q, i - 1) /\ f[i - 1] \in Seq(Nat \X Nat)
    BY <1>6, <2>1 DEF MergeInv, Apart
  <2>3. MergeInv(Merge(f[i - 1], q[i]), q, i)
    BY <2>2, MergeStep DEF n
  <2> QED
    BY <1>4, <1>5, <2>2, <2>3 DEF MergeInv, Apart, Unfolds
<1>8. Is(f)
  <2>1. ASSUME NEW i \in 0..n
        PROVE  f[i] = IF i = 0 THEN <<>> ELSE Merge(f[i - 1], q[i])
    <3>1. i = 0 \/ i \in 1..n
      BY <1>1
    <3> QED
      BY <1>5, <1>7, <3>1 DEF Unfolds
  <2>2. f = [i \in 0..n |-> f[i]]
    BY <1>5 DEF Unfolds
  <2> QED
    BY <2>1, <2>2
<1>9. Is(CHOOSE h : Is(h))
  BY <1>8
<1> DEFINE g == CHOOSE h : Is(h)
<1>10. \A i \in 0..n : g[i] = IF i = 0 THEN <<>> ELSE Merge(g[i - 1], q[i])
  BY <1>9
<1> HIDE DEF g
<1>11. \A i \in 0..n : g[i] = f[i]
  <2> DEFINE holds == {i \in 0..n : g[i] = f[i]}
  <2>1. 0 \in holds
    BY <1>1, <1>5, <1>10 DEF Unfolds
  <2>2. ASSUME NEW i \in 1..n, i - 1 \in holds PROVE i \in holds
    <3>1. g[i - 1] = f[i - 1] /\ i \in 0..n /\ i # 0
      BY <1>1, <2>2
    <3> QED
      BY <1>7, <1>10, <3>1
  <2>3. \A i \in 1..n : i - 1 \in holds => i \in holds
    BY <2>2
  <2> HIDE DEF holds
  <2>4. \A i \in 0..n : i \in holds
    BY <1>1, <2>1, <2>3, CountingUp
  <2> QED
    BY <2>4 DEF holds
<1>12. Merged(q) = f[n] /\ MergeInv(f[n], q, n)
  <2>1. g[n] = f[n] /\ MergeInv(f[n], q, n)
    BY <1>1, <1>6, <1>11
  <2> QED
    BY <1>2, <2>1 DEF g
<1> QED
  BY <1>12 DEF n

(* The sweep: the cursor is behind all times so far, and whatever stretch of *)
(* the search lies before it and avoids them is in a window.                 *)
WindowKept(v, q, n, from, least) ==
  /\ v \in Nat \X Nat /\ v[1] >= from /\ v[2] >= v[1] + least
  /\ \E k \in 1..n : v[2] = q[k][1] /\ \A j \in 1..k - 1 : q[j][2] <= v[1]

Within(x, y, free) == \E v \in ToSet(free) : v[1] <= x /\ y <= v[2]

CursorRight(c, q, n, from) ==
  /\ c \in Nat /\ c >= from /\ \A k \in 1..n : q[k][2] <= c
  /\ c = from \/ \E k \in 1..n : c = q[k][2]

SweepInv(w, q, n, from, least) ==
  /\ w = [cursor |-> w.cursor, free |-> w.free]
  /\ CursorRight(w.cursor, q, n, from)
  /\ w.free \in Seq(Nat \X Nat) /\ \A v \in ToSet(w.free) : WindowKept(v, q, n, from, least)
  /\ \A x \in Nat : from <= x /\ x + least <= w.cursor /\ Avoids(x, x + least, q, n)
                      => Within(x, x + least, w.free)

LEMMA ToSetAppend ==
  ASSUME NEW X, NEW s \in Seq(X), NEW e
  PROVE  ToSet(Append(s, e)) = ToSet(s) \cup {e}
<1> DEFINE w == Append(s, e)
<1>1. DOMAIN w = 1..Len(s) + 1 /\ w[Len(s) + 1] = e /\ \A i \in 1..Len(s) : w[i] = s[i]
  OBVIOUS
<1>2. DOMAIN s = 1..Len(s) /\ Len(s) \in Nat
  OBVIOUS
<1>3. Len(s) + 1 \in 1..Len(s) + 1 /\ \A i \in 1..Len(s) + 1 : i = Len(s) + 1 \/ i \in 1..Len(s)
  BY <1>2
<1>4. \A i \in 1..Len(s) : i \in 1..Len(s) + 1
  BY <1>2
<1> HIDE DEF w
<1>5. ToSet(w) = ToSet(s) \cup {e}
  BY <1>1, <1>2, <1>3, <1>4 DEF ToSet
<1> QED
  BY <1>5 DEF w

(* Past a cursor that is right, a stretch that avoids the times begins.      *)
LEMMA BeginsBehind ==
  ASSUME NEW q, Apart(q), NEW n \in 0..Len(q), NEW from \in Nat, NEW c, CursorRight(c, q, n, from),
         NEW x \in Nat, NEW y \in Nat, from <= x, x < y, Avoids(x, y, q, n), y > c
  PROVE  c <= x
<1>1. CASE c = from
  BY <1>1
<1>2. CASE \E k \in 1..n : c = q[k][2]
  <2>1. PICK k \in 1..n : c = q[k][2]
    BY <1>2
  <2>2. q[k] \in Nat \X Nat /\ q[k][1] < q[k][2]
    BY DEF Apart
  <2>3. q[k][2] <= x \/ y <= q[k][1]
    BY DEF Avoids
  <2> QED
    BY <2>1, <2>2, <2>3
<1> QED
  BY <1>1, <1>2 DEF CursorRight

LEMMA SweepStep ==
  ASSUME NEW q, Apart(q), NEW n \in 1..Len(q), NEW from \in Nat, NEW least \in Nat \ {0}, NEW w,
         SweepInv(w, q, n - 1, from, least)
  PROVE  SweepInv(Sweep(w, q[n], least), q, n, from, least)
<1> DEFINE c == w.cursor
           b == q[n]
           d == Max({c, b[2]})
           v == <<c, b[1]>>
           free == IF b[1] > c /\ b[1] >= c + least THEN Append(w.free, v) ELSE w.free
<1>1. Sweep(w, b, least) = [cursor |-> d, free |-> free]
  BY DEF Sweep
<1>2. /\ c \in Nat /\ c >= from /\ \A k \in 1..n - 1 : q[k][2] <= c
      /\ c = from \/ \E k \in 1..n - 1 : c = q[k][2]
  BY DEF SweepInv, CursorRight
<1>3. q \in Seq(Nat \X Nat) /\ b \in Nat \X Nat /\ b[1] < b[2] /\ n \in Nat /\ n - 1 \in 0..Len(q)
  BY DEF Apart
<1>4. d \in {c, b[2]} /\ d >= c /\ d >= b[2] /\ d \in Nat
  BY <1>2, <1>3, MaxOfTwo
<1>5. \A k \in 1..n : k = n \/ k \in 1..n - 1
  BY <1>3
<1>6. \A k \in 1..n - 1 : k \in 1..n
  BY <1>3
<1>7. \A k \in 1..n - 1 : q[k] \in Nat \X Nat
  BY <1>3
<1> HIDE DEF d
<1>8. CursorRight(d, q, n, from)
  <2>1. \A k \in 1..n : q[k][2] <= d
    <3> TAKE k \in 1..n
    <3>1. CASE k = n
      BY <1>4, <3>1
    <3>2. CASE k \in 1..n - 1
      <4>1. q[k][2] <= c /\ q[k][2] \in Nat
        BY <1>2, <1>7, <3>2
      <4> QED
        BY <1>2, <1>4, <4>1
    <3> QED
      BY <1>5, <3>1, <3>2
  <2>2. d = from \/ \E k \in 1..n : d = q[k][2]
    <3>1. CASE d = b[2]
      <4>1. n \in 1..n
        BY <1>3
      <4> QED
        BY <3>1, <4>1
    <3>2. CASE d = c
      BY <1>2, <1>6, <3>2
    <3> QED
      BY <1>4, <3>1, <3>2
  <2>3. d >= from
    BY <1>2, <1>4
  <2> QED
    BY <1>4, <2>1, <2>2, <2>3 DEF CursorRight
<1>9. w.free \in Seq(Nat \X Nat) /\ v \in Nat \X Nat /\ v[1] = c /\ v[2] = b[1]
  BY <1>2, <1>3 DEF SweepInv
<1> HIDE DEF v
<1>10. free \in Seq(Nat \X Nat) /\ ToSet(w.free) \subseteq ToSet(free) /\ ToSet(free) \subseteq ToSet(w.free) \cup {v}
       /\ (b[1] > c /\ b[1] >= c + least => v \in ToSet(free))
       /\ (v \in ToSet(free) \ ToSet(w.free) => b[1] > c /\ b[1] >= c + least)
  <2>1. CASE b[1] > c /\ b[1] >= c + least
    <3>1. Append(w.free, v) \in Seq(Nat \X Nat)
      BY <1>9
    <3>2. ToSet(Append(w.free, v)) = ToSet(w.free) \cup {v}
      BY <1>9, ToSetAppend
    <3> QED
      BY <2>1, <3>1, <3>2
  <2>2. CASE ~(b[1] > c /\ b[1] >= c + least)
    BY <1>9, <2>2
  <2> QED
    BY <2>1, <2>2
<1> HIDE DEF free
<1>11. ASSUME NEW u \in ToSet(free)
       PROVE  WindowKept(u, q, n, from, least)
  <2>1. CASE u \in ToSet(w.free)
    <3>1. WindowKept(u, q, n - 1, from, least)
      BY <2>1 DEF SweepInv
    <3> QED
      BY <1>6, <3>1 DEF WindowKept
  <2>2. CASE u \notin ToSet(w.free)
    <3>1. u = v /\ b[1] > c /\ b[1] >= c + least
      BY <1>10, <2>2
    <3>2. u[1] >= from /\ u[2] >= u[1] + least
      BY <1>2, <1>9, <3>1
    <3>3. u[2] = q[n][1] /\ \A j \in 1..n - 1 : q[j][2] <= u[1]
      BY <1>2, <1>9, <3>1
    <3>4. n \in 1..n
      BY <1>3
    <3> QED
      BY <1>9, <3>1, <3>2, <3>3, <3>4 DEF WindowKept
  <2> QED
    BY <2>1, <2>2
<1>12. ASSUME NEW x \in Nat, from <= x, x + least <= d, Avoids(x, x + least, q, n)
       PROVE  Within(x, x + least, free)
  <2>1. Avoids(x, x + least, q, n - 1) /\ (b[2] <= x \/ x + least <= b[1])
    <3>1. \A k \in 1..n : q[k][2] <= x \/ x + least <= q[k][1]
      BY <1>12 DEF Avoids
    <3>2. n \in 1..n
      BY <1>3
    <3> QED
      BY <1>6, <3>1, <3>2 DEF Avoids
  <2>2. CASE x + least <= c
    <3>1. Within(x, x + least, w.free)
      BY <1>12, <2>1, <2>2 DEF SweepInv
    <3> QED
      BY <1>10, <3>1 DEF Within
  <2>3. CASE x + least > c
    <3>1. x + least \in Nat /\ x < x + least
      OBVIOUS
    <3>2. CursorRight(c, q, n - 1, from)
      BY DEF SweepInv
    <3>3. c <= x
      BY <1>3, <1>12, <2>1, <2>3, <3>1, <3>2, BeginsBehind
    <3>4. d = b[2] /\ x + least <= b[1]
      BY <1>2, <1>3, <1>4, <1>12, <2>1, <2>3
    <3>5. b[1] > c /\ b[1] >= c + least
      <4>1. b[1] \in Nat
        BY <1>3
      <4>2. c \in Nat
        BY <1>2
      <4> HIDE DEF c, b
      <4> QED
        BY <3>3, <3>4, <4>1, <4>2
    <3>6. v \in ToSet(free) /\ v[1] <= x /\ x + least <= v[2]
      BY <1>9, <1>10, <3>3, <3>4, <3>5
    <3> QED
      BY <3>6 DEF Within
  <2> QED
    BY <1>2, <2>2, <2>3
<1>13. PICK s : s = [cursor |-> d, free |-> free]
  OBVIOUS
<1>14. s.cursor = d /\ s.free = free /\ s = [cursor |-> s.cursor, free |-> s.free]
  BY <1>13
<1>15. SweepInv(s, q, n, from, least)
  BY <1>8, <1>10, <1>11, <1>12, <1>14 DEF SweepInv
<1> QED
  BY <1>1, <1>13, <1>15 DEF d, free, v

Swept(q, from, least) ==
  LET upTo[i \in 0..Len(q)] ==
        IF i = 0 THEN [cursor |-> from, free |-> <<>>] ELSE Sweep(upTo[i - 1], q[i], least)
  IN  upTo[Len(q)]

LEMMA SweptIs ==
  ASSUME NEW q, Apart(q), NEW from \in Nat, NEW least \in Nat \ {0}
  PROVE  SweepInv(Swept(q, from, least), q, Len(q), from, least)
<1> DEFINE n == Len(q)
           X == {w \in [cursor : Nat, free : Seq(Nat \X Nat)] : TRUE}
           start == [cursor |-> from, free |-> <<>>]
           Is(h) == h = [i \in 0..n |-> IF i = 0 THEN start ELSE Sweep(h[i - 1], q[i], least)]
<1>1. n \in Nat /\ \A i \in 1..n : q[i] \in Nat \X Nat
  BY DEF Apart
<1>2. Swept(q, from, least) = (CHOOSE h : Is(h))[n]
  BY DEF Swept
<1> HIDE DEF n
<1>3. SweepInv(start, q, 0, from, least) /\ start \in X
  <2>1. start.cursor = from /\ start.free = <<>> /\ start = [cursor |-> start.cursor, free |-> start.free]
    OBVIOUS
  <2> HIDE DEF start
  <2>2. <<>> \in Seq(Nat \X Nat) /\ \A v : v \notin ToSet(<<>>)
    BY DEF ToSet
  <2>3. CursorRight(start.cursor, q, 0, from)
    BY <2>1 DEF CursorRight
  <2>4. \A x \in Nat : ~(from <= x /\ x + least <= start.cursor)
    BY <2>1
  <2> QED
    BY <2>1, <2>2, <2>3, <2>4 DEF SweepInv
<1>4. \A w, i : SweepInv(w, q, i, from, least) => w \in X
  <2> TAKE w, i
  <2> HAVE SweepInv(w, q, i, from, least)
  <2>1. w = [cursor |-> w.cursor, free |-> w.free] /\ w.cursor \in Nat /\ w.free \in Seq(Nat \X Nat)
    BY DEF SweepInv, CursorRight
  <2> QED
    BY <2>1
<1> HIDE DEF start, X
<1>5. PICK step : \A i \in 1..n, w \in X :
                    step[i][w] = IF Sweep(w, q[i], least) \in X THEN Sweep(w, q[i], least) ELSE start
  <2> DEFINE step == [i \in 1..n |-> [w \in X |-> IF Sweep(w, q[i], least) \in X THEN Sweep(w, q[i], least) ELSE start]]
  <2>1. \A i \in 1..n, w \in X :
                    step[i][w] = IF Sweep(w, q[i], least) \in X THEN Sweep(w, q[i], least) ELSE start
    OBVIOUS
  <2> HIDE DEF step
  <2> QED
    BY <2>1
<1>6. PICK f : Unfolds(f, step, n, X, start)
  <2>2. ASSUME NEW i \in 1..n, NEW w \in X
        PROVE  step[i][w] \in X
    BY <1>3, <1>5
  <2>3. StepsWithin(step, n, X)
    BY <2>2 DEF StepsWithin
  <2> QED
    BY <1>1, <1>3, <2>3, RecursionExists
<1>7. ASSUME NEW i \in 1..n, SweepInv(f[i - 1], q, i - 1, from, least)
      PROVE  SweepInv(f[i], q, i, from, least) /\ f[i] = Sweep(f[i - 1], q[i], least)
  <2>1. SweepInv(Sweep(f[i - 1], q[i], least), q, i, from, least)
    BY <1>7, SweepStep DEF n
  <2>2. f[i] = Sweep(f[i - 1], q[i], least)
    BY <1>4, <1>5, <1>6, <1>7, <2>1 DEF Unfolds
  <2> QED
    BY <2>1, <2>2
<1>8. \A i \in 0..n : SweepInv(f[i], q, i, from, least)
  <2> DEFINE holds == {i \in 0..n : SweepInv(f[i], q, i, from, least)}
  <2>1. 0 \in holds
    BY <1>1, <1>3, <1>6 DEF Unfolds
  <2>2. ASSUME NEW i \in 1..n, i - 1 \in holds PROVE i \in holds
    BY <1>7, <2>2
  <2>3. \A i \in 1..n : i - 1 \in holds => i \in holds
    BY <2>2
  <2> HIDE DEF holds
  <2>4. \A i \in 0..n : i \in holds
    BY <1>1, <2>1, <2>3, CountingUp
  <2> QED
    BY <2>4 DEF holds
<1>9. ASSUME NEW i \in 1..n
      PROVE  f[i] = Sweep(f[i - 1], q[i], least)
  <2>1. i - 1 \in 0..n
    BY <1>1
  <2> QED
    BY <1>7, <1>8, <2>1
<1>10. Is(f)
  <2>1. ASSUME NEW i \in 0..n
        PROVE  f[i] = IF i = 0 THEN start ELSE Sweep(f[i - 1], q[i], least)
    <3>1. i = 0 \/ i \in 1..n
      BY <1>1
    <3> QED
      BY <1>6, <1>9, <3>1 DEF Unfolds
  <2>2. f = [i \in 0..n |-> f[i]]
    BY <1>6 DEF Unfolds
  <2> QED
    BY <2>1, <2>2
<1>11. Is(CHOOSE h : Is(h))
  BY <1>10
<1> DEFINE g == CHOOSE h : Is(h)
<1>12. \A i \in 0..n : g[i] = IF i = 0 THEN start ELSE Sweep(g[i - 1], q[i], least)
  BY <1>11
<1> HIDE DEF g
<1>13. \A i \in 0..n : g[i] = f[i]
  <2> DEFINE holds == {i \in 0..n : g[i] = f[i]}
  <2>1. 0 \in holds
    BY <1>1, <1>6, <1>12 DEF Unfolds
  <2>2. ASSUME NEW i \in 1..n, i - 1 \in holds PROVE i \in holds
    <3>1. g[i - 1] = f[i - 1] /\ i \in 0..n /\ i # 0
      BY <1>1, <2>2
    <3> QED
      BY <1>9, <1>12, <3>1
  <2>3. \A i \in 1..n : i - 1 \in holds => i \in holds
    BY <2>2
  <2> HIDE DEF holds
  <2>4. \A i \in 0..n : i \in holds
    BY <1>1, <2>1, <2>3, CountingUp
  <2> QED
    BY <2>4 DEF holds
<1>14. Swept(q, from, least) = f[n] /\ SweepInv(f[n], q, n, from, least)
  <2>1. g[n] = f[n] /\ SweepInv(f[n], q, n, from, least)
    BY <1>1, <1>8, <1>13
  <2> QED
    BY <1>2, <2>1 DEF g, start
<1> QED
  BY <1>14 DEF n

(* free_slots: its windows lie in the search, are long enough, are free of   *)
(* the day's events, and none is missing.                                    *)
WindowsRight(free, day, from, to, least) ==
  /\ \A w \in free : w[1] >= from /\ w[2] >= w[1] + least
  /\ \A w \in free, e \in day : Ends(e) <= w[1] \/ w[2] <= e.start
  /\ \A t \in from..to :
       (t + least <= to /\ \A e \in day : Ends(e) <= t \/ t + least <= e.start)
         => \E w \in free : w[1] <= t /\ t + least <= w[2]

LEMMA WindowsAre ==
  ASSUME NEW s, NEW date, IsFiniteSet(events[s]), events[s] \subseteq Event,
         NEW from \in Nat, NEW to \in Nat, from < to, NEW least \in Nat \ {0}
  PROVE  WindowsRight(ToSet(Windows(s, date, from, to, least)), {e \in events[s] : e.date = date}, from, to, least)
<1> DEFINE q    == BusyTimes(s, date)
           m    == Merged(q)
           w    == Swept(m, from, least)
           last == <<w.cursor, to>>
           list == IF to >= w.cursor + least THEN Append(w.free, last) ELSE w.free
           free == ToSet(list)
           day  == {e \in events[s] : e.date = date}
           n    == Len(m)
<1>1. Windows(s, date, from, to, least) = list
  BY DEF Windows, Swept
<1>2. /\ Busy(q)
      /\ \A i \in 1..Len(q) : \E e \in day : q[i] = <<e.start, Ends(e)>>
      /\ \A e \in day : \E i \in 1..Len(q) : q[i] = <<e.start, Ends(e)>>
  <2>1. InOrder(q, s, date)
    BY BusyTimesAre
  <2> HIDE DEF q
  <2> QED
    BY <2>1 DEF InOrder, Busy
<1>3. \A e \in day : e.start \in Nat /\ Ends(e) \in Nat
  <2> TAKE e \in day
  <2>1. e \in Event
    OBVIOUS
  <2>2. e.start \in Nat /\ e.length \in Nat
    BY <2>1, InstantsAreNumbers DEF Event
  <2> QED
    BY <2>2 DEF Ends
<1> HIDE DEF q, day
<1>4. MergeInv(m, q, Len(q))
  BY <1>2, MergedAre
<1>5. Apart(m) /\ Spans(m, q, Len(q))
      /\ \A x, y \in Nat : x < y /\ Avoids(x, y, q, Len(q)) => Avoids(x, y, m, n)
  BY <1>4 DEF MergeInv
<1> HIDE DEF m
<1>6. SweepInv(w, m, n, from, least)
  BY <1>5, SweptIs
<1> HIDE DEF w
<1>7. n \in Nat /\ n \in 0..Len(m) /\ \A k \in 1..n : m[k] \in Nat \X Nat /\ m[k][1] < m[k][2]
  BY <1>5 DEF Apart
<1>8. /\ CursorRight(w.cursor, m, n, from)
      /\ w.free \in Seq(Nat \X Nat) /\ \A v \in ToSet(w.free) : WindowKept(v, m, n, from, least)
      /\ \A x \in Nat : from <= x /\ x + least <= w.cursor /\ Avoids(x, x + least, m, n)
                          => Within(x, x + least, w.free)
  BY <1>6 DEF SweepInv
<1>9. w.cursor \in Nat /\ w.cursor >= from /\ \A k \in 1..n : m[k][2] <= w.cursor
  BY <1>8 DEF CursorRight
<1>10. /\ ToSet(w.free) \subseteq free /\ free \subseteq ToSet(w.free) \cup {last}
       /\ to >= w.cursor + least => last \in free
       /\ last \in free \ ToSet(w.free) => to >= w.cursor + least
  <2>1. CASE to >= w.cursor + least
    <3>1. ToSet(Append(w.free, last)) = ToSet(w.free) \cup {last}
      BY <1>8, ToSetAppend
    <3> QED
      BY <2>1, <3>1
  <2>2. CASE ~(to >= w.cursor + least)
    BY <2>2
  <2> QED
    BY <2>1, <2>2
<1>11. last[1] = w.cursor /\ last[2] = to
  OBVIOUS
<1> HIDE DEF free, list, last, n
<1>12. ASSUME NEW v \in free
       PROVE  /\ v[1] \in Nat /\ v[2] \in Nat /\ v[1] >= from /\ v[2] >= v[1] + least
              /\ \A k \in 1..n : m[k][2] <= v[1] \/ v[2] <= m[k][1]
  <2>1. CASE v \in ToSet(w.free)
    <3>1. WindowKept(v, m, n, from, least)
      BY <1>8, <2>1
    <3>2. PICK k \in 1..n : v[2] = m[k][1] /\ \A j \in 1..k - 1 : m[j][2] <= v[1]
      BY <3>1 DEF WindowKept
    <3>3. ASSUME NEW j \in 1..n PROVE m[j][2] <= v[1] \/ v[2] <= m[j][1]
      <4>1. CASE j \in 1..k - 1
        BY <3>2, <4>1
      <4>2. CASE j = k
        <5>1. v[2] \in Nat
          BY <1>7, <3>2
        <5> QED
          BY <3>2, <4>2, <5>1
      <4>3. CASE k < j
        <5>1. m[k][2] < m[j][1] /\ m[k] \in Nat \X Nat /\ m[j] \in Nat \X Nat /\ m[k][1] < m[k][2]
          BY <1>5, <1>7, <4>3 DEF Apart, n
        <5> QED
          BY <3>2, <5>1
      <4>4. j \in 1..k - 1 \/ j = k \/ k < j
        BY <1>7
      <4> QED
        BY <4>1, <4>2, <4>3, <4>4
    <3> QED
      BY <3>1, <3>3 DEF WindowKept
  <2>2. CASE v \notin ToSet(w.free)
    <3>1. v = last /\ to >= w.cursor + least
      BY <1>10, <2>2
    <3> QED
      BY <1>9, <1>11, <3>1
  <2> QED
    BY <2>1, <2>2
<1>13. ASSUME NEW v \in free, NEW e \in day
       PROVE  Ends(e) <= v[1] \/ v[2] <= e.start
  <2>1. PICK i \in 1..Len(q) : q[i] = <<e.start, Ends(e)>>
    BY <1>2
  <2>2. PICK k \in 1..n : m[k][1] <= q[i][1] /\ q[i][2] <= m[k][2]
    BY <1>5 DEF Spans, n
  <2>3. m[k][1] <= e.start /\ Ends(e) <= m[k][2]
    BY <2>1, <2>2
  <2>4. /\ m[k][1] \in Nat /\ m[k][2] \in Nat /\ v[1] \in Nat /\ v[2] \in Nat
        /\ m[k][2] <= v[1] \/ v[2] <= m[k][1]
    BY <1>7, <1>12
  <2> QED
    BY <1>3, <2>3, <2>4
<1>14. ASSUME NEW t \in from..to, t + least <= to, \A e \in day : Ends(e) <= t \/ t + least <= e.start
       PROVE  \E v \in free : v[1] <= t /\ t + least <= v[2]
  <2>1. t \in Nat /\ t + least \in Nat /\ t < t + least /\ from <= t
    OBVIOUS
  <2>2. ASSUME NEW i \in 1..Len(q)
        PROVE  q[i][2] <= t \/ t + least <= q[i][1]
    <3>1. PICK e \in day : q[i] = <<e.start, Ends(e)>>
      BY <1>2
    <3>2. q[i][1] = e.start /\ q[i][2] = Ends(e)
      BY <3>1
    <3> QED
      BY <1>14, <3>2
  <2>3. Avoids(t, t + least, q, Len(q))
    BY <2>2 DEF Avoids
  <2>4. Avoids(t, t + least, m, n)
    BY <1>5, <2>1, <2>3
  <2>5. CASE t + least <= w.cursor
    <3>1. Within(t, t + least, w.free)
      BY <1>8, <2>1, <2>4, <2>5
    <3> QED
      BY <1>10, <3>1 DEF Within
  <2>6. CASE t + least > w.cursor
    <3>1. w.cursor <= t
      BY <1>5, <1>7, <1>8, <2>1, <2>4, <2>6, BeginsBehind
    <3>2. to >= w.cursor + least
      BY <1>9, <1>14, <2>1, <3>1
    <3> QED
      BY <1>10, <1>11, <1>14, <3>1, <3>2
  <2> QED
    BY <1>9, <2>1, <2>5, <2>6
<1>15. WindowsRight(free, day, from, to, least)
  BY <1>12, <1>13, <1>14 DEF WindowsRight
<1> QED
  BY <1>1, <1>15 DEF free, day

(* A server whose save counts holds what the file has.                       *)
CalendarInv ==
  /\ CalendarTypeOK
  /\ \A s \in CalendarHosts : IsFiniteSet(events[s]) /\ (s \notin apart => events[s] = calendarFile)
  /\ IsFiniteSet(calendarFile)

LEMMA SaveEventsKeeps ==
  ASSUME CalendarInv, NEW s \in CalendarHosts, NEW after \in SUBSET Event, IsFiniteSet(after), SaveEvents(s, after),
         created' \in 0..MaxEvents
  PROVE  CalendarInv'
<1>1. events' = [events EXCEPT ![s] = after] /\ events \in [CalendarHosts -> SUBSET Event]
  BY DEF SaveEvents, CalendarInv, CalendarTypeOK
<1>2. /\ events' \in [CalendarHosts -> SUBSET Event]
      /\ events'[s] = after /\ \A r \in CalendarHosts \ {s} : events'[r] = events[r]
  BY <1>1
<1>3. CASE calendarFile' = after /\ apart' = {r \in CalendarHosts \ {s} : r \in apart \/ events[r] # after}
  BY <1>2, <1>3 DEF CalendarInv, CalendarTypeOK
<1>4. CASE UNCHANGED calendarFile /\ apart' = apart \cup {s}
  BY <1>2, <1>4 DEF CalendarInv, CalendarTypeOK
<1> QED
  BY <1>3, <1>4 DEF SaveEvents

LEMMA CalendarStepInv == CalendarInv /\ [CalendarNext]_calendarVars => CalendarInv'
<1> SUFFICES ASSUME CalendarInv, [CalendarNext]_calendarVars
             PROVE  CalendarInv'
  OBVIOUS
<1>1. /\ created \in 0..MaxEvents /\ MaxEvents \in Nat
      /\ \A s \in CalendarHosts : events[s] \in SUBSET Event /\ IsFiniteSet(events[s])
  BY InstantsAreNumbers DEF CalendarInv, CalendarTypeOK
<1>2. ASSUME NEW s \in CalendarHosts, CreateEvent(s) PROVE CalendarInv'
  <2>1. PICK d \in Padded, t \in Starts, n \in Lengths :
          SaveEvents(s, events[s] \cup {[id |-> created + 1, date |-> d, start |-> t, length |-> n]})
    BY <1>2 DEF CreateEvent
  <2>2. created < MaxEvents /\ created' = created + 1
    BY <1>2 DEF CreateEvent
  <2>3. created' \in 0..MaxEvents /\ created + 1 \in 1..MaxEvents
    BY <1>1, <2>2
  <2>4. PICK e : e = [id |-> created + 1, date |-> d, start |-> t, length |-> n]
    OBVIOUS
  <2>5. e \in Event
    BY <2>3, <2>4, InstantsAreNumbers DEF Event
  <2>6. SaveEvents(s, events[s] \cup {e})
    BY <2>1, <2>4
  <2>7. events[s] \cup {e} \in SUBSET Event /\ IsFiniteSet(events[s] \cup {e})
    BY <1>1, <2>5, FS_AddElement
  <2> QED
    BY <2>3, <2>6, <2>7, SaveEventsKeeps
<1>3. ASSUME NEW s \in CalendarHosts, NEW e \in events[s], NEW f \in Event, SaveEvents(s, (events[s] \ {e}) \cup {f}),
             UNCHANGED created
      PROVE  CalendarInv'
  <2>1. (events[s] \ {e}) \cup {f} \in SUBSET Event /\ IsFiniteSet((events[s] \ {e}) \cup {f})
    BY <1>1, FS_AddElement, FS_RemoveElement
  <2> QED
    BY <1>1, <1>3, <2>1, SaveEventsKeeps
<1>4. ASSUME NEW s \in CalendarHosts, UpdateEvent(s) PROVE CalendarInv'
  <2>1. PICK e \in events[s] :
          \/ \E d \in Dates : SaveEvents(s, (events[s] \ {e}) \cup {[e EXCEPT !.date = d]})
          \/ \E t \in Starts, n \in Lengths :
               SaveEvents(s, (events[s] \ {e}) \cup {[e EXCEPT !.start = t, !.length = n]})
    BY <1>4 DEF UpdateEvent
  <2>2. UNCHANGED created /\ e \in Event
    BY <1>1, <1>4 DEF UpdateEvent
  <2>3. ASSUME NEW d \in Dates PROVE [e EXCEPT !.date = d] \in Event
    BY <2>2 DEF Event
  <2>4. ASSUME NEW t \in Starts, NEW n \in Lengths PROVE [e EXCEPT !.start = t, !.length = n] \in Event
    BY <2>2 DEF Event
  <2>5. CASE \E d \in Dates : SaveEvents(s, (events[s] \ {e}) \cup {[e EXCEPT !.date = d]})
    BY <1>3, <2>2, <2>3, <2>5
  <2>6. CASE \E t \in Starts, n \in Lengths :
               SaveEvents(s, (events[s] \ {e}) \cup {[e EXCEPT !.start = t, !.length = n]})
    BY <1>3, <2>2, <2>4, <2>6
  <2> QED
    BY <2>1, <2>5, <2>6
<1>5. ASSUME NEW s \in CalendarHosts, DeleteEvent(s) PROVE CalendarInv'
  <2>1. PICK e \in events[s] : SaveEvents(s, events[s] \ {e})
    BY <1>5 DEF DeleteEvent
  <2>2. events[s] \ {e} \in SUBSET Event /\ IsFiniteSet(events[s] \ {e}) /\ created' \in 0..MaxEvents
    BY <1>1, <1>5, FS_RemoveElement DEF DeleteEvent
  <2> QED
    BY <2>1, <2>2, SaveEventsKeeps
<1>6. ASSUME NEW s \in CalendarHosts, RestartServer(s) PROVE CalendarInv'
  <2>1. CASE events' = [events EXCEPT ![s] = calendarFile] /\ apart' = apart \ {s}
    BY <1>6, <2>1 DEF RestartServer, CalendarInv, CalendarTypeOK
  <2>2. CASE events' = [events EXCEPT ![s] = {}] /\ apart' = apart \cup {s}
    BY <1>6, <2>2, FS_EmptySet DEF RestartServer, CalendarInv, CalendarTypeOK
  <2> QED
    BY <1>6, <2>1, <2>2 DEF RestartServer
<1>7. CASE UNCHANGED calendarVars
  BY <1>7 DEF calendarVars, CalendarInv, CalendarTypeOK
<1> QED
  BY <1>2, <1>4, <1>5, <1>6, <1>7 DEF CalendarNext

LEMMA CalendarInitInv == CalendarInit => CalendarInv
BY FS_EmptySet, InstantsAreNumbers DEF CalendarInit, CalendarInv, CalendarTypeOK

LEMMA CalendarInvFree == CalendarInv => WindowsAreFree
<1> SUFFICES ASSUME CalendarInv, NEW s \in CalendarHosts, NEW date \in Dates, NEW from \in Instants,
                    NEW to \in Instants, NEW least \in Lengths, from < to
             PROVE  WindowsRight(ToSet(Windows(s, date, from, to, least)),
                                 {e \in (IF s \in apart THEN events[s] ELSE calendarFile) : e.date = date},
                                 from, to, least)
  BY DEF WindowsAreFree, WindowsRight
<1>1. (IF s \in apart THEN events[s] ELSE calendarFile) = events[s]
  BY DEF CalendarInv
<1>2. IsFiniteSet(events[s]) /\ events[s] \subseteq Event
  BY DEF CalendarInv, CalendarTypeOK
<1>3. from \in Nat /\ to \in Nat /\ least \in Nat \ {0}
  BY InstantsAreNumbers
<1>4. WindowsRight(ToSet(Windows(s, date, from, to, least)), {e \in events[s] : e.date = date}, from, to, least)
  BY <1>2, <1>3, WindowsAre
<1> QED
  BY <1>1, <1>4

-----------------------------------------------------------------------------
(***************************************************************************)
(* The to-do list and the playbook. Of the notes in the system message the *)
(* last are those of the run under way, whatever the runs before it have   *)
(* put there.                                                              *)
(***************************************************************************)
LEMMA MinOfTwo ==
  ASSUME NEW a \in Nat, NEW b \in Nat
  PROVE  Min({a, b}) \in {a, b} /\ Min({a, b}) <= a /\ Min({a, b}) <= b /\ Min({a, b}) \in Nat
<1>1. \E x \in {a, b} : \A y \in {a, b} : x <= y
  <2>1. a <= b \/ b <= a
    OBVIOUS
  <2> QED
    BY <2>1
<1>2. Min({a, b}) \in {a, b} /\ \A y \in {a, b} : Min({a, b}) <= y
  BY <1>1 DEF Min
<1> QED
  BY <1>2

LEMMA FilterLength ==
  ASSUME NEW X, NEW s \in Seq(X), NEW keep \in [1..Len(s) -> BOOLEAN]
  PROVE  Len(Filter(s, keep)) = Cardinality({i \in 1..Len(s) : keep[i]})
<1> DEFINE w == Filter(s, keep)
           kept == {i \in 1..Len(s) : keep[i]}
<1>1. w \in Seq(X) /\ \E spot : Picks(spot, w, s, keep)
  BY FilterIs
<1> HIDE DEF w
<1>2. PICK spot : Picks(spot, w, s, keep)
  BY <1>1
<1>3. Len(w) \in Nat
  BY <1>1
<1>4. spot \in Bijection(1..Len(w), kept)
  <2>1. spot \in [1..Len(w) -> kept] /\ \A k \in kept : \E i \in 1..Len(w) : spot[i] = k
    BY <1>2 DEF Picks
  <2>2. ASSUME NEW i \in 1..Len(w), NEW j \in 1..Len(w), spot[i] = spot[j] PROVE i = j
    <3>1. i < j \/ j < i \/ i = j
      BY <1>3
    <3>2. spot[i] \in Nat
      BY <1>2 DEF Picks
    <3>3. ~(i < j)
      BY <1>2, <2>2, <3>2 DEF Picks
    <3>4. ~(j < i)
      BY <1>2, <2>2, <3>2 DEF Picks
    <3> QED
      BY <3>1, <3>3, <3>4
  <2> QED
    BY <2>1, <2>2 DEF Bijection, Injection, Surjection, IsInjective
<1>5. Cardinality(kept) = Len(w)
  BY <1>3, <1>4, FS_CountingElements DEF ExistsBijection
<1> QED
  BY <1>5 DEF w

Todos == [id : 1..MaxRaw + 1, status : {"pending", "completed"}]

ListRight(todo, raw) ==
  /\ todo \in Seq(Todos) /\ raw \in Seq(RawItems)
  /\ Len(todo) = Min({MaxItems, Cardinality({i \in DOMAIN raw : raw[i] # Garbage})})

LEMMA ListMadeRight == ASSUME NEW raw \in RawLists PROVE ListRight(ListMade(raw), raw)
<1> DEFINE n    == Len(raw)
           id   == [i \in DOMAIN raw |-> i]
           keep == [i \in DOMAIN raw |-> raw[i] # Garbage]
           kept == {i \in DOMAIN raw : raw[i] # Garbage}
           chosen == Filter(id, keep)
           all  == Normalized(raw)
<1>1. PICK m \in 0..MaxRaw : raw \in [1..m -> RawItems]
  BY DEF RawLists
<1>2. raw \in Seq(RawItems) /\ n = m /\ DOMAIN raw = 1..n /\ n \in 0..MaxRaw
  <2>1. MaxRaw \in Nat /\ m \in Nat
    BY PlansAssumption
  <2>2. raw \in Seq(RawItems)
    BY <1>1, <2>1
  <2>3. DOMAIN raw = 1..m
    BY <1>1
  <2> QED
    BY <1>1, <2>1, <2>2, <2>3, LenProperties
<1>3. all = [k \in DOMAIN chosen |-> Proper(raw, chosen[k])]
  BY DEF Normalized
<1> HIDE DEF n
<1>4. id \in Seq(1..n) /\ Len(id) = n /\ keep \in [1..Len(id) -> BOOLEAN]
  <2>1. id \in [1..n -> 1..n]
    BY <1>2
  <2>2. id \in Seq(1..n)
    BY <1>2, <2>1
  <2>3. Len(id) = n
    <3>1. DOMAIN id = 1..n
      BY <1>2
    <3> QED
      BY <1>2, <2>2, <3>1, LenProperties
  <2>4. keep \in [1..n -> BOOLEAN]
    BY <1>2
  <2> QED
    BY <2>2, <2>3, <2>4
<1>5. chosen \in Seq(1..n) /\ Len(chosen) = Cardinality(kept)
      /\ \E spot : Picks(spot, chosen, id, keep)
  <2>1. {i \in 1..Len(id) : keep[i]} = kept
    BY <1>2, <1>4
  <2> HIDE DEF id, keep, kept
  <2> QED
    BY <1>4, <2>1, FilterIs, FilterLength
<1>6. \A i \in 1..n : id[i] = i /\ (keep[i] => raw[i] # Garbage)
  BY <1>2
<1> HIDE DEF id, keep, chosen
<1>7. PICK spot : Picks(spot, chosen, id, keep)
  BY <1>5
<1>8. ASSUME NEW k \in 1..Len(chosen)
      PROVE  chosen[k] \in 1..n /\ raw[chosen[k]] \in RawItems \ {Garbage}
  <2>1. spot[k] \in 1..n /\ keep[spot[k]] /\ chosen[k] = id[spot[k]]
    BY <1>4, <1>7 DEF Picks
  <2>2. raw[spot[k]] \in RawItems
    BY <1>2, <2>1
  <2> QED
    BY <1>6, <2>1, <2>2
<1>9. ASSUME NEW k \in 1..Len(chosen)
      PROVE  Proper(raw, chosen[k]) \in Todos
  <2>1. MaxRaw \in Nat /\ chosen[k] \in 1..n /\ n \in 0..MaxRaw
    BY <1>2, <1>8, PlansAssumption
  <2>2. chosen[k] \in 1..MaxRaw + 1 /\ 2 \in 1..MaxRaw + 1
    BY <2>1
  <2>3. raw[chosen[k]] = [id |-> 0, status |-> "odd"] \/ raw[chosen[k]] = [id |-> 2, status |-> "completed"]
    BY <1>8 DEF RawItems, Garbage
  <2> QED
    BY <2>2, <2>3 DEF Proper, Todos
<1>10. all \in Seq(Todos) /\ Len(all) = Cardinality(kept)
  <2>1. Len(chosen) \in Nat /\ DOMAIN chosen = 1..Len(chosen)
    BY <1>5
  <2>2. all \in [1..Len(chosen) -> Todos]
    BY <1>3, <1>9, <2>1
  <2>3. all \in Seq(Todos)
    BY <2>1, <2>2
  <2>4. DOMAIN all = 1..Len(chosen)
    BY <2>2
  <2> QED
    BY <1>5, <2>1, <2>3, <2>4, LenProperties
<1> HIDE DEF all, kept
<1>11. Len(all) \in Nat /\ MaxItems \in Nat
  BY <1>10, PlansAssumption
<1> DEFINE c == Min({MaxItems, Len(all)})
<1>12. c \in Nat /\ c <= Len(all)
  BY <1>11, MinOfTwo
<1>13. ListMade(raw) = SubSeq(all, 1, c)
  BY DEF ListMade, FirstItems, all
<1> HIDE DEF c
<1>14. SubSeq(all, 1, c) \in Seq(Todos) /\ Len(SubSeq(all, 1, c)) = c
  <2>1. \A i \in 1..c : all[i] \in Todos
    BY <1>10, <1>11, <1>12
  <2>2. SubSeq(all, 1, c) \in Seq(Todos) /\ Len(SubSeq(all, 1, c)) = IF 1 <= c THEN c - 1 + 1 ELSE 0
    BY <1>12, <2>1, SubSeqProperties
  <2> QED
    BY <1>12, <2>2
<1>15. Len(ListMade(raw)) = Min({MaxItems, Cardinality(kept)})
  BY <1>10, <1>13, <1>14 DEF c
<1> QED
  BY <1>2, <1>13, <1>14, <1>15 DEF ListRight, kept

Notes == {[plan |-> t] : t \in Seq(Todos)} \cup {[done |-> d] : d \in SUBSET (1..TotalSteps)}

PlansInv ==
  /\ ListRight(todos, written) /\ steps \subseteq 1..TotalSteps /\ planned \in 0..MaxPlanned
  /\ heading \in Seq(Notes)
  /\ planned > 1 => /\ Len(heading) > 0 /\ heading[Len(heading)] = [done |-> begun.steps]
                    /\ begun.todos # <<>> => heading[Len(heading) - 1] = [plan |-> begun.todos]

LEMMA PlansInitInv == PlansInit => PlansInv
<1> SUFFICES ASSUME PlansInit PROVE PlansInv
  OBVIOUS
<1>1. todos = <<>> /\ written = <<>> /\ heading = <<>> /\ steps = {} /\ planned = 0
  BY DEF PlansInit
<1>2. ListRight(<<>>, <<>>)
  <2>1. <<>> \in Seq(Todos) /\ <<>> \in Seq(RawItems) /\ Len(<<>>) = 0
    OBVIOUS
  <2>2. {i \in DOMAIN <<>> : <<>>[i] # Garbage} = {}
    OBVIOUS
  <2>3. Min({MaxItems, 0}) = 0
    BY MinOfTwo, PlansAssumption
  <2> QED
    BY <2>1, <2>2, <2>3, FS_EmptySet DEF ListRight
<1>3. <<>> \in Seq(Notes)
  OBVIOUS
<1> QED
  BY <1>1, <1>2, <1>3, PlansAssumption DEF PlansInv

LEMMA NotesAdded ==
  ASSUME NEW X, NEW h \in Seq(X), NEW p \in X, NEW d \in X
  PROVE  /\ h \o <<p>> \in Seq(X) /\ h \o <<d>> \in Seq(X) /\ h \o <<>> = h /\ (h \o <<p>>) \o <<d>> \in Seq(X)
         /\ Len(h \o <<d>>) = Len(h) + 1 /\ (h \o <<d>>)[Len(h) + 1] = d
         /\ Len((h \o <<p>>) \o <<d>>) = Len(h) + 2 /\ ((h \o <<p>>) \o <<d>>)[Len(h) + 2] = d
         /\ ((h \o <<p>>) \o <<d>>)[Len(h) + 1] = p
<1>1. \A s \in Seq(X), e \in X : /\ s \o <<e>> = Append(s, e)
                                 /\ Append(s, e) \in Seq(X) /\ Len(Append(s, e)) = Len(s) + 1
                                 /\ Append(s, e)[Len(s) + 1] = e
                                 /\ \A i \in 1..Len(s) : Append(s, e)[i] = s[i]
  OBVIOUS
<1>2. h \o <<>> = h
  OBVIOUS
<1> DEFINE a == Append(h, p)
           b == Append(a, d)
<1>3. a \in Seq(X) /\ Len(a) = Len(h) + 1 /\ a[Len(h) + 1] = p /\ h \o <<p>> = a
  BY <1>1
<1> HIDE DEF a
<1>4. b \in Seq(X) /\ Len(b) = Len(a) + 1 /\ b[Len(a) + 1] = d /\ a \o <<d>> = b
      /\ \A i \in 1..Len(a) : b[i] = a[i]
  BY <1>1, <1>3
<1> HIDE DEF b
<1>5. Len(h) \in Nat /\ Len(h) + 1 \in 1..Len(a)
  BY <1>3
<1>6. Len(b) = Len(h) + 2 /\ b[Len(h) + 2] = d /\ b[Len(h) + 1] = p
  BY <1>3, <1>4, <1>5
<1> QED
  BY <1>1, <1>2, <1>3, <1>4, <1>6

LEMMA BeginKeepsPlans == ASSUME PlansInv, BeginPlanned PROVE PlansInv'
<1>1. PICK progress \in {<<[done |-> steps]>>} \cup (IF planned = 0 THEN {<<>>} ELSE {}) :
        heading' = heading \o (IF todos = <<>> THEN <<>> ELSE <<[plan |-> todos]>>) \o progress
  BY DEF BeginPlanned
<1>2. /\ planned < MaxPlanned /\ planned' = planned + 1 /\ begun' = [todos |-> todos, steps |-> steps]
      /\ UNCHANGED <<todos, steps, written>>
  BY DEF BeginPlanned
<1>3. heading \in Seq(Notes) /\ todos \in Seq(Todos) /\ steps \in SUBSET (1..TotalSteps) /\ planned \in 0..MaxPlanned
  BY DEF PlansInv, ListRight
<1>4. PICK p, d : p = [plan |-> todos] /\ d = [done |-> steps]
  OBVIOUS
<1>5. p \in Notes /\ d \in Notes
  BY <1>3, <1>4 DEF Notes
<1>6. begun'.todos = todos /\ begun'.steps = steps
  BY <1>2
<1>7. planned' > 1 => progress = <<d>>
  BY <1>1, <1>2, <1>3, <1>4
<1>8. planned' \in 0..MaxPlanned
  BY <1>2, <1>3, PlansAssumption
<1>9. heading' = heading \o (IF todos = <<>> THEN <<>> ELSE <<p>>) \o progress /\ progress \in {<<>>, <<d>>}
  BY <1>1, <1>4
<1>10. CASE todos = <<>>
  <2>1. heading' = heading \o progress
    BY <1>3, <1>5, <1>9, <1>10, NotesAdded
  <2>2. heading' \in Seq(Notes)
    BY <1>3, <1>5, <1>9, <2>1, NotesAdded
  <2>3. planned' > 1 => Len(heading') > 0 /\ heading'[Len(heading')] = d
    <3> SUFFICES ASSUME planned' > 1
                 PROVE  Len(heading') > 0 /\ heading'[Len(heading')] = d
      OBVIOUS
    <3>2. heading' = heading \o <<d>>
      BY <1>7, <2>1
    <3>1. heading' = heading \o <<d>> /\ Len(heading) \in Nat
      BY <1>3, <3>2
    <3> QED
      BY <1>3, <1>5, <3>1, NotesAdded
  <2>4. begun'.todos = <<>>
    BY <1>6, <1>10
  <2> QED
    BY <1>2, <1>3, <1>4, <1>6, <1>8, <2>2, <2>3, <2>4 DEF PlansInv
<1>11. CASE todos # <<>>
  <2>1. heading' = (heading \o <<p>>) \o progress
    BY <1>9, <1>11
  <2>0. heading \o <<p>> \in Seq(Notes)
    BY <1>3, <1>5, NotesAdded
  <2>2. heading' \in Seq(Notes)
    <3> DEFINE h == heading \o <<p>>
    <3>1. h \in Seq(Notes) /\ heading' = h \o progress
      BY <2>0, <2>1
    <3> HIDE DEF h
    <3>2. h \o <<d>> \in Seq(Notes) /\ h \o <<>> = h
      BY <1>5, <3>1, NotesAdded
    <3>3. CASE progress = <<>>
      BY <3>1, <3>2, <3>3
    <3>4. CASE progress = <<d>>
      BY <3>1, <3>2, <3>4
    <3> QED
      BY <1>9, <3>3, <3>4
  <2>3. planned' > 1 => Len(heading') > 0 /\ heading'[Len(heading')] = d /\ heading'[Len(heading') - 1] = p
    <3> SUFFICES ASSUME planned' > 1
                 PROVE  Len(heading') > 0 /\ heading'[Len(heading')] = d /\ heading'[Len(heading') - 1] = p
      OBVIOUS
    <3>4. heading' = (heading \o <<p>>) \o <<d>>
      BY <1>7, <2>1
    <3>1. heading' = (heading \o <<p>>) \o <<d>> /\ Len(heading) \in Nat
      BY <1>3, <3>4
    <3>2. Len(heading') = Len(heading) + 2 /\ heading'[Len(heading) + 2] = d /\ heading'[Len(heading) + 1] = p
      BY <1>3, <1>5, <3>1, NotesAdded
    <3>3. Len(heading') - 1 = Len(heading) + 1
      BY <3>1, <3>2
    <3> QED
      BY <3>1, <3>2, <3>3
  <2> QED
    BY <1>2, <1>3, <1>4, <1>6, <1>8, <2>2, <2>3 DEF PlansInv
<1> QED
  BY <1>10, <1>11

LEMMA PlansStepInv == PlansInv /\ [PlansNext]_planVars => PlansInv'
<1> SUFFICES ASSUME PlansInv, [PlansNext]_planVars
             PROVE  PlansInv'
  OBVIOUS
<1>1. CASE BeginPlanned
  BY <1>1, BeginKeepsPlans
<1>2. CASE WriteTodos
  <2>1. PICK raw \in RawLists : todos' = ListMade(raw) /\ written' = raw
    BY <1>2 DEF WriteTodos
  <2>2. ListRight(todos', written')
    BY <2>1, ListMadeRight
  <2>3. UNCHANGED <<steps, heading, begun, planned>>
    BY <1>2 DEF WriteTodos
  <2> QED
    BY <2>2, <2>3 DEF PlansInv
<1>3. CASE MarkStep
  <2>1. PICK n \in 0..TotalSteps + 1 : IsStep(n) /\ steps' = steps \cup {n}
    BY <1>3 DEF MarkStep
  <2>2. n \in 1..TotalSteps
    BY <2>1, PlansAssumption DEF IsStep
  <2>3. UNCHANGED <<todos, written, heading, begun, planned>>
    BY <1>3 DEF MarkStep
  <2> QED
    BY <2>1, <2>2, <2>3 DEF PlansInv
<1>4. CASE UNCHANGED planVars
  BY <1>4 DEF planVars, PlansInv
<1> QED
  BY <1>1, <1>2, <1>3, <1>4 DEF PlansNext

LEMMA PlansInvKept == PlansInv => PlansAreKept /\ PlansTypeOK
<1> SUFFICES ASSUME PlansInv PROVE PlansAreKept /\ PlansTypeOK
  OBVIOUS
<1>1. PlansTypeOK
  <2>1. steps \subseteq 0..TotalSteps + 1
    BY PlansAssumption DEF PlansInv
  <2> QED
    BY <2>1 DEF PlansInv, ListRight, PlansTypeOK, Todos
<1>2. PlaybookStatus.completed = Cardinality({i \in 1..TotalSteps : PlaybookStatus.steps[i]})
  <2>1. PlaybookStatus.completed = Cardinality(steps) /\ PlaybookStatus.steps = [i \in 1..TotalSteps |-> i \in steps]
    BY DEF PlaybookStatus
  <2>2. {i \in 1..TotalSteps : PlaybookStatus.steps[i]} = steps
    BY <2>1 DEF PlansInv
  <2> QED
    BY <2>1, <2>2
<1>3. planned > 1 => /\ Last(heading) = [done |-> begun.steps]
                     /\ begun.todos # <<>> => heading[Len(heading) - 1] = [plan |-> begun.todos]
  BY DEF PlansInv, Last
<1> QED
  BY <1>1, <1>2, <1>3 DEF PlansAreKept, PlansInv, ListRight

-----------------------------------------------------------------------------
(***************************************************************************)
(* The context. Each message said is in it or was archived and shown; a    *)
(* call that was not stopped has its results right after it, but for the   *)
(* one under way, which is the last message; a result has its call before  *)
(* it, or the call is archived; and the last message that carries the      *)
(* memory carries the newest version, unless it is the system message.     *)
(***************************************************************************)
AnyMessage == [id : Nat, kind : Kinds, of : Nat, size : 0..2, carries : 0..MaxVersions]

Typed(c, s) ==
  /\ c \in Seq(AnyMessage)
  /\ \A i \in 1..Len(c) :
       /\ c[i].id <= s /\ c[i].of <= s
       /\ c[i].kind = "system" <=> i = 1
       /\ i = 1 => c[i].id = 0
       /\ i > 1 => c[i].id >= 1

Holds(c, id) == \E i \in 1..Len(c) : c[i].id = id
Remembers(c, s, shown) == \A id \in 1..s : Holds(c, id) \/ id \in shown

Complete(c, i) == \A k \in 1..c[i].size : i + k \in 1..Len(c) /\ c[i + k].of = c[i].id
CallsDone(c, exempt, open) ==
  \A i \in 1..Len(c) : c[i].kind = "call" /\ c[i].id \notin exempt /\ i # open => Complete(c, i)

HasCall(c, i) == \E j \in 1..i - 1 : c[j].id = c[i].of
ResultsOf(c, replaced) == \A i \in 1..Len(c) : c[i].kind = "result" => c[i].of \in replaced \/ HasCall(c, i)

Silent(c, i) == \A j \in 1..Len(c) : j > i => c[j].carries = 0
Fresh(c, version) ==
  /\ \A i \in 1..Len(c) : c[i].carries <= version
  /\ \A i \in 1..Len(c) : i > 1 /\ c[i].carries > 0 /\ Silent(c, i) => c[i].carries = version

(* w is c and m messages more.                                               *)
Extension(w, c, m, s) ==
  /\ c \in Seq(AnyMessage) /\ Len(c) >= 1 /\ m \in Nat /\ s \in Nat
  /\ w \in Seq(AnyMessage) /\ Len(w) = Len(c) + m /\ \A i \in 1..Len(c) : w[i] = c[i]
  /\ \A k \in 1..m : /\ w[Len(c) + k].id = s + k /\ w[Len(c) + k].of <= s
                     /\ w[Len(c) + k].kind # "system"

LEMMA Placed ==
  ASSUME NEW w, NEW c, NEW m, NEW s, Extension(w, c, m, s), NEW i \in 1..Len(w)
  PROVE  /\ i \notin 1..Len(c) => \E k \in 1..m : i = Len(c) + k
         /\ i \in 1..Len(c) => w[i] = c[i]
<1>1. Len(c) \in Nat /\ m \in Nat /\ Len(w) = Len(c) + m
  BY DEF Extension
<1>2. ASSUME i \notin 1..Len(c) PROVE \E k \in 1..m : i = Len(c) + k
  <2>1. i - Len(c) \in 1..m /\ i = Len(c) + (i - Len(c))
    BY <1>1, <1>2
  <2> QED
    BY <2>1
<1> QED
  BY <1>2 DEF Extension

LEMMA ExtendTyped ==
  ASSUME NEW w, NEW c, NEW m, NEW s, Extension(w, c, m, s), Typed(c, s)
  PROVE  Typed(w, s + m)
<1>1. /\ w \in Seq(AnyMessage) /\ Len(c) \in Nat /\ Len(c) >= 1 /\ m \in Nat /\ s \in Nat /\ c \in Seq(AnyMessage)
  BY DEF Extension
<1>2. ASSUME NEW i \in 1..Len(w)
      PROVE  /\ w[i].id <= s + m /\ w[i].of <= s + m
             /\ w[i].kind = "system" <=> i = 1
             /\ i = 1 => w[i].id = 0
             /\ i > 1 => w[i].id >= 1
  <2>1. CASE i \in 1..Len(c)
    <3>1. w[i] = c[i] /\ c[i] \in AnyMessage
      BY <1>1, <2>1, Placed
    <3>2. c[i].id \in Nat /\ c[i].of \in Nat
      BY <3>1 DEF AnyMessage
    <3>3. /\ c[i].id <= s /\ c[i].of <= s
          /\ c[i].kind = "system" <=> i = 1
          /\ i = 1 => c[i].id = 0
          /\ i > 1 => c[i].id >= 1
      BY <2>1 DEF Typed
    <3> QED
      BY <1>1, <3>1, <3>2, <3>3
  <2>2. CASE i \notin 1..Len(c)
    <3>1. PICK k \in 1..m : i = Len(c) + k
      BY <2>2, Placed
    <3>2. w[i].id = s + k /\ w[i].of <= s /\ w[i].kind # "system"
      BY <3>1 DEF Extension
    <3>3. w[i].of \in Nat
      <4>1. w[i] \in AnyMessage
        BY <1>1
      <4> QED
        BY <4>1 DEF AnyMessage
    <3>4. i # 1
      BY <1>1, <3>1
    <3> QED
      BY <1>1, <3>2, <3>3, <3>4
  <2> QED
    BY <2>1, <2>2
<1> QED
  BY <1>1, <1>2 DEF Typed

LEMMA ExtendRemembers ==
  ASSUME NEW w, NEW c, NEW m, NEW s, Extension(w, c, m, s), NEW shown, Remembers(c, s, shown)
  PROVE  Remembers(w, s + m, shown)
<1>1. /\ Len(c) \in Nat /\ m \in Nat /\ s \in Nat /\ Len(w) = Len(c) + m
  BY DEF Extension
<1>2. ASSUME NEW id \in 1..s + m
      PROVE  Holds(w, id) \/ id \in shown
  <2>1. CASE id \in 1..s
    <3>1. CASE Holds(c, id)
      <4>1. PICK i \in 1..Len(c) : c[i].id = id
        BY <3>1 DEF Holds
      <4>2. i \in 1..Len(w) /\ w[i] = c[i]
        BY <1>1 DEF Extension
      <4> QED
        BY <4>1, <4>2 DEF Holds
    <3> QED
      BY <2>1, <3>1 DEF Remembers
  <2>2. CASE id \notin 1..s
    <3>1. id - s \in 1..m /\ s + (id - s) = id /\ Len(c) + (id - s) \in 1..Len(w)
      BY <1>1, <2>2
    <3>2. w[Len(c) + (id - s)].id = id
      BY <3>1 DEF Extension
    <3> QED
      BY <3>1, <3>2 DEF Holds
  <2> QED
    BY <2>1, <2>2
<1> QED
  BY <1>2 DEF Remembers

LEMMA ExtendComplete ==
  ASSUME NEW w, NEW c, NEW m, NEW s, Extension(w, c, m, s), NEW i \in 1..Len(c), Complete(c, i)
  PROVE  Complete(w, i)
<1>1. /\ Len(c) \in Nat /\ m \in Nat /\ Len(w) = Len(c) + m /\ \A j \in 1..Len(c) : w[j] = c[j]
  BY DEF Extension
<1>2. w[i] = c[i]
  BY <1>1
<1>3. ASSUME NEW k \in 1..c[i].size
      PROVE  i + k \in 1..Len(w) /\ w[i + k].of = c[i].id
  <2>1. i + k \in 1..Len(c) /\ c[i + k].of = c[i].id
    BY DEF Complete
  <2>2. w[i + k] = c[i + k]
    BY <1>1, <2>1
  <2>3. i + k \in 1..Len(w)
    BY <1>1, <2>1
  <2> QED
    BY <2>1, <2>2, <2>3
<1> QED
  BY <1>2, <1>3 DEF Complete

LEMMA ExtendCalls ==
  ASSUME NEW w, NEW c, NEW m, NEW s, Extension(w, c, m, s),
         NEW exempt, NEW open, NEW after, NEW last, CallsDone(c, exempt, open), exempt \subseteq after,
         open \in 1..Len(c) => c[open].id \in after \/ Complete(w, open),
         \A k \in 1..m : w[Len(c) + k].kind = "call" => Len(c) + k = last
  PROVE  CallsDone(w, after, last)
<1>1. ASSUME NEW i \in 1..Len(w), w[i].kind = "call", w[i].id \notin after, i # last
      PROVE  Complete(w, i)
  <2>1. CASE i \in 1..Len(c)
    <3>1. w[i] = c[i]
      BY <2>1, Placed
    <3>2. CASE i = open
      BY <1>1, <2>1, <3>1, <3>2
    <3>3. CASE i # open
      <4>1. Complete(c, i)
        BY <1>1, <2>1, <3>1, <3>3 DEF CallsDone
      <4> QED
        BY <2>1, <4>1, ExtendComplete
    <3> QED
      BY <3>2, <3>3
  <2>2. CASE i \notin 1..Len(c)
    <3>1. PICK k \in 1..m : i = Len(c) + k
      BY <2>2, Placed
    <3> QED
      BY <1>1, <3>1
  <2> QED
    BY <2>1, <2>2
<1> QED
  BY <1>1 DEF CallsDone

LEMMA ExtendResults ==
  ASSUME NEW w, NEW c, NEW m, NEW s, Extension(w, c, m, s), NEW replaced, ResultsOf(c, replaced),
         \A k \in 1..m : w[Len(c) + k].kind = "result" => Holds(c, w[Len(c) + k].of)
  PROVE  ResultsOf(w, replaced)
<1>1. Len(c) \in Nat /\ m \in Nat /\ Len(w) = Len(c) + m
  BY DEF Extension
<1>2. ASSUME NEW i \in 1..Len(w), w[i].kind = "result"
      PROVE  w[i].of \in replaced \/ HasCall(w, i)
  <2>1. CASE i \in 1..Len(c)
    <3>1. w[i] = c[i]
      BY <2>1, Placed
    <3>2. c[i].of \in replaced \/ HasCall(c, i)
      BY <1>2, <2>1, <3>1 DEF ResultsOf
    <3>3. CASE HasCall(c, i)
      <4>1. PICK j \in 1..i - 1 : c[j].id = c[i].of
        BY <3>3 DEF HasCall
      <4>2. j \in 1..Len(c)
        BY <1>1, <2>1
      <4>3. w[j] = c[j]
        BY <4>2 DEF Extension
      <4> QED
        BY <3>1, <4>1, <4>3 DEF HasCall
    <3> QED
      BY <3>1, <3>2, <3>3
  <2>2. CASE i \notin 1..Len(c)
    <3>1. PICK k \in 1..m : i = Len(c) + k
      BY <2>2, Placed
    <3>2. PICK j \in 1..Len(c) : c[j].id = w[i].of
      BY <1>2, <3>1 DEF Holds
    <3>3. j \in 1..i - 1 /\ w[j] = c[j]
      <4>1. j \in 1..i - 1
        BY <1>1, <3>1
      <4> QED
        BY <4>1 DEF Extension
    <3> QED
      BY <3>2, <3>3 DEF HasCall
  <2> QED
    BY <2>1, <2>2
<1> QED
  BY <1>2 DEF ResultsOf

LEMMA ExtendSilent ==
  ASSUME NEW w, NEW c, NEW m, NEW s, Extension(w, c, m, s), NEW version \in Nat, Fresh(c, version),
         \A k \in 1..m : w[Len(c) + k].carries = 0
  PROVE  Fresh(w, version)
<1>1. Len(c) \in Nat /\ m \in Nat /\ Len(w) = Len(c) + m /\ Len(c) >= 1
  BY DEF Extension
<1>2. ASSUME NEW i \in 1..Len(w)
      PROVE  /\ w[i].carries <= version
             /\ i > 1 /\ w[i].carries > 0 /\ Silent(w, i) => w[i].carries = version
  <2>1. CASE i \in 1..Len(c)
    <3>1. w[i] = c[i]
      BY <2>1, Placed
    <3>2. ASSUME Silent(w, i) PROVE Silent(c, i)
      <4>1. ASSUME NEW j \in 1..Len(c), j > i PROVE c[j].carries = 0
        <5>1. j \in 1..Len(w) /\ w[j] = c[j]
          BY <1>1 DEF Extension
        <5> QED
          BY <3>2, <4>1, <5>1 DEF Silent
      <4> QED
        BY <4>1 DEF Silent
    <3>3. /\ c[i].carries <= version
          /\ i > 1 /\ c[i].carries > 0 /\ Silent(c, i) => c[i].carries = version
      BY <2>1 DEF Fresh
    <3> QED
      BY <3>1, <3>2, <3>3
  <2>2. CASE i \notin 1..Len(c)
    <3>1. PICK k \in 1..m : i = Len(c) + k
      BY <2>2, Placed
    <3>2. w[i].carries = 0
      BY <3>1
    <3> QED
      BY <3>2
  <2> QED
    BY <2>1, <2>2
<1> QED
  BY <1>2 DEF Fresh

LEMMA ExtendNewest ==
  ASSUME NEW w, NEW c, NEW s, Extension(w, c, 1, s), NEW version \in Nat, Fresh(c, version),
         w[Len(c) + 1].carries = version + 1
  PROVE  Fresh(w, version + 1)
<1>1. Len(c) \in Nat /\ Len(w) = Len(c) + 1 /\ Len(c) >= 1 /\ c \in Seq(AnyMessage)
  BY DEF Extension
<1>2. ASSUME NEW i \in 1..Len(w)
      PROVE  /\ w[i].carries <= version + 1
             /\ i > 1 /\ w[i].carries > 0 /\ Silent(w, i) => w[i].carries = version + 1
  <2>1. CASE i \in 1..Len(c)
    <3>1. w[i] = c[i] /\ c[i].carries <= version /\ c[i] \in AnyMessage
      BY <1>1, <2>1, Placed DEF Fresh
    <3>2. c[i].carries \in Int
      BY <3>1 DEF AnyMessage
    <3>3. ~Silent(w, i)
      <4>1. Len(c) + 1 \in 1..Len(w) /\ Len(c) + 1 > i
        BY <1>1, <2>1
      <4>2. w[Len(c) + 1].carries # 0
        OBVIOUS
      <4> QED
        BY <4>1, <4>2 DEF Silent
    <3> QED
      BY <3>1, <3>2, <3>3
  <2>2. CASE i \notin 1..Len(c)
    <3>1. i = Len(c) + 1
      BY <1>1, <2>2
    <3> QED
      BY <3>1
  <2> QED
    BY <2>1, <2>2
<1> QED
  BY <1>2 DEF Fresh

(* All there is to say of a context: of the first s messages each is in it   *)
(* or was shown, and so on.                                                  *)
ContextRight(c, s, shown, replaced, exempt, open, version) ==
  /\ Len(c) >= 1 /\ Typed(c, s) /\ Remembers(c, s, shown)
  /\ CallsDone(c, exempt, open) /\ ResultsOf(c, replaced) /\ Fresh(c, version)

LEMMA Grown ==
  ASSUME NEW w, NEW c, NEW m, NEW s, Extension(w, c, m, s),
         NEW shown, NEW replaced, NEW exempt, NEW open, NEW version,
         ContextRight(c, s, shown, replaced, exempt, open, version),
         NEW after, NEW last, exempt \subseteq after,
         open \in 1..Len(c) => c[open].id \in after \/ Complete(w, open),
         \A k \in 1..m : w[Len(c) + k].kind = "call" => Len(c) + k = last,
         \A k \in 1..m : w[Len(c) + k].kind = "result" => Holds(c, w[Len(c) + k].of),
         NEW v, Fresh(w, v)
  PROVE  ContextRight(w, s + m, shown, replaced, after, last, v)
<1>1. Typed(w, s + m)
  BY ExtendTyped DEF ContextRight
<1>2. Remembers(w, s + m, shown)
  BY ExtendRemembers DEF ContextRight
<1>3. CallsDone(w, after, last)
  <2>1. CallsDone(c, exempt, open)
    BY DEF ContextRight
  <2> QED
    BY <2>1, ExtendCalls
<1>4. ResultsOf(w, replaced)
  <2>1. ResultsOf(c, replaced)
    BY DEF ContextRight
  <2> QED
    BY <2>1, ExtendResults
<1>5. Len(w) >= 1
  BY DEF Extension
<1> QED
  BY <1>1, <1>2, <1>3, <1>4, <1>5 DEF ContextRight

LEMMA AppendExtends ==
  ASSUME NEW c \in Seq(AnyMessage), Len(c) >= 1, NEW s \in Nat,
         NEW x \in AnyMessage, x.id = s + 1, x.of <= s, x.kind # "system"
  PROVE  /\ Extension(Append(c, x), c, 1, s)
         /\ Append(c, x)[Len(c) + 1] = x /\ Len(Append(c, x)) = Len(c) + 1
<1> DEFINE w == Append(c, x)
<1>1. /\ w \in Seq(AnyMessage) /\ Len(w) = Len(c) + 1
      /\ \A i \in 1..Len(c) : w[i] = c[i]
      /\ w[Len(c) + 1] = x
  BY AppendProperties
<1> HIDE DEF w
<1>2. ASSUME NEW k \in 1..1
      PROVE  /\ w[Len(c) + k].id = s + k /\ w[Len(c) + k].of <= s
             /\ w[Len(c) + k].kind # "system"
  <2>1. k = 1
    OBVIOUS
  <2> QED
    BY <1>1, <2>1
<1>3. Extension(w, c, 1, s)
  BY <1>1, <1>2 DEF Extension
<1> QED
  BY <1>1, <1>3 DEF w

(* The system message, which nothing but its version changes, is refreshed.  *)
SystemChanged(w, c) ==
  /\ c \in Seq(AnyMessage) /\ Len(c) >= 1 /\ w \in Seq(AnyMessage) /\ Len(w) = Len(c)
  /\ w[1].id = c[1].id /\ w[1].kind = c[1].kind /\ w[1].of = c[1].of /\ w[1].size = c[1].size
  /\ \A i \in 2..Len(c) : w[i] = c[i]

LEMMA RefreshedAre ==
  ASSUME NEW w, NEW c, SystemChanged(w, c), NEW i \in 1..Len(c)
  PROVE  /\ w[i].id = c[i].id /\ w[i].kind = c[i].kind /\ w[i].of = c[i].of /\ w[i].size = c[i].size
         /\ i > 1 => w[i] = c[i]
<1>1. CASE i = 1
  BY <1>1 DEF SystemChanged
<1>2. CASE i # 1
  <2>1. i \in 2..Len(c)
    BY <1>2
  <2> QED
    BY <2>1 DEF SystemChanged
<1> QED
  BY <1>1, <1>2

LEMMA RefreshedRight ==
  ASSUME NEW w, NEW c, NEW s, NEW shown, NEW replaced, NEW exempt, NEW open, NEW version \in Nat,
         ContextRight(c, s, shown, replaced, exempt, open, version), SystemChanged(w, c),
         w[1].carries <= version
  PROVE  ContextRight(w, s, shown, replaced, exempt, open, version)
<1>1. /\ Len(w) = Len(c) /\ Len(c) \in Nat /\ Len(c) >= 1 /\ w \in Seq(AnyMessage)
  BY DEF SystemChanged
<1>2. Typed(w, s)
  <2>1. Typed(c, s)
    BY DEF ContextRight
  <2> QED
    BY <1>1, <2>1, RefreshedAre DEF Typed
<1>3. Remembers(w, s, shown)
  <2>1. ASSUME NEW id \in 1..s, Holds(c, id) PROVE Holds(w, id)
    <3>1. PICK i \in 1..Len(c) : c[i].id = id
      BY <2>1 DEF Holds
    <3>2. w[i].id = id
      BY <3>1, RefreshedAre
    <3> QED
      BY <1>1, <3>2 DEF Holds
  <2> QED
    BY <2>1 DEF ContextRight, Remembers
<1>4. CallsDone(w, exempt, open)
  <2>1. ASSUME NEW i \in 1..Len(c), w[i].kind = "call", w[i].id \notin exempt, i # open
        PROVE  Complete(w, i)
    <3>1. w[i].id = c[i].id /\ w[i].kind = c[i].kind /\ w[i].size = c[i].size
      BY RefreshedAre
    <3>2. Complete(c, i)
      BY <2>1, <3>1 DEF ContextRight, CallsDone
    <3>3. ASSUME NEW k \in 1..c[i].size PROVE i + k \in 1..Len(w) /\ w[i + k].of = w[i].id
      <4>1. i + k \in 1..Len(c) /\ c[i + k].of = c[i].id
        BY <3>2 DEF Complete
      <4>2. w[i + k].of = c[i + k].of
        BY <4>1, RefreshedAre
      <4> QED
        BY <1>1, <3>1, <4>1, <4>2
    <3> QED
      BY <3>1, <3>3 DEF Complete
  <2> QED
    BY <1>1, <2>1 DEF CallsDone
<1>5. ResultsOf(w, replaced)
  <2>1. ASSUME NEW i \in 1..Len(c), w[i].kind = "result", w[i].of \notin replaced
        PROVE  HasCall(w, i)
    <3>1. w[i].kind = c[i].kind /\ w[i].of = c[i].of
      BY RefreshedAre
    <3>2. HasCall(c, i)
      BY <2>1, <3>1 DEF ContextRight, ResultsOf
    <3>3. PICK j \in 1..i - 1 : c[j].id = c[i].of
      BY <3>2 DEF HasCall
    <3>4. j \in 1..Len(c)
      BY <1>1
    <3>5. w[j].id = c[j].id
      BY <3>4, RefreshedAre
    <3> QED
      BY <3>1, <3>3, <3>5 DEF HasCall
  <2> QED
    BY <1>1, <2>1 DEF ResultsOf
<1>6. Fresh(w, version)
  <2>1. ASSUME NEW i \in 1..Len(c), i > 1
        PROVE  w[i].carries <= version /\ (w[i].carries > 0 /\ Silent(w, i) => w[i].carries = version)
    <3>1. w[i] = c[i]
      BY <2>1, RefreshedAre
    <3>2. ASSUME Silent(w, i) PROVE Silent(c, i)
      <4>1. ASSUME NEW j \in 1..Len(c), j > i PROVE c[j].carries = 0
        <5>1. w[j] = c[j]
          <6>1. j > 1
            BY <1>1, <2>1, <4>1
          <6> QED
            BY <6>1, RefreshedAre
        <5> QED
          BY <1>1, <3>2, <4>1, <5>1 DEF Silent
      <4> QED
        BY <4>1 DEF Silent
    <3>3. c[i].carries <= version /\ (c[i].carries > 0 /\ Silent(c, i) => c[i].carries = version)
      BY <2>1 DEF ContextRight, Fresh
    <3> QED
      BY <3>1, <3>2, <3>3
  <2>2. ASSUME NEW i \in 1..Len(w)
        PROVE  w[i].carries <= version /\ (i > 1 /\ w[i].carries > 0 /\ Silent(w, i) => w[i].carries = version)
    <3>1. CASE i = 1
      BY <3>1
    <3>2. CASE i # 1
      <4>1. i \in 1..Len(c) /\ i > 1
        BY <1>1, <3>2
      <4> QED
        BY <2>1, <4>1
    <3> QED
      BY <3>1, <3>2
  <2> QED
    BY <2>2 DEF Fresh
<1> QED
  BY <1>1, <1>2, <1>3, <1>4, <1>5, <1>6 DEF ContextRight

(* A summary takes the place of all but the last messages.                   *)
CutOf(w, c, kept, s) ==
  /\ c \in Seq(AnyMessage) /\ s \in Nat
  /\ kept \in 1..Len(c) - 1 /\ w \in Seq(AnyMessage) /\ Len(w) = kept + 2
  /\ w[1] = c[1] /\ w[2] = Message(s + 1, "summary", 0, 0, 0)
  /\ \A k \in 1..kept : w[k + 2] = c[Len(c) - kept + k]

LEMMA CutPlaced ==
  ASSUME NEW w, NEW c, NEW kept, NEW s, CutOf(w, c, kept, s), NEW i \in 1..Len(w)
  PROVE  \/ i = 1 /\ w[i] = c[1]
         \/ i = 2 /\ w[i] = Message(s + 1, "summary", 0, 0, 0)
         \/ \E k \in 1..kept : i = k + 2 /\ w[i] = c[Len(c) - kept + k]
                               /\ Len(c) - kept + k \in 2..Len(c)
<1>1. Len(c) \in Nat /\ kept \in 1..Len(c) - 1 /\ Len(w) = kept + 2
  BY DEF CutOf
<1>2. CASE i \notin {1, 2}
  <2>1. i - 2 \in 1..kept /\ i = (i - 2) + 2 /\ Len(c) - kept + (i - 2) \in 2..Len(c)
    BY <1>1, <1>2
  <2>2. PICK k \in 1..kept : k = i - 2
    BY <2>1
  <2>3. w[k + 2] = c[Len(c) - kept + k]
    BY DEF CutOf
  <2> QED
    BY <2>1, <2>2, <2>3
<1> QED
  BY <1>2 DEF CutOf

LEMMA HoldsIds ==
  ASSUME NEW c, NEW id, Holds(c, id), c \in Seq(AnyMessage)
  PROVE  id \in Ids(c)
BY DEF Holds, Ids, ToSet

LEMMA CutRemembers ==
  ASSUME NEW w, NEW c, NEW kept, NEW s, CutOf(w, c, kept, s),
         NEW shown, NEW replaced, Typed(c, s), Remembers(c, s, replaced \cap shown),
         kept >= Unshown \/ kept = Len(c) - 1
  PROVE  Remembers(w, s + 1, (replaced \cup Ids(c)) \cap (shown \cup Ids(SubSeq(c, 1, Len(c) - Unshown))))
<1>0. Unshown \in Nat
  BY KeepsWhatIsUnshown
<1>1. Len(c) \in Nat /\ kept \in 1..Len(c) - 1 /\ Len(w) = kept + 2 /\ s \in Nat /\ c \in Seq(AnyMessage)
  BY DEF CutOf
<1>2. ASSUME NEW id \in 1..s, id \notin replaced \cap shown, ~Holds(w, id)
      PROVE  id \in Ids(c) /\ id \in Ids(SubSeq(c, 1, Len(c) - Unshown))
  <2>1. PICK i \in 1..Len(c) : c[i].id = id
    BY <1>2 DEF Remembers, Holds
  <2>2. i > 1
    <3>1. i = 1 => c[i].id = 0
      BY DEF Typed
    <3> QED
      BY <2>1, <3>1
  <2>3. i <= Len(c) - kept
    <3>1. SUFFICES ASSUME i > Len(c) - kept PROVE FALSE
      BY <1>1
    <3>2. i - (Len(c) - kept) \in 1..kept /\ Len(c) - kept + (i - (Len(c) - kept)) = i
      BY <1>1, <3>1
    <3>3. PICK k \in 1..kept : Len(c) - kept + k = i
      BY <3>2
    <3>4. w[k + 2] = c[i] /\ k + 2 \in 1..Len(w)
      BY <1>1, <3>3 DEF CutOf
    <3> QED
      BY <1>2, <2>1, <3>4 DEF Holds
  <2>4. i <= Len(c) - Unshown
    BY <1>0, <1>1, <2>2, <2>3
  <2>5. PICK n \in Nat : n = Len(c) - Unshown
    BY <1>0, <1>1, <2>4
  <2>6. Len(SubSeq(c, 1, n)) = n /\ SubSeq(c, 1, n) \in Seq(AnyMessage) /\ SubSeq(c, 1, n)[i] = c[i]
    <3>1. n \in 1..Len(c) /\ i \in 1..n
      BY <1>0, <1>1, <2>4, <2>5
    <3> QED
      BY <1>1, <3>1, SubSeqProperties
  <2>7. Holds(SubSeq(c, 1, n), id)
    BY <2>1, <2>4, <2>5, <2>6 DEF Holds
  <2>8. Holds(c, id)
    BY <2>1 DEF Holds
  <2> QED
    BY <1>1, <2>5, <2>6, <2>7, <2>8, HoldsIds
<1>3. Holds(w, s + 1)
  <2>1. 2 \in 1..Len(w) /\ w[2].id = s + 1
    BY <1>1 DEF CutOf, Message
  <2> QED
    BY <2>1 DEF Holds
<1> QED
  BY <1>1, <1>2, <1>3 DEF Remembers

LEMMA CutTyped ==
  ASSUME NEW w, NEW c, NEW kept, NEW s, CutOf(w, c, kept, s), Typed(c, s)
  PROVE  Typed(w, s + 1)
<1>1. Len(c) \in Nat /\ kept \in 1..Len(c) - 1 /\ Len(w) = kept + 2 /\ s \in Nat
      /\ c \in Seq(AnyMessage) /\ w \in Seq(AnyMessage)
  BY DEF CutOf
<1>2. ASSUME NEW j \in 1..Len(c)
      PROVE  /\ c[j].id \in Nat /\ c[j].of \in Nat /\ c[j].id <= s + 1 /\ c[j].of <= s + 1
             /\ c[j].kind = "system" <=> j = 1
             /\ j = 1 => c[j].id = 0
             /\ j > 1 => c[j].id >= 1
  <2>1. c[j] \in AnyMessage
    BY <1>1
  <2>2. c[j].id \in Nat /\ c[j].of \in Nat
    BY <2>1 DEF AnyMessage
  <2>3. c[j].id <= s /\ c[j].of <= s
        /\ (c[j].kind = "system" <=> j = 1)
        /\ (j = 1 => c[j].id = 0)
        /\ (j > 1 => c[j].id >= 1)
    BY DEF Typed
  <2> QED
    BY <1>1, <2>2, <2>3
<1>3. ASSUME NEW i \in 1..Len(w)
      PROVE  /\ w[i].id <= s + 1 /\ w[i].of <= s + 1
             /\ w[i].kind = "system" <=> i = 1
             /\ i = 1 => w[i].id = 0
             /\ i > 1 => w[i].id >= 1
  <2>1. CASE i = 1 /\ w[i] = c[1]
    BY <1>1, <1>2, <2>1
  <2>2. CASE i = 2 /\ w[i] = Message(s + 1, "summary", 0, 0, 0)
    BY <1>1, <2>2 DEF Message
  <2>3. ASSUME NEW k \in 1..kept, i = k + 2, w[i] = c[Len(c) - kept + k], Len(c) - kept + k \in 2..Len(c)
        PROVE  /\ w[i].id <= s + 1 /\ w[i].of <= s + 1
               /\ w[i].kind = "system" <=> i = 1
               /\ i = 1 => w[i].id = 0
               /\ i > 1 => w[i].id >= 1
    <3>1. PICK j \in 2..Len(c) : j = Len(c) - kept + k
      BY <2>3
    <3>2. j \in 1..Len(c) /\ j # 1 /\ i # 1 /\ j > 1 /\ w[i] = c[j]
      BY <1>1, <2>3, <3>1
    <3> QED
      BY <1>2, <3>2
  <2> QED
    BY <2>1, <2>2, <2>3, CutPlaced
<1> QED
  BY <1>1, <1>3 DEF Typed

LEMMA CutCalls ==
  ASSUME NEW w, NEW c, NEW kept, NEW s, CutOf(w, c, kept, s), NEW exempt,
         CallsDone(c, exempt, Len(c)), Typed(c, s)
  PROVE  CallsDone(w, exempt, Len(w))
<1>1. Len(c) \in Nat /\ kept \in 1..Len(c) - 1 /\ Len(w) = kept + 2 /\ s \in Nat /\ c \in Seq(AnyMessage)
  BY DEF CutOf
<1>2. ASSUME NEW i \in 1..Len(w), w[i].kind = "call", w[i].id \notin exempt, i # Len(w)
      PROVE  Complete(w, i)
  <2>1. i # 1 \/ w[i] # c[1]
    <3>1. c[1].kind = "system"
      BY <1>1 DEF Typed
    <3> QED
      BY <1>2, <3>1
  <2>2. w[i] # Message(s + 1, "summary", 0, 0, 0)
    BY <1>2 DEF Message
  <2>3. PICK k \in 1..kept : i = k + 2 /\ w[i] = c[Len(c) - kept + k] /\ Len(c) - kept + k \in 2..Len(c)
    BY <2>1, <2>2, CutPlaced
  <2>4. PICK j \in 1..Len(c) : j = Len(c) - kept + k
    BY <1>1, <2>3
  <2>5. j # Len(c)
    BY <1>1, <1>2, <2>3, <2>4
  <2>6. Complete(c, j)
    BY <1>2, <2>3, <2>4, <2>5 DEF CallsDone
  <2>7. ASSUME NEW n \in 1..w[i].size
        PROVE  i + n \in 1..Len(w) /\ w[i + n].of = w[i].id
    <3>1. j + n \in 1..Len(c) /\ c[j + n].of = c[j].id
      BY <2>3, <2>4, <2>6, <2>7 DEF Complete
    <3>2. n \in Nat
      OBVIOUS
    <3>3. k + n \in 1..kept /\ Len(c) - kept + (k + n) = j + n /\ i + n = (k + n) + 2
      BY <1>1, <2>3, <2>4, <3>1, <3>2
    <3>4. PICK o \in 1..kept : o = k + n
      BY <3>3
    <3>5. w[o + 2] = c[j + n]
      BY <3>3, <3>4 DEF CutOf
    <3> QED
      BY <1>1, <2>3, <2>4, <3>1, <3>3, <3>4, <3>5
  <2> QED
    BY <2>7 DEF Complete
<1> QED
  BY <1>2 DEF CallsDone

LEMMA CutResults ==
  ASSUME NEW w, NEW c, NEW kept, NEW s, CutOf(w, c, kept, s), NEW replaced,
         ResultsOf(c, replaced), Typed(c, s)
  PROVE  ResultsOf(w, replaced \cup Ids(c))
<1>1. Len(c) \in Nat /\ c \in Seq(AnyMessage)
  BY DEF CutOf
<1>2. ASSUME NEW i \in 1..Len(w), w[i].kind = "result"
      PROVE  w[i].of \in replaced \cup Ids(c)
  <2>1. w[i] # Message(s + 1, "summary", 0, 0, 0)
    BY <1>2 DEF Message
  <2>2. PICK j \in 1..Len(c) : w[i] = c[j]
    <3>1. CASE i = 1 /\ w[i] = c[1]
      <4>1. 1 \in 1..Len(c)
        BY <1>1 DEF CutOf
      <4> QED
        BY <3>1, <4>1
    <3>2. CASE \E k \in 1..kept : w[i] = c[Len(c) - kept + k] /\ Len(c) - kept + k \in 2..Len(c)
      BY <1>1, <3>2
    <3> QED
      BY <2>1, <3>1, <3>2, CutPlaced
  <2>3. CASE HasCall(c, j)
    <3>1. PICK o \in 1..j - 1 : c[o].id = c[j].of
      BY <2>3 DEF HasCall
    <3>2. o \in 1..Len(c)
      BY <1>1
    <3>3. Holds(c, c[j].of)
      BY <3>1, <3>2 DEF Holds
    <3> QED
      BY <1>1, <2>2, <3>3, HoldsIds
  <2> QED
    BY <1>2, <2>2, <2>3 DEF ResultsOf
<1> QED
  BY <1>2 DEF ResultsOf

LEMMA CutFresh ==
  ASSUME NEW w, NEW c, NEW kept, NEW s, CutOf(w, c, kept, s), NEW version \in Nat, Fresh(c, version)
  PROVE  Fresh(w, version)
<1>1. Len(c) \in Nat /\ kept \in 1..Len(c) - 1 /\ Len(w) = kept + 2 /\ s \in Nat /\ c \in Seq(AnyMessage)
  BY DEF CutOf
<1>2. ASSUME NEW i \in 1..Len(w)
      PROVE  w[i].carries <= version /\ (i > 1 /\ w[i].carries > 0 /\ Silent(w, i) => w[i].carries = version)
  <2>1. CASE i = 1 /\ w[i] = c[1]
    BY <1>1, <2>1 DEF Fresh
  <2>2. CASE i = 2 /\ w[i] = Message(s + 1, "summary", 0, 0, 0)
    BY <2>2 DEF Message
  <2>3. ASSUME NEW k \in 1..kept, i = k + 2, w[i] = c[Len(c) - kept + k], Len(c) - kept + k \in 2..Len(c)
        PROVE  w[i].carries <= version /\ (w[i].carries > 0 /\ Silent(w, i) => w[i].carries = version)
    <3>1. PICK j \in 1..Len(c) : j = Len(c) - kept + k
      BY <1>1, <2>3
    <3>2. ASSUME Silent(w, i) PROVE Silent(c, j)
      <4>1. ASSUME NEW o \in 1..Len(c), o > j PROVE c[o].carries = 0
        <5>1. o - (Len(c) - kept) \in 1..kept /\ Len(c) - kept + (o - (Len(c) - kept)) = o
          BY <1>1, <3>1, <4>1
        <5>2. PICK n \in 1..kept : Len(c) - kept + n = o
          BY <5>1
        <5>3. w[n + 2] = c[o]
          BY <5>2 DEF CutOf
        <5>4. n + 2 \in 1..Len(w) /\ n + 2 > i
          BY <1>1, <2>3, <3>1, <4>1, <5>2
        <5> QED
          BY <3>2, <5>3, <5>4 DEF Silent
      <4> QED
        BY <4>1 DEF Silent
    <3>3. j > 1 /\ w[i] = c[j]
      BY <2>3, <3>1
    <3>4. c[j].carries <= version /\ (j > 1 /\ c[j].carries > 0 /\ Silent(c, j) => c[j].carries = version)
      BY DEF Fresh
    <3> QED
      BY <3>2, <3>3, <3>4
  <2> QED
    BY <2>1, <2>2, <2>3, CutPlaced
<1> QED
  BY <1>2 DEF Fresh

LEMMA CutRight ==
  ASSUME NEW w, NEW c, NEW kept, NEW s, CutOf(w, c, kept, s), NEW shown, NEW replaced, NEW exempt,
         NEW version \in Nat, kept >= Unshown \/ kept = Len(c) - 1,
         ContextRight(c, s, replaced \cap shown, replaced, exempt, Len(c), version)
  PROVE  ContextRight(w, s + 1, (replaced \cup Ids(c)) \cap (shown \cup Ids(SubSeq(c, 1, Len(c) - Unshown))),
                      replaced \cup Ids(c), exempt, Len(w), version)
<1>1. /\ Typed(c, s) /\ Remembers(c, s, replaced \cap shown)
      /\ CallsDone(c, exempt, Len(c)) /\ ResultsOf(c, replaced) /\ Fresh(c, version)
  BY DEF ContextRight
<1>2. Len(w) >= 1
  BY DEF CutOf
<1>3. Remembers(w, s + 1, (replaced \cup Ids(c)) \cap (shown \cup Ids(SubSeq(c, 1, Len(c) - Unshown))))
  BY <1>1, CutRemembers
<1>4. Typed(w, s + 1) /\ CallsDone(w, exempt, Len(w)) /\ ResultsOf(w, replaced \cup Ids(c)) /\ Fresh(w, version)
  BY <1>1, CutTyped, CutCalls, CutResults, CutFresh
<1> QED
  BY <1>2, <1>3, <1>4 DEF ContextRight

LEMMA SameMax == \A T : Rewards!Max(T) = Max(T)
BY DEF Rewards!Max, Max

LEMMA CarriedIs ==
  ASSUME NEW c, NEW s, NEW version \in Nat, Len(c) >= 1, Typed(c, s), Fresh(c, version), memory \in 0..version
  PROVE  /\ Carried(c) \in 0..version
         /\ Carried(c) = version \/ \A i \in 1..Len(c) : c[i].carries # version
<1> DEFINE carriers == {i \in DOMAIN c : c[i].carries > 0}
<1>1. c \in Seq(AnyMessage) /\ Len(c) \in Nat /\ DOMAIN c = 1..Len(c)
  BY DEF Typed
<1>2. \A i \in 1..Len(c) : c[i].carries \in Nat /\ c[i].carries <= version
  <2>1. \A i \in 1..Len(c) : c[i] \in AnyMessage
    BY <1>1
  <2>2. \A m \in AnyMessage : m.carries \in Nat
    BY DEF AnyMessage
  <2> QED
    BY <2>1, <2>2 DEF Fresh
<1>3. CASE carriers = {}
  <2>1. Carried(c) = memory
    BY <1>3 DEF Carried
  <2>2. \A i \in 1..Len(c) : c[i].carries = 0
    BY <1>1, <1>2, <1>3
  <2> QED
    BY <2>1, <2>2
<1>4. CASE carriers # {}
  <2>1. Carried(c) = c[Max(carriers)].carries
    BY <1>4 DEF Carried
  <2>2. carriers \in SUBSET (1..Len(c))
    BY <1>1
  <2> HIDE DEF carriers
  <2>3. Max(carriers) \in carriers /\ \A i \in carriers : i <= Max(carriers)
    BY <1>1, <1>4, <2>2, LastElement, SameMax
  <2>4. PICK l \in carriers : l = Max(carriers)
    BY <2>3
  <2>5. l \in 1..Len(c) /\ c[l].carries > 0
    BY <1>1, <2>4 DEF carriers
  <2>6. \A j \in 1..Len(c) : j > l => c[j].carries = 0
    <3>1. ASSUME NEW j \in 1..Len(c), j > l PROVE j \notin carriers
      BY <1>1, <2>3, <2>4, <2>5, <3>1
    <3> QED
      BY <1>1, <1>2, <3>1 DEF carriers
  <2>7. Carried(c) = c[l].carries
    BY <2>1, <2>4
  <2>8. CASE l > 1
    <3>1. c[l].carries = version
      BY <2>5, <2>6, <2>8 DEF Fresh, Silent
    <3> QED
      BY <2>7, <3>1
  <2>9. CASE l = 1
    <3>1. \A j \in 1..Len(c) : j # 1 => c[j].carries = 0
      BY <2>6, <2>9
    <3>2. version > 0
      BY <1>2, <2>5
    <3>3. c[1].carries \in 0..version
      BY <1>2, <2>5, <2>9
    <3>4. c[1].carries # version => \A j \in 1..Len(c) : c[j].carries # version
      BY <3>1, <3>2
    <3>5. Carried(c) = c[1].carries
      BY <2>7, <2>9
    <3> QED
      BY <3>3, <3>4, <3>5
  <2> QED
    BY <2>5, <2>8, <2>9
<1> QED
  BY <1>3, <1>4

LEMMA SystemOnly ==
  ASSUME NEW c, NEW s, Len(c) >= 1, Typed(c, s)
  PROVE  /\ Heads(c) \in Seq(AnyMessage) /\ Len(Heads(c)) = 1 /\ Heads(c)[1] = c[1]
         /\ Talk(c) = LeftOut(c, 1)
<1>1. c \in Seq(AnyMessage) /\ Len(c) \in Nat /\ DOMAIN c = 1..Len(c)
  BY DEF Typed
<1>2. \A i \in 1..Len(c) : System(c[i]) <=> i = 1
  BY DEF Typed, System
<1>3. ASSUME NEW keep \in [1..Len(c) -> BOOLEAN], \A i \in 1..Len(c) : keep[i] <=> i = 1
      PROVE  Filter(c, keep) \in Seq(AnyMessage) /\ Len(Filter(c, keep)) = 1 /\ Filter(c, keep)[1] = c[1]
  <2> DEFINE w == Filter(c, keep)
  <2>1. w \in Seq(AnyMessage) /\ \E spot : Picks(spot, w, c, keep)
    BY <1>1, FilterIs
  <2>2. PICK spot : Picks(spot, w, c, keep)
    BY <2>1
  <2> HIDE DEF w
  <2>3. Len(w) \in Nat
    BY <2>1
  <2>4. \A i \in 1..Len(w) : spot[i] = 1 /\ w[i] = c[1]
    <3>1. ASSUME NEW i \in 1..Len(w) PROVE spot[i] = 1 /\ w[i] = c[1]
      <4>1. spot[i] \in 1..Len(c) /\ keep[spot[i]] /\ w[i] = c[spot[i]]
        BY <2>2 DEF Picks
      <4> QED
        BY <1>3, <4>1
    <3> QED
      BY <3>1
  <2>5. 1 \in 1..Len(c) /\ keep[1]
    BY <1>1, <1>3
  <2>6. PICK o \in 1..Len(w) : spot[o] = 1
    BY <2>2, <2>5 DEF Picks
  <2>7. ~(Len(w) >= 2)
    <3>1. SUFFICES ASSUME Len(w) >= 2 PROVE FALSE
      OBVIOUS
    <3>2. 1 \in 1..Len(w) /\ 2 \in 1..Len(w)
      BY <2>3, <3>1
    <3>3. spot[1] < spot[2]
      BY <2>2, <3>2 DEF Picks
    <3> QED
      BY <2>4, <3>2, <3>3
  <2>8. Len(w) = 1
    <3>1. PICK l \in Nat : l = Len(w)
      BY <2>3
    <3>2. l >= 1
      BY <2>6, <3>1
    <3>3. ~(l >= 2)
      BY <2>7, <3>1
    <3>4. l = 1
      BY <3>2, <3>3
    <3> QED
      BY <3>1, <3>4
  <2> QED
    BY <2>1, <2>4, <2>8 DEF w
<1>4. Heads(c) \in Seq(AnyMessage) /\ Len(Heads(c)) = 1 /\ Heads(c)[1] = c[1]
  <2> DEFINE keep == [i \in DOMAIN c |-> System(c[i])]
  <2>1. keep \in [1..Len(c) -> BOOLEAN] /\ \A i \in 1..Len(c) : keep[i] <=> i = 1
    BY <1>1, <1>2 DEF System
  <2> HIDE DEF keep
  <2>2. Filter(c, keep) \in Seq(AnyMessage) /\ Len(Filter(c, keep)) = 1 /\ Filter(c, keep)[1] = c[1]
    BY <1>3, <2>1
  <2> QED
    BY <2>2 DEF keep, Heads
<1>5. Talk(c) = LeftOut(c, 1)
  <2> DEFINE keep == [i \in DOMAIN c |-> ~System(c[i])]
  <2>1. keep \in [1..Len(c) -> BOOLEAN] /\ \A i \in 1..Len(c) : keep[i] <=> i # 1
    BY <1>1, <1>2 DEF System
  <2> HIDE DEF keep
  <2>2. Filter(c, keep) = LeftOut(c, 1)
    BY <1>1, <2>1, FilterBut
  <2> QED
    BY <2>2 DEF keep, Talk
<1> QED
  BY <1>4, <1>5

(* What is kept of the talk is its end.                                      *)
LEMMA KeptIs ==
  ASSUME NEW c, NEW s, Len(c) >= 2, Typed(c, s)
  PROVE  \E kept \in 1..Len(c) - 1 :
           /\ kept >= Unshown \/ kept = Len(c) - 1
           /\ Kept(Talk(c)) \in Seq(AnyMessage) /\ Len(Kept(Talk(c))) = kept
           /\ \A k \in 1..kept : Kept(Talk(c))[k] = c[Len(c) - kept + k]
<1>1. c \in Seq(AnyMessage) /\ Len(c) \in Nat
  BY DEF Typed
<1>2. KeepMessages \in Nat \ {0} /\ Unshown \in Nat /\ Unshown <= KeepMessages
  BY KeepsWhatIsUnshown
<1>3. PICK n \in Nat : n = Len(c) - 1 /\ n >= 1
  BY <1>1
<1>4. PICK t : t = Talk(c)
  OBVIOUS
<1>5. t = [i \in 1..n |-> c[i + 1]]
  <2>1. t = LeftOut(c, 1)
    BY <1>4, SystemOnly
  <2>2. LeftOut(c, 1) = [i \in 1..n |-> c[i + 1]]
    BY <1>1, <1>3 DEF LeftOut
  <2> QED
    BY <2>1, <2>2
<1>6. t \in Seq(AnyMessage) /\ Len(t) = n /\ \A i \in 1..n : t[i] = c[i + 1]
  <2>1. \A i \in 1..n : c[i + 1] \in AnyMessage
    BY <1>1, <1>3
  <2> QED
    BY <1>3, <1>5, <2>1
<1>7. PICK from \in Int : from = IF 1 >= n - KeepMessages + 1 THEN 1 ELSE n - KeepMessages + 1
  BY <1>2, <1>3
<1>8. Max({1, Len(t) - KeepMessages + 1}) = from
  <2>1. n - KeepMessages + 1 \in Int /\ 1 \in Int
    BY <1>2, <1>3
  <2>2. PICK a \in Int : a = n - KeepMessages + 1
    BY <2>1
  <2>3. PICK m : m = Max({1, a})
    OBVIOUS
  <2>4. m \in {1, a} /\ m >= 1 /\ m >= a
    BY <2>1, <2>2, <2>3, Larger
  <2>5. from = IF 1 >= a THEN 1 ELSE a
    BY <1>7, <2>2
  <2>6. m = from
    BY <2>2, <2>4, <2>5
  <2> QED
    BY <1>6, <2>2, <2>3, <2>6
<1>9. Kept(t) = SubSeq(t, from, n)
  BY <1>6, <1>8 DEF Kept
<1>10. from \in 1..n
  BY <1>2, <1>3, <1>7
<1>11. PICK kept \in Nat : kept = n - from + 1
  BY <1>10
<1>12. kept \in 1..n /\ (kept >= Unshown \/ kept = n)
  BY <1>2, <1>3, <1>7, <1>10, <1>11
<1>13. SubSeq(t, from, n) \in Seq(AnyMessage) /\ Len(SubSeq(t, from, n)) = kept
       /\ \A k \in 1..kept : SubSeq(t, from, n)[k] = t[from + k - 1]
  <2>1. \A i \in from..n : t[i] \in AnyMessage
    BY <1>6, <1>10
  <2> QED
    BY <1>10, <1>11, <2>1, SubSeqProperties
<1>14. \A k \in 1..kept : t[from + k - 1] = c[Len(c) - kept + k]
  <2>1. ASSUME NEW k \in 1..kept PROVE t[from + k - 1] = c[Len(c) - kept + k]
    <3>1. from + k - 1 \in 1..n /\ (from + k - 1) + 1 = Len(c) - kept + k
      BY <1>3, <1>10, <1>11
    <3> QED
      BY <1>6, <3>1
  <2> QED
    BY <2>1
<1> QED
  BY <1>3, <1>4, <1>9, <1>12, <1>13, <1>14

LEMMA SummaryCuts ==
  ASSUME NEW c, NEW s \in Nat, Len(c) >= 2, Typed(c, s)
  PROVE  \E kept \in 1..Len(c) - 1 :
           /\ kept >= Unshown \/ kept = Len(c) - 1
           /\ CutOf(Heads(c) \o <<Message(s + 1, "summary", 0, 0, 0)>> \o Kept(Talk(c)), c, kept, s)
<1>1. c \in Seq(AnyMessage) /\ Len(c) \in Nat
  BY DEF Typed
<1>2. PICK kept \in 1..Len(c) - 1 :
           /\ kept >= Unshown \/ kept = Len(c) - 1
           /\ Kept(Talk(c)) \in Seq(AnyMessage) /\ Len(Kept(Talk(c))) = kept
           /\ \A k \in 1..kept : Kept(Talk(c))[k] = c[Len(c) - kept + k]
  BY KeptIs
<1>3. PICK h \in Seq(AnyMessage) : h = Heads(c) /\ Len(h) = 1 /\ h[1] = c[1]
  BY SystemOnly
<1>4. PICK t \in Seq(AnyMessage) :
        t = Kept(Talk(c)) /\ Len(t) = kept /\ \A k \in 1..kept : t[k] = c[Len(c) - kept + k]
  BY <1>2
<1>5. PICK x : x = Message(s + 1, "summary", 0, 0, 0)
  OBVIOUS
<1>6. x \in AnyMessage
  BY <1>5, KeepsWhatIsUnshown DEF Message, AnyMessage, Kinds
<1>7. PICK b \in Seq(AnyMessage) : b = h \o <<x>> /\ Len(b) = 2 /\ b[1] = c[1] /\ b[2] = x
  <2>0. PICK e : e = <<x>>
    OBVIOUS
  <2>1. e \in Seq(AnyMessage) /\ Len(e) = 1 /\ e[1] = x
    BY <1>6, <2>0
  <2>5. PICK g : g = h \o e
    OBVIOUS
  <2>2. /\ g \in Seq(AnyMessage) /\ Len(g) = Len(h) + Len(e)
        /\ \A i \in 1..Len(h) + Len(e) : g[i] = IF i <= Len(h) THEN h[i] ELSE e[i - Len(h)]
    BY <2>1, <2>5, ConcatProperties
  <2>3. g[1] = h[1] /\ g[2] = e[1] /\ Len(g) = 2
    BY <1>3, <2>1, <2>2
  <2>4. g = h \o <<x>>
    BY <2>0, <2>5
  <2> QED
    BY <1>3, <2>1, <2>2, <2>3, <2>4
<1>8. PICK w \in Seq(AnyMessage) :
        w = b \o t /\ Len(w) = 2 + kept
        /\ \A i \in 1..2 + kept : w[i] = IF i <= 2 THEN b[i] ELSE t[i - 2]
  <2>1. PICK g : g = b \o t
    OBVIOUS
  <2>2. /\ g \in Seq(AnyMessage) /\ Len(g) = Len(b) + Len(t)
        /\ \A i \in 1..Len(b) + Len(t) : g[i] = IF i <= Len(b) THEN b[i] ELSE t[i - Len(b)]
    BY <2>1, ConcatProperties
  <2>3. kept \in Nat /\ Len(g) = 2 + kept
    BY <1>4, <1>7, <2>2
  <2>4. \A i \in 1..2 + kept : g[i] = IF i <= 2 THEN b[i] ELSE t[i - 2]
    BY <1>4, <1>7, <2>2
  <2> QED
    BY <2>1, <2>2, <2>3, <2>4
<1>9. w[1] = c[1] /\ w[2] = x
  <2>1. 1 \in 1..2 + kept /\ 2 \in 1..2 + kept
    OBVIOUS
  <2>2. w[1] = b[1] /\ w[2] = b[2]
    BY <1>8, <2>1
  <2> QED
    BY <1>7, <2>2
<1>10. \A k \in 1..kept : w[k + 2] = c[Len(c) - kept + k]
  <2>1. ASSUME NEW k \in 1..kept PROVE w[k + 2] = c[Len(c) - kept + k]
    <3>1. k + 2 \in 1..2 + kept /\ ~(k + 2 <= 2) /\ (k + 2) - 2 = k
      OBVIOUS
    <3>2. w[k + 2] = t[k]
      BY <1>8, <3>1
    <3> QED
      BY <1>4, <3>2
  <2> QED
    BY <2>1
<1>11. CutOf(w, c, kept, s)
  <2>1. w \in Seq(AnyMessage) /\ Len(w) = kept + 2
    BY <1>8
  <2>2. w[2] = Message(s + 1, "summary", 0, 0, 0)
    BY <1>5, <1>9
  <2>3. s \in Nat
    OBVIOUS
  <2> QED
    BY <1>1, <1>9, <1>10, <2>1, <2>2, <2>3 DEF CutOf
<1>12. w = Heads(c) \o <<Message(s + 1, "summary", 0, 0, 0)>> \o Kept(Talk(c))
  BY ONLY <1>3, <1>4, <1>5, <1>7, <1>8
<1> QED
  BY <1>2, <1>11, <1>12

OpenCall(p, c) == IF p \in {"called", "executing"} THEN Len(c) ELSE 0

ContextCounts ==
  /\ said \in Nat /\ newest \in 0..MaxVersions /\ memory \in 0..newest
  /\ turns \in 0..MaxIterations /\ tasks \in 0..MaxTasks
  /\ phase \in Ended \cup {"asking", "called", "executing"}
  /\ archive \subseteq 0..said /\ glimpsed \subseteq 0..said /\ torn \subseteq 1..said

ContextKept == ContextRight(context, said, archive \cap glimpsed, archive, torn, OpenCall(phase, context), newest)

(* The memory is written back from what the context carries when a run       *)
(* completes; the call that is under way is the last message.                *)
ContextInv ==
  /\ ContextCounts /\ summarized \in BOOLEAN
  /\ phase = "new" => context = <<>> /\ said = 0 /\ newest = 0
  /\ phase # "new" => ContextKept
  /\ phase \in {"called", "executing"} => context[Len(context)].kind = "call"
  /\ phase = "completed" => memory = newest \/ \A i \in 1..Len(context) : context[i].carries # newest

(* What a prompt has shown the beginning of it has shown whole, unless it is *)
(* long.                                                                     *)
ToldInv == told \subseteq glimpsed /\ glimpsed \ Long \subseteq told

LEMMA ToldInitInv == ContextInit => ToldInv
BY DEF ContextInit, ToldInv

LEMMA ToldStepInv == ToldInv /\ [ContextNext]_contextVars => ToldInv'
<1> SUFFICES ASSUME ToldInv, [ContextNext]_contextVars PROVE ToldInv'
  OBVIOUS
<1>1. CASE Summarize
  BY <1>1 DEF Summarize, ToldInv
<1>2. CASE UNCHANGED <<told, glimpsed>>
  BY <1>2 DEF ToldInv
<1>3. Summarize \/ UNCHANGED <<told, glimpsed>>
  BY DEF ContextNext, contextVars, StartTask, AnswerText, Call, NoSummary, ExecuteCalls, Interrupted, FailTask, Exhausted
<1> QED
  BY <1>1, <1>2, <1>3

LEMMA ContextInitInv == ContextInit => ContextInv
<1> SUFFICES ASSUME ContextInit PROVE ContextInv
  OBVIOUS
<1>1. ContextCounts
  BY KeepsWhatIsUnshown DEF ContextInit, ContextCounts, Ended
<1> QED
  BY <1>1 DEF ContextInit, ContextInv

LEMMA ContextSeq ==
  ASSUME ContextInv, phase # "new"
  PROVE  /\ context \in Seq(AnyMessage) /\ Len(context) \in Nat /\ Len(context) >= 1
         /\ context # <<>> /\ context[1] \in AnyMessage /\ context[Len(context)] \in AnyMessage
         /\ said \in Nat /\ newest \in Nat /\ memory \in Nat /\ memory <= newest
<1>1. context \in Seq(AnyMessage) /\ Len(context) >= 1
  BY DEF ContextInv, ContextKept, ContextRight, Typed
<1>2. Len(context) \in Nat
  BY <1>1
<1>3. context # <<>>
  BY <1>1
<1>4. context[1] \in AnyMessage /\ context[Len(context)] \in AnyMessage
  BY <1>1, <1>2
<1>5. said \in Nat /\ newest \in Nat /\ memory \in Nat /\ memory <= newest
  BY KeepsWhatIsUnshown DEF ContextInv, ContextCounts
<1> QED
  BY <1>1, <1>2, <1>3, <1>4, <1>5

(* The call under way: it is not the system message.                         *)
LEMMA CallUnderWay ==
  ASSUME ContextInv, phase \in {"called", "executing"}
  PROVE  /\ Len(context) >= 2 /\ Last(context) = context[Len(context)]
         /\ Last(context).id \in 1..said /\ Last(context).size \in 0..2
         /\ Last(context).kind = "call"
<1>1. /\ context \in Seq(AnyMessage) /\ Len(context) \in Nat /\ Len(context) >= 1
      /\ context[Len(context)] \in AnyMessage /\ said \in Nat
  BY ContextSeq
<1>2. Last(context) = context[Len(context)]
  BY DEF Last
<1>3. context[Len(context)].kind = "call"
  BY DEF ContextInv
<1>4. Typed(context, said)
  BY DEF ContextInv, ContextKept, ContextRight
<1>5. Len(context) # 1
  BY <1>1, <1>3, <1>4 DEF Typed
<1>6. Len(context) \in 1..Len(context) /\ Len(context) > 1
  BY <1>1, <1>5
<1>7. context[Len(context)].id >= 1 /\ context[Len(context)].id <= said
  BY <1>4, <1>6 DEF Typed
<1>8. context[Len(context)].id \in Nat /\ context[Len(context)].size \in 0..2
  BY <1>1 DEF AnyMessage
<1>9. context[Len(context)].id \in 1..said
  BY <1>1, <1>7, <1>8
<1> QED
  BY <1>1, <1>2, <1>3, <1>6, <1>8, <1>9

(* A message that answers to nothing is added.                               *)
LEMMA Added ==
  ASSUME NEW c, NEW s \in Nat, NEW shown, NEW replaced, NEW exempt, NEW version \in Nat,
         ContextRight(c, s, shown, replaced, exempt, 0, version),
         NEW kind \in {"user", "call", "answer"}, NEW size \in 0..2, NEW carried \in 0..MaxVersions,
         carried = 0 \/ carried = version + 1
  PROVE  LET w == Append(c, Message(s + 1, kind, 0, size, carried))
         IN  /\ ContextRight(w, s + 1, shown, replaced, exempt, IF kind = "call" THEN Len(w) ELSE 0,
                             IF carried = 0 THEN version ELSE carried)
             /\ w[Len(w)].kind = kind
<1> DEFINE x == Message(s + 1, kind, 0, size, carried)
           w == Append(c, x)
<1>0. MaxVersions \in Nat
  BY KeepsWhatIsUnshown
<1>1. x \in AnyMessage /\ x.id = s + 1 /\ x.of = 0 /\ x.kind = kind /\ x.carries = carried
  BY DEF Message, AnyMessage, Kinds
<1>2. c \in Seq(AnyMessage) /\ Len(c) \in Nat /\ Len(c) >= 1 /\ Fresh(c, version)
  BY DEF ContextRight, Typed
<1> HIDE DEF x
<1>3. Extension(w, c, 1, s) /\ w[Len(c) + 1] = x /\ Len(w) = Len(c) + 1
  <2>1. x.of <= s /\ x.kind # "system"
    BY <1>1
  <2> QED
    BY <1>1, <1>2, <2>1, AppendExtends
<1>4. \A k \in 1..1 : w[Len(c) + k] = x
  BY <1>3
<1> HIDE DEF w
<1>5. Fresh(w, IF carried = 0 THEN version ELSE carried)
  <2>1. CASE carried = 0
    <3>1. \A k \in 1..1 : w[Len(c) + k].carries = 0
      BY <1>1, <1>4, <2>1
    <3>2. Fresh(w, version)
      BY <1>2, <1>3, <3>1, ExtendSilent
    <3> QED
      BY <2>1, <3>2
  <2>2. CASE carried # 0
    <3>1. w[Len(c) + 1].carries = version + 1 /\ carried = version + 1
      BY <1>1, <1>3, <2>2
    <3>2. Fresh(w, version + 1)
      BY <1>2, <1>3, <3>1, ExtendNewest
    <3> QED
      BY <2>2, <3>1, <3>2
  <2> QED
    BY <2>1, <2>2
<1>6. \A k \in 1..1 : w[Len(c) + k].kind = "call" => Len(c) + k = IF kind = "call" THEN Len(w) ELSE 0
  BY <1>1, <1>3, <1>4
<1>7. \A k \in 1..1 : w[Len(c) + k].kind = "result" => Holds(c, w[Len(c) + k].of)
  BY <1>1, <1>4
<1>8. 0 \notin 1..Len(c)
  OBVIOUS
<1>9. ContextRight(w, s + 1, shown, replaced, exempt, IF kind = "call" THEN Len(w) ELSE 0,
                   IF carried = 0 THEN version ELSE carried)
  BY <1>3, <1>5, <1>6, <1>7, <1>8, Grown
<1>10. w[Len(w)].kind = kind
  BY <1>1, <1>3
<1> QED
  BY <1>9, <1>10 DEF w, x

LEMMA FirstMessage ==
  ASSUME NEW shown, NEW replaced, NEW exempt
  PROVE  ContextRight(<<Message(0, "system", 0, 0, 0)>>, 0, shown, replaced, exempt, 0, 0)
<1>1. PICK x : x = Message(0, "system", 0, 0, 0)
  OBVIOUS
<1>2. x \in AnyMessage /\ x.id = 0 /\ x.kind = "system" /\ x.of = 0 /\ x.carries = 0 /\ x.size = 0
  BY <1>1, KeepsWhatIsUnshown DEF Message, AnyMessage, Kinds
<1>3. PICK c : c = <<x>>
  OBVIOUS
<1>4. c \in Seq(AnyMessage) /\ Len(c) = 1 /\ c[1] = x
  BY <1>2, <1>3
<1>5. \A i \in 1..Len(c) : i = 1 /\ c[i] = x
  BY <1>4
<1>6. Typed(c, 0)
  <2>1. ASSUME NEW i \in 1..Len(c)
        PROVE  /\ c[i].id <= 0 /\ c[i].of <= 0
               /\ c[i].kind = "system" <=> i = 1
               /\ i = 1 => c[i].id = 0
               /\ i > 1 => c[i].id >= 1
    BY <1>2, <1>5
  <2> QED
    BY <1>4, <2>1 DEF Typed
<1>7. Remembers(c, 0, shown) /\ CallsDone(c, exempt, 0) /\ ResultsOf(c, replaced) /\ Fresh(c, 0)
  <2>1. Remembers(c, 0, shown)
    BY DEF Remembers
  <2>2. CallsDone(c, exempt, 0) /\ ResultsOf(c, replaced)
    BY <1>2, <1>5 DEF CallsDone, ResultsOf
  <2>3. Fresh(c, 0)
    BY <1>2, <1>5 DEF Fresh
  <2> QED
    BY <2>1, <2>2, <2>3
<1>8. Len(c) >= 1
  BY <1>4
<1> QED
  BY <1>1, <1>3, <1>6, <1>7, <1>8 DEF ContextRight

(* The results of a batch are added.                                         *)
LEMMA ResultsAdded ==
  ASSUME NEW c, NEW shown, NEW replaced, NEW exempt, NEW version \in Nat, said \in Nat,
         ContextRight(c, said, shown, replaced, exempt, Len(c), version), NEW n \in Nat,
         c[Len(c)].id <= said, NEW after, exempt \subseteq after,
         c[Len(c)].id \in after \/ n = c[Len(c)].size
  PROVE  ContextRight(c \o Results(c[Len(c)], n), said + n, shown, replaced, after, 0, version)
<1>1. c \in Seq(AnyMessage) /\ Len(c) \in Nat /\ Len(c) >= 1 /\ Fresh(c, version)
  BY DEF ContextRight, Typed
<1>2. PICK l : l = c[Len(c)]
  OBVIOUS
<1>3. l \in AnyMessage /\ l.id \in Nat /\ l.id <= said
  <2>1. l \in AnyMessage
    BY <1>1, <1>2
  <2> QED
    BY <1>2, <2>1 DEF AnyMessage
<1>4. PICK r : r = Results(l, n)
  OBVIOUS
<1>5. r = [i \in 1..n |-> Message(said + i, "result", l.id, 0, 0)]
  BY <1>4 DEF Results
<1>6. \A i \in 1..n : /\ r[i] \in AnyMessage /\ r[i].id = said + i /\ r[i].kind = "result"
                      /\ r[i].of = l.id /\ r[i].carries = 0
  <2>1. ASSUME NEW i \in 1..n
        PROVE  /\ r[i] \in AnyMessage /\ r[i].id = said + i /\ r[i].kind = "result"
               /\ r[i].of = l.id /\ r[i].carries = 0
    <3>1. PICK id \in Nat : id = said + i
      OBVIOUS
    <3>2. r[i] = Message(id, "result", l.id, 0, 0)
      BY <1>5, <3>1
    <3>3. Message(id, "result", l.id, 0, 0) \in AnyMessage
      <4>1. 0 \in 0..2 /\ 0 \in 0..MaxVersions
        BY KeepsWhatIsUnshown
      <4> QED
        BY <1>3, <4>1 DEF Message, AnyMessage, Kinds
    <3>4. Message(id, "result", l.id, 0, 0) = [id |-> id, kind |-> "result", of |-> l.id, size |-> 0, carries |-> 0]
      BY DEF Message
    <3>5. r[i].id = id /\ r[i].kind = "result" /\ r[i].of = l.id /\ r[i].carries = 0
      BY <3>2, <3>4
    <3> QED
      BY <3>1, <3>2, <3>3, <3>5
  <2> QED
    BY <2>1
<1>7. r \in Seq(AnyMessage) /\ Len(r) = n
  <2>1. \A i \in 1..n : r[i] \in AnyMessage
    BY <1>6
  <2>2. r \in [1..n -> AnyMessage]
    BY <1>5, <2>1
  <2>3. r \in Seq(AnyMessage)
    BY <2>2
  <2>4. Len(r) = n
    BY <1>5
  <2> QED
    BY <2>3, <2>4
<1>8. PICK w : w = c \o r
  OBVIOUS
<1>9. /\ w \in Seq(AnyMessage) /\ Len(w) = Len(c) + Len(r)
      /\ \A i \in 1..Len(c) + Len(r) : w[i] = IF i <= Len(c) THEN c[i] ELSE r[i - Len(c)]
  BY <1>1, <1>7, <1>8, ConcatProperties
<1>10. \A k \in 1..n : w[Len(c) + k] = r[k]
  <2>1. ASSUME NEW k \in 1..n PROVE w[Len(c) + k] = r[k]
    <3>1. Len(c) + k \in 1..Len(c) + Len(r) /\ ~(Len(c) + k <= Len(c)) /\ (Len(c) + k) - Len(c) = k
      BY <1>1, <1>7
    <3> QED
      BY <1>9, <3>1
  <2> QED
    BY <2>1
<1>11. Extension(w, c, n, said)
  <2>1. \A i \in 1..Len(c) : w[i] = c[i]
    BY <1>1, <1>7, <1>9
  <2>2. Len(w) = Len(c) + n
    BY <1>7, <1>9
  <2>3. \A k \in 1..n : /\ w[Len(c) + k].id = said + k /\ w[Len(c) + k].of <= said
                        /\ w[Len(c) + k].kind # "system"
    BY <1>3, <1>6, <1>10
  <2> QED
    BY <1>1, <1>9, <2>1, <2>2, <2>3 DEF Extension
<1>12. Fresh(w, version)
  <2>1. \A k \in 1..n : w[Len(c) + k].carries = 0
    BY <1>6, <1>10
  <2> QED
    BY <1>1, <1>11, <2>1, ExtendSilent
<1>13. l.id \in after \/ Complete(w, Len(c))
  <2>1. SUFFICES ASSUME n = l.size PROVE Complete(w, Len(c))
    BY <1>2
  <2>2. w[Len(c)] = l
    BY <1>1, <1>2, <1>7, <1>9
  <2>3. ASSUME NEW k \in 1..l.size PROVE Len(c) + k \in 1..Len(w) /\ w[Len(c) + k].of = l.id
    <3>1. k \in 1..n
      BY <2>1
    <3>2. Len(w) = Len(c) + n
      BY <1>7, <1>9
    <3>3. Len(c) + k \in 1..Len(w)
      BY <1>1, <3>1, <3>2
    <3> QED
      BY <1>6, <1>10, <3>1, <3>3
  <2> QED
    BY <2>2, <2>3 DEF Complete
<1>14. \A k \in 1..n : w[Len(c) + k].kind = "call" => Len(c) + k = 0
  BY <1>6, <1>10
<1>15. \A k \in 1..n : w[Len(c) + k].kind = "result" => Holds(c, w[Len(c) + k].of)
  <2>1. Holds(c, l.id)
    BY <1>1, <1>2 DEF Holds
  <2> QED
    BY <1>6, <1>10, <2>1
<1>16. ContextRight(w, said + n, shown, replaced, after, 0, version)
  <2>1. Len(c) \in 1..Len(c) => c[Len(c)].id \in after \/ Complete(w, Len(c))
    BY <1>2, <1>13
  <2> QED
    BY <1>11, <1>12, <1>14, <1>15, <2>1, Grown
<1> QED
  BY <1>2, <1>4, <1>8, <1>16

LEMMA StartTaskKeeps == ASSUME ContextInv, StartTask PROVE ContextInv'
<1>1. phase \in Ended /\ phase' = "asking" /\ said' = said + 1 /\ tasks' = tasks + 1 /\ tasks < MaxTasks
      /\ turns' = 0 /\ summarized' = FALSE
      /\ UNCHANGED <<archive, memory, newest, glimpsed, torn>>
  BY DEF StartTask
<1>2. said \in Nat /\ newest \in 0..MaxVersions /\ newest \in Nat /\ memory \in 0..newest
  BY KeepsWhatIsUnshown DEF ContextInv, ContextCounts
<1> DEFINE first == IF context = <<>> THEN <<Message(0, "system", 0, 0, 0)>> ELSE Injected(context)
<1>3. context' = Append(first, Message(said + 1, "user", 0, 0, 0))
  BY DEF StartTask
<1>4. ContextRight(first, said, archive \cap glimpsed, archive, torn, 0, newest)
  <2>1. CASE phase = "new"
    <3>1. first = <<Message(0, "system", 0, 0, 0)>> /\ said = 0 /\ newest = 0
      BY <2>1 DEF ContextInv
    <3> HIDE DEF first
    <3>2. ContextRight(<<Message(0, "system", 0, 0, 0)>>, 0, archive \cap glimpsed, archive, torn, 0, 0)
      BY FirstMessage
    <3> QED
      BY <3>1, <3>2
  <2>2. CASE phase # "new"
    <3>1. /\ context \in Seq(AnyMessage) /\ Len(context) \in Nat /\ Len(context) >= 1
          /\ context # <<>> /\ context[1] \in AnyMessage
      BY <2>2, ContextSeq
    <3>2. PICK v \in 0..MaxVersions : v = IF context[1].carries = 0 THEN memory ELSE context[1].carries
      <4>1. context[1].carries \in 0..MaxVersions
        BY <3>1 DEF AnyMessage
      <4>2. memory \in 0..MaxVersions
        BY <1>2, KeepsWhatIsUnshown
      <4> QED
        BY <4>1, <4>2
    <3>3. first = [context EXCEPT ![1].carries = v]
      BY <3>1, <3>2 DEF Injected
    <3>4. DOMAIN context = 1..Len(context) /\ 1 \in DOMAIN context
      BY <3>1
    <3>5. PICK x : x = [context[1] EXCEPT !.carries = v]
      OBVIOUS
    <3>6. x \in AnyMessage /\ x.carries = v /\ x.id = context[1].id /\ x.kind = context[1].kind
          /\ x.of = context[1].of /\ x.size = context[1].size
      BY <3>1, <3>5 DEF AnyMessage
    <3>7. first = [context EXCEPT ![1] = x]
      BY <3>3, <3>5
    <3> HIDE DEF first
    <3>8. first \in Seq(AnyMessage) /\ Len(first) = Len(context)
      BY <3>1, <3>6, <3>7
    <3>9. first[1] = x /\ \A i \in 2..Len(context) : first[i] = context[i]
      BY <3>1, <3>4, <3>7
    <3>10. SystemChanged(first, context)
      BY <3>1, <3>6, <3>8, <3>9 DEF SystemChanged
    <3>11. ContextRight(context, said, archive \cap glimpsed, archive, torn, 0, newest)
      <4>1. OpenCall(phase, context) = 0
        BY <1>1 DEF Ended, OpenCall
      <4> QED
        BY <2>2, <4>1 DEF ContextInv, ContextKept
    <3>12. first[1].carries <= newest
      <4>1. context[1].carries <= newest
        BY <3>1, <3>11 DEF ContextRight, Fresh
      <4>2. v <= newest
        BY <1>2, <3>2, <4>1
      <4> QED
        BY <3>6, <3>9, <4>2
    <3> QED
      BY <1>2, <3>10, <3>11, <3>12, RefreshedRight
  <2> QED
    BY <2>1, <2>2
<1> HIDE DEF first
<1>5. ContextRight(context', said + 1, archive \cap glimpsed, archive, torn, 0, newest)
  <2>1. "user" \in {"user", "call", "answer"} /\ 0 \in 0..2 /\ 0 \in 0..MaxVersions
    BY KeepsWhatIsUnshown
  <2>2. LET w == Append(first, Message(said + 1, "user", 0, 0, 0))
         IN  /\ ContextRight(w, said + 1, archive \cap glimpsed, archive, torn, IF "user" = "call" THEN Len(w) ELSE 0,
                             IF 0 = 0 THEN newest ELSE 0)
             /\ w[Len(w)].kind = "user"
    BY <1>2, <1>4, <2>1, Added
  <2> QED
    BY <1>3, <2>2
<1>6. ContextKept'
  <2>1. OpenCall(phase', context') = 0
    BY <1>1 DEF OpenCall
  <2> QED
    BY <1>1, <1>5, <2>1 DEF ContextKept
<1>7. ContextCounts'
  BY <1>1, <1>2, KeepsWhatIsUnshown DEF ContextInv, ContextCounts, Ended
<1> QED
  BY <1>1, <1>6, <1>7 DEF ContextInv

(* What the model says, and its version of the memory, are added.            *)
LEMMA ReplyAdds ==
  ASSUME ContextInv, phase = "asking", NEW kind \in {"call", "answer"}, NEW size \in 0..2, Reply(kind, size)
  PROVE  /\ ContextRight(context', said', archive \cap glimpsed, archive, torn,
                         IF kind = "call" THEN Len(context') ELSE 0, newest')
         /\ context'[Len(context')].kind = kind
         /\ said' = said + 1 /\ said \in Nat /\ newest' \in 0..MaxVersions /\ newest \in Nat /\ newest <= newest'
<1>1. PICK version \in {0} \cup ({newest + 1} \cap 1..MaxVersions) :
        /\ context' = Append(context, Message(said + 1, kind, 0, size, version))
        /\ newest'  = IF version = 0 THEN newest ELSE version
        /\ said'    = said + 1
  BY DEF Reply
<1>2. said \in Nat /\ newest \in 0..MaxVersions /\ newest \in Nat /\ MaxVersions \in Nat
  BY KeepsWhatIsUnshown DEF ContextInv, ContextCounts
<1>3. version \in 0..MaxVersions /\ (version = 0 \/ version = newest + 1)
  BY <1>1, <1>2
<1>4. ContextRight(context, said, archive \cap glimpsed, archive, torn, 0, newest)
  <2>1. OpenCall(phase, context) = 0
    BY DEF OpenCall
  <2> QED
    BY <2>1 DEF ContextInv, ContextKept
<1>5. kind \in {"user", "call", "answer"}
  OBVIOUS
<1>6. LET w == Append(context, Message(said + 1, kind, 0, size, version))
      IN  /\ ContextRight(w, said + 1, archive \cap glimpsed, archive, torn, IF kind = "call" THEN Len(w) ELSE 0,
                          IF version = 0 THEN newest ELSE version)
          /\ w[Len(w)].kind = kind
  BY <1>2, <1>3, <1>4, <1>5, Added
<1>7. newest' \in 0..MaxVersions /\ newest <= newest'
  BY <1>1, <1>2, <1>3
<1> QED
  BY <1>1, <1>2, <1>6, <1>7

LEMMA AnswerTextKeeps == ASSUME ContextInv, AnswerText PROVE ContextInv'
<1>1. /\ phase = "asking" /\ Reply("answer", 0) /\ memory' = Carried(context') /\ phase' = "completed"
      /\ UNCHANGED <<archive, turns, summarized, glimpsed, torn, tasks>>
  BY DEF AnswerText, Persist
<1>2. /\ ContextRight(context', said', archive \cap glimpsed, archive, torn, 0, newest')
      /\ said' = said + 1 /\ said \in Nat /\ newest' \in 0..MaxVersions /\ newest \in Nat /\ newest <= newest'
  <2>1. 0 \in 0..2 /\ "answer" \in {"call", "answer"}
    OBVIOUS
  <2> QED
    BY <1>1, <2>1, ReplyAdds
<1>3. newest' \in Nat /\ memory \in 0..newest'
  BY <1>2, KeepsWhatIsUnshown DEF ContextInv, ContextCounts
<1>4. /\ Carried(context') \in 0..newest'
      /\ Carried(context') = newest' \/ \A i \in 1..Len(context') : context'[i].carries # newest'
  <2>1. Len(context') >= 1 /\ Typed(context', said') /\ Fresh(context', newest')
    BY <1>2 DEF ContextRight
  <2> QED
    BY <1>3, <2>1, CarriedIs
<1>5. ContextKept'
  <2>1. OpenCall(phase', context') = 0
    BY <1>1 DEF OpenCall
  <2> QED
    BY <1>1, <1>2, <2>1 DEF ContextKept
<1>6. ContextCounts'
  BY <1>1, <1>2, <1>3, <1>4, KeepsWhatIsUnshown DEF ContextInv, ContextCounts, Ended
<1>7. phase' # "new" /\ phase' \notin {"called", "executing"} /\ summarized' \in BOOLEAN
  BY <1>1 DEF ContextInv
<1> QED
  BY <1>1, <1>4, <1>5, <1>6, <1>7 DEF ContextInv

LEMMA CallKeeps == ASSUME ContextInv, Call PROVE ContextInv'
<1>1. /\ phase = "asking" /\ turns < MaxIterations /\ turns' = turns + 1 /\ phase' = "called"
      /\ UNCHANGED <<archive, summarized, memory, glimpsed, torn, tasks>>
  BY DEF Call
<1>2. PICK n \in 1..2 : Reply("call", n)
  BY DEF Call
<1>3. /\ ContextRight(context', said', archive \cap glimpsed, archive, torn, Len(context'), newest')
      /\ context'[Len(context')].kind = "call"
      /\ said' = said + 1 /\ said \in Nat /\ newest' \in 0..MaxVersions /\ newest \in Nat /\ newest <= newest'
  <2>1. n \in 0..2 /\ "call" \in {"call", "answer"}
    OBVIOUS
  <2> QED
    BY <1>1, <1>2, <2>1, ReplyAdds
<1>4. ContextKept'
  <2>1. OpenCall(phase', context') = Len(context')
    BY <1>1 DEF OpenCall
  <2> QED
    BY <1>1, <1>3, <2>1 DEF ContextKept
<1>5. ContextCounts'
  BY <1>1, <1>3, KeepsWhatIsUnshown DEF ContextInv, ContextCounts, Ended
<1>6. phase' # "new" /\ phase' # "completed" /\ summarized' \in BOOLEAN
  BY <1>1 DEF ContextInv
<1> QED
  BY <1>3, <1>4, <1>5, <1>6 DEF ContextInv

LEMMA SummarizeKeeps == ASSUME ContextInv, Summarize PROVE ContextInv'
<1>1. /\ phase = "called" /\ phase' = "executing"
      /\ glimpsed' = glimpsed \cup Ids(SubSeq(context, 1, Len(context) - Unshown))
      /\ UNCHANGED <<turns, memory, newest, torn, tasks>>
  BY DEF Summarize, Shown
<1>2. /\ context \in Seq(AnyMessage) /\ Len(context) \in Nat /\ Len(context) >= 2
      /\ said \in Nat /\ newest \in Nat /\ context[Len(context)].kind = "call"
  <2>1. phase # "new" /\ phase \in {"called", "executing"}
    BY <1>1
  <2> QED
    BY <2>1, ContextSeq, CallUnderWay
<1>3. ContextRight(context, said, archive \cap glimpsed, archive, torn, Len(context), newest)
  <2>1. OpenCall(phase, context) = Len(context)
    BY <1>1 DEF OpenCall
  <2> QED
    BY <1>1, <2>1 DEF ContextInv, ContextKept
<1>4. Typed(context, said)
  BY <1>3 DEF ContextRight
<1>5. Ids(context) \subseteq 0..said /\ Ids(SubSeq(context, 1, Len(context) - Unshown)) \subseteq 0..said
  <2>1. ASSUME NEW i \in 1..Len(context) PROVE context[i].id \in 0..said
    <3>1. context[i] \in AnyMessage /\ context[i].id <= said
      BY <1>2, <1>4 DEF Typed
    <3> QED
      BY <1>2, <3>1 DEF AnyMessage
  <2>2. Ids(context) \subseteq 0..said
    BY <1>2, <2>1 DEF Ids, ToSet
  <2>3. PICK n \in Int : n = Len(context) - Unshown /\ n <= Len(context)
    <3>1. Len(context) \in Nat
      BY <1>2
    <3>2. Unshown \in Nat
      BY KeepsWhatIsUnshown
    <3>3. Len(context) - Unshown \in Int /\ Len(context) - Unshown <= Len(context)
      BY <3>1, <3>2
    <3> QED
      BY <3>3
  <2>4. \A i \in 1..n : i \in 1..Len(context) /\ context[i] \in AnyMessage
    <3> SUFFICES ASSUME NEW i \in 1..n
                 PROVE  i \in 1..Len(context) /\ context[i] \in AnyMessage
      OBVIOUS
    <3>1. i \in 1..Len(context)
      BY <1>2, <2>3
    <3> QED
      BY <1>2, <3>1
  <2>5. /\ SubSeq(context, 1, n) \in Seq(AnyMessage)
        /\ Len(SubSeq(context, 1, n)) = IF 1 <= n THEN n - 1 + 1 ELSE 0
        /\ \A i \in 1..n - 1 + 1 : SubSeq(context, 1, n)[i] = context[1 + i - 1]
    BY <2>4, SubSeqProperties
  <2>6. PICK t \in Seq(AnyMessage) : t = SubSeq(context, 1, n)
    BY <2>5
  <2>7. \A i \in 1..Len(t) : t[i] = context[i] /\ i \in 1..Len(context)
    <3>1. ASSUME NEW i \in 1..Len(t) PROVE t[i] = context[i] /\ i \in 1..Len(context)
      <4>1. i \in 1..n /\ i \in 1..n - 1 + 1 /\ 1 + i - 1 = i
        BY <2>3, <2>5, <2>6
      <4> QED
        BY <2>4, <2>5, <2>6, <4>1
    <3> QED
      BY <3>1
  <2>8. Ids(t) \subseteq 0..said
    BY <2>1, <2>7 DEF Ids, ToSet
  <2> QED
    BY <2>2, <2>3, <2>6, <2>8
<1>6. CASE UNCHANGED <<context, archive, summarized, said>>
  <2>1. ContextKept'
    <3>1. OpenCall(phase', context') = Len(context')
      BY <1>1 DEF OpenCall
    <3>2. Remembers(context, said, archive \cap glimpsed')
      BY <1>1, <1>3 DEF ContextRight, Remembers
    <3>3. ContextRight(context, said, archive \cap glimpsed', archive, torn, Len(context), newest)
      BY <1>3, <3>2 DEF ContextRight
    <3> QED
      BY <1>1, <1>6, <3>1, <3>3 DEF ContextKept
  <2>2. ContextCounts'
    BY <1>1, <1>5, <1>6 DEF ContextInv, ContextCounts
  <2>3. phase' # "new" /\ phase' # "completed" /\ summarized' \in BOOLEAN /\ context'[Len(context')].kind = "call"
    BY <1>1, <1>2, <1>6 DEF ContextInv
  <2> QED
    BY <2>1, <2>2, <2>3 DEF ContextInv
<1>7. CASE /\ context' = Heads(context) \o <<Message(said + 1, "summary", 0, 0, 0)>> \o Kept(Talk(context))
           /\ archive' = archive \cup Ids(context)
           /\ summarized' = TRUE /\ said' = said + 1
  <2>1. PICK kept \in 1..Len(context) - 1 :
          /\ kept >= Unshown \/ kept = Len(context) - 1
          /\ CutOf(Heads(context) \o <<Message(said + 1, "summary", 0, 0, 0)>> \o Kept(Talk(context)),
                   context, kept, said)
    BY <1>2, <1>4, SummaryCuts
  <2>2. CutOf(context', context, kept, said)
    BY <1>7, <2>1
  <2>3. ContextRight(context', said + 1,
                     (archive \cup Ids(context)) \cap (glimpsed \cup Ids(SubSeq(context, 1, Len(context) - Unshown))),
                     archive \cup Ids(context), torn, Len(context'), newest)
    BY <1>2, <1>3, <2>1, <2>2, CutRight
  <2>4. ContextKept'
    <3>1. OpenCall(phase', context') = Len(context')
      BY <1>1 DEF OpenCall
    <3> QED
      BY <1>1, <1>7, <2>3, <3>1 DEF ContextKept
  <2>5. ContextCounts'
    <3>1. archive \subseteq 0..said /\ glimpsed \subseteq 0..said /\ torn \subseteq 1..said
      BY DEF ContextInv, ContextCounts
    <3>2. archive' \subseteq 0..said /\ glimpsed' \subseteq 0..said /\ torn' \subseteq 1..said
      BY <1>1, <1>5, <1>7, <3>1
    <3>3. 0..said \subseteq 0..said' /\ 1..said \subseteq 1..said' /\ said' \in Nat
      BY <1>2, <1>7
    <3>4. archive' \subseteq 0..said' /\ glimpsed' \subseteq 0..said' /\ torn' \subseteq 1..said'
      BY <3>2, <3>3
    <3> QED
      BY <1>1, <3>3, <3>4 DEF ContextInv, ContextCounts
  <2>6. context'[Len(context')].kind = "call"
    <3>1. Len(context') = kept + 2 /\ kept \in 1..kept
      BY <2>1, <2>2 DEF CutOf
    <3>3. context'[kept + 2] = context[Len(context) - kept + kept]
      BY <2>2, <3>1 DEF CutOf
    <3>2. Len(context) - kept + kept = Len(context)
      BY <1>2, <2>1
    <3> QED
      BY <1>2, <3>1, <3>2, <3>3
  <2> QED
    BY <1>1, <1>7, <2>4, <2>5, <2>6 DEF ContextInv
<1> QED
  BY <1>6, <1>7 DEF Summarize

LEMMA NoSummaryKeeps == ASSUME ContextInv, NoSummary PROVE ContextInv'
<1>1. /\ phase = "called" /\ phase' = "executing"
      /\ UNCHANGED <<context, archive, turns, summarized, memory, newest, said, glimpsed, torn, tasks>>
  BY DEF NoSummary
<1>2. OpenCall(phase', context') = OpenCall(phase, context)
  BY <1>1 DEF OpenCall
<1>3. ContextKept'
  BY <1>1, <1>2 DEF ContextInv, ContextKept
<1>4. ContextCounts'
  BY <1>1 DEF ContextInv, ContextCounts
<1>5. context'[Len(context')].kind = "call" /\ summarized' \in BOOLEAN /\ phase' # "new" /\ phase' # "completed"
  BY <1>1 DEF ContextInv
<1> QED
  BY <1>3, <1>4, <1>5 DEF ContextInv

LEMMA ExecuteCallsKeeps == ASSUME ContextInv, ExecuteCalls PROVE ContextInv'
<1>1. /\ phase = "executing" /\ phase' = "asking"
      /\ context' = context \o Results(Last(context), Last(context).size)
      /\ said' = said + Last(context).size
      /\ UNCHANGED <<archive, turns, summarized, memory, newest, glimpsed, torn, tasks>>
  BY DEF ExecuteCalls
<1>2. /\ Last(context) = context[Len(context)] /\ Last(context).id \in 1..said /\ Last(context).size \in 0..2
  BY <1>1, CallUnderWay
<1>3. said \in Nat /\ newest \in Nat
  BY <1>1, ContextSeq
<1>4. ContextRight(context, said, archive \cap glimpsed, archive, torn, Len(context), newest)
  <2>1. OpenCall(phase, context) = Len(context)
    BY <1>1 DEF OpenCall
  <2> QED
    BY <1>1, <2>1 DEF ContextInv, ContextKept
<1>5. ContextRight(context', said', archive \cap glimpsed, archive, torn, 0, newest)
  <2>1. PICK n \in Nat : n = Last(context).size
    BY <1>2
  <2>2. context[Len(context)].id <= said /\ n = context[Len(context)].size
    BY <1>2, <1>3, <2>1
  <2>3. ContextRight(context \o Results(context[Len(context)], n), said + n, archive \cap glimpsed, archive, torn, 0, newest)
    BY <1>3, <1>4, <2>2, ResultsAdded
  <2> QED
    BY <1>1, <1>2, <2>1, <2>3
<1>6. ContextKept'
  <2>1. OpenCall(phase', context') = 0
    BY <1>1 DEF OpenCall
  <2> QED
    BY <1>1, <1>5, <2>1 DEF ContextKept
<1>7. ContextCounts'
  BY <1>1, <1>2, <1>3 DEF ContextInv, ContextCounts, Ended
<1> QED
  BY <1>1, <1>6, <1>7 DEF ContextInv

LEMMA InterruptedKeeps == ASSUME ContextInv, Interrupted PROVE ContextInv'
<1>1. /\ phase = "executing" /\ phase' = "failed" /\ torn' = torn \cup {Last(context).id}
      /\ UNCHANGED <<archive, turns, summarized, memory, newest, glimpsed, tasks>>
  BY DEF Interrupted
<1>2. PICK n \in 0..(Last(context).size - 1) : context' = context \o Results(Last(context), n) /\ said' = said + n
  BY DEF Interrupted
<1>3. /\ Last(context) = context[Len(context)] /\ Last(context).id \in 1..said /\ Last(context).size \in 0..2
  BY <1>1, CallUnderWay
<1>4. said \in Nat /\ newest \in Nat /\ n \in Nat
  BY <1>1, <1>2, <1>3, ContextSeq
<1>5. ContextRight(context, said, archive \cap glimpsed, archive, torn, Len(context), newest)
  <2>1. OpenCall(phase, context) = Len(context)
    BY <1>1 DEF OpenCall
  <2> QED
    BY <1>1, <2>1 DEF ContextInv, ContextKept
<1>6. ContextRight(context', said', archive \cap glimpsed, archive, torn', 0, newest)
  <2>1. context[Len(context)].id <= said /\ context[Len(context)].id \in torn' /\ torn \subseteq torn'
    BY <1>1, <1>3, <1>4
  <2>2. ContextRight(context \o Results(context[Len(context)], n), said + n, archive \cap glimpsed, archive, torn', 0, newest)
    BY <1>4, <1>5, <2>1, ResultsAdded
  <2> QED
    BY <1>2, <1>3, <2>2
<1>7. ContextKept'
  <2>1. OpenCall(phase', context') = 0
    BY <1>1 DEF OpenCall
  <2> QED
    BY <1>1, <1>6, <2>1 DEF ContextKept
<1>8. ContextCounts'
  <2>1. archive \subseteq 0..said /\ glimpsed \subseteq 0..said /\ torn \subseteq 1..said
    BY DEF ContextInv, ContextCounts
  <2>2. archive' \subseteq 0..said /\ glimpsed' \subseteq 0..said /\ torn' \subseteq 1..said
    BY <1>1, <1>3, <2>1
  <2>3. 0..said \subseteq 0..said' /\ 1..said \subseteq 1..said' /\ said' \in Nat
    BY <1>2, <1>4
  <2>4. archive' \subseteq 0..said' /\ glimpsed' \subseteq 0..said' /\ torn' \subseteq 1..said'
    BY <2>2, <2>3
  <2> QED
    BY <1>1, <2>3, <2>4 DEF ContextInv, ContextCounts, Ended
<1> QED
  BY <1>1, <1>7, <1>8 DEF ContextInv

LEMMA FailTaskKeeps == ASSUME ContextInv, FailTask PROVE ContextInv'
<1>1. /\ phase \notin Ended /\ phase' = "failed"
      /\ torn' = IF phase = "asking" THEN torn ELSE torn \cup {Last(context).id}
      /\ UNCHANGED <<context, archive, turns, summarized, memory, newest, said, glimpsed, tasks>>
  BY DEF FailTask
<1>2. phase \in {"asking", "called", "executing"} /\ phase # "new"
  BY <1>1 DEF ContextInv, ContextCounts, Ended
<1>3. said \in Nat /\ Len(context) \in Nat
  BY <1>2, ContextSeq
<1>4. torn \subseteq torn' /\ torn' \subseteq 1..said /\ (phase # "asking" => context[Len(context)].id \in torn')
  <2>1. CASE phase = "asking"
    BY <1>1, <2>1 DEF ContextInv, ContextCounts
  <2>2. CASE phase # "asking"
    <3>1. Last(context) = context[Len(context)] /\ Last(context).id \in 1..said
      BY <1>2, <2>2, CallUnderWay
    <3> QED
      BY <1>1, <2>2, <3>1 DEF ContextInv, ContextCounts
  <2> QED
    BY <2>1, <2>2
<1>5. CallsDone(context, torn', 0)
  <2>1. CallsDone(context, torn, OpenCall(phase, context))
    BY <1>2 DEF ContextInv, ContextKept, ContextRight
  <2>2. ASSUME NEW i \in 1..Len(context), context[i].kind = "call", context[i].id \notin torn'
        PROVE  Complete(context, i)
    <3>1. i # OpenCall(phase, context)
      BY <1>2, <1>3, <1>4, <2>2 DEF OpenCall
    <3> QED
      BY <1>4, <2>1, <2>2, <3>1 DEF CallsDone
  <2> QED
    BY <2>2 DEF CallsDone
<1>6. ContextKept'
  <2>1. OpenCall(phase', context') = 0
    BY <1>1 DEF OpenCall
  <2>2. ContextRight(context, said, archive \cap glimpsed, archive, torn', 0, newest)
    BY <1>2, <1>5 DEF ContextInv, ContextKept, ContextRight
  <2> QED
    BY <1>1, <2>1, <2>2 DEF ContextKept
<1>7. ContextCounts'
  BY <1>1, <1>4 DEF ContextInv, ContextCounts, Ended
<1>8. phase' # "new" /\ phase' # "completed" /\ phase' \notin {"called", "executing"} /\ summarized' \in BOOLEAN
  BY <1>1 DEF ContextInv
<1> QED
  BY <1>6, <1>7, <1>8 DEF ContextInv

LEMMA ExhaustedKeeps == ASSUME ContextInv, Exhausted PROVE ContextInv'
<1>1. /\ phase = "asking" /\ phase' = "completed" /\ memory' = Carried(context)
      /\ UNCHANGED <<context, archive, turns, summarized, newest, said, glimpsed, torn, tasks>>
  BY DEF Exhausted, Persist
<1>2. ContextRight(context, said, archive \cap glimpsed, archive, torn, 0, newest)
  <2>1. OpenCall(phase, context) = 0
    BY <1>1 DEF OpenCall
  <2> QED
    BY <1>1, <2>1 DEF ContextInv, ContextKept
<1>3. newest \in Nat /\ memory \in 0..newest
  BY KeepsWhatIsUnshown DEF ContextInv, ContextCounts
<1>4. /\ Carried(context) \in 0..newest
      /\ Carried(context) = newest \/ \A i \in 1..Len(context) : context[i].carries # newest
  <2>1. Len(context) >= 1 /\ Typed(context, said) /\ Fresh(context, newest)
    BY <1>2 DEF ContextRight
  <2> QED
    BY <1>3, <2>1, CarriedIs
<1>5. ContextKept'
  <2>1. OpenCall(phase', context') = 0
    BY <1>1 DEF OpenCall
  <2> QED
    BY <1>1, <1>2, <2>1 DEF ContextKept
<1>6. ContextCounts'
  BY <1>1, <1>4 DEF ContextInv, ContextCounts, Ended
<1>7. phase' # "new" /\ phase' \notin {"called", "executing"} /\ summarized' \in BOOLEAN
  BY <1>1 DEF ContextInv
<1> QED
  BY <1>1, <1>4, <1>5, <1>6, <1>7 DEF ContextInv

LEMMA ContextStepInv == ContextInv /\ [ContextNext]_contextVars => ContextInv'
<1> SUFFICES ASSUME ContextInv, [ContextNext]_contextVars PROVE ContextInv'
  OBVIOUS
<1>1. CASE UNCHANGED contextVars
  BY <1>1 DEF contextVars, ContextInv, ContextCounts, ContextKept
<1>2. CASE ContextNext
  BY <1>2, StartTaskKeeps, AnswerTextKeeps, CallKeeps, SummarizeKeeps, NoSummaryKeeps, ExecuteCallsKeeps,
     InterruptedKeeps, FailTaskKeeps, ExhaustedKeeps DEF ContextNext
<1> QED
  BY <1>1, <1>2

LEMMA ContextInvKept == ContextInv /\ ToldInv => ContextTypeOK /\ NothingForgotten /\ MemoryKept
<1> SUFFICES ASSUME ContextInv, ToldInv PROVE ContextTypeOK /\ NothingForgotten /\ MemoryKept
  OBVIOUS
<1>1. CASE phase = "new"
  <2>1. context = <<>> /\ said = 0 /\ newest = 0
    BY <1>1 DEF ContextInv
  <2>2. Ids(context) = {} /\ ToSet(context) = {} /\ DOMAIN context = {}
    BY <2>1 DEF Ids, ToSet
  <2>3. ContextTypeOK
    <3>1. told \subseteq 0..said /\ memory \in 0..MaxVersions /\ newest \in 0..MaxVersions
      BY KeepsWhatIsUnshown DEF ContextInv, ContextCounts, ToldInv
    <3> QED
      BY <2>2, <3>1 DEF ContextInv, ContextCounts, ContextTypeOK
  <2>4. NothingForgotten
    BY <1>1, <2>1, <2>2 DEF NothingForgotten
  <2>5. MemoryKept
    BY <1>1 DEF MemoryKept
  <2> QED
    BY <2>3, <2>4, <2>5
<1>2. CASE phase # "new"
  <2>1. /\ context \in Seq(AnyMessage) /\ Len(context) \in Nat /\ said \in Nat /\ DOMAIN context = 1..Len(context)
    BY <1>2, ContextSeq
  <2>2. ContextRight(context, said, archive \cap glimpsed, archive, torn, OpenCall(phase, context), newest)
    BY <1>2 DEF ContextInv, ContextKept
  <2>3. ToSet(context) = {context[i] : i \in 1..Len(context)}
    BY <2>1 DEF ToSet
  <2>4. ContextTypeOK
    <3>1. ASSUME NEW i \in 1..Len(context)
          PROVE  /\ context[i].id \in 0..said /\ context[i].kind \in Kinds /\ context[i].of \in 0..said
                 /\ context[i].size \in 0..2 /\ context[i].carries \in 0..MaxVersions
      <4>1. context[i] \in AnyMessage /\ context[i].id <= said /\ context[i].of <= said
        BY <2>1, <2>2 DEF ContextRight, Typed
      <4> QED
        BY <2>1, <4>1 DEF AnyMessage
    <3>2. \A m \in ToSet(context) :
            /\ m.id \in 0..said /\ m.kind \in Kinds /\ m.of \in 0..said /\ m.size \in 0..2
            /\ m.carries \in 0..MaxVersions
      BY <2>3, <3>1
    <3>3. told \subseteq 0..said /\ memory \in 0..MaxVersions /\ newest \in 0..MaxVersions
      BY KeepsWhatIsUnshown DEF ContextInv, ContextCounts, ToldInv
    <3> QED
      BY <3>2, <3>3 DEF ContextInv, ContextCounts, ContextTypeOK
  <2>5. NothingForgotten
    <3>1. \A id \in 1..said : id \in Ids(context) \/ id \in archive \cap glimpsed
      <4>1. ASSUME NEW id \in 1..said, Holds(context, id) PROVE id \in Ids(context)
        BY <2>1, <4>1, HoldsIds
      <4> QED
        BY <2>2, <4>1 DEF ContextRight, Remembers
    <3>2. ASSUME phase = "asking", NEW i \in 1..Len(context)
          PROVE  /\ context[i].kind = "call" /\ context[i].id \notin torn =>
                      \A k \in 1..context[i].size : i + k \in 1..Len(context) /\ context[i + k].of = context[i].id
                 /\ context[i].kind = "result" =>
                      context[i].of \in archive \/ \E j \in 1..(i - 1) : context[j].id = context[i].of
      <4>1. OpenCall(phase, context) # i
        BY <3>2 DEF OpenCall
      <4>2. context[i].kind = "call" /\ context[i].id \notin torn => Complete(context, i)
        BY <2>2, <4>1 DEF ContextRight, CallsDone
      <4>3. context[i].kind = "result" => context[i].of \in archive \/ HasCall(context, i)
        BY <2>2 DEF ContextRight, ResultsOf
      <4> QED
        BY <4>2, <4>3 DEF Complete, HasCall
    <3>3. \A id \in 1..said : id \in Ids(context) \/ (id \in archive \cap glimpsed /\ (id \in told \/ id \in Long))
      BY <3>1 DEF ToldInv
    <3> QED
      BY <2>1, <3>2, <3>3 DEF NothingForgotten
  <2>6. MemoryKept
    BY <2>3 DEF MemoryKept, ContextInv
  <2> QED
    BY <2>4, <2>5, <2>6
<1> QED
  BY <1>1, <1>2

-----------------------------------------------------------------------------
(***************************************************************************)
(* All of them in one process: the service that goes on takes its own      *)
(* steps, and the others stay where they begin.                            *)
(***************************************************************************)
AgentsInv == DelegationInv /\ ServersInv /\ FilesInv /\ MailInv

LEMMA AgentsStepInv ==
  ASSUME NextServices
  PROVE  [DelegationNext]_delegationVars /\ [ServersNext]_serverVars /\ [FilesNext]_filesVars /\ [MailNext]_mailVars
<1>1. [DelegationNext]_delegationVars
  BY DEF NextServices, Others
<1>2. [ServersNext]_serverVars
  BY DEF NextServices, Others
<1>3. [FilesNext]_filesVars
  BY DEF NextServices, Others
<1>4. [MailNext]_mailVars
  BY DEF NextServices, Others
<1> QED
  BY <1>1, <1>2, <1>3, <1>4

(* Delegates are awaited at any depth, tools are served whatever is loaded   *)
(* and unloaded, the virtual files are one tree whichever directories have   *)
(* routes, and letters are kept, whichever of the services goes on.          *)
THEOREM AgentsTheorem == SpecServices => []AgentsAreServed
<1> DEFINE all == <<vars, rewardVars, limiterVars, a2aVars, knowledgeVars, indexVars, historyVars, delegationVars,
                    calendarVars, serverVars, contextVars, filesVars, vectorVars, faissVars, planVars, mailVars,
                    service>>
<1>1. InitServices => AgentsInv
  BY DelegationInitInv, ServersInitInv, FilesInitInv, MailInitInv DEF InitServices, AgentsInv
<1>2. AgentsInv /\ [NextServices]_all => AgentsInv'
  <2> SUFFICES ASSUME AgentsInv, [NextServices]_all
               PROVE  AgentsInv'
    OBVIOUS
  <2>1. CASE UNCHANGED all
    <3>1. UNCHANGED delegationVars /\ UNCHANGED serverVars /\ UNCHANGED filesVars /\ UNCHANGED mailVars
      BY <2>1
    <3> QED
      BY <3>1, DelegationStepInv, ServersStepInv, FilesStepInv, MailStepInv DEF AgentsInv
  <2>2. CASE NextServices
    BY <2>2, AgentsStepInv, DelegationStepInv, ServersStepInv, FilesStepInv, MailStepInv DEF AgentsInv
  <2> QED
    BY <2>1, <2>2
<1>3. AgentsInv => AgentsAreServed
  BY DelegationInvAwaited, ServersInvServed, FilesInvOneTree, MailInvKept DEF AgentsInv, AgentsAreServed
<1> QED
  BY <1>1, <1>2, <1>3, PTL DEF SpecServices

(* The rates, the messages and the histories are right in the process as     *)
(* they are by themselves: it implements the specification of each.          *)
THEOREM ServicesTheorem == SpecServices => []RateBound /\ []AnswersHaveQuestions /\ UnreadLast
<1> DEFINE all == <<vars, rewardVars, limiterVars, a2aVars, knowledgeVars, indexVars, historyVars, delegationVars,
                    calendarVars, serverVars, contextVars, filesVars, vectorVars, faissVars, planVars, mailVars,
                    service>>
<1>1. InitServices => LimiterInit /\ A2AInit /\ HistoryInit
  BY DEF InitServices
<1>2. [NextServices]_all => [LimiterNext]_limiterVars
  BY DEF NextServices, Others
<1>3. [NextServices]_all => [A2ANext]_a2aVars
  BY DEF NextServices, Others
<1>4. [NextServices]_all => [HistoryNext]_historyVars
  BY DEF NextServices, Others
<1>5. SpecServices => LimiterSpec /\ A2ASpec /\ HistorySpec
  BY <1>1, <1>2, <1>3, <1>4, PTL DEF SpecServices, LimiterSpec, A2ASpec, HistorySpec
<1> QED
  BY <1>5, RateTheorem, AnswersTheorem, UnreadTheorem

(* The rewards log implements the durable map, whichever of the services     *)
(* goes on: reads return the last scores written, a write that returns is    *)
(* stored, and an append that was cut off costs at most the line that it cut *)
(* and the one after it.                                                     *)
THEOREM RewardsTheorem == SpecServices => RewardsDurable
<1> DEFINE all == <<vars, rewardVars, limiterVars, a2aVars, knowledgeVars, indexVars, historyVars, delegationVars,
                    calendarVars, serverVars, contextVars, filesVars, vectorVars, faissVars, planVars, mailVars,
                    service>>
<1>1. InitServices => RewardsInv /\ Rewards!Durable!Init
  BY RewardsInitInv DEF InitServices
<1>2. [NextServices]_all => [Rewards!Next]_rewardVars
  BY DEF NextServices, Others
<1>3. RewardsInv /\ [NextServices]_all => RewardsInv' /\ [Rewards!Durable!Next]_(Rewards!Durable!vars)
  BY <1>2, RewardsStep
<1>4. SpecServices => Rewards!Durable!Spec
  BY <1>1, <1>3, PTL DEF SpecServices, Rewards!Durable!Spec
<1> QED
  BY <1>4 DEF RewardsDurable, Rewards!ImplementsDurableMap

(* Every service keeps its own invariant, whichever of them goes on.         *)
Everything == <<vars, rewardVars, limiterVars, a2aVars, knowledgeVars, indexVars, historyVars, delegationVars,
                calendarVars, serverVars, contextVars, filesVars, vectorVars, faissVars, planVars, mailVars,
                service>>

EachInv ==
  /\ IInv /\ RewardsTypes /\ LimiterTypes /\ A2AInv
  /\ KnowledgeInv /\ IndexInv /\ HistoryTypes /\ DelegationInv
  /\ CalendarInv /\ ServersTyping /\ ContextInv /\ ToldInv /\ FilesInv
  /\ VectorInv /\ FaissInv /\ PlansInv /\ MailTypes

LEMMA EachInitInv == InitServices => EachInv
<1> SUFFICES ASSUME InitServices PROVE EachInv
  OBVIOUS
<1>1. /\ Init /\ Rewards!Init /\ LimiterInit /\ A2AInit /\ KnowledgeInit /\ IndexInit /\ HistoryInit
      /\ DelegationInit /\ CalendarInit /\ ServersInit /\ ContextInit /\ FilesInit /\ VectorInit /\ FaissInit
      /\ PlansInit /\ MailInit
  BY DEF InitServices
<1>2. IInv /\ RewardsTypes /\ LimiterTypes /\ A2AInv
  BY <1>1, InitInv, RewardsTyped, LimiterTyped, A2AInitInv
<1>3. KnowledgeInv /\ IndexInv /\ HistoryTypes /\ DelegationInv
  BY <1>1, KnowledgeInitInv, IndexInitInv, HistoryTyped, DelegationInitInv
<1>4. CalendarInv /\ ServersTyping /\ ContextInv /\ ToldInv /\ FilesInv
  BY <1>1, CalendarInitInv, ServersTyped, ContextInitInv, ToldInitInv, FilesInitInv
<1>5. VectorInv /\ FaissInv /\ PlansInv /\ MailTypes
  BY <1>1, VectorInitInv, FaissInitInv, PlansInitInv, MailTyped
<1> QED
  BY <1>2, <1>3, <1>4, <1>5 DEF EachInv

LEMMA EachStep ==
  ASSUME [NextServices]_Everything
  PROVE  /\ [Next]_vars /\ [Rewards!Next]_rewardVars /\ [LimiterNext]_limiterVars /\ [A2ANext]_a2aVars
         /\ [KnowledgeNext]_knowledgeVars /\ [IndexNext]_indexVars
         /\ [HistoryNext]_historyVars /\ [DelegationNext]_delegationVars
         /\ [CalendarNext]_calendarVars /\ [ServersNext]_serverVars
         /\ [ContextNext]_contextVars /\ [FilesNext]_filesVars
         /\ [VectorNext]_vectorVars /\ [FaissNext]_faissVars /\ [PlansNext]_planVars /\ [MailNext]_mailVars
<1>1. [Next]_vars
  BY DEF Everything, NextServices, Others
<1>2. [Rewards!Next]_rewardVars
  BY DEF Everything, NextServices, Others
<1>3. [LimiterNext]_limiterVars
  BY DEF Everything, NextServices, Others
<1>4. [A2ANext]_a2aVars
  BY DEF Everything, NextServices, Others
<1>5. [KnowledgeNext]_knowledgeVars
  BY DEF Everything, NextServices, Others
<1>6. [IndexNext]_indexVars
  BY DEF Everything, NextServices, Others
<1>7. [HistoryNext]_historyVars
  BY DEF Everything, NextServices, Others
<1>8. [DelegationNext]_delegationVars
  BY DEF Everything, NextServices, Others
<1>9. [CalendarNext]_calendarVars
  BY DEF Everything, NextServices, Others
<1>10. [ServersNext]_serverVars
  BY DEF Everything, NextServices, Others
<1>11. [ContextNext]_contextVars
  BY DEF Everything, NextServices, Others
<1>12. [FilesNext]_filesVars
  BY DEF Everything, NextServices, Others
<1>13. [VectorNext]_vectorVars
  BY DEF Everything, NextServices, Others
<1>14. [FaissNext]_faissVars
  BY DEF Everything, NextServices, Others
<1>15. [PlansNext]_planVars
  BY DEF Everything, NextServices, Others
<1>16. [MailNext]_mailVars
  BY DEF Everything, NextServices, Others
<1> QED
  BY <1>1, <1>2, <1>3, <1>4, <1>5, <1>6, <1>7, <1>8, <1>9, <1>10, <1>11, <1>12, <1>13, <1>14, <1>15, <1>16

LEMMA EachStepInv == EachInv /\ [NextServices]_Everything => EachInv'
<1> SUFFICES ASSUME EachInv, [NextServices]_Everything PROVE EachInv'
  OBVIOUS
<1>1. (IInv /\ RewardsTypes /\ LimiterTypes /\ A2AInv)'
  <2>1. IInv /\ RewardsTypes /\ LimiterTypes /\ A2AInv
    BY DEF EachInv
  <2> QED
    BY <2>1, EachStep, StepInv, RewardsTyped, LimiterTyped, A2AStep
<1>2. (KnowledgeInv /\ IndexInv /\ HistoryTypes /\ DelegationInv)'
  <2>1. KnowledgeInv /\ IndexInv /\ HistoryTypes /\ DelegationInv
    BY DEF EachInv
  <2> QED
    BY <2>1, EachStep, KnowledgeStepInv, IndexStepInv, HistoryTyped, DelegationStepInv
<1>3. (CalendarInv /\ ServersTyping /\ ContextInv /\ ToldInv /\ FilesInv)'
  <2>1. CalendarInv /\ ServersTyping /\ ContextInv /\ ToldInv /\ FilesInv
    BY DEF EachInv
  <2> QED
    BY <2>1, EachStep, CalendarStepInv, ServersTyped, ContextStepInv, ToldStepInv, FilesStepInv
<1>4. (VectorInv /\ FaissInv /\ PlansInv /\ MailTypes)'
  <2>1. VectorInv /\ FaissInv /\ PlansInv /\ MailTypes
    BY DEF EachInv
  <2> QED
    BY <2>1, EachStep, VectorStepInv, FaissStepInv, PlansStepInv, MailTyped
<1> QED
  BY <1>1, <1>2, <1>3, <1>4 DEF EachInv

(* No step of the services leaves the types of their variables: the queues,  *)
(* the counters and the tables stay within their bounds, for any number of   *)
(* processes, clients, agents, uploads, chats, servers and files.            *)
THEOREM ServicesTypeCorrect == SpecServices => []ServicesTypeOK
<1>1. EachInv => ServicesTypeOK
  <2> SUFFICES ASSUME EachInv PROVE ServicesTypeOK
    OBVIOUS
  <2>1. TypeOK /\ Rewards!TypeOK /\ LimiterTypeOK /\ A2ATypeOK
    BY RewardsTyped, LimiterTyped DEF EachInv, IInv, A2AInv
  <2>2. KnowledgeTypeOK /\ IndexTypeOK /\ HistoryTypeOK /\ DelegationTypeOK
    BY HistoryTyped DEF EachInv, KnowledgeInv, IndexInv, DelegationInv
  <2>3. CalendarTypeOK /\ ServersTypeOK /\ ContextTypeOK /\ FilesTypeOK
    BY ServersTyped, ContextInvKept DEF EachInv, CalendarInv, FilesInv
  <2>4. VectorTypeOK /\ FaissTypeOK /\ PlansTypeOK /\ MailTypeOK
    BY PlansInvKept, MailTyped DEF EachInv, VectorInv, FaissInv
  <2> QED
    BY <2>1, <2>2, <2>3, <2>4 DEF ServicesTypeOK
<1> QED
  BY <1>1, EachInitInv, EachStepInv, PTL DEF SpecServices, Everything

(* What an agent is told is right, whichever of the services goes on: after  *)
(* any runs, summaries, stops and failures its context and its memory forget *)
(* nothing; its plans are shown as they were written; and free_slots offers  *)
(* what is free, whatever was created, moved, deleted or read back.          *)
THEOREM InformedTheorem == SpecServices => []AgentsAreInformed
<1>1. EachInv => AgentsAreInformed
  BY ContextInvKept, PlansInvKept, CalendarInvFree DEF EachInv, AgentsAreInformed
<1> QED
  BY <1>1, EachInitInv, EachStepInv, PTL DEF SpecServices, Everything
=============================================================================
