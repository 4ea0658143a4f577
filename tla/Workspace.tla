------------------------------ MODULE Workspace ------------------------------
(***************************************************************************)
(* veda_engine/tools/workspace.py: reading a directory that others change  *)
(* meanwhile.  A search walks the tree level by level and then reads the   *)
(* files it found, one after the other, until it has enough matches; a     *)
(* batch reads its files a few at a time and cuts what does not fit.  And  *)
(* vajra_gate/services/filesystem.py, which shows the tree in the browser. *)
(*                                                                         *)
(* A directory or file is its path, a sequence of names.  Sizes are        *)
(* counted in units, and a file's size is also what it matches.            *)
(***************************************************************************)
EXTENDS Naturals, Sequences, FiniteSets
LOCAL INSTANCE SequencesExt

CONSTANTS
  Directories, Files,  \* paths; what may be below the root
  Noise,               \* _NOISE_DIRS: names
  Globbed,             \* files that match grep's glob
  MaxDepth,            \* _MAX_DEPTH
  MaxMatches,          \* lines grep returns: 200
  Asked,               \* paths of a batch, in order
  MaxFiles,            \* _MAX_BATCH_FILES
  MaxFileSize,         \* _MAX_FILE_BYTES
  MaxBatchSize,        \* _MAX_BATCH_BYTES
  Slots,               \* the semaphore: 4
  MaxSize,             \* bound: size of a file
  MaxChanges,          \* bound: changes by others
  TreeDepth,           \* build_tree's max_depth: 10
  LinkPath             \* where there may be a link to a directory

ASSUME WorkspaceAssumption ==
  /\ MaxDepth \in Nat \ {0} /\ MaxMatches \in Nat \ {0} /\ MaxSize \in Nat /\ MaxChanges \in Nat
  /\ MaxFiles \in Nat /\ MaxFileSize \in Nat /\ MaxBatchSize \in Nat /\ Slots \in Nat \ {0}
  /\ \A f \in Files : Len(f) > 1 => Front(f) \in Directories
  /\ ToSet(Asked) \subseteq Files

VARIABLES
  size,      \* of each file; 0 for one that is not there
  changes,
  unvisited, \* directories os.walk will go to
  found,     \* out: the files of the walk
  candidates, matches,  \* of grep: files still to read, and (file, line) so far
  searching, \* "walk", "grep" or "over"
  stage,     \* of each file of the batch
  noted,     \* the size its stat() saw
  taken,     \* what was read of it: at most its size
  sent      \* blocks of the batch: <<file, units>>, or <<>> for the last line
             \* that says the rest was cut

spaceVars ==
  <<size, changes, unvisited, found, candidates, matches, searching, stage, noted, taken, sent>>

Batch  == DOMAIN SubSeq(Asked, 1, IF Len(Asked) < MaxFiles THEN Len(Asked) ELSE MaxFiles)
NoReply == <<"none">>

WorkspaceTypeOK ==
  /\ size \in [Files -> 0..MaxSize] /\ changes \in 0..MaxChanges
  /\ unvisited \subseteq Directories \cup {<<>>} /\ found \subseteq Files
  /\ candidates \subseteq Files /\ matches \in Seq(Files \X (1..MaxSize))
  /\ searching \in {"walk", "grep", "over"}
  /\ stage \in [Batch -> {"queued", "stat", "ok", "missing"}]
  /\ noted \in [Batch -> 0..MaxSize] /\ taken \in [Batch -> 0..MaxSize]

WorkspaceInit ==
  /\ size \in [Files -> 0..MaxSize] /\ changes = 0
  /\ unvisited = {<<>>} /\ found = {} /\ candidates = {} /\ matches = <<>> /\ searching = "walk"
  /\ stage = [i \in Batch |-> "queued"] /\ noted = [i \in Batch |-> 0]
  /\ taken = [i \in Batch |-> 0] /\ sent = NoReply

-----------------------------------------------------------------------------
(* Others write, truncate and delete files.                                  *)
Change(f) ==
  /\ changes < MaxChanges /\ changes' = changes + 1
  /\ \E n \in 0..MaxSize \ {size[f]} : size' = [size EXCEPT ![f] = n]
  /\ UNCHANGED <<unvisited, found, candidates, matches, searching, stage, noted, taken, sent>>

Within(d) == {x \in Directories : Len(x) = Len(d) + 1 /\ IsPrefix(d, x)}

WalkDeeper(d) ==  \* mutant
  /\ searching = "walk" /\ d \in unvisited
  /\ unvisited' = (unvisited \ {d}) \cup
       IF Len(d) >= MaxDepth THEN {} ELSE {x \in Within(d) : Last(x) \notin Noise}
  /\ found' = found \cup {f \in Files : size[f] > 0 /\ Len(f) = Len(d) + 1 /\ IsPrefix(d, f)}
  /\ UNCHANGED <<size, changes, candidates, matches, searching, stage, noted, taken, sent>>

(* _walk_files: one directory of os.walk.  At the last level it goes no      *)
(* deeper, and nowhere into a directory of noise.                            *)
Walk(d) ==
  /\ searching = "walk" /\ d \in unvisited
  /\ unvisited' = (unvisited \ {d}) \cup
       IF Len(d) >= MaxDepth - 1 THEN {} ELSE {x \in Within(d) : Last(x) \notin Noise}
  /\ found' = found \cup {f \in Files : size[f] > 0 /\ Len(f) = Len(d) + 1 /\ IsPrefix(d, f)}
  /\ UNCHANGED <<size, changes, candidates, matches, searching, stage, noted, taken, sent>>

(* The walk is over; those that match the glob are read.                     *)
BeginGrep ==
  /\ searching = "walk" /\ unvisited = {} /\ searching' = "grep"
  /\ candidates' = found \cap Globbed
  /\ UNCHANGED <<size, changes, unvisited, found, matches, stage, noted, taken, sent>>

(* A file is read as it is then: every line counts until there are enough.   *)
(* One that is gone is passed over.                                          *)
GrepFile(f) ==
  /\ searching = "grep" /\ f \in candidates /\ candidates' = candidates \ {f}
  /\ LET room  == MaxMatches - Len(matches)
         lines == [i \in 1 .. IF size[f] < room THEN size[f] ELSE room |-> <<f, i>>]
     IN /\ matches' = matches \o lines
        /\ searching' = IF Len(matches') = MaxMatches THEN "over" ELSE searching
  /\ UNCHANGED <<size, changes, unvisited, found, stage, noted, taken, sent>>

EndGrep ==
  /\ searching = "grep" /\ candidates = {} /\ searching' = "over"
  /\ UNCHANGED <<size, changes, unvisited, found, candidates, matches, stage, noted, taken, sent>>

-----------------------------------------------------------------------------
(* read_one: in its slot, stat and then read.                                *)
Stat(i) ==
  /\ stage[i] = "queued"
  /\ Cardinality({j \in Batch : stage[j] = "stat"}) < Slots
  /\ stage' = [stage EXCEPT ![i] = IF size[Asked[i]] = 0 THEN "missing" ELSE "stat"]
  /\ noted' = [noted EXCEPT ![i] = size[Asked[i]]]
  /\ UNCHANGED <<size, changes, unvisited, found, candidates, matches, searching, taken, sent>>

(* A file that was too large is read up to the limit, another one whole,     *)
(* however large it has become.                                              *)
ReadFile(i) ==
  /\ stage[i] = "stat"
  /\ LET now == size[Asked[i]] IN
       /\ stage' = [stage EXCEPT ![i] = IF now = 0 THEN "missing" ELSE "ok"]
       /\ taken' = [taken EXCEPT ![i] =
            IF noted[i] > MaxFileSize /\ now > MaxFileSize THEN MaxFileSize ELSE now]
  /\ UNCHANGED <<size, changes, unvisited, found, candidates, matches, searching, noted, sent>>

(* The assembly of the blocks, in the order of the paths; an error takes no  *)
(* room.                                                                     *)
Units(blocks) == FoldLeft(LAMBDA n, b : n + (IF b = <<>> THEN 0 ELSE b[2]), 0, blocks)
IsCut(blocks) == blocks # <<>> /\ Last(blocks) = <<>>

PastTheCut(blocks, i) ==  \* mutant
  IF Units(blocks) + taken[i] > MaxBatchSize THEN Append(blocks, <<>>)
  ELSE Append(blocks, <<i, taken[i]>>)

AddBlock(blocks, i) ==
  IF IsCut(blocks) THEN blocks
  ELSE IF Units(blocks) + taken[i] > MaxBatchSize THEN Append(blocks, <<>>)
  ELSE Append(blocks, <<i, taken[i]>>)

Assemble ==
  /\ sent = NoReply /\ \A i \in Batch : stage[i] \in {"ok", "missing"}
  /\ sent' = FoldLeft(AddBlock, <<>>, SetToSortSeq(Batch, <))
  /\ UNCHANGED <<size, changes, unvisited, found, candidates, matches, searching, stage, noted, taken>>

WorkspaceNext ==
  \/ \E f \in Files : Change(f) \/ GrepFile(f)
  \/ \E d \in Directories \cup {<<>>} : Walk(d)
  \/ BeginGrep \/ EndGrep \/ Assemble
  \/ \E i \in Batch : Stat(i) \/ ReadFile(i)

-----------------------------------------------------------------------------
InSight(f) == Len(f) <= MaxDepth /\ \A i \in 1 .. Len(f) - 1 : f[i] \notin Noise

(* The walk reaches the files up to MaxDepth levels deep that are in no      *)
(* directory of noise, and only those: "up to max_depth levels deep"         *)
(* (workspace.py:47).                                                        *)
WalkIsWhole ==
  /\ \A f \in found : InSight(f)
  /\ searching # "walk" /\ changes = 0 => \A f \in Files : InSight(f) /\ size[f] > 0 => f \in found

(* A search finds no line twice, and stops before it has every line only if  *)
(* it has enough of them.                                                    *)
SearchIsWhole ==
  /\ IsInjective(matches) /\ Len(matches) <= MaxMatches
  /\ searching = "over" /\ changes = 0 /\ Len(matches) < MaxMatches =>
       ToSet(matches) = UNION {{<<f, k>> : k \in 1 .. size[f]} : f \in {g \in Globbed : InSight(g)}}

(* A batch's answer has a block for each of the first files asked for, in    *)
(* their order, up to the first that does not fit, and no more than its      *)
(* limit; a file is larger in it than a file may be only if it grew after    *)
(* its size was looked at.                                                   *)
BatchIsWhole ==
  sent # NoReply =>
    /\ Units(sent) <= MaxBatchSize
    /\ \A k \in DOMAIN sent : sent[k] # <<>> => sent[k][1] = k
    /\ ~IsCut(sent) => Len(sent) = Cardinality(Batch)
    /\ IsCut(sent) =>
         /\ \A k \in 1 .. Len(sent) - 1 : sent[k] # <<>>
         /\ Units(sent) + taken[Len(sent)] > MaxBatchSize
    /\ \A i \in Batch : taken[i] > MaxFileSize => noted[i] <= MaxFileSize

-----------------------------------------------------------------------------
(* build_tree: an entry at a time, directories first, in an order that the   *)
(* names decide.                                                             *)
VARIABLES
  link,     \* where the link leads, or the path itself if there is none
  ahead,    \* entries still to come of each directory the walk is in
  entered,  \* real directories whose entries were listed
  tree,     \* paths in the answer
  browsing  \* "walking", "over" or "failed"

treeVars == <<link, ahead, entered, tree, browsing>>

(* realpath, name by name.                                                   *)
Real(p) ==
  LET Step(at, name) == IF Append(at, name) = LinkPath THEN link ELSE Append(at, name)
  IN FoldLeft(Step, <<>>, p)

IsDirectory(p) == Real(p) \in Directories \cup {<<>>}

TreeTypeOK ==
  /\ link \in Directories \cup {<<>>, LinkPath} /\ entered \subseteq Directories \cup {<<>>}
  /\ \A p \in tree : IsDirectory(p) \/ Real(p) \in Files
  /\ browsing \in {"walking", "over", "failed"}

TreeInit ==
  /\ link \in Directories \cup {<<>>, LinkPath}
  /\ ahead = <<{<<>>}>> /\ entered = {} /\ tree = {} /\ browsing = "walking"

(* listdir                                                                   *)
Entries(p) ==
  LET there == {x \in Directories \cup {f \in Files : size[f] > 0} \cup (IF link = LinkPath THEN {} ELSE {LinkPath}) :
                  Len(x) = Len(Real(p)) + 1 /\ IsPrefix(Real(p), x)}
  IN {Append(p, Last(x)) : x \in there}

Ignored(p) == p # <<>> /\ Last(p) \in Noise

SeenAsPath(p) == p \in entered  \* mutant

Seen(p) == Real(p) \in entered

(* The next entry: an ignored one is passed over, a file that is gone since  *)
(* its directory was listed fails the request, and a directory is entered if *)
(* it is not too deep and was not entered before, by its name or by a link.  *)
Show(p) ==
  /\ browsing = "walking" /\ ahead # <<>>
  /\ p \in Head(ahead)
  /\ IsDirectory(p) \/ \A q \in Head(ahead) : ~IsDirectory(q)
  /\ LET left == <<Head(ahead) \ {p}>> \o Tail(ahead) IN
     IF Ignored(p) THEN ahead' = left /\ UNCHANGED <<entered, tree, browsing>>
     ELSE IF ~IsDirectory(p)
       THEN /\ ahead' = left /\ UNCHANGED entered
            /\ IF size[Real(p)] = 0 THEN browsing' = "failed" /\ UNCHANGED tree
               ELSE tree' = tree \cup {p} /\ UNCHANGED browsing
     ELSE /\ tree' = tree \cup {p} /\ UNCHANGED browsing
          /\ IF Len(p) >= TreeDepth \/ Seen(p) THEN ahead' = left /\ UNCHANGED entered
             ELSE ahead' = <<Entries(p)>> \o left /\ entered' = entered \cup {Real(p)}
  /\ UNCHANGED link

LeaveDirectory ==
  /\ browsing = "walking" /\ ahead # <<>> /\ Head(ahead) = {}
  /\ ahead' = Tail(ahead) /\ browsing' = IF Len(ahead) = 1 THEN "over" ELSE "walking"
  /\ UNCHANGED <<link, entered, tree>>

TreeNext ==
  \/ \E f \in Files : Change(f) /\ UNCHANGED treeVars
  \/ UNCHANGED spaceVars /\ (LeaveDirectory \/ \E p \in UNION ToSet(ahead) : Show(p))

InTheTree(f) == Len(f) <= TreeDepth /\ \A i \in 1 .. Len(f) : f[i] \notin Noise

(* The tree has each file at most once, although links lead in circles or    *)
(* twice to a directory; without a link, or with one that leads back up, it  *)
(* has every file down to max_depth that is not ignored; and only a file     *)
(* that others took away meanwhile fails the request.  (A link down to a     *)
(* directory may be met before it, which is then shown empty: if the link is *)
(* deeper, files beyond max_depth below it are in no place of the tree.)     *)
TreeIsWhole ==
  /\ \A p, q \in tree : Real(p) = Real(q) /\ ~IsDirectory(p) => p = q
  /\ \A p \in tree : Len(p) <= TreeDepth
  /\ browsing = "over" /\ changes = 0 /\ (link = LinkPath \/ IsPrefix(link, LinkPath)) =>
       {p \in tree : ~IsDirectory(p)} = {f \in Files : size[f] > 0 /\ InTheTree(f)}
  /\ browsing = "failed" => changes > 0

ReadingIsRight == WalkIsWhole /\ SearchIsWhole /\ BatchIsWhole /\ TreeIsWhole
=============================================================================
