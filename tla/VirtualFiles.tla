---------------------------- MODULE VirtualFiles ----------------------------
(* The files an agent sees: kept in memory, except under the directories     *)
(* that a route maps to the disk, and guarded by the agent's permissions.    *)
EXTENDS Naturals, FiniteSetsExt

CONSTANTS
  Directories,    \* virtual directories, which may be routed
  ReadOnly,       \* those the permissions deny writing in
  Names,          \* names of files in a directory
  Contents, NoFile

ASSUME SomeAreReadOnly == ReadOnly \subseteq Directories /\ NoFile \notin Contents

Path == Directories \X Names
Tree == [Path -> Contents \cup {NoFile}]
In(d) == {d} \X Names

VARIABLES
  files,          \* backend._files
  disk,           \* the real files behind each directory
  made,           \* real directories that exist
  routed,         \* directories with a route
  expected,       \* history: what the answers to the agent's calls let it expect
  strayed         \* history: paths that were in memory while their directory had a route

filesVars == <<files, disk, made, routed, expected, strayed>>

FilesInit ==
  /\ files = [p \in Path |-> NoFile] /\ expected = files
  /\ disk \in Tree /\ made = Directories
  /\ routed = {} /\ strayed = {}

(* The first rule for the operation and the path decides; none denies.       *)
Rules ==
  <<[ops |-> {"write"}, dirs |-> ReadOnly, mode |-> "deny"],
    [ops |-> {"read", "write"}, dirs |-> Directories, mode |-> "allow"]>>

Permits(op, d) ==
  LET matching == {i \in DOMAIN Rules : op \in Rules[i].ops /\ d \in Rules[i].dirs}
  IN matching # {} /\ Rules[Min(matching)].mode = "allow"

OnDisk(p) == p[1] \in routed /\ disk[p] # NoFile
Read(p)   == IF OnDisk(p) THEN disk[p] ELSE files[p]

Stray(paths) ==
  strayed' = strayed \cup paths \cup {p \in Path : p[1] \in routed' /\ files'[p] # NoFile}

(* A directory that has files already may get a route at any time.           *)
AddRoute(d) ==
  /\ routed'   = routed \cup {d}
  /\ made'     = made \cup {d}
  /\ expected' = [p \in Path |-> IF p \in In(d) /\ disk[p] # NoFile THEN disk[p] ELSE expected[p]]
  /\ UNCHANGED <<files, disk>> /\ Stray({})

WriteFile(p, c) ==
  /\ Permits("write", p[1])
  /\ IF p[1] \in routed
       THEN disk' = [disk EXCEPT ![p] = c] /\ made' = made \cup {p[1]} /\ UNCHANGED files
       ELSE files' = [files EXCEPT ![p] = c] /\ UNCHANGED <<disk, made>>
  /\ expected' = [expected EXCEPT ![p] = c]
  /\ UNCHANGED routed /\ Stray({})

(* The empty string is found in every file, and in one that does not exist.  *)
EditFile(p, c) ==
  /\ Permits("write", p[1])
  /\ IF OnDisk(p)
       THEN disk' = [disk EXCEPT ![p] = c] /\ UNCHANGED files
       ELSE files' = [files EXCEPT ![p] = c] /\ UNCHANGED disk
  /\ expected' = [expected EXCEPT ![p] = c]
  /\ UNCHANGED <<made, routed>> /\ Stray({})

DeleteFileInMemory(p) ==  \* mutant
  /\ Permits("write", p[1]) /\ Read(p) # NoFile
  /\ files'    = [files EXCEPT ![p] = NoFile]
  /\ expected' = [expected EXCEPT ![p] = NoFile]
  /\ UNCHANGED <<disk, made, routed>> /\ Stray({})

DeleteFile(p) ==
  /\ Permits("write", p[1]) /\ Read(p) # NoFile
  /\ IF OnDisk(p)
       THEN disk' = [disk EXCEPT ![p] = NoFile] /\ UNCHANGED files
       ELSE files' = [files EXCEPT ![p] = NoFile] /\ UNCHANGED disk
  /\ expected' = [expected EXCEPT ![p] = NoFile]
  /\ UNCHANGED <<made, routed>> /\ Stray({})

Emptied(tree, d) == [p \in Path |-> IF p \in In(d) THEN NoFile ELSE tree[p]]

DeleteDirectory(d) ==
  /\ Permits("write", d)
  /\ IF d \in routed \cap made
       THEN disk' = Emptied(disk, d) /\ made' = made \ {d} /\ UNCHANGED files
       ELSE files' = Emptied(files, d) /\ UNCHANGED <<disk, made>>
  /\ expected' = Emptied(expected, d)
  /\ UNCHANGED routed /\ Stray({})

(* In memory first, then on the disk; never from the disk into memory.       *)
MoveFile(p, q) ==
  /\ Permits("write", p[1]) /\ Permits("write", q[1])
  /\ \/ /\ files[p] # NoFile
        /\ files' = [[files EXCEPT ![p] = NoFile] EXCEPT ![q] = files[p]]
        /\ UNCHANGED disk
     \/ /\ files[p] = NoFile /\ OnDisk(p) /\ q[1] \in routed \cap made
        /\ disk' = [[disk EXCEPT ![p] = NoFile] EXCEPT ![q] = disk[p]]
        /\ UNCHANGED files
  /\ expected' = [[expected EXCEPT ![p] = NoFile] EXCEPT ![q] = expected[p]]
  /\ UNCHANGED <<made, routed>> /\ Stray(IF p \in strayed THEN {q} ELSE {})

CopyFile(p, q) ==
  /\ Permits("write", p[1]) /\ Permits("write", q[1])
  /\ \/ /\ files[p] # NoFile \/ (OnDisk(p) /\ q[1] \notin routed)
        /\ files' = [files EXCEPT ![q] = IF files[p] # NoFile THEN files[p] ELSE disk[p]]
        /\ UNCHANGED <<disk, made>>
     \/ /\ files[p] = NoFile /\ OnDisk(p) /\ q[1] \in routed
        /\ disk' = [disk EXCEPT ![q] = disk[p]] /\ made' = made \cup {q[1]}
        /\ UNCHANGED files
  /\ expected' = [expected EXCEPT ![q] = expected[p]]
  /\ UNCHANGED routed /\ Stray(IF p \in strayed THEN {q} ELSE {})

CreateDirectory(d) ==
  /\ Permits("write", d) /\ d \in routed
  /\ made' = made \cup {d}
  /\ UNCHANGED <<files, disk, routed, expected, strayed>>

-----------------------------------------------------------------------------
(* list_directory: the real directory first, then what is in memory under a  *)
(* name that is not listed yet.  An entry has the name and what its size is  *)
(* taken from.                                                               *)
Real(d) == IF d \in routed \cap made THEN {<<p[2], disk[p]>> : p \in {q \in In(d) : disk[q] # NoFile}} ELSE {}
InMemory(d) == {<<p[2], files[p]>> : p \in {q \in In(d) : files[q] # NoFile}}

ListedTwice(d) == Real(d) \cup InMemory(d)  \* mutant

ListDirectory(d) ==
  Real(d) \cup {e \in InMemory(d) : \A r \in Real(d) : r[1] # e[1]}

(* get_file_info: the same choice as a read's.                               *)
Info(p) == IF OnDisk(p) THEN disk[p] ELSE files[p]

(* search_files.  Of a pattern it matters which paths it fits as a glob, and *)
(* which paths and which names it is a piece of.  In memory the whole path   *)
(* decides; under the root's route only the name, and no glob; and a search  *)
(* without a root looks at no route.                                         *)
Patterns ==
  {m \in [glob : SUBSET Path, inPath : SUBSET Path, inName : SUBSET Names] : Directories \X m.inName \subseteq m.inPath}

SearchAll(m) == {p \in m.glob \cup m.inPath : files[p] # NoFile}

SearchMemory(d, m) == SearchAll(m) \cap In(d)  \* mutant

SearchFiles(d, m) ==
  (SearchAll(m) \cap In(d)) \cup {p \in In(d) : d \in routed \cap made /\ disk[p] # NoFile /\ p[2] \in m.inName}

-----------------------------------------------------------------------------
FilesNext ==
  \/ \E d \in Directories : AddRoute(d) \/ DeleteDirectory(d) \/ CreateDirectory(d)
  \/ \E p \in Path : \/ DeleteFile(p)
                     \/ \E c \in Contents : WriteFile(p, c) \/ EditFile(p, c)
                     \/ \E q \in Path : MoveFile(p, q) \/ CopyFile(p, q)

FilesTypeOK ==
  /\ files \in Tree /\ disk \in Tree /\ expected \in Tree
  /\ made \subseteq Directories /\ routed \subseteq Directories /\ strayed \subseteq Path

(* The two stores look like one: reading a path gives what the agent's last  *)
(* successful call put there, in memory or on the disk, wherever it was      *)
(* moved or copied from and whenever its directory got its route; and what   *)
(* is in a directory that the permissions protect stays as it is.  Exempt    *)
(* are paths that were once in memory under a route, where the code keeps    *)
(* two copies and deleting one shows the other, and what was copied from     *)
(* them.  A listing shows each file of a directory once, even one with two   *)
(* copies, and as a read and an info of it do.                               *)
(*                                                                           *)
(* A search does not see one tree: it never finds what is not there, and     *)
(* under a root a piece of a name finds each file that has it; but a glob,   *)
(* or a piece of the directory's path, finds what is in memory only, and so  *)
(* does any search without a root.                                           *)
There(d) == {p \in In(d) : Read(p) # NoFile}
PieceOfName(m) == m.glob = {} /\ m.inPath = Directories \X m.inName

SearchesAreRight ==
  \A m \in Patterns :
    /\ \A d \in Directories :
         /\ SearchFiles(d, m) \subseteq There(d)
         /\ PieceOfName(m) => SearchFiles(d, m) = {p \in There(d) : p[2] \in m.inName}
    /\ \A p \in SearchAll(m) : Read(p) # NoFile /\ (p[1] \in routed => p \in strayed)
    /\ \A p \in m.glob \cup m.inPath : Read(p) # NoFile /\ p[1] \notin routed => p \in SearchAll(m)

OneTree ==
  /\ \A d \in Directories : ListDirectory(d) = {<<p[2], Read(p)>> : p \in There(d)}
  /\ SearchesAreRight
  /\ \A p \in Path : Info(p) = Read(p)
  /\ \A p \in Path \ strayed : Read(p) = expected[p]
  /\ \A p \in ReadOnly \X Names : files[p] = NoFile
=============================================================================
