----------------------------- MODULE SharedFiles -----------------------------
(***************************************************************************)
(* The SQLite files several processes use at once: the document server of  *)
(* every chat and the gateway's uploads share the documents of a user      *)
(* (veda_engine/storage/store.py, vajra_gate/storage.py), the gateway and  *)
(* the terminal the accounts (services/users.py).  Each statement is       *)
(* atomic; an edit and a registration read first and write then, and       *)
(* _lock in store.py is taken by nobody.                                   *)
(*                                                                         *)
(* A document begins as the name of an uploaded file: a text of two words. *)
(***************************************************************************)
EXTENDS Naturals, Sequences, FiniteSets

CONSTANTS
  Workers,     \* processes
  DocIds, Words,
  NoText,      \* of a document that is not there
  Names,       \* of users
  Nobody,      \* the worker of an account that is not there
  MaxWrites    \* bound: writes to one document

ASSUME DocumentsAssumption ==
  NoText \notin Seq(Words) /\ Nobody \notin Workers /\ MaxWrites \in Nat

VARIABLES
  documents,  \* the rows
  files,      \* the uploads whose bytes are on disk
  accounts,   \* whose password each account has
  work,       \* what each worker is doing
  writes,     \* writes to each document so far
  meant,      \* history: each document with every write applied to the one before
  raced,      \* history: documents written between an edit's read and its write
  several,    \* history: documents with an edit of what stood there more than once
  welcomed    \* history: the registrations that succeeded

docVars == <<documents, files, accounts, work, writes, meant, raced, several, welcomed>>

Texts == [1..2 -> Words]
Idle  == [op |-> "idle"]

Edits     == [op : {"edit"}, doc : DocIds, old : Words, new : Words, text : Texts]
Uploads   == [op : {"upload"}, doc : DocIds]
Registers == [op : {"register"}, user : Names]

DocumentsTypeOK ==
  /\ documents \in [DocIds -> Texts \cup {NoText}] /\ files \subseteq DocIds
  /\ accounts \in [Names -> Workers \cup {Nobody}]
  /\ work \in [Workers -> {Idle} \cup Edits \cup Uploads \cup Registers]
  /\ writes \in [DocIds -> 0..MaxWrites] /\ meant \in [DocIds -> Texts \cup {NoText}]
  /\ raced \subseteq DocIds /\ several \subseteq DocIds /\ welcomed \subseteq Workers \X Names

DocumentsInit ==
  /\ documents = [d \in DocIds |-> NoText] /\ files = {}
  /\ accounts = [n \in Names |-> Nobody] /\ work = [w \in Workers |-> Idle]
  /\ writes = [d \in DocIds |-> 0] /\ meant = documents /\ raced = {} /\ several = {} /\ welcomed = {}

-----------------------------------------------------------------------------

At(text, word) == {i \in DOMAIN text : text[i] = word}

SwapReplaced(text, old, new) ==  \* mutant
  [i \in DOMAIN text |-> IF text[i] = new THEN old ELSE text[i]]

(* str.replace: every occurrence.                                            *)
Replaced(text, old, new) == [i \in DOMAIN text |-> IF text[i] = old THEN new ELSE text[i]]

(* What the tool's docstring promises (tools/documents.py:39): "replacing    *)
(* the first occurrence".                                                    *)
Edited(text, old, new) ==
  [i \in DOMAIN text |-> IF i \in At(text, old) /\ \A j \in At(text, old) : i <= j THEN new ELSE text[i]]

Put(d, text, full) ==
  /\ writes[d] < MaxWrites /\ writes' = [writes EXCEPT ![d] = @ + 1]
  /\ documents' = [documents EXCEPT ![d] = text]
  /\ meant' = [meant EXCEPT ![d] = full]

(* edit_document: a document that is not there, or has no such text, raises. *)
ReadToEdit(w, d, old, new) ==
  /\ work[w] = Idle /\ documents[d] # NoText /\ At(documents[d], old) # {}
  /\ work' = [work EXCEPT ![w] =
                [op |-> "edit", doc |-> d, old |-> old, new |-> new, text |-> documents[d]]]
  /\ UNCHANGED <<documents, files, accounts, writes, meant, raced, several, welcomed>>

WriteEdit(w) ==
  /\ work[w].op = "edit"
  /\ LET e == work[w] IN
       /\ Put(e.doc, Replaced(e.text, e.old, e.new), Edited(meant[e.doc], e.old, e.new))
       /\ raced' = IF documents[e.doc] = e.text THEN raced ELSE raced \cup {e.doc}
       /\ several' = IF \A i, j \in At(e.text, e.old) : i = j THEN several ELSE several \cup {e.doc}
  /\ work' = [work EXCEPT ![w] = Idle]
  /\ UNCHANGED <<files, accounts, welcomed>>

(* store_file: the id is new, the bytes are written before the row.          *)
RowFirst(w, d) ==  \* mutant
  /\ work[w] = Idle /\ d \notin files /\ documents[d] = NoText
  /\ \E text \in Texts : Put(d, text, text)
  /\ work' = [work EXCEPT ![w] = [op |-> "upload", doc |-> d]]
  /\ UNCHANGED <<files, accounts, raced, several, welcomed>>

StoreBytes(w, d) ==
  /\ work[w] = Idle /\ d \notin files /\ documents[d] = NoText
  /\ files' = files \cup {d}
  /\ work' = [work EXCEPT ![w] = [op |-> "upload", doc |-> d]]
  /\ UNCHANGED <<documents, accounts, writes, meant, raced, several, welcomed>>

StoreRow(w) ==
  /\ work[w].op = "upload"
  /\ \E text \in Texts : Put(work[w].doc, text, text)
  /\ work' = [work EXCEPT ![w] = Idle]
  /\ UNCHANGED <<files, accounts, raced, several, welcomed>>

-----------------------------------------------------------------------------
(* register_user: SELECT, then INSERT, which raises if the name was taken    *)
(* meanwhile.  A request to register, or the first login when there is no    *)
(* account yet.                                                              *)
CheckName(w, n) ==
  /\ work[w] = Idle /\ accounts[n] = Nobody
  /\ work' = [work EXCEPT ![w] = [op |-> "register", user |-> n]]
  /\ UNCHANGED <<documents, files, accounts, writes, meant, raced, several, welcomed>>

InsertOrReplace(w) ==  \* mutant
  /\ work[w].op = "register"
  /\ accounts' = [accounts EXCEPT ![work[w].user] = w]
  /\ welcomed' = welcomed \cup {<<w, work[w].user>>}
  /\ work' = [work EXCEPT ![w] = Idle]
  /\ UNCHANGED <<documents, files, writes, meant, raced, several>>

InsertUser(w) ==
  /\ work[w].op = "register"
  /\ LET n == work[w].user IN
     IF accounts[n] = Nobody
     THEN accounts' = [accounts EXCEPT ![n] = w] /\ welcomed' = welcomed \cup {<<w, n>>}
     ELSE UNCHANGED <<accounts, welcomed>>
  /\ work' = [work EXCEPT ![w] = Idle]
  /\ UNCHANGED <<documents, files, writes, meant, raced, several>>

(* A process ends in the middle of its work.                                 *)
CrashWorker(w) ==
  /\ work[w] # Idle /\ work' = [work EXCEPT ![w] = Idle]
  /\ UNCHANGED <<documents, files, accounts, writes, meant, raced, several, welcomed>>

DocumentsNext ==
  \E w \in Workers :
    \/ WriteEdit(w) \/ StoreRow(w) \/ InsertUser(w) \/ CrashWorker(w)
    \/ \E d \in DocIds : StoreBytes(w, d)
    \/ \E d \in DocIds, old, new \in Words : ReadToEdit(w, d, old, new)
    \/ \E n \in Names : CheckName(w, n)

-----------------------------------------------------------------------------
(* Every edit and every upload acts on the document as the write before it   *)
(* left it, and an edit does what its docstring says, unless the document    *)
(* was written between an edit's read and its own write; and unless the text *)
(* to be replaced stood there more than once.                                *)
NoEditIsLost == \A d \in DocIds \ (raced \cup several) : documents[d] = meant[d]

(* "Edit a document by replacing the first occurrence of old_str with        *)
(* new_str" (tools/documents.py:39): also where it stands more than once.    *)
EditsTheFirst == \A d \in DocIds \ raced : documents[d] = meant[d]

(* A document that is listed has the bytes of its upload, whenever a process *)
(* ends.                                                                     *)
UploadsHaveBytes == \A d \in DocIds : documents[d] # NoText => d \in files

(* Who was told that the account was created can log in, even if two         *)
(* registered the name at once.                                              *)
OneAccount == \A x \in welcomed : accounts[x[2]] = x[1]

DocumentsAreKept == NoEditIsLost /\ UploadsHaveBytes /\ OneAccount

-----------------------------------------------------------------------------
(***************************************************************************)
(* The JSON files of ~/.hiil that several processes write without a common *)
(* lock: the browsing history of Drishti (hiil_common/storage/             *)
(* json_store.py), of which each process keeps a copy and writes all of    *)
(* it, by way of a temporary file with one name for all; and the           *)
(* credentials (services/credentials.py), read and written in place,       *)
(* encrypted with a key that the first to need it makes.                   *)
(*                                                                         *)
(* A file being written is Torn: it does not parse.                        *)
(***************************************************************************)

CONSTANTS
  Hosts,      \* processes; of the credentials, threads too
  Visits,     \* entries of the browsing history
  Seeds,      \* those it begins with
  Providers,
  Gone, Torn, \* a file that is not there, or is not whole
  MaxSaves    \* bound: credentials saved or deleted

Copies == SUBSET Visits
Rings  == UNION {[ps -> Hosts] : ps \in SUBSET Providers}

ASSUME JsonAssumption ==
  /\ Seeds \subseteq Visits /\ MaxSaves \in Nat /\ Gone # Torn /\ Gone \notin Hosts
  /\ \A file \in Copies \cup Rings : file \notin {Gone, Torn}

VARIABLES
  visited,   \* browser_history.json
  temp,      \* browser_history.tmp
  copy,      \* _data of each process, Gone before it is loaded
  keys,      \* credentials: whose secret each provider's key is encrypted with
  secret,    \* .key: who made it
  busy,      \* what each host is doing
  saves,
  added,     \* history: entries whose browser_add returned
  stored,    \* history: providers whose key was saved last, and not deleted
  together,  \* history: two copies of the browsing history were loaded at once
  mixed      \* history: two worked on the credentials at once, or one ended in a write

jsonVars ==
  <<visited, temp, copy, keys, secret, busy, saves, added, stored, together, mixed>>

Rest   == [op |-> "idle"]

JsonTypeOK ==
  /\ visited \in Copies \cup {Gone, Torn} /\ temp \in Copies \cup {Gone, Torn}
  /\ copy \in [Hosts -> Copies \cup {Gone}]
  /\ keys \in Rings \cup {Gone, Torn} /\ secret \in Hosts \cup {Gone}
  /\ \A h \in Hosts : busy[h].op \in {"idle", "temp", "whole", "rename", "key", "secret", "open", "write"}
  /\ saves \in 0..MaxSaves /\ added \subseteq Visits /\ stored \subseteq Providers
  /\ together \in BOOLEAN /\ mixed \in BOOLEAN

JsonInit ==
  /\ visited = Gone /\ temp = Gone /\ copy = [h \in Hosts |-> Gone]
  /\ keys = Gone /\ secret = Gone /\ busy = [h \in Hosts |-> Rest] /\ saves = 0
  /\ added = {} /\ stored = {} /\ together = FALSE /\ mixed = FALSE

credentialVars == <<keys, secret, saves, stored, mixed>>
historyVars    == <<visited, temp, copy, added, together>>

Does(h, step) == busy' = [busy EXCEPT ![h] = step]

-----------------------------------------------------------------------------
(* _load: a file that does not parse is an empty history.                    *)
LoadHistory(h) ==
  /\ busy[h] = Rest /\ copy[h] = Gone
  /\ copy' = [copy EXCEPT ![h] = CASE visited = Gone -> Seeds
                                   [] visited = Torn -> {}
                                   [] OTHER -> visited]
  /\ together' = (together \/ \E g \in Hosts \ {h} : copy[g] # Gone)
  /\ UNCHANGED <<visited, temp, busy, added, credentialVars>>

(* add_item, then _save: the whole copy is written.                          *)
AddVisit(h, v) ==
  /\ busy[h] = Rest /\ copy[h] # Gone
  /\ v \notin added \cup Seeds \cup UNION {copy[g] : g \in {i \in Hosts : copy[i] # Gone}}
  /\ copy' = [copy EXCEPT ![h] = @ \cup {v}]
  /\ Does(h, [op |-> "temp", visit |-> v])
  /\ UNCHANGED <<visited, temp, added, together, credentialVars>>

OpenTemp(h) ==
  /\ busy[h].op = "temp" /\ temp' = Torn /\ Does(h, [busy[h] EXCEPT !.op = "whole"])
  /\ UNCHANGED <<visited, copy, added, together, credentialVars>>

WriteTemp(h) ==
  /\ busy[h].op = "whole" /\ temp' = copy[h] /\ Does(h, [busy[h] EXCEPT !.op = "rename"])
  /\ UNCHANGED <<visited, copy, added, together, credentialVars>>

RenameEarly(h) ==  \* mutant
  /\ busy[h].op \in {"whole", "rename"} /\ temp # Gone
  /\ visited' = temp /\ temp' = Gone /\ added' = added \cup {busy[h].visit}
  /\ Does(h, Rest)
  /\ UNCHANGED <<copy, together, credentialVars>>

(* os.replace: raises if another process has moved the file away.            *)
RenameTemp(h) ==
  /\ busy[h].op = "rename"
  /\ IF temp = Gone THEN UNCHANGED <<visited, temp, added>>
     ELSE visited' = temp /\ temp' = Gone /\ added' = added \cup {busy[h].visit}
  /\ Does(h, Rest)
  /\ UNCHANGED <<copy, together, credentialVars>>

-----------------------------------------------------------------------------
Working(h) == busy[h].op \in {"key", "secret", "open", "write"}
Ring(file) == IF file \in {Gone, Torn} THEN <<>> ELSE file
Mixes(h)   == mixed' = (mixed \/ \E g \in Hosts \ {h} : Working(g))

(* save_api_key reads the file and then encrypts; delete_api_key only reads  *)
(* it, and writes if the provider was there.                                 *)
ReadToSave(h, p) ==
  /\ busy[h] = Rest /\ saves < MaxSaves /\ saves' = saves + 1
  /\ Does(h, [op |-> "key", ring |-> Ring(keys), provider |-> p]) /\ Mixes(h)
  /\ UNCHANGED <<keys, secret, stored, historyVars>>

(* _get_or_create_key looks for the key, and makes it if there was none.     *)
LookForSecret(h) ==
  /\ busy[h].op = "key"
  /\ Does(h, [op |-> "secret", ring |-> busy[h].ring, provider |-> busy[h].provider, by |-> secret])
  /\ UNCHANGED <<keys, secret, saves, stored, mixed, historyVars>>

MakeSecret(h) ==
  /\ busy[h].op = "secret"
  /\ LET mine == IF busy[h].by = Gone THEN h ELSE busy[h].by
         p    == busy[h].provider
         ring == busy[h].ring
     IN /\ secret' = IF busy[h].by = Gone THEN h ELSE secret
        /\ Does(h, [op   |-> "open", then |-> stored \cup {p},
                    ring |-> [q \in DOMAIN ring \cup {p} |-> IF q = p THEN mine ELSE ring[q]]])
  /\ UNCHANGED <<keys, saves, stored, mixed, historyVars>>

DropAll(h, p) ==  \* mutant
  /\ busy[h] = Rest /\ p \in DOMAIN Ring(keys) /\ saves < MaxSaves /\ saves' = saves + 1
  /\ Does(h, [op |-> "open", then |-> stored \ {p}, ring |-> <<>>]) /\ Mixes(h)
  /\ UNCHANGED <<keys, secret, stored, historyVars>>

ReadToDelete(h, p) ==
  /\ busy[h] = Rest /\ p \in DOMAIN Ring(keys) /\ saves < MaxSaves /\ saves' = saves + 1
  /\ Does(h, [op   |-> "open", then |-> stored \ {p},
              ring |-> [q \in DOMAIN Ring(keys) \ {p} |-> keys[q]]]) /\ Mixes(h)
  /\ UNCHANGED <<keys, secret, stored, historyVars>>

(* write_text empties the file before it writes it.                          *)
OpenKeys(h) ==
  /\ busy[h].op = "open" /\ keys' = Torn /\ Does(h, [busy[h] EXCEPT !.op = "write"])
  /\ UNCHANGED <<secret, saves, stored, mixed, historyVars>>

WriteKeys(h) ==
  /\ busy[h].op = "write" /\ keys' = busy[h].ring /\ stored' = busy[h].then /\ Does(h, Rest)
  /\ UNCHANGED <<secret, saves, mixed, historyVars>>

(* A process ends, wherever it is.                                           *)
EndHost(h) ==
  /\ copy[h] # Gone \/ Working(h)
  /\ copy' = [copy EXCEPT ![h] = Gone] /\ Does(h, Rest)
  /\ mixed' = (mixed \/ busy[h].op = "write")
  /\ UNCHANGED <<visited, temp, added, together, keys, secret, saves, stored>>

HistoryNext ==
  \E h \in Hosts :
    \/ LoadHistory(h) \/ OpenTemp(h) \/ WriteTemp(h) \/ RenameTemp(h) \/ EndHost(h)
    \/ \E v \in Visits : AddVisit(h, v)

CredentialsNext ==
  \E h \in Hosts :
    \/ LookForSecret(h) \/ MakeSecret(h) \/ OpenKeys(h) \/ WriteKeys(h) \/ EndHost(h)
    \/ \E p \in Providers : ReadToSave(h, p) \/ ReadToDelete(h, p)

-----------------------------------------------------------------------------
(* While one process at a time has the history, it is never torn, and has    *)
(* every entry that was added, wherever the processes end; with two the      *)
(* temporary file and the copies get mixed up, and entries are lost.         *)
VisitsAreKept == ~together => visited # Torn /\ (visited # Gone => added \cup Seeds \subseteq visited)

(* load_api_key finds the key that was saved last and can decrypt it, if     *)
(* those who save take turns and none ends while it writes the file.         *)
Loadable(p) == p \in DOMAIN Ring(keys) /\ keys[p] = secret
KeysAreKept ==
  ~mixed /\ (\A h \in Hosts : busy[h].op # "write") =>
    \A p \in Providers : p \in stored <=> Loadable(p)

FilesAreKept == VisitsAreKept /\ KeysAreKept

(* The documents alone.                                                      *)
SpecDocuments ==
  DocumentsInit /\ JsonInit /\ [][DocumentsNext /\ UNCHANGED jsonVars]_<<docVars, jsonVars>>
=============================================================================
