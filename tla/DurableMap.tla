----------------------------- MODULE DurableMap -----------------------------
(***************************************************************************)
(* What a namespace of the key-value store promises to the one process     *)
(* that uses it: reads return the last values written; a write that        *)
(* returns is stored; a crash forgets nothing that is stored.  A change of *)
(* several keys is stored at once (Atomic) or a few keys at a time.  A     *)
(* store that is not atomic may be left ragged by a write that was cut     *)
(* off: then the next key written, and the one cut off, may be lost.  A    *)
(* fragile value need not be stored, and where one is in the map a write   *)
(* may leave nothing stored at all.                                        *)
(***************************************************************************)
CONSTANTS
  Keys, Values,
  NoValue,   \* the value of a key that is not in the map
  Fragile,   \* values that are not stored reliably
  Down,      \* the process has not read the store
  Atomic     \* is a change stored at once?

VARIABLES
  stored,    \* the map that a restart would read
  seen,      \* the map that the process reads
  due,       \* the keys the write in progress has still to store
  ragged,    \* a write was cut off
  frail      \* the key that was stored by a write cut off

vars == <<stored, seen, due, ragged, frail>>

Maps == [Keys -> Values \cup {NoValue}]

AtMostOne(S) == \A a, b \in S : a = b

Empty == [k \in Keys |-> NoValue]
Spoils(m) == \E k \in Keys : m[k] \in Fragile

Init == stored \in Maps /\ seen = Down /\ due = {} /\ ragged = FALSE /\ frail = {}

(* The process starts; it may have to write what it reads in another form.   *)
Load ==
  /\ seen = Down /\ seen' = stored
  /\ stored' = stored \/ (Spoils(stored) /\ stored' = Empty)
  /\ UNCHANGED <<due, ragged, frail>>

(* A write begins: readers see it at once.                                   *)
Change ==
  /\ seen # Down /\ due = {} /\ seen' \in Maps
  /\ due' \in SUBSET Keys /\ \A k \in Keys \ due' : seen'[k] = seen[k]
  /\ UNCHANGED <<stored, ragged, frail>>

(* Keys are stored; the write returns when none is left.                     *)
Persist ==
  /\ seen # Down
  /\ stored' \in Maps /\ due' \in SUBSET due
  /\ \/ Spoils(seen) /\ stored' = Empty
     \/ \E lost \in SUBSET Keys :
          /\ Atomic => due' = {} /\ stored' = seen
          /\ IF ragged THEN AtMostOne(lost \ frail) ELSE lost = {}
          /\ \A k \in Keys \ lost :
               stored'[k] \in {seen[k]} \cup IF k \in due \ due' /\ seen[k] \notin Fragile THEN {} ELSE {stored[k]}
  /\ ragged' = FALSE /\ frail' = {}
  /\ UNCHANGED seen

(* The write ends before its time.                                           *)
CutOff ==
  /\ due' = {}
  /\ \/ UNCHANGED <<stored, ragged, frail>>
     \/ /\ ~Atomic /\ due # {} /\ ragged' = TRUE
        /\ frail' \in SUBSET due /\ AtMostOne(frail')
        /\ stored' \in Maps
        /\ \A k \in Keys \ frail : stored'[k] = IF k \in frail' THEN seen[k] ELSE stored[k]

Fail  == seen # Down /\ CutOff /\ UNCHANGED seen
Crash == CutOff /\ seen' = Down

Next == Load \/ Change \/ Persist \/ Fail \/ Crash

Spec == Init /\ [][Next]_vars
=============================================================================
