----------------------------- MODULE TextSearch -----------------------------
(* mcp_cli/services/chunker.py: a text is cut into pieces, by words or by    *)
(* sentences, and every piece begins with the end of the one before.  A      *)
(* step is one turn of the loop.  Units are the words, or the sentences; a   *)
(* word counts 1, a sentence its characters, and the spaces between          *)
(* sentences nothing.                                                        *)
EXTENDS Naturals, Sequences, FiniteSets
LOCAL INSTANCE SequencesExt
LOCAL INSTANCE FiniteSetsExt

CONSTANTS
  WordSizes,      \* chunk_size: for code and for prose
  WordOverlap,    \* overlap
  MaxChars,       \* max_chars
  OverlapChars,   \* overlap_chars
  SentenceSizes,  \* bound: characters of a sentence
  MaxUnits        \* bound: units of a text

(* The callers' sizes are larger than the overlap; the loop over words would *)
(* not advance otherwise.                                                    *)
ASSUME WordsAdvance == \A n \in WordSizes : n \in Nat /\ WordOverlap < n

VARIABLES
  by,       \* "words", "sentences"
  limitOf,  \* the chunk size chosen, or max_chars
  units,    \* the sizes of the text's units
  from, upto, \* the piece being made: the units after `from`, up to `upto`
  pieces,   \* <<from, upto>> of the pieces made
  allCut    \* nothing is left

chunkVars == <<by, limitOf, units, from, upto, pieces, allCut>>

TextsOf(sizes) == UNION {[1..n -> sizes] : n \in 0..MaxUnits}

(* suggest_chunk_size: whether the text looks like code is not modelled.     *)
ChunkerInit ==
  /\ \/ by = "words" /\ limitOf \in WordSizes /\ units \in TextsOf({1})
     \/ by = "sentences" /\ limitOf = MaxChars /\ units \in TextsOf(SentenceSizes)
  /\ from = 0 /\ upto = 0 /\ pieces = <<>> /\ allCut = (units = <<>>)

Smaller(a, b) == IF a < b THEN a ELSE b

WithoutOverlap ==  \* mutant
  /\ by = "words" /\ ~allCut
  /\ upto' = Smaller(from + limitOf, Len(units))
  /\ pieces' = Append(pieces, <<from, upto'>>)
  /\ allCut' = (upto' = Len(units)) /\ from' = IF allCut' THEN from ELSE upto'
  /\ UNCHANGED <<by, limitOf, units>>

CutWords ==
  /\ by = "words" /\ ~allCut
  /\ upto' = Smaller(from + limitOf, Len(units))
  /\ pieces' = Append(pieces, <<from, upto'>>)
  /\ allCut' = (upto' = Len(units))
  /\ from' = IF allCut' THEN from ELSE from + limitOf - WordOverlap
  /\ UNCHANGED <<by, limitOf, units>>

SizeOf(a, b) == MapThenSumSet(LAMBDA i : units[i], a + 1..b)

FittingEnd ==  \* mutant
  Min({f \in from..upto : SizeOf(f, upto) <= OverlapChars})

(* Where the next piece begins: it takes the last sentences that fit into    *)
(* the overlap, at least one.                                                *)
Carried == Min({f \in from..upto - 1 : f = upto - 1 \/ SizeOf(f, upto) <= OverlapChars})

CutSentence ==
  LET full == SizeOf(from, upto) + units[upto + 1] > limitOf /\ from < upto
  IN /\ by = "sentences" /\ upto < Len(units)
     /\ pieces' = IF full THEN Append(pieces, <<from, upto>>) ELSE pieces
     /\ from' = IF full THEN Carried ELSE from
     /\ upto' = upto + 1
     /\ UNCHANGED <<by, limitOf, units, allCut>>

LastSentences ==
  /\ by = "sentences" /\ upto = Len(units) /\ ~allCut
  /\ pieces' = Append(pieces, <<from, upto>>) /\ allCut' = TRUE
  /\ UNCHANGED <<by, limitOf, units, from, upto>>

ChunkerNext == CutWords \/ CutSentence \/ LastSentences

ChunkerTypeOK ==
  /\ by \in {"words", "sentences"} /\ limitOf \in WordSizes \cup {MaxChars}
  /\ units \in TextsOf({1} \cup SentenceSizes) /\ from \in 0..MaxUnits /\ upto \in 0..MaxUnits
  /\ pieces \in Seq((0..MaxUnits) \X (0..MaxUnits)) /\ allCut \in BOOLEAN

(* However long the text and its sentences, the pieces in order hold every   *)
(* unit, each piece shares its beginning with the one before and adds        *)
(* something to it, and the overlap is WordOverlap words, or the sentences   *)
(* that fit, or one that does not.  A piece of words is never too large; one *)
(* of sentences only through the sentence that came last, or the one that    *)
(* was carried over.                                                         *)
PiecesAreRight ==
  LET overlap(i) == SizeOf(pieces[i + 1][1], pieces[i][2])
  IN /\ allCut /\ units # <<>> => pieces # <<>> /\ pieces[1][1] = 0 /\ Last(pieces)[2] = Len(units)
     /\ \A i \in 1..Len(pieces) - 1 :
          /\ pieces[i][1] <= pieces[i + 1][1] /\ pieces[i + 1][1] < pieces[i][2]
          /\ pieces[i][2] < pieces[i + 1][2]
          /\ by = "words" => overlap(i) = WordOverlap
          /\ by = "sentences" => overlap(i) <= OverlapChars \/ pieces[i + 1][1] = pieces[i][2] - 1
     /\ \A i \in DOMAIN pieces :
          \/ SizeOf(pieces[i][1], pieces[i][2]) <= limitOf
          \/ by = "sentences" /\ pieces[i][2] - (IF i = 1 THEN 0 ELSE pieces[i - 1][2]) = 1

-----------------------------------------------------------------------------
(* Reading the vectors table, mcp_cli/services/vector_store.py: a search     *)
(* without clusters reads a namespace in batches, at growing offsets, while  *)
(* other threads insert, replace and delete rows; one with clusters reads    *)
(* the rows of the keys it gets from them.  The best rows by meaning may     *)
(* then be ranked again with the words they share with the query.            *)
(*                                                                           *)
(* A row is its key; a row that is replaced gets a new id and moves to the   *)
(* end.  How near a key's text is to the query, in meaning (cosine) and in   *)
(* words (BM25), are numbers chosen once.                                    *)

CONSTANTS
  MaxKeys,     \* bound: keys, which are numbers
  BatchSize,   \* batch_size
  Wanted,      \* limit
  Wide,        \* candidates that hybrid_search asks for: 3 * limit, at least 20
  Alpha,       \* alpha, in halves
  Nearness,    \* bound: the scores
  MaxEdits     \* bound: changes to the table

ASSUME SearchAssumption ==
  /\ BatchSize \in Nat \ {0} /\ Wanted \in Nat \ {0} /\ Wide \in Nat /\ Alpha \in 0..2

VARIABLES
  rows,       \* keys of the table, by id
  meaning, wording, \* of each key
  hybrid,     \* the search is hybrid_search
  scored,     \* keys read so far
  offset,
  scanning,   \* "start", "scan", "fast", "done"
  hits,      \* the answer
  edits,
  atStart,    \* history: the rows when the search began
  moved       \* history: a row was replaced or deleted since

searchVars ==
  <<rows, meaning, wording, hybrid, scored, offset, scanning, hits, edits, atStart, moved>>

Keys == 1..MaxKeys

(* As the scores are any, it does not matter in which order rows came.       *)
SearchInit ==
  /\ \E n \in 1..MaxKeys : rows = [i \in 1..n |-> i]
  /\ meaning \in [Keys -> Nearness] /\ wording \in [Keys -> Nearness]
  /\ hybrid \in BOOLEAN /\ (~hybrid => wording = [k \in Keys |-> 0])
  /\ scored = <<>> /\ offset = 0 /\ scanning = "start" /\ hits = <<>>
  /\ edits = 0 /\ atStart = {} /\ moved = FALSE

Lesser(m, n) == IF m < n THEN m ELSE n

Cut(s, n) == SubSeq(s, 1, Lesser(n, Len(s)))

(* sort by score, the highest first; ties keep their order.                  *)
Ranked(s, score) ==
  LET before(i, j) == score[s[i]] > score[s[j]] \/ (score[s[i]] = score[s[j]] /\ i < j)
      order == SetToSortSeq(DOMAIN s, before)
  IN [i \in DOMAIN s |-> s[order[i]]]

Candidates == IF hybrid THEN Wide ELSE Wanted

Begin ==
  /\ scanning = "start" /\ scanning' \in {"scan", "fast"}
  /\ atStart' = ToSet(rows)
  /\ UNCHANGED <<rows, meaning, wording, hybrid, scored, offset, hits, edits, moved>>

(* LIMIT and OFFSET of one query, which search_page returns as it is.        *)
Page(first, n) == SubSeq(rows, first + 1, Lesser(first + n, Len(rows)))

NextBatch ==  \* mutant
  LET page == Page(offset, BatchSize)
  IN /\ scanning = "scan" /\ page # <<>>
     /\ scored' = scored \o page /\ offset' = offset + BatchSize
     /\ UNCHANGED <<rows, meaning, wording, hybrid, scanning, hits, edits, atStart, moved>>

ReadBatch ==
  LET page == Page(offset, BatchSize)
  IN /\ scanning = "scan" /\ page # <<>>
     /\ scored' = scored \o page /\ offset' = offset + Len(page)
     /\ UNCHANGED <<rows, meaning, wording, hybrid, scanning, hits, edits, atStart, moved>>

(* _min_max_normalize, as a fraction of the scale, which is 1 when all       *)
(* values are equal.                                                         *)
Scale(s, of)      == LET span == Max({of[s[i]] : i \in DOMAIN s}) - Min({of[s[i]] : i \in DOMAIN s})
                     IN  IF span = 0 THEN 1 ELSE span
Normal(s, of, k)  == of[k] - Min({of[s[i]] : i \in DOMAIN s})

(* hybrid_search: both scores of the candidates, normalized, blended.        *)
Blended(s) ==
  LET blend == [k \in ToSet(s) |-> Alpha * Normal(s, meaning, k) * Scale(s, wording)
                                   + (2 - Alpha) * Normal(s, wording, k) * Scale(s, meaning)]
  IN  Ranked(s, blend)

Finds(candidates) ==
  LET best == Cut(Ranked(candidates, meaning), Candidates)
  IN  hits' = IF hybrid THEN Cut(Blended(best), Wanted) ELSE best

EndScan ==
  /\ scanning = "scan" /\ Page(offset, BatchSize) = <<>>
  /\ scanning' = "done" /\ Finds(scored)
  /\ UNCHANGED <<rows, meaning, wording, hybrid, scored, offset, edits, atStart, moved>>

(* The clusters name keys, at least as many as are wanted, or the search     *)
(* falls back on the scan; a key that is gone has no row.                    *)
Clustered ==
  /\ scanning = "fast"
  /\ \/ scanning' = "scan" /\ UNCHANGED <<scored, hits>>
     \/ \E named \in SUBSET Keys :
          /\ Candidates <= Cardinality(named) /\ Cardinality(named) <= 4 * Candidates
          /\ scanning' = "done"
          /\ scored' = SelectSeq(rows, LAMBDA k : k \in named) /\ Finds(scored')
  /\ UNCHANGED <<rows, meaning, wording, hybrid, offset, edits, atStart, moved>>

(* Other threads: index inserts or replaces, delete removes.                 *)
Edit ==
  /\ edits < MaxEdits /\ edits' = edits + 1 /\ scanning \in {"scan", "fast"}
  /\ \E k \in Keys :
       \/ rows' = Append(SelectSeq(rows, LAMBDA r : r # k), k) /\ moved' = (moved \/ Contains(rows, k))
       \/ /\ Contains(rows, k) /\ moved' = TRUE
          /\ rows' = SelectSeq(rows, LAMBDA r : r # k)
  /\ UNCHANGED <<meaning, wording, hybrid, scored, offset, scanning, hits, atStart>>

SearchNext == Begin \/ ReadBatch \/ EndScan \/ Clustered \/ Edit

SearchTypeOK ==
  /\ rows \in Seq(Keys) /\ IsInjective(rows) /\ meaning \in [Keys -> Nearness] /\ wording \in [Keys -> Nearness]
  /\ hybrid \in BOOLEAN /\ scored \in Seq(Keys) /\ offset \in Nat
  /\ scanning \in {"start", "scan", "fast", "done"} /\ hits \in Seq(Keys)
  /\ edits \in 0..MaxEdits /\ atStart \subseteq Keys /\ moved \in BOOLEAN

(* Rows inserted while a search reads the table cost it none of the others:  *)
(* what it has scored is always the beginning of the table, and when it      *)
(* answers, every row that was there.  Exempt are searches during which rows *)
(* are deleted or replaced, which shift the offsets.                         *)
NoRowIsSkipped ==
  scanning \in {"scan", "done"} /\ ~moved /\ offset > 0 =>
    /\ IsPrefix(scored, rows)
    /\ scanning = "done" => atStart \subseteq ToSet(scored)

(* Nothing better is left out: a row that was scored and is not answered, or *)
(* comes later, is not nearer than one that is answered; for hybrid_search,  *)
(* not both in meaning and in words, whatever scales the two scores have.    *)
Beats(k, r) == meaning[k] > meaning[r] /\ (hybrid => wording[k] > wording[r])

BestComeFirst ==
  scanning = "done" =>
    \A i \in DOMAIN hits :
      \A k \in ToSet(scored) \ {hits[j] : j \in 1..i} : ~Beats(k, hits[i])

SearchIsRight == NoRowIsSkipped /\ BestComeFirst
=============================================================================
