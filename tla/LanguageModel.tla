----------------------------- MODULE LanguageModel -----------------------------
(* LLMClient (mcp_cli/services/claude.py), which all callers of a chat share: *)
(* requests with their retries, the cache of embeddings, switches of model    *)
(* and provider while requests are under way, and one streamed answer, whose  *)
(* tool calls come in fragments (services/normalizer.py).                     *)
(*                                                                            *)
(* A target is a provider, with its base URL and key, and a model.  What a    *)
(* request gets is named by the target and the input it was computed from.    *)
EXTENDS Naturals, Sequences, FiniteSets
LOCAL INSTANCE SequencesExt
LOCAL INSTANCE FiniteSetsExt

CONSTANTS
  Endpoints, Models,
  Callers, Inputs,
  MaxAttempts,    \* stop_after_attempt
  CacheSize,      \* _EMBED_CACHE_MAXSIZE
  MaxSwitches,    \* bound: switches of model or provider
  ToolCalls,      \* bound: tool calls of an answer, which are numbers
  MaxFragments    \* bound: fragments of an answer

ASSUME LanguageModelAssumption ==
  MaxAttempts \in Nat \ {0} /\ CacheSize \in Nat \ {0} /\ Inputs # {}

VARIABLES
  target,    \* provider and model
  vectors,   \* _embed_cache: keys and vectors, the one used last at the end
  asks,     \* of each caller
  switches,
  stream,    \* the fragments that came: tool calls, in the order they came in
  gathered,  \* tool_calls: index and numbers of its fragments, in insertion order
  yielded    \* the tool calls handed on, or none yet

modelVars == <<target, vectors, asks, switches, stream, gathered, yielded>>

Targets == Endpoints \X Models
Kinds   == {"embed", "chat", "list"}
None    == <<>>
NoCall    == [kind |-> "chat", state |-> "idle", input |-> CHOOSE w \in Inputs : TRUE,
            attempt |-> 0, of |-> CHOOSE t \in Targets : TRUE, got |-> None, selected |-> {}]

ModelInit ==
  /\ target \in Targets /\ vectors = <<>> /\ asks = [c \in Callers |-> NoCall] /\ switches = 0
  /\ stream = <<>> /\ gathered = <<>> /\ yielded = None

StreamStays == UNCHANGED <<stream, gathered, yielded>>

(* update_model, update_provider.                                            *)
Switch ==
  /\ switches < MaxSwitches /\ switches' = switches + 1
  /\ target' \in {t \in Targets \ {target} : t[1] = target[1] \/ t[2] = target[2]}
  /\ asks' = [c \in Callers |-> [asks[c] EXCEPT !.selected = @ \cup {target'}]]
  /\ UNCHANGED vectors /\ StreamStays

Call(c) ==
  /\ asks[c].state = "idle"
  /\ \E k \in Kinds, w \in Inputs :
       asks' = [asks EXCEPT ![c] =
                   [NoCall EXCEPT !.kind = k, !.state = "due", !.input = w, !.selected = {target}]]
  /\ UNCHANGED <<target, vectors, switches>> /\ StreamStays

Vector(of, w)     == <<of, w>>
Cached(key)       == {i \in DOMAIN vectors : vectors[i].key = key}
WithoutKey(key)   ==
  LET i == CHOOSE i \in Cached(key) : TRUE
  IN  IF Cached(key) = {} THEN vectors ELSE SubSeq(vectors, 1, i - 1) \o SubSeq(vectors, i + 1, Len(vectors))
Newest(key, vec)  == Append(WithoutKey(key), [key |-> key, vector |-> vec])
KeptAll(cached)   == cached  \* mutant
Kept(cached)      == IF Len(cached) > CacheSize THEN Tail(cached) ELSE cached

(* Each attempt reads the provider, its URL and the model again; the cache   *)
(* is asked first.                                                           *)
Attempt(c) ==
  LET r == asks[c]
      key == Vector(target, r.input)
  IN /\ r.state = "due"
     /\ IF r.kind = "embed" /\ Cached(key) # {}
          THEN LET v == vectors[CHOOSE i \in Cached(key) : TRUE].vector
               IN  /\ vectors' = Newest(key, v)
                   /\ asks' = [asks EXCEPT ![c].state = "answered", ![c].got = v]
          ELSE /\ asks' = [asks EXCEPT ![c].state = "sent", ![c].of = target, ![c].attempt = @ + 1]
               /\ UNCHANGED vectors
     /\ UNCHANGED <<target, switches>> /\ StreamStays

KeyNow(c)   == Vector(target, asks[c].input)   \* mutant
KeyOf(c)    == Vector(asks[c].of, asks[c].input)

Answered(c) ==
  LET got == Vector(asks[c].of, asks[c].input)
  IN /\ asks[c].state = "sent"
     /\ asks' = [asks EXCEPT ![c].state = "answered", ![c].got = got]
     /\ vectors' = IF asks[c].kind = "embed" THEN Kept(Newest(KeyOf(c), got)) ELSE vectors
     /\ UNCHANGED <<target, switches>> /\ StreamStays

(* _is_retryable: the network fails, and for chat any error of the API.      *)
AttemptFails(c) ==
  /\ asks[c].state = "sent"
  /\ asks' = [asks EXCEPT ![c].state = IF asks[c].attempt < MaxAttempts THEN "due" ELSE "failed"]
  /\ UNCHANGED <<target, vectors, switches>> /\ StreamStays

(* embed and list_models answer every other error with nothing.              *)
AnswersNothing(c) ==
  /\ asks[c].state = "sent" /\ asks[c].kind # "chat"
  /\ asks' = [asks EXCEPT ![c].state = "answered", ![c].got = None]
  /\ UNCHANGED <<target, vectors, switches>> /\ StreamStays

-----------------------------------------------------------------------------
FragmentsOf(i) == {n \in DOMAIN stream : stream[n] = i}
Place(i)       == {p \in DOMAIN gathered : gathered[p].index = i}

InPlace(i, n) ==  \* mutant
  gathered' = IF Place(i) = {} THEN Append(gathered, [index |-> i, parts |-> <<n>>])
              ELSE [gathered EXCEPT ![CHOOSE p \in Place(i) : TRUE].parts = <<n>>]

(* merge_tool_call: the first fragment opens the call, the others append.    *)
Merge(i, n) ==
  gathered' = IF Place(i) = {} THEN Append(gathered, [index |-> i, parts |-> <<n>>])
              ELSE [gathered EXCEPT ![CHOOSE p \in Place(i) : TRUE].parts = Append(@, n)]

Fragment(i) ==
  /\ yielded = None /\ Len(stream) < MaxFragments
  /\ stream' = Append(stream, i) /\ Merge(i, Len(stream) + 1)
  /\ UNCHANGED <<target, vectors, asks, switches, yielded>>

(* The tool calls follow the text, sorted by index; a stream that breaks     *)
(* hands on none.                                                            *)
EndOfStream ==
  /\ yielded = None /\ gathered # <<>>
  /\ yielded' = SortSeq(gathered, LAMBDA a, b : a.index < b.index)
  /\ UNCHANGED <<target, vectors, asks, switches, stream, gathered>>

(* A stream touches nothing that requests share.                             *)
RequestsNext ==
  \/ Switch
  \/ \E c \in Callers : Call(c) \/ Attempt(c) \/ Answered(c) \/ AttemptFails(c) \/ AnswersNothing(c)

StreamNext == EndOfStream \/ \E i \in ToolCalls : Fragment(i)

ModelTypeOK ==
  /\ target \in Targets /\ Len(vectors) <= CacheSize /\ switches \in 0..MaxSwitches
  /\ \A c \in Callers :
       /\ asks[c].kind \in Kinds /\ asks[c].attempt \in 0..MaxAttempts
       /\ asks[c].state \in {"idle", "due", "sent", "answered", "failed"}
       /\ asks[c].of \in Targets /\ asks[c].selected \subseteq Targets
  /\ stream \in Seq(ToolCalls) /\ \A p \in DOMAIN gathered : gathered[p].index \in ToolCalls

(* Whatever is switched while requests wait, fail and are retried: what a    *)
(* caller gets was computed from its own input, by a provider and a model    *)
(* that were selected together since it called, and every vector of the      *)
(* cache stands under the provider, model and text it was computed from.     *)
AnswersAreOfTheirTarget ==
  /\ \A i \in DOMAIN vectors : vectors[i].vector = vectors[i].key
  /\ \A c \in Callers : asks[c].state = "answered" /\ asks[c].got # None =>
       asks[c].got[2] = asks[c].input /\ asks[c].got[1] \in asks[c].selected

(* Fragments of several tool calls may come mixed, and the calls in any      *)
(* order: each call is handed on once, by index, with its own fragments in   *)
(* the order they came.                                                      *)
ToolCallsAreWhole ==
  yielded # None =>
    /\ {yielded[p].index : p \in DOMAIN yielded} = ToSet(stream)
    /\ \A p, q \in DOMAIN yielded : p < q => yielded[p].index < yielded[q].index
    /\ \A p \in DOMAIN yielded : yielded[p].parts = SetToSortSeq(FragmentsOf(yielded[p].index), <)
=============================================================================
