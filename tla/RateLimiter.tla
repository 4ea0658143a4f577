----------------------------- MODULE RateLimiter -----------------------------
(***************************************************************************)
(* vajra_gate/services/rate_limiter.py behind middleware/rate_limit.py: a  *)
(* token bucket per client, and the removal of idle buckets.  The event    *)
(* loop runs one check at a time, from its first line to its last.         *)
(*                                                                         *)
(* Time is counted in ticks of the clock and tokens in the fraction that   *)
(* flows in at one tick, so that the floating-point amounts of the code    *)
(* (but for their rounding) are natural numbers.                           *)
(***************************************************************************)
EXTENDS Naturals, FiniteSets

CONSTANTS
  Clients,     \* the keys of _get_client_key: a user or an address
  Rate,        \* what flows into a bucket in a tick
  Capacity,    \* what a bucket holds
  Price,       \* what a request takes out: one token
  MaxIdle,     \* max_idle_seconds, in ticks
  PruneEvery,  \* buckets are pruned when their number is a multiple of it
  MaxTime      \* bound: of the clock

(* An idle bucket is full before it may be removed: 20 <= 10 * 3600.         *)
ASSUME LimiterAssumption ==
  /\ Rate \in Nat /\ Capacity \in Nat /\ Price \in Nat /\ MaxIdle \in Nat /\ MaxTime \in Nat
  /\ PruneEvery \in Nat \ {0}
  /\ Capacity <= Rate * MaxIdle

VARIABLES
  now,      \* time.monotonic()
  known,    \* the keys of _buckets and _last_used
  tokens,   \* _tokens of each bucket; a key that is not known has none
  used,     \* _last_refill and _last_used: both are set by every check
  granted,  \* history: requests let through since since[c]
  since     \* history: where a window begins in which requests are counted

limiterVars == <<now, known, tokens, used, granted, since>>

LimiterTypeOK ==
  /\ now \in 0..MaxTime /\ known \subseteq Clients
  /\ tokens \in [Clients -> 0..Capacity]
  /\ used \in [Clients -> 0..MaxTime] /\ \A c \in Clients : used[c] <= now
  /\ granted \in [Clients -> Nat]
  /\ since \in [Clients -> 0..MaxTime] /\ \A c \in Clients : since[c] <= now

LimiterInit ==
  /\ now = 0 /\ known = {}
  /\ tokens = [c \in Clients |-> 0] /\ used = [c \in Clients |-> 0]
  /\ granted = [c \in Clients |-> 0] /\ since = [c \in Clients |-> 0]

Tick ==
  /\ now < MaxTime /\ now' = now + 1
  /\ UNCHANGED <<known, tokens, used, granted, since>>

Uncapped(c) == IF c \in known THEN tokens[c] + Rate * (now - used[c]) ELSE Capacity  \* mutant

(* What the bucket of c holds now; a new bucket is full.                     *)
Refilled(c) ==
  IF c \in known /\ tokens[c] + Rate * (now - used[c]) <= Capacity
  THEN tokens[c] + Rate * (now - used[c])
  ELSE Capacity

(* The keys of last that have been idle for too long, if it is time to look. *)
Stale(keys, last) ==
  IF Cardinality(keys) % PruneEvery = 0
  THEN {k \in keys : now - last[k] > MaxIdle} ELSE {}

(* check(): the middleware lets the request through, or answers 429.         *)
Check(c) ==
  LET admitted == Refilled(c) >= Price IN
  /\ tokens' = [tokens EXCEPT ![c] = IF admitted THEN Refilled(c) - Price ELSE Refilled(c)]
  /\ used' = [used EXCEPT ![c] = now]
  /\ granted' = [granted EXCEPT ![c] = IF admitted THEN @ + 1 ELSE @]
  /\ known' = (known \cup {c}) \ Stale(known \cup {c}, used')
  /\ UNCHANGED <<now, since>>

(* Nothing the program does: from here on the requests of c are counted.     *)
Watch(c) ==
  /\ granted[c] > 0 /\ since[c] < now
  /\ granted' = [granted EXCEPT ![c] = 0] /\ since' = [since EXCEPT ![c] = now]
  /\ UNCHANGED <<now, known, tokens, used>>

LimiterNext == Tick \/ \E c \in Clients : Check(c) \/ Watch(c)

LimiterSpec == LimiterInit /\ [][LimiterNext]_limiterVars

-----------------------------------------------------------------------------
(* In every window of time a client gets no more through than a full bucket  *)
(* and what flows into it meanwhile, however often its bucket is refilled,   *)
(* removed and made anew.                                                    *)
RateBound == \A c \in Clients : Price * granted[c] <= Capacity + Rate * (now - since[c])
=============================================================================
