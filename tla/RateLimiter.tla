---------------------------- MODULE RateLimiter -----------------------------
(***************************************************************************)
(* The sliding window that every throttled route asks                      *)
(* (infra/src/rate-limit/sliding-window-rate-limiter.ts).  Each server     *)
(* process has a Map of its own, from a key to the instants it let         *)
(* through, and forgets it when it restarts.  No call awaits anything, so  *)
(* a call is one step.  `admitted` is history: what a process let through  *)
(* since it last forgot a key.                                             *)
(*                                                                         *)
(* A list of instants is a set here, as the code counts them and drops the *)
(* old ones: the n-th call let through at an instant is <<instant, n>>.    *)
(***************************************************************************)
EXTENDS Integers, Sequences, FiniteSets

CONSTANTS
  Processes,
  Keys,
  Limit,            \* Limit[k] calls ...
  Window,           \* ... in any Window[k] units of time
  MaxTrackedKeys,
  MaxTime           \* the clock runs from 0 to MaxTime

ASSUME RateLimiterAssumption ==
  /\ Limit \in [Keys -> Nat \ {0}]
  /\ Window \in [Keys -> Nat \ {0}]
  /\ MaxTrackedKeys \in Nat \ {0}
  /\ MaxTime \in Nat

VARIABLES
  hits,      \* hits[p]: the Map of process p, its entries in insertion order
  clock,
  admitted   \* admitted[p][k]: the calls with k that p let through

limiterVars == <<hits, clock, admitted>>

LimiterInit ==
  /\ hits = [p \in Processes |-> <<>>]
  /\ clock = 0
  /\ admitted = [p \in Processes |-> [k \in Keys |-> {}]]

(* ---------------------------------- the Map ---------------------------- *)

KeysOf(map) == { map[j].key : j \in DOMAIN map }

Place(map, k) == CHOOSE j \in DOMAIN map : map[j].key = k

\* hits.get(key) ?? []
Get(map, k) == IF k \in KeysOf(map) THEN map[Place(map, k)].at ELSE {}

\* hits.delete(key)
Without(map, k) ==
  IF k \in KeysOf(map)
    THEN SubSeq(map, 1, Place(map, k) - 1) \o SubSeq(map, Place(map, k) + 1, Len(map))
    ELSE map

\* hits.set(key, instants): a key that is there keeps its place.
With(map, k, calls) ==
  IF k \in KeysOf(map)
    THEN [map EXCEPT ![Place(map, k)] = [key |-> k, at |-> calls]]
    ELSE Append(map, [key |-> k, at |-> calls])

\* Seeded fault: the window is fixed, and begins at multiples of its length.
Recent_FixedWindow(map, k) ==
  { call \in Get(map, k) : call[1] >= clock - (clock % Window[k]) }

\* What the window of k still holds.
Recent(map, k) == { call \in Get(map, k) : call[1] > clock - Window[k] }

\* prune, which forgets a key whose window is empty.
Prune(map, k) ==
  IF Recent(map, k) = {} THEN Without(map, k) ELSE With(map, k, Recent(map, k))

\* evictIfNeeded: a call adds one key at most, so one key is too many at most.
Evict(map) == IF Len(map) > MaxTrackedKeys THEN Tail(map) ELSE map

(* --------------------------------- the calls --------------------------- *)

Allows(p, k) == Cardinality(Recent(hits[p], k)) < Limit[k]

\* push(now)
Pushed(calls) == calls \cup {<<clock, Cardinality({ call \in calls : call[1] = clock }) + 1>>}

\* consume: a call let through is remembered, a refused one is not.
Consume(p, k) ==
  /\ IF Allows(p, k)
       THEN /\ hits' = [hits EXCEPT ![p] =
                          Evict(With(Prune(@, k), k, Pushed(Recent(hits[p], k))))]
            /\ admitted' = [admitted EXCEPT ![p] =
                 [j \in Keys |-> IF j = k THEN Pushed(admitted[p][k])
                                 ELSE IF j \in KeysOf(hits'[p]) THEN admitted[p][j] ELSE {}]]
       ELSE /\ hits' = [hits EXCEPT ![p] = Prune(@, k)]
            /\ UNCHANGED admitted
  /\ UNCHANGED clock

\* peek reads, and prunes.
Peek(p, k) ==
  /\ hits' = [hits EXCEPT ![p] = Prune(@, k)]
  /\ UNCHANGED <<clock, admitted>>

\* reset, after a successful sign-in.
Reset(p, k) ==
  /\ hits' = [hits EXCEPT ![p] = Without(@, k)]
  /\ admitted' = [admitted EXCEPT ![p][k] = {}]
  /\ UNCHANGED clock

\* The process starts again, with an empty Map.
Restart(p) ==
  /\ hits' = [hits EXCEPT ![p] = <<>>]
  /\ admitted' = [admitted EXCEPT ![p] = [k \in Keys |-> {}]]
  /\ UNCHANGED clock

Tick ==
  /\ clock < MaxTime
  /\ clock' = clock + 1
  /\ UNCHANGED <<hits, admitted>>

(* -------------------------------- properties --------------------------- *)

Call == (0..MaxTime) \X (Nat \ {0})

Entry == [key : Keys, at : SUBSET Call]

\* Every variable keeps its shape, and the Map its cap.
LimiterTypeOK ==
  /\ hits \in [Processes -> Seq(Entry)]
  /\ \A p \in Processes : Len(hits[p]) <= MaxTrackedKeys
  /\ clock \in 0..MaxTime
  /\ admitted \in [Processes -> [Keys -> SUBSET Call]]

\* Wherever a window of time is laid, a process lets no more calls through in it than the
\* budget (sliding-window-rate-limiter.ts:6: no double quota at a boundary), unless it
\* forgot the key in between.
QuotaHolds ==
  \A p \in Processes, k \in Keys, t \in 0..MaxTime :
    Cardinality({ call \in admitted[p][k] : call[1] <= t /\ call[1] > t - Window[k] }) <= Limit[k]

=============================================================================
