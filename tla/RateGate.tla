------------------------------ MODULE RateGate ------------------------------
(***************************************************************************)
(* Place search (core/places/places.go): the one endpoint a visitor can    *)
(* cause an upstream request from. Concurrent searches look in the shared  *)
(* cache, queue behind a single instant `next' under the mutex, sleep to   *)
(* their slot, ask Nominatim and store the answer.                         *)
(*                                                                         *)
(* A cached answer changes no state, so a hit is no step. A visitor may    *)
(* leave, requestTimeout may expire and Nominatim may fail at any point of *)
(* a wait or a request: Abandon stands for all three.                      *)
(***************************************************************************)
EXTENDS Integers, FiniteSets

CONSTANTS
    Callers,      \* searches that can be in progress at once
    Keys,         \* cache keys: queries after cacheKey folds case and spaces
    minInterval,
    maxQueue,
    cacheTTL,
    RetryAfter,   \* the Retry-After a refused search is answered with
    Ceiling,      \* Nominatim's own limit: the least time between two requests
    Jitter,       \* how long after its slot the runtime may put a request on the wire
    CacheCanFail, \* whether the shared cache may fail a read or a write
    MaxNow,       \* bound: latest time
    None

ASSUME TimeAssumption ==
    /\ minInterval \in Nat \ {0} /\ maxQueue \in Nat /\ cacheTTL \in Nat
    /\ RetryAfter \in Nat /\ Ceiling \in Nat \ {0} /\ Jitter \in Nat /\ MaxNow \in Nat
ASSUME FlagAssumption == CacheCanFail \in BOOLEAN
ASSUME NoneAssumption == None \notin Int /\ None \notin Keys

(* 1100 ms between slots against one request a second leaves the runtime a  *)
(* tenth of a second to wake a waiter late.                                 *)
ASSUME JitterAssumption == Ceiling + Jitter <= minInterval
ASSUME RetryAssumption == minInterval <= RetryAfter

VARIABLES
    now,
    next,     \* earliest instant the next outbound request may leave
    cache,    \* when each cached answer expires
    calls,    \* searches in progress
    lastSent  \* history: when the latest request left

vars == <<now, next, cache, calls, lastSent>>

Idle == [pc |-> "idle", key |-> None, slot |-> None]
CallState == {Idle}
    \cup [pc : {"acquire"}, key : Keys, slot : {None}]
    \cup [pc : {"wait", "request"}, key : Keys, slot : Nat]

Waiting == {c \in Callers : calls[c].pc = "wait"}
Cached(k) == cache[k] # None /\ now <= cache[k]

Init ==
    /\ now = 0
    /\ next = 0
    /\ cache = [k \in Keys |-> None]
    /\ calls = [c \in Callers |-> Idle]
    /\ lastSent = -Ceiling

-----------------------------------------------------------------------------
(* Search: the cache misses, or cannot be read.                             *)
Search(c, k) ==
    /\ calls[c].pc = "idle"
    /\ ~Cached(k) \/ CacheCanFail
    /\ calls' = [calls EXCEPT ![c] = [pc |-> "acquire", key |-> k, slot |-> None]]
    /\ UNCHANGED <<now, next, cache, lastSent>>

(* Mutant of Wait: the gate is advanced from now, not from the slot.        *)
WaitFromNow(c) ==
    /\ next' = now + minInterval
    /\ calls' = [calls EXCEPT ![c].pc = "wait", ![c].slot = IF next < now THEN now ELSE next]

(* The slot acquire would hand out now.                                     *)
slot == IF next < now THEN now ELSE next

Wait(c) ==
    /\ next' = slot + minInterval
    /\ calls' = [calls EXCEPT ![c].pc = "wait", ![c].slot = slot]

(* Mutant of Acquire: a refused search has already advanced the gate.       *)
AcquireThenCheck(c) ==
    /\ calls[c].pc = "acquire"
    /\ next' = slot + minInterval
    /\ calls' = [calls EXCEPT ![c] =
                    IF slot - now <= maxQueue THEN [@ EXCEPT !.pc = "wait", !.slot = slot] ELSE Idle]
    /\ UNCHANGED <<now, cache, lastSent>>

(* Mutant of Acquire: nobody is refused.                                    *)
AcquireAlways(c) ==
    /\ calls[c].pc = "acquire"
    /\ Wait(c)
    /\ UNCHANGED <<now, cache, lastSent>>

(* acquire, under mu: too long a queue is refused with a 429 and leaves the *)
(* gate where it is.                                                        *)
Acquire(c) ==
    /\ calls[c].pc = "acquire"
    /\ \/ /\ slot - now <= maxQueue
          /\ Wait(c)
       \/ /\ slot - now > maxQueue
          /\ calls' = [calls EXCEPT ![c] = Idle]
          /\ UNCHANGED next
    /\ UNCHANGED <<now, cache, lastSent>>

(* The timer fires, or the slot was already due, and GetURL sends.          *)
Depart(c) ==
    /\ calls[c].pc = "wait"
    /\ calls[c].slot <= now
    /\ calls' = [calls EXCEPT ![c].pc = "request"]
    /\ lastSent' = now
    /\ UNCHANGED <<now, next, cache>>

(* A slot given to a search that is abandoned is not handed out again.      *)
Abandon(c) ==
    /\ calls[c].pc \in {"wait", "request"}
    /\ calls' = [calls EXCEPT ![c] = Idle]
    /\ UNCHANGED <<now, next, cache, lastSent>>

(* A failed SetValue is logged and the answer returned all the same.        *)
Answer(c) ==
    /\ calls[c].pc = "request"
    /\ \/ cache' = [cache EXCEPT ![calls[c].key] = now + cacheTTL]
       \/ CacheCanFail /\ UNCHANGED cache
    /\ calls' = [calls EXCEPT ![c] = Idle]
    /\ UNCHANGED <<now, next, lastSent>>

(* Time passes; a due waiter is woken within Jitter of its slot.            *)
Tick ==
    /\ now < MaxNow
    /\ \A c \in Waiting : now < calls[c].slot + Jitter
    /\ now' = now + 1
    /\ UNCHANGED <<next, cache, calls, lastSent>>

Next ==
    \/ \E c \in Callers :
          \/ \E k \in Keys : Search(c, k)
          \/ Acquire(c) \/ Depart(c) \/ Abandon(c) \/ Answer(c)
    \/ Tick

Spec == Init /\ [][Next]_vars

-----------------------------------------------------------------------------
(* Type correctness of the gate, the cache and the searches in progress.    *)
TypeOK ==
    /\ now \in 0..MaxNow
    /\ next \in Nat
    /\ cache \in [Keys -> Nat \cup {None}]
    /\ calls \in [Callers -> CallState]
    /\ lastSent \in Int

(* Nominatim's limit: whatever searches overlap, time out or are refused,   *)
(* two requests leave at least Ceiling apart. This is about the instants    *)
(* they leave, which the jitter of the timers moves off their slots.        *)
DeparturesSpaced ==
    [][\A c \in Callers : Depart(c) => now >= lastSent + Ceiling]_vars

(* A refusal is worth its Retry-After: however many searches were queued,   *)
(* abandoned or refused, the gate would be open to a visitor who comes back *)
(* RetryAfter later with no search in between.                              *)
RetryAfterSuffices == next <= now + RetryAfter + maxQueue

(* The queue holds no more searches than slots fit in maxQueue: visitors    *)
(* cannot pile up on sleeping connections.                                  *)
QueueBounded ==
    Cardinality(Waiting) <= (maxQueue + Jitter) \div minInterval + 1
=============================================================================
