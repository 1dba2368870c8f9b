----------------------------- MODULE StrikeStore -----------------------------
(***************************************************************************)
(* The lightning mode (salama/service.go, salama/store.go): a poller that  *)
(* folds short overlapping windows of strikes into a retained set, mirrors *)
(* the set into the shared cache with a TTL, and visitors who are answered *)
(* from the cache first and from memory otherwise.                         *)
(*                                                                         *)
(* A strike is its timestamp (two at one instant differ in position and    *)
(* fare alike); FMI lists it PublishDelay later. Redis outlives the        *)
(* process, the in-memory cache dies with it.                              *)
(***************************************************************************)
EXTENDS Integers

CONSTANTS
    pollInterval, retryInterval, pollLookback, retainWindow, strikesTTL,
    healthyAge,   \* five poll intervals: silence that is a real outage
    PublishDelay,
    FetchTimeout, \* the upstream client's timeout
    Redis,        \* FALSE when the shared cache is the in-memory one
    RedisCanFail, \* whether Redis may stop answering
    MaxFailures,  \* bound: requests that fail in a row
    MaxCrashes,   \* bound: process exits
    MaxNow,       \* bound: latest time
    None

ASSUME TimeAssumption ==
    /\ pollInterval \in Nat /\ retryInterval \in Nat /\ pollLookback \in Nat
    /\ retainWindow \in Nat /\ strikesTTL \in Nat /\ healthyAge \in Nat
    /\ PublishDelay \in Nat /\ FetchTimeout \in Nat
ASSUME BoundAssumption == MaxFailures \in Nat /\ MaxCrashes \in Nat /\ MaxNow \in Nat
ASSUME FlagAssumption == Redis \in BOOLEAN /\ RedisCanFail \in BOOLEAN
ASSUME NoneAssumption == None \notin Nat

VARIABLES
    now,
    fallback, updated,  \* the retained set, and the poll it dates from; None is !haveData
    cache,              \* the published summary and when it expires
    reach,              \* the shared cache: never failed, failing, or answering again
    poll,               \* the poll loop: what it does, when it asked, when FMI took
                        \* what it answers with, when it wakes
    lookback, lastPoll,
    failures,           \* requests failed in a row
    crashes,
    seen                \* history: the newest `updated' a visitor was given

memory == <<fallback, updated>>
shared == <<cache, reach>>
loop == <<lookback, lastPoll, failures>>
vars == <<now, memory, shared, poll, loop, crashes, seen>>

Strikes == 0..MaxNow
Time == 0..MaxNow

Init ==
    /\ now = 0
    /\ fallback = {}
    /\ updated = None
    /\ cache = None
    /\ reach = "sound"
    /\ poll = [pc |-> "sleep", asked |-> None, answered |-> None, wake |-> 0]
    /\ lookback = retainWindow
    /\ lastPoll = None
    /\ failures = 0
    /\ crashes = 0
    /\ seen = None

-----------------------------------------------------------------------------
(* poll.                                                                    *)

Ask ==
    /\ poll.pc = "sleep"
    /\ poll.wake <= now
    /\ poll' = [poll EXCEPT !.pc = "fetch", !.asked = now, !.answered = None]
    /\ UNCHANGED <<now, memory, shared, loop, crashes, seen>>

(* FMI looks up what it answers with, as early or as late in the request as *)
(* it likes.                                                                *)
Answer ==
    /\ poll.pc = "fetch"
    /\ poll.answered = None
    /\ poll' = [poll EXCEPT !.answered = now]
    /\ UNCHANGED <<now, memory, shared, loop, crashes, seen>>

(* FMI's answer: what it had listed when it looked, for the window asked.   *)
fetchStrikes ==
    {s \in Strikes : /\ poll.asked - lookback <= s /\ s <= poll.asked
                     /\ s + PublishDelay <= poll.answered}

(* Mutant of Merged: the fresh strikes replace the retained ones.           *)
MergedReplace(fresh) == fresh

(* Merge's loop over both sets; a set has no duplicates to skip.            *)
Merged(fresh) == {s \in fallback \cup fresh : s >= poll.asked - retainWindow}

Reply ==
    /\ poll.pc = "fetch"
    /\ poll.answered # None
    /\ fallback' = Merged(fetchStrikes)
    /\ updated' = poll.asked
    /\ poll' = [poll EXCEPT !.pc = "publish"]
    /\ failures' = 0
    /\ UNCHANGED <<now, shared, lookback, lastPoll, crashes, seen>>

FetchFails ==
    /\ poll.pc = "fetch"
    /\ failures < MaxFailures
    /\ failures' = failures + 1
    /\ poll' = [poll EXCEPT !.pc = "sleep", !.wake = now + retryInterval]
    /\ UNCHANGED <<now, memory, shared, lookback, lastPoll, crashes, seen>>

(* Mutant of Entry: published without a TTL.                                *)
EntryForever == [strikes |-> fallback, updated |-> updated, expires |-> MaxNow]

Entry == [strikes |-> fallback, updated |-> updated, expires |-> now + strikesTTL]

(* SetValue, whose failure is logged only, and the loop's own bookkeeping.  *)
Publish ==
    /\ poll.pc = "publish"
    /\ cache' = IF reach = "failing" THEN cache ELSE Entry
    /\ lastPoll' = poll.asked
    /\ lookback' = pollLookback
    /\ poll' = [poll EXCEPT !.pc = "sleep", !.wake = now + pollInterval]
    /\ UNCHANGED <<now, memory, reach, failures, crashes, seen>>

-----------------------------------------------------------------------------
(* Get.                                                                     *)

FromCache ==
    IF reach # "failing" /\ cache # None /\ now <= cache.expires
    THEN {[strikes |-> cache.strikes, updated |-> cache.updated]} ELSE {}

FromMemory ==
    IF updated # None THEN {[strikes |-> fallback, updated |-> updated]} ELSE {}

(* Mutant of Get: memory is preferred to the cache.                         *)
GetMemoryFirst ==
    IF poll.pc = "down" THEN {} ELSE IF FromMemory = {} THEN FromCache ELSE FromMemory

(* The summary a visitor is answered with now; none is a 503.               *)
Get ==
    IF poll.pc = "down" THEN {} ELSE IF FromCache = {} THEN FromMemory ELSE FromCache

Visit ==
    /\ \E summary \in Get :
          seen' = IF seen = None \/ summary.updated > seen THEN summary.updated ELSE seen
    /\ UNCHANGED <<now, memory, shared, poll, loop, crashes>>

-----------------------------------------------------------------------------
(* The process ends between any two steps; a later one starts from nothing  *)
(* but what Redis holds.                                                    *)
Crash ==
    /\ poll.pc # "down"
    /\ crashes < MaxCrashes
    /\ crashes' = crashes + 1
    /\ fallback' = {}
    /\ updated' = None
    /\ cache' = IF Redis THEN cache ELSE None
    /\ poll' = [pc |-> "down", asked |-> None, answered |-> None, wake |-> 0]
    /\ lookback' = retainWindow
    /\ lastPoll' = None
    /\ failures' = 0
    /\ UNCHANGED <<now, reach, seen>>

Start ==
    /\ poll.pc = "down"
    /\ poll' = [poll EXCEPT !.pc = "sleep"]
    /\ UNCHANGED <<now, memory, shared, loop, crashes, seen>>

(* Redis stops answering, for as long as it likes, and comes back with or   *)
(* without what it held.                                                    *)
RedisFails ==
    /\ Redis /\ RedisCanFail
    /\ reach # "failing"
    /\ reach' = "failing"
    /\ UNCHANGED <<now, memory, cache, poll, loop, crashes, seen>>

RedisReturns ==
    /\ reach = "failing"
    /\ reach' = "back"
    /\ cache' \in {cache, None}
    /\ UNCHANGED <<now, memory, poll, loop, crashes, seen>>

(* Time passes, but the poller wakes when its timer fires, the client gives *)
(* up at its timeout, and publishing takes less than one unit.              *)
Tick ==
    /\ now < MaxNow
    /\ poll.pc = "sleep" => now < poll.wake
    /\ poll.pc = "fetch" => now < poll.asked + FetchTimeout
    /\ poll.pc # "publish"
    /\ now' = now + 1
    /\ UNCHANGED <<memory, shared, poll, loop, crashes, seen>>

Next == Ask \/ Answer \/ Reply \/ FetchFails \/ Publish \/ Visit \/ Crash \/ Start
        \/ RedisFails \/ RedisReturns \/ Tick

Spec == Init /\ [][Next]_vars

-----------------------------------------------------------------------------
(* Type correctness of the store, the cache entry and the poll loop.        *)
TypeOK ==
    /\ now \in Time
    /\ fallback \subseteq Strikes
    /\ updated \in Time \cup {None}
    /\ cache = None \/ (/\ cache.strikes \subseteq Strikes /\ cache.updated \in Time
                        /\ cache.expires \in Nat)
    /\ reach \in {"sound", "failing", "back"}
    /\ poll \in [pc : {"sleep", "fetch", "publish", "down"}, asked : Time \cup {None},
                 answered : Time \cup {None}, wake : Nat]
    /\ lookback \in {pollLookback, retainWindow}
    /\ lastPoll \in Time \cup {None}
    /\ failures \in 0..MaxFailures
    /\ crashes \in 0..MaxCrashes
    /\ seen \in Time \cup {None}

(* No outage outlasts the lookback: what FMI had not listed when it looked  *)
(* for an answer is still in the window of the next request it answers,     *)
(* which leaves a slow transfer, an interval and the failures later.        *)
OutageWithinLookback ==
    PublishDelay + FetchTimeout + pollInterval + MaxFailures * (retryInterval + FetchTimeout)
        <= pollLookback

(* The overlap of the polls does its work: once a poll has succeeded, the   *)
(* retained set holds every strike FMI had listed when it was asked and the *)
(* window still covers, however early in a slow request FMI looked, through *)
(* failed ones and restarts, as long as no outage outlasts the lookback.    *)
NothingMissed ==
    OutageWithinLookback /\ updated # None =>
        \A s \in Strikes :
            s + PublishDelay <= updated /\ s >= updated - retainWindow => s \in fallback

(* Time never runs backwards for a visitor: no answer is older than one     *)
(* given before, through expiry, restarts and the gap between writing       *)
(* memory and writing the cache. (Redis coming back with an old entry does  *)
(* take a visitor back: the property is about a cache that never failed.)   *)
NeverBackInTime ==
    reach = "sound" => \A summary \in Get : seen # None => summary.updated >= seen

(* A mode that reports healthy does not show an old map, whatever the cache *)
(* fails to write or to read: an answer outlives its poll by no more than   *)
(* the TTL and the request that preceded it, or the silence Health allows.  *)
HealthHonest ==
    lastPoll # None /\ now - lastPoll <= healthyAge =>
        \A summary \in Get :
            \/ now - summary.updated <= strikesTTL + FetchTimeout
            \/ now - summary.updated <= healthyAge
=============================================================================
