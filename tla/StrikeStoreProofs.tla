--------------------------- MODULE StrikeStoreProofs ---------------------------
(***************************************************************************)
(* Theorems about the lightning mode, for any intervals, windows, delays   *)
(* and bounds, with a shared cache of either kind, failing or not.         *)
(***************************************************************************)
EXTENDS StrikeStore, TLAPS

USE TimeAssumption, BoundAssumption, NoneAssumption

(* When things happened: nothing is of the future, a request is not older   *)
(* than its timeout, and what is being published is what memory holds.      *)
Clock ==
    /\ updated # None => updated <= now
    /\ cache # None => cache.updated <= now
    /\ seen # None => seen <= now
    /\ poll.pc \in {"fetch", "publish"} =>
          poll.asked \in Time /\ poll.asked <= now /\ now <= poll.asked + FetchTimeout
    /\ poll.pc = "fetch" /\ poll.answered # None => poll.asked <= poll.answered
    /\ poll.pc = "publish" => updated = poll.asked

(* What is newer than what: memory than the published entry and than any    *)
(* answer, a request in flight than all of them, and a published entry that *)
(* still counts than any answer, as long as the cache never failed.         *)
Order ==
    /\ updated # None /\ cache # None => cache.updated <= updated
    /\ updated # None /\ seen # None => seen <= updated
    /\ poll.pc = "fetch" =>
          /\ updated # None => updated <= poll.asked
          /\ cache # None => cache.updated <= poll.asked
          /\ seen # None => seen <= poll.asked
    /\ reach = "sound" /\ cache # None /\ now <= cache.expires /\ seen # None =>
          seen <= cache.updated

(* How old an answer can be: an entry is published within a timeout of its  *)
(* poll, and memory is never older than the last poll Health knows of.      *)
Freshness ==
    /\ cache # None => cache.expires <= cache.updated + FetchTimeout + strikesTTL
    /\ lastPoll # None => updated # None /\ lastPoll <= updated

AnswersInv == TypeOK /\ Clock /\ Order /\ Freshness

(***************************************************************************)
(* Type correctness.                                                       *)
(***************************************************************************)

LEMMA AnswersInit == Init => AnswersInv
BY DEF Init, AnswersInv, TypeOK, Clock, Order, Freshness, Time, Strikes

(* An answer is the live entry or, without one, what memory holds.          *)
LEMMA AnswersFrom ==
    ASSUME TypeOK, NEW summary \in Get
    PROVE  /\ summary.updated \in Time
           /\ \/ /\ reach # "failing" /\ cache # None /\ now <= cache.expires
                 /\ summary.updated = cache.updated
              \/ /\ ~(reach # "failing" /\ cache # None /\ now <= cache.expires)
                 /\ updated # None /\ summary.updated = updated
<1>1. CASE reach # "failing" /\ cache # None /\ now <= cache.expires
    <2>1. summary = [strikes |-> cache.strikes, updated |-> cache.updated]
        BY <1>1 DEF Get, FromCache
    <2> QED  BY <1>1, <2>1 DEF TypeOK
<1>2. CASE ~(reach # "failing" /\ cache # None /\ now <= cache.expires)
    <2>1. summary \in FromMemory
        BY <1>2 DEF Get, FromCache
    <2>2. updated # None /\ summary = [strikes |-> fallback, updated |-> updated]
        BY <2>1 DEF FromMemory
    <2> QED  BY <1>2, <2>2 DEF TypeOK
<1> QED  BY <1>1, <1>2

LEMMA EntryTyped ==
    ASSUME TypeOK, updated \in Time
    PROVE  /\ Entry.strikes \subseteq Strikes /\ Entry.updated = updated
           /\ Entry.expires = now + strikesTTL /\ Entry.expires \in Nat
<1>1. Entry = [strikes |-> fallback, updated |-> updated, expires |-> now + strikesTTL]
    BY DEF Entry
<1>2. now + strikesTTL \in Nat
    BY DEF TypeOK, Time
<1> QED  BY <1>1, <1>2 DEF TypeOK

LEMMA TypeStep ==
    ASSUME TypeOK, Clock, [Next]_vars
    PROVE  TypeOK'
<1> USE DEF Time, memory, shared, loop, TypeOK
<1>1. CASE Ask
    BY <1>1 DEF Ask
<1>0. CASE Answer
    BY <1>0 DEF Answer
<1>2. CASE Reply
    <2>1. Merged(fetchStrikes) \subseteq Strikes
        BY DEF fetchStrikes, Merged
    <2> QED  BY <1>2, <2>1 DEF Reply
<1>3. CASE FetchFails
    <2>1. poll' \in [pc : {"sleep", "fetch", "publish", "down"}, asked : Time \cup {None},
                       answered : Time \cup {None}, wake : Nat]
        <3>1. now + retryInterval \in Nat
            OBVIOUS
        <3>2. poll' = [poll EXCEPT !.pc = "sleep", !.wake = now + retryInterval]
            BY <1>3 DEF FetchFails
        <3> HIDE DEF Time
        <3> QED  BY <3>1, <3>2
    <2>2. failures' \in 0..MaxFailures
        BY <1>3 DEF FetchFails
    <2> QED  BY <1>3, <2>1, <2>2 DEF FetchFails
<1>4. CASE Publish
    <2>1. updated \in Time
        BY <1>4 DEF Publish, Clock
    <2>2. poll' \in [pc : {"sleep", "fetch", "publish", "down"}, asked : Time \cup {None},
                       answered : Time \cup {None}, wake : Nat]
        <3>1. now + pollInterval \in Nat
            OBVIOUS
        <3>2. poll' = [poll EXCEPT !.pc = "sleep", !.wake = now + pollInterval]
            BY <1>4 DEF Publish
        <3> HIDE DEF Time
        <3> QED  BY <3>1, <3>2
    <2>3. lastPoll' \in Time
        BY <1>4 DEF Publish, Clock
    <2> QED  BY <1>4, <2>1, <2>2, <2>3, EntryTyped DEF Publish
<1>5. CASE Visit
    BY <1>5, AnswersFrom DEF Visit
<1>6. CASE Crash
    BY <1>6 DEF Crash
<1>7. CASE Start
    BY <1>7 DEF Start
<1>8. CASE RedisFails \/ RedisReturns
    BY <1>8 DEF RedisFails, RedisReturns
<1>9. CASE Tick
    BY <1>9 DEF Tick
<1>10. CASE UNCHANGED vars
    BY <1>10 DEF vars
<1> QED  BY <1>0, <1>1, <1>2, <1>3, <1>4, <1>5, <1>6, <1>7, <1>8, <1>9, <1>10 DEF Next

(***************************************************************************)
(* The age and order of answers.                                           *)
(***************************************************************************)

LEMMA AnswersStep == AnswersInv /\ [Next]_vars => AnswersInv'
<1> SUFFICES ASSUME AnswersInv, [Next]_vars PROVE AnswersInv'
    OBVIOUS
<1>t. TypeOK /\ Clock /\ Order /\ Freshness
    BY DEF AnswersInv
<1>u. TypeOK'
    BY <1>t, TypeStep
<1> SUFFICES Clock' /\ Order' /\ Freshness'
    BY <1>u DEF AnswersInv
<1> USE <1>t DEF memory, shared, loop, TypeOK, Clock, Order, Freshness, Time
<1>1. CASE Ask
    <2>1. poll'.pc = "fetch" /\ poll'.asked = now
        BY <1>1 DEF Ask
    <2> QED  BY <1>1, <2>1 DEF Ask
<1>0. CASE Answer
    <2>1. poll'.pc = "fetch" /\ poll'.asked = poll.asked /\ poll.pc = "fetch" /\ poll'.answered = now
        BY <1>0 DEF Answer
    <2> QED  BY <1>0, <2>1 DEF Answer
<1>2. CASE Reply
    <2>1. poll'.pc = "publish" /\ poll'.asked = poll.asked
        BY <1>2 DEF Reply
    <2> QED  BY <1>2, <2>1 DEF Reply
<1>3. CASE FetchFails
    <2>1. poll'.pc = "sleep"
        BY <1>3 DEF FetchFails
    <2> QED  BY <1>3, <2>1 DEF FetchFails
<1>4. CASE Publish
    <2>1. updated \in Time /\ updated = poll.asked /\ now <= updated + FetchTimeout
        BY <1>4 DEF Publish
    <2>2. poll'.pc = "sleep"
        BY <1>4 DEF Publish
    <2>3. CASE reach = "failing"
        BY <1>4, <2>1, <2>2, <2>3 DEF Publish
    <2>4. CASE reach # "failing"
        <3>1. cache'.updated = updated /\ cache'.expires = now + strikesTTL
            BY <1>4, <2>1, <2>4, EntryTyped DEF Publish
        <3> QED  BY <1>4, <2>1, <2>2, <3>1 DEF Publish
    <2> QED  BY <2>3, <2>4
<1>5. CASE Visit
    <2>1. PICK summary \in Get :
              seen' = IF seen = None \/ summary.updated > seen THEN summary.updated ELSE seen
        BY <1>5 DEF Visit
    <2>2. UNCHANGED <<now, memory, shared, poll, loop, crashes>>
        BY <1>5 DEF Visit
    <2> QED  BY <2>1, <2>2, AnswersFrom
<1>6. CASE Crash
    <2>1. poll'.pc = "down"
        BY <1>6 DEF Crash
    <2> QED  BY <1>6, <2>1 DEF Crash
<1>7. CASE Start
    <2>1. poll'.pc = "sleep"
        BY <1>7 DEF Start
    <2> QED  BY <1>7, <2>1 DEF Start
<1>8. CASE RedisFails \/ RedisReturns
    BY <1>8 DEF RedisFails, RedisReturns
<1>9. CASE Tick
    BY <1>9 DEF Tick
<1>10. CASE UNCHANGED vars
    BY <1>10 DEF vars
<1> QED  BY <1>0, <1>1, <1>2, <1>3, <1>4, <1>5, <1>6, <1>7, <1>8, <1>9, <1>10 DEF Next

(* Memory, the cache entry, the poll loop and the visitor keep their types. *)
THEOREM TypeCorrect == Spec => []TypeOK
<1>1. AnswersInv => TypeOK
    BY DEF AnswersInv
<1> QED  BY <1>1, AnswersInit, AnswersStep, PTL DEF Spec

(* No visitor is answered with strikes older than an answer given before,   *)
(* for as long as the shared cache has not failed: across expiry, restarts  *)
(* and the gap between Merge's two writes (salama/store.go).                *)
THEOREM NeverBack == Spec => []NeverBackInTime
<1>1. AnswersInv => NeverBackInTime
    <2> SUFFICES ASSUME AnswersInv, reach = "sound", seen # None, NEW summary \in Get
                 PROVE  summary.updated >= seen
        BY DEF NeverBackInTime
    <2> QED  BY AnswersFrom DEF AnswersInv, TypeOK, Order, Time
<1> QED  BY <1>1, AnswersInit, AnswersStep, PTL DEF Spec

(* While Health says the mode is healthy, no answer is older than the TTL   *)
(* and one request, or the silence Health allows.                           *)
THEOREM HealthyMeansRecent == Spec => []HealthHonest
<1>1. AnswersInv => HealthHonest
    <2> SUFFICES ASSUME AnswersInv, lastPoll # None, now - lastPoll <= healthyAge,
                        NEW summary \in Get
                 PROVE  \/ now - summary.updated <= strikesTTL + FetchTimeout
                        \/ now - summary.updated <= healthyAge
        BY DEF HealthHonest
    <2> QED  BY AnswersFrom DEF AnswersInv, TypeOK, Freshness, Time
<1> QED  BY <1>1, AnswersInit, AnswersStep, PTL DEF Spec

(***************************************************************************)
(* No strike is missed.                                                    *)
(***************************************************************************)

(* What the failures in a row have cost at most.                            *)
Spent == failures * (retryInterval + FetchTimeout)

(* How far behind the loop can be, and what memory holds then.              *)
Coverage ==
    /\ updated = None => lookback = retainWindow
    /\ poll.pc = "publish" => failures = 0
    /\ updated # None =>
          /\ poll.pc # "down"
          /\ \A s \in Strikes :
                s + PublishDelay <= updated /\ s >= updated - retainWindow => s \in fallback
          /\ poll.pc = "sleep" =>
                /\ lookback = pollLookback /\ now <= poll.wake
                /\ poll.wake <= updated + FetchTimeout + pollInterval + Spent
          /\ poll.pc = "fetch" =>
                /\ lookback = pollLookback
                /\ poll.asked <= updated + FetchTimeout + pollInterval + Spent

LEMMA Distributes ==
    ASSUME NEW a \in Nat, NEW b \in Nat, NEW c \in Nat
    PROVE  (a + b) * c = a * c + b * c
OBVIOUS

LEMMA SpentBounded ==
    ASSUME TypeOK
    PROVE  Spent \in Nat /\ Spent <= MaxFailures * (retryInterval + FetchTimeout)
<1> DEFINE K == retryInterval + FetchTimeout
<1>1. failures \in Nat /\ MaxFailures - failures \in Nat /\ K \in Nat
    BY DEF TypeOK
<1>2. failures * K \in Nat /\ (MaxFailures - failures) * K \in Nat
    BY <1>1
<1>3. (failures + (MaxFailures - failures)) * K = failures * K + (MaxFailures - failures) * K
    BY <1>1, Distributes
<1>4. failures + (MaxFailures - failures) = MaxFailures
    BY <1>1
<1> QED  BY <1>2, <1>3, <1>4 DEF Spent

LEMMA SpentOnFailure ==
    ASSUME TypeOK, failures' = failures + 1
    PROVE  Spent' = Spent + retryInterval + FetchTimeout
<1>1. failures \in Nat /\ retryInterval + FetchTimeout \in Nat
    BY DEF TypeOK
<1>2. (failures + 1) * (retryInterval + FetchTimeout)
        = failures * (retryInterval + FetchTimeout) + 1 * (retryInterval + FetchTimeout)
    BY <1>1, Distributes
<1>3. failures * (retryInterval + FetchTimeout) \in Nat
    BY <1>1
<1> QED  BY <1>1, <1>2, <1>3 DEF Spent

LEMMA SpentNothing ==
    ASSUME failures = 0 PROVE Spent = 0
BY DEF Spent

(* The answer: what the request did not ask for was asked for before, and   *)
(* listed by then.                                                          *)
LEMMA RetainedByReply ==
    ASSUME AnswersInv, OutageWithinLookback, Coverage, Reply,
           NEW s \in Strikes,
           s + PublishDelay <= poll.asked, s >= poll.asked - retainWindow
    PROVE  s \in fallback'
<1>1. s \in Nat /\ poll.asked \in Nat /\ poll.pc = "fetch"
      /\ poll.answered \in Nat /\ poll.asked <= poll.answered
    BY DEF AnswersInv, TypeOK, Clock, Reply, Strikes, Time
<1>2. fallback' = {t \in fallback \cup fetchStrikes : t >= poll.asked - retainWindow}
    BY DEF Reply, Merged
<1>3. CASE s >= poll.asked - lookback
    <2>1. lookback \in Nat
        BY DEF AnswersInv, TypeOK
    <2>2. s \in fetchStrikes
        BY <1>1, <1>3, <2>1 DEF fetchStrikes
    <2> QED  BY <1>2, <2>2
<1>4. CASE ~(s >= poll.asked - lookback)
    <2>1. updated # None /\ lookback = pollLookback
        BY <1>1, <1>4 DEF Coverage
    <2>2. updated \in Nat /\ updated <= poll.asked
        BY <1>1, <2>1 DEF AnswersInv, TypeOK, Order, Time
    <2>3. Spent \in Nat /\ Spent <= MaxFailures * (retryInterval + FetchTimeout)
        BY SpentBounded DEF AnswersInv
    <2>4. MaxFailures * (retryInterval + FetchTimeout) \in Nat
        OBVIOUS
    <2>5. PublishDelay + FetchTimeout + pollInterval + Spent <= pollLookback
        BY <2>3, <2>4 DEF OutageWithinLookback
    <2>6. poll.asked <= updated + FetchTimeout + pollInterval + Spent
        BY <1>1, <2>1 DEF Coverage
    <2>7. s + PublishDelay <= updated /\ s >= updated - retainWindow
        BY <1>1, <1>4, <2>1, <2>2, <2>3, <2>5, <2>6
    <2>8. s \in fallback
        BY <2>1, <2>7 DEF Coverage
    <2> QED  BY <1>2, <2>8
<1> QED  BY <1>3, <1>4

LEMMA CoverageInit == Init => Coverage
BY DEF Init, Coverage

LEMMA CoverageStep ==
    ASSUME AnswersInv, OutageWithinLookback, Coverage, [Next]_vars
    PROVE  Coverage'
<1>t. TypeOK /\ Clock /\ Order
    BY DEF AnswersInv
<1>n. Spent \in Nat
    BY <1>t, SpentBounded
<1> USE <1>t DEF memory, shared, loop
<1>1. CASE Ask
    <2>1. poll'.pc = "fetch" /\ poll'.asked = now /\ poll.pc = "sleep" /\ poll.wake <= now
        BY <1>1 DEF Ask, TypeOK
    <2>2. UNCHANGED <<fallback, updated, lookback, failures, now>> /\ Spent' = Spent
        BY <1>1 DEF Ask, Spent
    <2>3. ASSUME updated # None PROVE poll.wake = now
        BY <2>1, <2>3 DEF Coverage, TypeOK, Time
    <2> QED  BY <2>1, <2>2, <2>3 DEF Coverage
<1>0. CASE Answer
    <2>1. poll'.pc = "fetch" /\ poll'.asked = poll.asked /\ poll.pc = "fetch"
        BY <1>0 DEF Answer, TypeOK
    <2>2. UNCHANGED <<fallback, updated, lookback, failures, now>> /\ Spent' = Spent
        BY <1>0 DEF Answer, Spent
    <2> QED  BY <2>1, <2>2 DEF Coverage
<1>2. CASE Reply
    <2>1. poll'.pc = "publish" /\ updated' = poll.asked /\ failures' = 0 /\ now' = now
        BY <1>2 DEF Reply, TypeOK
    <2>2. updated' # None
        BY <1>2, <2>1 DEF Reply, Clock, Time
    <2> QED  BY <1>2, <2>1, <2>2, RetainedByReply DEF Coverage
<1>3. CASE FetchFails
    <2>1. /\ poll'.pc = "sleep" /\ poll'.wake = now + retryInterval /\ poll.pc = "fetch"
          /\ failures' = failures + 1
          /\ UNCHANGED <<fallback, updated, lookback, now>>
        BY <1>3 DEF FetchFails, TypeOK
    <2>2. Spent' = Spent + retryInterval + FetchTimeout
        BY <2>1, SpentOnFailure
    <2>3. ASSUME updated # None
          PROVE  /\ now <= poll'.wake
                 /\ poll'.wake <= updated + FetchTimeout + pollInterval + Spent'
        <3>1. /\ poll.asked \in Nat /\ now \in Nat /\ updated \in Nat
              /\ now <= poll.asked + FetchTimeout
            BY <2>1, <2>3 DEF Clock, TypeOK, Time
        <3>2. poll.asked <= updated + FetchTimeout + pollInterval + Spent
            BY <2>1, <2>3 DEF Coverage
        <3> QED  BY <1>n, <2>1, <2>2, <3>1, <3>2
    <2> QED  BY <2>1, <2>3 DEF Coverage
<1>4. CASE Publish
    <2>1. /\ poll'.pc = "sleep" /\ poll'.wake = now + pollInterval /\ poll.pc = "publish"
          /\ lookback' = pollLookback
          /\ UNCHANGED <<fallback, updated, failures, now>>
        BY <1>4 DEF Publish, TypeOK
    <2>2. Spent' = 0 /\ updated \in Nat /\ updated # None /\ now \in Nat
          /\ updated <= now /\ now <= updated + FetchTimeout
        BY <2>1, SpentNothing DEF Coverage, Clock, TypeOK, Time, Spent
    <2> QED  BY <2>1, <2>2 DEF Coverage
<1>5. CASE Visit
    BY <1>5 DEF Visit, Coverage, Spent
<1>6. CASE Crash
    BY <1>6 DEF Crash, Coverage
<1>7. CASE Start
    <2>1. updated = None /\ UNCHANGED <<updated, lookback, failures>> /\ poll'.pc = "sleep"
        BY <1>7 DEF Start, Coverage, TypeOK
    <2> QED  BY <2>1 DEF Coverage
<1>8. CASE RedisFails \/ RedisReturns
    BY <1>8 DEF RedisFails, RedisReturns, Coverage, Spent
<1>9. CASE Tick
    <2>1. UNCHANGED <<fallback, updated, lookback, failures, poll>> /\ Spent' = Spent
        BY <1>9 DEF Tick, Spent
    <2>2. /\ poll.pc # "publish" /\ now \in Nat /\ now' = now + 1
          /\ poll.pc = "sleep" => now < poll.wake
        BY <1>9 DEF Tick, TypeOK, Time
    <2>3. poll.wake \in Nat
        BY DEF TypeOK
    <2> QED  BY <2>1, <2>2, <2>3 DEF Coverage
<1>10. CASE UNCHANGED vars
    BY <1>10 DEF vars, Coverage, Spent
<1> QED  BY <1>0, <1>1, <1>2, <1>3, <1>4, <1>5, <1>6, <1>7, <1>8, <1>9, <1>10 DEF Next

(* The overlap of the polls is enough: with intervals that satisfy          *)
(* OutageWithinLookback (the code's do for one failed request and a         *)
(* publication delay of up to 90 s), no strike FMI had listed when it was   *)
(* last asked is missing from the retained set, whenever in a request FMI   *)
(* looks and however long the answer takes to arrive.                       *)
THEOREM NoStrikeMissed == Spec => []NothingMissed
<1> DEFINE CoverInv == AnswersInv /\ (OutageWithinLookback => Coverage)
<1>1. Init => CoverInv
    BY AnswersInit, CoverageInit
<1>2. CoverInv /\ [Next]_vars => CoverInv'
    <2>1. OutageWithinLookback' = OutageWithinLookback
        BY DEF OutageWithinLookback
    <2> QED  BY <2>1, AnswersStep, CoverageStep
<1>3. CoverInv => NothingMissed
    BY DEF NothingMissed, Coverage
<1> QED  BY <1>1, <1>2, <1>3, PTL DEF Spec
================================================================================
