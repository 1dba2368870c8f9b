------------------------- MODULE ObservationStoreProofs -------------------------
(***************************************************************************)
(* Theorems about the observation mode, for any stations, intervals and    *)
(* bounds, with a shared cache of either kind, failing or not.             *)
(***************************************************************************)
EXTENDS ObservationStore, TLAPS

USE TimeAssumption, BoundAssumption, NoneAssumption

PollState == [pc : {"sleep", "fetch", "publish", "down"}, asked : Time, wake : Nat]
VisitState == [pc : {"idle", "fallback"}, list : Snapshots \cup {None}, detail : Answers \cup {None}]

(* Memory is newer than the published list and the list a visitor has, and  *)
(* a request in flight is newer than all three.                             *)
Order ==
    /\ memory # None /\ cache # None => cache.at <= memory.at
    /\ memory # None /\ visit.list # None => visit.list.at <= memory.at
    /\ poll.pc = "fetch" =>
          /\ memory # None => memory.at <= poll.asked
          /\ cache # None => cache.at <= poll.asked
          /\ visit.list # None => visit.list.at <= poll.asked
    /\ memory # None => memory.at <= now
    /\ cache # None => cache.at <= now
    /\ visit.list # None => visit.list.at <= now
    /\ poll.asked <= now
    /\ poll.pc = "publish" => memory # None /\ memory.at = poll.asked

AnswersInv == TypeOK /\ Order /\ DetailNotOlderThanList /\ ListMatchesDetails

(***************************************************************************)
(* Helpers.                                                                *)
(***************************************************************************)

LEMMA NoneIsNoSnapshot == None \notin Snapshots
BY DEF Snapshots, Time

LEMMA PublishedTyped ==
    ASSUME TypeOK, memory # None, NEW next,
           next = [stations |-> memory.stations, at |-> poll.asked, expires |-> now + stationsTTL]
    PROVE  next \in [stations : SUBSET Stations, at : Time, expires : Nat]
<1>1. now + stationsTTL \in Nat
    BY DEF TypeOK, Time
<1>2. memory.stations \in SUBSET Stations /\ poll.asked \in Time
    BY DEF TypeOK, Snapshots
<1> QED  BY <1>1, <1>2

(* What is shown of an entry or of memory is a snapshot of its poll.        *)
LEMMA ShownTyped ==
    ASSUME NEW snap, snap.stations \in SUBSET Stations, snap.at \in Time
    PROVE  Shown(snap) \in Snapshots /\ Shown(snap).at = snap.at /\ Shown(snap) # None
<1>1. Shown(snap) \in Snapshots /\ Shown(snap).at = snap.at
    BY DEF Shown, Snapshots
<1> QED  BY <1>1, NoneIsNoSnapshot

LEMMA StationTyped ==
    ASSUME TypeOK, NEW id \in Stations
    PROVE  /\ Station(id) \in Answers
           /\ Station(id).status = "ok" => memory # None /\ Station(id).at = memory.at
BY DEF TypeOK, Station, Answers, Snapshots, Time

(***************************************************************************)
(* Each step.                                                              *)
(***************************************************************************)

LEMMA AnswersInit == Init => AnswersInv
BY DEF Init, AnswersInv, TypeOK, Order, DetailNotOlderThanList, ListMatchesDetails, Time

LEMMA TypeStep ==
    ASSUME TypeOK, Order, [Next]_vars
    PROVE  TypeOK'
<1>0. poll \in PollState /\ visit \in VisitState /\ now \in Nat
    BY DEF TypeOK, PollState, VisitState, Time
<1>1. CASE Ask
    <2>1. poll' \in PollState
        BY <1>0, <1>1 DEF Ask, PollState, TypeOK
    <2> QED  BY <1>1, <2>1 DEF Ask, TypeOK, PollState
<1>2. CASE FetchFails
    <2>1. now + retryInterval \in Nat
        BY <1>0
    <2>2. poll' \in PollState
        BY <1>0, <1>2, <2>1 DEF FetchFails, PollState
    <2>3. failures' \in 0..MaxFailures
        BY <1>2 DEF FetchFails, TypeOK
    <2> QED  BY <1>2, <2>2, <2>3 DEF FetchFails, TypeOK, PollState
<1>3. CASE Set
    <2>1. memory' \in Snapshots
        BY <1>0, <1>3 DEF Set, Snapshots, PollState
    <2>2. poll' \in PollState
        BY <1>0, <1>3 DEF Set, PollState
    <2> QED  BY <1>3, <2>1, <2>2 DEF Set, TypeOK, PollState
<1>4. CASE Publish
    <2>1. cache' = cache \/ cache' \in [stations : SUBSET Stations, at : Time, expires : Nat]
        BY <1>4, PublishedTyped DEF Publish, Order
    <2>2. now + pollInterval \in Nat
        BY <1>0
    <2>3. poll' \in PollState
        BY <1>0, <1>4, <2>2 DEF Publish, PollState
    <2> QED  BY <1>4, <2>1, <2>3 DEF Publish, TypeOK, PollState
<1>5. CASE ListStations
    <2>1. Cached => Shown(cache) \in Snapshots
        BY ShownTyped DEF TypeOK, Cached
    <2>2. visit' \in VisitState
        BY <1>0, <1>5, <2>1 DEF ListStations, VisitState
    <2> QED  BY <1>5, <2>2 DEF ListStations, TypeOK, VisitState
<1>6. CASE ListFallback
    <2>1. memory # None => Shown(memory) \in Snapshots
        BY ShownTyped DEF TypeOK, Snapshots
    <2>2. visit' \in VisitState
        BY <1>0, <1>6, <2>1 DEF ListFallback, VisitState
    <2> QED  BY <1>6, <2>2 DEF ListFallback, TypeOK, VisitState
<1>7. CASE OpenStation
    <2>1. PICK id \in visit.list.stations : visit' = [visit EXCEPT !.detail = Station(id)]
        BY <1>7 DEF OpenStation
    <2>2. id \in Stations
        BY <1>0, <1>7, <2>1 DEF OpenStation, VisitState, Snapshots
    <2>3. visit' \in VisitState
        BY <1>0, <2>1, <2>2, StationTyped DEF VisitState
    <2> QED  BY <1>7, <2>3 DEF OpenStation, TypeOK, VisitState
<1>8. CASE Crash
    <2>1. poll' \in PollState /\ visit' \in VisitState
        BY <1>0, <1>8 DEF Crash, PollState, VisitState
    <2> QED  BY <1>8, <2>1 DEF Crash, TypeOK, PollState, VisitState
<1>9. CASE Start
    <2>1. poll' \in PollState
        BY <1>0, <1>9 DEF Start, PollState
    <2> QED  BY <1>9, <2>1 DEF Start, TypeOK, PollState
<1>10. CASE RedisFails \/ RedisReturns
    BY <1>10 DEF RedisFails, RedisReturns, TypeOK
<1>11. CASE Tick
    BY <1>11 DEF Tick, TypeOK, Time
<1>12. CASE UNCHANGED vars
    BY <1>12 DEF vars, TypeOK
<1> QED
    BY <1>1, <1>2, <1>3, <1>4, <1>5, <1>6, <1>7, <1>8, <1>9, <1>10, <1>11, <1>12 DEF Next

LEMMA AnswersStep == AnswersInv /\ [Next]_vars => AnswersInv'
<1> SUFFICES ASSUME AnswersInv, [Next]_vars PROVE AnswersInv'
    OBVIOUS
<1>t. TypeOK /\ Order /\ DetailNotOlderThanList /\ ListMatchesDetails
    BY DEF AnswersInv
<1>u. TypeOK'
    BY <1>t, TypeStep
<1> SUFFICES Order' /\ DetailNotOlderThanList' /\ ListMatchesDetails'
    BY <1>u DEF AnswersInv
<1>n. /\ now \in Nat /\ poll.asked \in Nat
      /\ memory # None => memory.at \in Nat
      /\ cache # None => cache.at \in Nat
      /\ visit.list # None => visit.list.at \in Nat
    BY <1>t DEF TypeOK, Snapshots, Time
<1>1. CASE Ask
    <2>1. poll'.pc = "fetch" /\ poll'.asked = now /\ poll.pc = "sleep"
        BY <1>1, <1>t DEF Ask, TypeOK
    <2> QED
        BY <1>1, <1>t, <1>n, <2>1 DEF Ask, Order, DetailNotOlderThanList, ListMatchesDetails, Cached
<1>2. CASE FetchFails
    <2>1. poll'.pc = "sleep" /\ poll'.asked = poll.asked /\ poll.pc = "fetch"
        BY <1>2, <1>t DEF FetchFails, TypeOK
    <2> QED
        BY <1>2, <1>t, <2>1 DEF FetchFails, Order, DetailNotOlderThanList, ListMatchesDetails, Cached
<1>3. CASE Set
    <2>1. poll'.pc = "publish" /\ poll'.asked = poll.asked /\ poll.pc = "fetch"
        BY <1>3, <1>t DEF Set, TypeOK
    <2>2. memory'.at = poll.asked /\ memory' # None
        <3>1. PICK heard \in SUBSET Stations : memory' = [stations |-> heard, at |-> poll.asked]
            BY <1>3 DEF Set
        <3>2. memory' \in Snapshots
            BY <1>t, <3>1 DEF Snapshots, TypeOK
        <3> QED  BY <3>1, <3>2, NoneIsNoSnapshot
    <2> QED
        BY <1>3, <1>t, <1>n, <2>1, <2>2 DEF Set, Order, DetailNotOlderThanList, ListMatchesDetails
<1>4. CASE Publish
    <2>1. poll'.pc = "sleep" /\ poll'.asked = poll.asked /\ poll.pc = "publish"
        BY <1>4, <1>t DEF Publish, TypeOK
    <2>2. memory # None /\ memory.at = poll.asked /\ memory' = memory
        BY <1>4, <1>t, <2>1 DEF Publish, Order
    <2>3. CASE reach = "failing"
        BY <1>4, <1>t, <2>1, <2>2, <2>3
        DEF Publish, Order, DetailNotOlderThanList, ListMatchesDetails
    <2>4. CASE reach # "failing"
        <3>1. /\ cache'.at = poll.asked /\ cache'.stations = memory.stations
            BY <1>4, <2>4 DEF Publish
        <3>2. Shown(cache') = memory
            BY <1>t, <2>2, <3>1 DEF Shown, TypeOK, Snapshots
        <3> QED
            BY <1>4, <1>t, <1>n, <2>1, <2>2, <3>1, <3>2
            DEF Publish, Order, DetailNotOlderThanList, ListMatchesDetails
    <2> QED  BY <2>3, <2>4
<1>5. CASE ListStations
    <2>1. CASE Cached
        <3>1. visit'.list = Shown(cache) /\ visit'.detail = None
            BY <1>5, <1>t, <2>1 DEF ListStations, TypeOK
        <3>2. Shown(cache).at = cache.at /\ cache # None
            BY <2>1 DEF Shown, Cached
        <3> QED
            BY <1>5, <1>t, <3>1, <3>2
            DEF ListStations, Order, DetailNotOlderThanList, ListMatchesDetails, Cached
    <2>2. CASE ~Cached
        <3>1. visit'.list = visit.list /\ visit'.detail = visit.detail
            BY <1>5, <1>t, <2>2 DEF ListStations, TypeOK
        <3> QED
            BY <1>5, <1>t, <3>1
            DEF ListStations, Order, DetailNotOlderThanList, ListMatchesDetails, Cached
    <2> QED  BY <2>1, <2>2
<1>6. CASE ListFallback
    <2>1. CASE memory # None
        <3>1. visit'.list = Shown(memory) /\ visit'.detail = None
            BY <1>6, <2>1 DEF ListFallback
        <3>2. Shown(memory).at = memory.at
            BY DEF Shown
        <3> QED
            BY <1>6, <1>t, <1>n, <2>1, <3>1, <3>2
            DEF ListFallback, Order, DetailNotOlderThanList, ListMatchesDetails, Cached
    <2>2. CASE memory = None
        <3>1. visit'.list = visit.list /\ visit'.detail = visit.detail
            BY <1>6, <1>t, <2>2 DEF ListFallback, TypeOK
        <3> QED
            BY <1>6, <1>t, <3>1
            DEF ListFallback, Order, DetailNotOlderThanList, ListMatchesDetails, Cached
    <2> QED  BY <2>1, <2>2
<1>7. CASE OpenStation
    <2>1. PICK id \in visit.list.stations : visit' = [visit EXCEPT !.detail = Station(id)]
        BY <1>7 DEF OpenStation
    <2>2. id \in Stations /\ visit.list # None
        BY <1>7, <1>t, <2>1 DEF OpenStation, TypeOK, Snapshots
    <2>3. visit'.list = visit.list /\ visit'.detail = Station(id)
        BY <1>t, <2>1 DEF TypeOK
    <2>4. visit'.detail.status = "ok" => visit'.detail.at >= visit'.list.at
        BY <1>t, <1>n, <2>2, <2>3, StationTyped DEF Order
    <2> QED
        BY <1>7, <1>t, <2>3, <2>4
        DEF OpenStation, Order, DetailNotOlderThanList, ListMatchesDetails, Cached
<1>8. CASE Crash
    <2>1. /\ poll'.pc = "down" /\ poll'.asked = poll.asked
          /\ visit'.list = visit.list /\ visit'.detail = visit.detail
        BY <1>8, <1>t DEF Crash, TypeOK
    <2> QED
        BY <1>8, <1>t, <2>1 DEF Crash, Order, DetailNotOlderThanList, ListMatchesDetails
<1>9. CASE Start
    <2>1. poll'.pc = "sleep" /\ poll'.asked = poll.asked /\ poll.pc = "down"
        BY <1>9, <1>t DEF Start, TypeOK
    <2> QED
        BY <1>9, <1>t, <2>1 DEF Start, Order, DetailNotOlderThanList, ListMatchesDetails, Cached
<1>10. CASE RedisFails
    BY <1>10, <1>t DEF RedisFails, Order, DetailNotOlderThanList, ListMatchesDetails
<1>11. CASE RedisReturns
    BY <1>11, <1>t DEF RedisReturns, Order, DetailNotOlderThanList, ListMatchesDetails
<1>12. CASE Tick
    <2>1. Cached' => Cached
        <3>1. cache # None => cache.expires \in Nat
            BY <1>t DEF TypeOK
        <3> QED  BY <1>12, <1>n, <3>1 DEF Tick, Cached
    <2> QED
        BY <1>12, <1>t, <1>n, <2>1 DEF Tick, Order, DetailNotOlderThanList, ListMatchesDetails
<1>13. CASE UNCHANGED vars
    BY <1>13, <1>t DEF vars, Order, DetailNotOlderThanList, ListMatchesDetails, Cached
<1> QED
    BY <1>1, <1>2, <1>3, <1>4, <1>5, <1>6, <1>7, <1>8, <1>9, <1>10, <1>11, <1>12, <1>13 DEF Next

(***************************************************************************)
(* The theorems.                                                           *)
(***************************************************************************)

(* The store, the published list, the poll loop and the visitor keep their  *)
(* types.                                                                   *)
THEOREM TypeCorrect == Spec => []TypeOK
<1>1. AnswersInv => TypeOK
    BY DEF AnswersInv
<1> QED  BY <1>1, AnswersInit, AnswersStep, PTL DEF Spec

(* However long lists outlive the process in Redis, a station opens on      *)
(* readings no older than the list it was picked from (havainnot/store.go). *)
THEOREM DetailsRecent == Spec => []DetailNotOlderThanList
<1>1. AnswersInv => DetailNotOlderThanList
    BY DEF AnswersInv
<1> QED  BY <1>1, AnswersInit, AnswersStep, PTL DEF Spec

(* Between the polls of a process whose shared cache never failed, the      *)
(* published list and the details are of one poll.                          *)
THEOREM ListAndDetailsAgree == Spec => []ListMatchesDetails
<1>1. AnswersInv => ListMatchesDetails
    BY DEF AnswersInv
<1> QED  BY <1>1, AnswersInit, AnswersStep, PTL DEF Spec
=================================================================================
