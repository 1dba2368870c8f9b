---------------------------- MODULE ObservationStore ----------------------------
(***************************************************************************)
(* The observation mode (havainnot/service.go, store.go, handlers.go): a   *)
(* poller that replaces the stations and their details in memory, then the *)
(* station list alone in the shared cache, and a visitor who is listed the *)
(* stations, from the cache first, and opens one, from memory only.        *)
(*                                                                         *)
(* A poll's stations are those Observations!assemble finds readings for;   *)
(* what they read is that of the poll, known by the time it asked.         *)
(***************************************************************************)
EXTENDS Integers, FiniteSets

CONSTANTS
    Stations,
    pollInterval, retryInterval, stationsTTL,
    FetchTimeout, \* the upstream client's timeout
    Redis,        \* FALSE when the shared cache is the in-memory one
    RedisCanFail, \* whether Redis may stop answering
    MaxFailures,  \* bound: requests that fail in a row
    MaxCrashes,   \* bound: process exits
    MaxNow,       \* bound: latest time
    None

ASSUME TimeAssumption ==
    pollInterval \in Nat /\ retryInterval \in Nat /\ stationsTTL \in Nat /\ FetchTimeout \in Nat
ASSUME BoundAssumption == MaxFailures \in Nat /\ MaxCrashes \in Nat /\ MaxNow \in Nat
ASSUME FlagAssumption == Redis \in BOOLEAN /\ RedisCanFail \in BOOLEAN
ASSUME NoneAssumption == None \notin Nat /\ None \notin [stations : SUBSET Stations, at : Nat]

VARIABLES
    now,
    memory,  \* the stations with a detail and the poll they are of; None is !haveData
    cache,   \* the published list and when it expires
    reach,   \* the shared cache: never failed, failing, or answering again
    poll,    \* the poll loop: what it does, when it asked, when it wakes
    failures, crashes,
    visit    \* the visitor: waiting for what, the list shown, the station opened

vars == <<now, memory, cache, reach, poll, failures, crashes, visit>>

Time == 0..MaxNow
Snapshots == [stations : SUBSET Stations, at : Time]
Answers == [status : {"ok"}, id : Stations, at : Time]
           \cup [status : {"unavailable", "not found"}, id : Stations, at : {None}]

Init ==
    /\ now = 0
    /\ memory = None
    /\ cache = None
    /\ reach = "sound"
    /\ poll = [pc |-> "sleep", asked |-> 0, wake |-> 0]
    /\ failures = 0 /\ crashes = 0
    /\ visit = [pc |-> "idle", list |-> None, detail |-> None]

-----------------------------------------------------------------------------
(* poll.                                                                    *)

Ask ==
    /\ poll.pc = "sleep"
    /\ poll.wake <= now
    /\ poll' = [poll EXCEPT !.pc = "fetch", !.asked = now]
    /\ UNCHANGED <<now, memory, cache, reach, failures, crashes, visit>>

FetchFails ==
    /\ poll.pc = "fetch"
    /\ failures < MaxFailures
    /\ failures' = failures + 1
    /\ poll' = [poll EXCEPT !.pc = "sleep", !.wake = now + retryInterval]
    /\ UNCHANGED <<now, memory, cache, reach, crashes, visit>>

(* Mutant of Set: memory is filled once, as a fallback for the cache.       *)
SetOnce ==
    /\ poll.pc = "fetch"
    /\ \E heard \in SUBSET Stations :
          memory' = IF memory = None THEN [stations |-> heard, at |-> poll.asked] ELSE memory
    /\ failures' = 0
    /\ poll' = [poll EXCEPT !.pc = "publish"]
    /\ UNCHANGED <<now, cache, reach, crashes, visit>>

(* The reply, and Set's critical section. FMI may list no station at all.   *)
Set ==
    /\ poll.pc = "fetch"
    /\ \E heard \in SUBSET Stations : memory' = [stations |-> heard, at |-> poll.asked]
    /\ failures' = 0
    /\ poll' = [poll EXCEPT !.pc = "publish"]
    /\ UNCHANGED <<now, cache, reach, crashes, visit>>

(* Mutant of Publish: an empty list is not worth publishing.                *)
PublishNonEmpty ==
    /\ poll.pc = "publish"
    /\ cache' = IF reach = "failing" \/ memory.stations = {} THEN cache
                ELSE [stations |-> memory.stations, at |-> poll.asked, expires |-> now + stationsTTL]
    /\ poll' = [poll EXCEPT !.pc = "sleep", !.wake = now + pollInterval]
    /\ UNCHANGED <<now, memory, reach, failures, crashes, visit>>

(* SetValue, whose failure is logged only, then the sleep.                  *)
Publish ==
    /\ poll.pc = "publish"
    /\ cache' = IF reach = "failing" THEN cache
                ELSE [stations |-> memory.stations, at |-> poll.asked, expires |-> now + stationsTTL]
    /\ poll' = [poll EXCEPT !.pc = "sleep", !.wake = now + pollInterval]
    /\ UNCHANGED <<now, memory, reach, failures, crashes, visit>>

-----------------------------------------------------------------------------
(* The visitor.                                                             *)

Cached == reach # "failing" /\ cache # None /\ now <= cache.expires

Shown(snap) == [stations |-> snap.stations, at |-> snap.at]

(* Snapshot's read of the cache; a miss goes on to memory.                  *)
ListStations ==
    /\ visit.pc = "idle" /\ poll.pc # "down"
    /\ visit' = IF Cached THEN [visit EXCEPT !.list = Shown(cache), !.detail = None]
                          ELSE [visit EXCEPT !.pc = "fallback"]
    /\ UNCHANGED <<now, memory, cache, reach, poll, failures, crashes>>

(* Its read of memory; none is a 503, and the list shown stays.             *)
ListFallback ==
    /\ visit.pc = "fallback"
    /\ visit' = IF memory # None THEN [pc |-> "idle", list |-> Shown(memory), detail |-> None]
                                 ELSE [visit EXCEPT !.pc = "idle"]
    /\ UNCHANGED <<now, memory, cache, reach, poll, failures, crashes>>

Count == IF memory = None THEN 0 ELSE Cardinality(memory.stations)

(* Station: a miss is a 503 while nothing is loaded, a 404 after that.      *)
Station(id) ==
    IF memory # None /\ id \in memory.stations THEN [status |-> "ok", id |-> id, at |-> memory.at]
    ELSE IF Count = 0 THEN [status |-> "unavailable", id |-> id, at |-> None]
    ELSE [status |-> "not found", id |-> id, at |-> None]

(* A station of the list is opened.                                         *)
OpenStation ==
    /\ visit.pc = "idle" /\ visit.list # None /\ poll.pc # "down"
    /\ \E id \in visit.list.stations : visit' = [visit EXCEPT !.detail = Station(id)]
    /\ UNCHANGED <<now, memory, cache, reach, poll, failures, crashes>>

-----------------------------------------------------------------------------
(* The process ends between any two steps; the visitor's page stays open.   *)
Crash ==
    /\ poll.pc # "down"
    /\ crashes < MaxCrashes
    /\ crashes' = crashes + 1
    /\ memory' = None
    /\ cache' = IF Redis THEN cache ELSE None
    /\ poll' = [poll EXCEPT !.pc = "down"]
    /\ failures' = 0
    /\ visit' = [visit EXCEPT !.pc = "idle"]
    /\ UNCHANGED <<now, reach>>

Start ==
    /\ poll.pc = "down"
    /\ poll' = [poll EXCEPT !.pc = "sleep", !.wake = now]
    /\ UNCHANGED <<now, memory, cache, reach, failures, crashes, visit>>

RedisFails ==
    /\ Redis /\ RedisCanFail
    /\ reach # "failing"
    /\ reach' = "failing"
    /\ UNCHANGED <<now, memory, cache, poll, failures, crashes, visit>>

RedisReturns ==
    /\ reach = "failing"
    /\ reach' = "back"
    /\ cache' \in {cache, None}
    /\ UNCHANGED <<now, memory, poll, failures, crashes, visit>>

(* The poller wakes when its timer fires, the client gives up at its        *)
(* timeout, and publishing takes less than one unit.                        *)
Tick ==
    /\ now < MaxNow
    /\ poll.pc = "sleep" => now < poll.wake
    /\ poll.pc = "fetch" => now < poll.asked + FetchTimeout
    /\ poll.pc # "publish"
    /\ now' = now + 1
    /\ UNCHANGED <<memory, cache, reach, poll, failures, crashes, visit>>

Next == Ask \/ FetchFails \/ Set \/ Publish \/ ListStations \/ ListFallback \/ OpenStation
        \/ Crash \/ Start \/ RedisFails \/ RedisReturns \/ Tick

Spec == Init /\ [][Next]_vars

-----------------------------------------------------------------------------
(* Type correctness of the store, the cache, the poll loop and the visitor. *)
TypeOK ==
    /\ now \in Time
    /\ memory \in Snapshots \cup {None}
    /\ cache \in [stations : SUBSET Stations, at : Time, expires : Nat] \cup {None}
    /\ reach \in {"sound", "failing", "back"}
    /\ poll \in [pc : {"sleep", "fetch", "publish", "down"}, asked : Time, wake : Nat]
    /\ failures \in 0..MaxFailures /\ crashes \in 0..MaxCrashes
    /\ visit \in [pc : {"idle", "fallback"}, list : Snapshots \cup {None},
                  detail : Answers \cup {None}]

(* A station opens on readings at least as recent as the list it was picked *)
(* from, although lists come from a cache that outlives the process and     *)
(* details only ever from memory.                                           *)
DetailNotOlderThanList ==
    visit.detail # None /\ visit.detail.status = "ok" => visit.detail.at >= visit.list.at

(* While the shared cache answers, the list handed out and the details      *)
(* behind it are of one poll, once this process has one and between its     *)
(* polls: a listed station opens, and an unlisted one is not kept alive.    *)
ListMatchesDetails ==
    reach = "sound" /\ memory # None /\ poll.pc # "publish" /\ Cached => Shown(cache) = memory
=============================================================================
