---------------------------- MODULE FramePollers ----------------------------
(***************************************************************************)
(* Who asks FMI for which frame, and when (tutka/service.go): the live     *)
(* poller's sync over its lookback window, the boot-time backfill walking  *)
(* day-long chunks back to the retention horizon, and the prune loop, for  *)
(* one product. A Put is one step here: how its system calls interleave is *)
(* the subject of FrameStore, and what a restart finds is what that module *)
(* shows to survive.                                                       *)
(*                                                                         *)
(* Time is counted in frame steps; a frame is its timestamp and FMI lists  *)
(* it PublishDelay later.                                                  *)
(***************************************************************************)
EXTENDS Integers, FiniteSets, FiniteSetsExt

CONSTANTS
    ArchiveEnabled, \* FALSE when FRAMES_DIR is empty or cannot be created
    Lookback,     \* liveLookback or hourlyLookback
    Chunk,        \* backfillChunk
    RetainHours,  \* the product's retention
    upstreamHistory,
    PublishDelay, \* how long after its timestamp FMI lists a frame
    Start,        \* the time of the first boot
    MaxNow,       \* bound: latest time
    MaxFaults,    \* bound: failed requests and writes
    MaxRestarts,  \* bound: restarts
    Faults,       \* which operations may fail: "discover" "fetch" "put"
    None

ASSUME PeriodAssumption ==
    /\ Lookback \in Nat /\ Chunk \in Nat \ {0} /\ RetainHours \in Nat
    /\ upstreamHistory \in Nat /\ PublishDelay \in Nat /\ ArchiveEnabled \in BOOLEAN
ASSUME BoundAssumption ==
    MaxNow \in Nat /\ Start \in 0..MaxNow /\ MaxFaults \in Nat /\ MaxRestarts \in Nat
ASSUME NoneAssumption == None \notin Nat

VARIABLES
    now,
    archived,  \* what Has answers from
    live,      \* the sync in progress
    backfill,  \* the backfill pass in progress
    faults, restarts,
    filled,    \* history: frames this backfill pass archived
    missed,    \* history: frames whose own fetch or write failed in this pass
    skipped,   \* history: frames of the chunks whose discovery failed in this pass
    fetches    \* history: downloads archived per frame since boot or since pruned

vars == <<now, archived, live, backfill, faults, restarts, filled, missed, skipped, fetches>>
history == <<filled, missed, skipped, fetches>>

Frames == 0..MaxNow

LiveIdle == [pc |-> "idle", todo |-> {}, t |-> None]
BackfillWaiting == [pc |-> "wait", todo |-> {}, t |-> None, to |-> 0, deadline |-> 0, started |-> 0]

(* A failure of one kind of operation, out of a bounded budget.             *)
Fails(operation) ==
    /\ operation \in Faults
    /\ faults < MaxFaults
    /\ faults' = faults + 1

(* What GetFeature answers for a window, inclusive on both sides.           *)
discoverFrames(from, to) ==
    {t \in Frames : /\ from <= t /\ t <= to
                    /\ t + PublishDelay <= now /\ now - t <= upstreamHistory}

Has(t) == t \in archived

(* Put returns before the index when the archive is disabled.               *)
Put(t) == archived' = IF ArchiveEnabled THEN archived \cup {t} ELSE archived

Downloaded(t) == [fetches EXCEPT ![t] = IF @ < 3 THEN @ + 1 ELSE @]

Init ==
    /\ now = Start
    /\ archived \in IF ArchiveEnabled THEN SUBSET (0..(Start - 1)) ELSE {{}}
    /\ live = LiveIdle
    /\ backfill = BackfillWaiting
    /\ faults = 0
    /\ restarts = 0
    /\ filled = {}
    /\ missed = {}
    /\ skipped = {}
    /\ fetches = [t \in Frames |-> 0]

-----------------------------------------------------------------------------
(* pollProduct and sync. A failed discovery, like a failed Put, makes the   *)
(* poller sleep retryInterval and sync again from the start.                *)

(* Mutant of LiveDiscover: the lookback window loses its oldest frame.      *)
LiveDiscoverShort ==
    /\ live.pc = "idle"
    /\ live' = [pc |-> "next", todo |-> discoverFrames(now - Lookback + 1, now), t |-> None]
    /\ UNCHANGED <<now, archived, backfill, faults, restarts, history>>

LiveDiscover ==
    /\ live.pc = "idle"
    /\ \/ /\ live' = [pc |-> "next", todo |-> discoverFrames(now - Lookback, now), t |-> None]
          /\ UNCHANGED faults
       \/ Fails("discover") /\ UNCHANGED live
    /\ UNCHANGED <<now, archived, backfill, restarts, history>>

(* Mutant of LiveNext: frames already held are requested again.             *)
LiveNextAll ==
    /\ live.pc = "next"
    /\ live.todo # {}
    /\ LET t == Min(live.todo) IN live' = [live EXCEPT !.todo = @ \ {t}, !.pc = "fetch", !.t = t]
    /\ UNCHANGED <<now, archived, backfill, faults, restarts, history>>

(* Oldest first: a frame already held is skipped, another one is requested. *)
LiveNext ==
    /\ live.pc = "next"
    /\ live.todo # {}
    /\ LET t == Min(live.todo) IN
          live' = IF Has(t) THEN [live EXCEPT !.todo = @ \ {t}]
                            ELSE [live EXCEPT !.todo = @ \ {t}, !.pc = "fetch", !.t = t]
    /\ UNCHANGED <<now, archived, backfill, faults, restarts, history>>

(* fetchFrame and Put. A frame that cannot be fetched is skipped; a failed  *)
(* Put abandons the rest of the window.                                     *)
LiveFetch ==
    /\ live.pc = "fetch"
    /\ \/ /\ Put(live.t)
          /\ live' = [live EXCEPT !.pc = "next", !.t = None]
          /\ fetches' = Downloaded(live.t)
          /\ UNCHANGED faults
       \/ /\ Fails("fetch")
          /\ live' = [live EXCEPT !.pc = "next", !.t = None]
          /\ UNCHANGED <<archived, fetches>>
       \/ /\ Fails("put")
          /\ live' = LiveIdle
          /\ UNCHANGED <<archived, fetches>>
    /\ UNCHANGED <<now, backfill, restarts, filled, missed, skipped>>

LiveDone ==
    /\ live.pc = "next"
    /\ live.todo = {}
    /\ live' = LiveIdle
    /\ UNCHANGED <<now, archived, backfill, faults, restarts, history>>

-----------------------------------------------------------------------------
(* backfillProduct.                                                         *)

horizon == IF RetainHours > upstreamHistory THEN upstreamHistory ELSE RetainHours

BackfillStart ==
    /\ ArchiveEnabled
    /\ backfill.pc = "wait"
    /\ backfill' = [backfill EXCEPT !.pc = "discover", !.to = now, !.started = now,
                                    !.deadline = now - horizon]
    /\ UNCHANGED <<now, archived, live, faults, restarts, history>>

(* The post statement of the chunk loop, and its condition.                 *)
NextChunk(b) ==
    [b EXCEPT !.to = @ - Chunk, !.todo = {}, !.t = None,
              !.pc = IF b.to - Chunk > b.deadline THEN "discover" ELSE "done"]

(* A failed discovery sleeps and continues with the loop's post statement.  *)
BackfillDiscover ==
    LET from == IF backfill.to - Chunk < backfill.deadline
                THEN backfill.deadline ELSE backfill.to - Chunk
    IN
    /\ backfill.pc = "discover"
    /\ \/ /\ backfill' = [backfill EXCEPT !.pc = "next", !.todo = discoverFrames(from, backfill.to)]
          /\ UNCHANGED faults
          /\ UNCHANGED skipped
       \/ /\ Fails("discover")
          /\ backfill' = NextChunk(backfill)
          /\ skipped' = skipped \cup (from..backfill.to)
    /\ UNCHANGED <<now, archived, live, restarts, filled, missed, fetches>>

(* Mutant of BackfillPick: discoverFrames' own order, oldest first.         *)
BackfillPickOldest(todo) == Min(todo)

(* backfillOrder: newest first.                                             *)
BackfillPick(todo) == Max(todo)

BackfillNext ==
    /\ backfill.pc = "next"
    /\ IF backfill.todo = {} THEN backfill' = NextChunk(backfill)
       ELSE LET t == BackfillPick(backfill.todo) IN
            backfill' = IF Has(t)
                        THEN [backfill EXCEPT !.todo = @ \ {t}]
                        ELSE [backfill EXCEPT !.todo = @ \ {t}, !.pc = "fetch", !.t = t]
    /\ UNCHANGED <<now, archived, live, faults, restarts, history>>

(* After the pacing sleep. A failed fetch or Put loses this frame only.     *)
BackfillFetch ==
    LET t == backfill.t IN
    /\ backfill.pc = "fetch"
    /\ backfill' = [backfill EXCEPT !.pc = "next", !.t = None]
    /\ \/ /\ Put(t)
          /\ filled' = filled \cup {t}
          /\ fetches' = Downloaded(t)
          /\ UNCHANGED <<missed, faults>>
       \/ /\ Fails("fetch") \/ Fails("put")
          /\ missed' = missed \cup {t}
          /\ UNCHANGED <<archived, filled, fetches>>
    /\ UNCHANGED <<now, live, restarts, skipped>>

-----------------------------------------------------------------------------
Expired(t) == t < now - RetainHours

(* Mutant of Prune: the cutoff is one step late.                            *)
PruneLate ==
    /\ \E t \in archived : Expired(t + 1)
    /\ archived' = {t \in archived : ~Expired(t + 1)}
    /\ fetches' = [t \in Frames |-> IF t \in archived /\ Expired(t + 1) THEN 0 ELSE fetches[t]]
    /\ UNCHANGED <<now, live, backfill, faults, restarts, filled, missed, skipped>>

(* One pass of pruneLoop.                                                   *)
Prune ==
    /\ \E t \in archived : Expired(t)
    /\ archived' = {t \in archived : ~Expired(t)}
    /\ fetches' = [t \in Frames |-> IF t \in archived /\ Expired(t) THEN 0 ELSE fetches[t]]
    /\ UNCHANGED <<now, live, backfill, faults, restarts, filled, missed, skipped>>

(* The process restarts on the archive it left: every call in progress is   *)
(* gone, and the backfill starts over.                                      *)
Restart ==
    /\ restarts < MaxRestarts
    /\ restarts' = restarts + 1
    /\ live' = LiveIdle
    /\ backfill' = BackfillWaiting
    /\ filled' = {}
    /\ missed' = {}
    /\ skipped' = {}
    /\ fetches' = [t \in Frames |-> 0]
    /\ UNCHANGED <<now, archived, faults>>

Tick ==
    /\ now < MaxNow
    /\ now' = now + 1
    /\ UNCHANGED <<archived, live, backfill, faults, restarts, history>>

Live == LiveDiscover \/ LiveNext \/ LiveFetch \/ LiveDone
Backfill == BackfillStart \/ BackfillDiscover \/ BackfillNext \/ BackfillFetch

Next == Live \/ Backfill \/ Prune \/ Restart \/ Tick

Spec == Init /\ [][Next]_vars

(* The goroutines never stop while the process runs: every loop's next step *)
(* is eventually taken. Nothing obliges time to pass or the process to end. *)
FairSpec == Spec /\ WF_vars(Live) /\ WF_vars(Backfill) /\ WF_vars(Prune)

-----------------------------------------------------------------------------
TypeOK ==
    /\ now \in Start..MaxNow
    /\ archived \subseteq Frames
    /\ live \in [pc : {"idle", "next", "fetch"}, todo : SUBSET Frames, t : Frames \cup {None}]
    /\ backfill \in [pc : {"wait", "discover", "next", "fetch", "done"}, todo : SUBSET Frames,
                     t : Frames \cup {None}, to : Int, deadline : Int, started : Nat]
    /\ faults \in 0..MaxFaults
    /\ restarts \in 0..MaxRestarts
    /\ filled \subseteq Frames /\ missed \subseteq Frames /\ skipped \subseteq Int
    /\ fetches \in [Frames -> 0..3]

(* Frames the backfill had to have archived before it archived t: listed    *)
(* when it started, newer than t, and not dropped by retention.             *)
NewerThan(t) ==
    {u \in Frames : t < u /\ u + PublishDelay <= backfill.started /\ ~Expired(u)}

(* The archive only ever reaches further back: beside a frame the backfill  *)
(* archived stands every newer one, except those whose own download or      *)
(* write failed and the chunks whose discovery did.                         *)
BackfillContiguous == \A t \in filled : NewerThan(t) \subseteq archived \cup missed \cup skipped

(* Upstream traffic is proportional to new data, not to how often the       *)
(* pollers run: while it stays archived, a frame's raster is downloaded at  *)
(* most once by each of the two pollers that can race for it. (A download   *)
(* lost to a failed Put has to be repeated and is not counted.)             *)
TrafficProportional == \A t \in Frames : fetches[t] <= 2

(* The live window heals itself: a frame FMI lists is archived, or has      *)
(* fallen out of the lookback window, once failures stop.                   *)
LiveCatchesUp ==
    \A t \in Frames :
        (t + PublishDelay <= now) ~> (t \in archived \/ t < now - Lookback)

(* Retention has the last word: with a lookback inside the retention, the   *)
(* archive ends up holding nothing expired, although the backfill's horizon *)
(* was fixed when it started and may lag behind the prune cutoff.           *)
RetentionWins == <>[](\A t \in archived : ~Expired(t))
=============================================================================
