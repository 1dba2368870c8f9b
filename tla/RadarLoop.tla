-------------------------------- MODULE RadarLoop --------------------------------
(***************************************************************************)
(* The radar animation in the browser (frontend/src/radar/useRadarLoop.ts):*)
(* a frame list refreshed every minute, a place in it, one run of playback *)
(* that ends on the newest frame, and the viewer's own scrubbing.          *)
(*                                                                         *)
(* Frames are their instants; a list holds those of the last windowHours.  *)
(* The refresh closure sees the component's state through refs an effect   *)
(* writes after the commit: at once when a viewer's event caused it, some  *)
(* time later when a timer or a reply did.                                 *)
(***************************************************************************)
EXTENDS Integers, Sequences, SequencesExt, FiniteSetsExt

CONSTANTS
    Selections,         \* product and window pairs
    windowHours,        \* [Selections -> Nat]: how far each list reaches back
    END_DWELL_FRAMES,
    MaxInFlight,        \* bound: list requests that overlap
    MaxNow,             \* bound: latest instant
    MaxLoads,           \* bound: list requests; playback is far quicker than they come
    MaxActs             \* bound: the viewer's actions

ASSUME WindowAssumption == windowHours \in [Selections -> Nat \ {0}]
ASSUME BoundAssumption ==
    /\ END_DWELL_FRAMES \in Nat /\ MaxInFlight \in Nat \ {0} /\ MaxNow \in Nat
    /\ MaxLoads \in Nat /\ MaxActs \in Nat

VARIABLES
    now, archive, \* the backend: the instant, and the frames it holds
    selection,
    frames, index, live, playing,
    dwell,        \* dwellRef
    refs,         \* liveRef, indexRef and playingRef
    replies,      \* lists on their way
    loads,
    ended,        \* history: the run ended by itself and nothing was touched since
    late,         \* history: the last list came before the effects of the last commit
    disturbed,    \* history: a list came late, lost the instant shown or was older than the last
    acts

backend == <<now, archive>>
vars == <<backend, selection, frames, index, live, playing, dwell, refs, replies, loads, ended, late, disturbed, acts>>

Last0(s) == Len(s) - 1
Refs(l, i, p) == [live |-> l, index |-> i, playing |-> p]

(* fetchFrames: what the backend answers now, oldest first.                 *)
Listed(s) ==
    CHOOSE list \in SetToSeqs({t \in archive : t > now - windowHours[s]}) :
        \A i, j \in DOMAIN list : i < j => list[i] < list[j]

Init ==
    /\ now = 1
    /\ archive \in SUBSET {1}
    /\ selection \in Selections
    /\ frames = <<>> /\ index = 0 /\ live = TRUE /\ playing = TRUE
    /\ dwell = 0
    /\ refs = Refs(TRUE, 0, TRUE)
    /\ replies = {} /\ loads = 0
    /\ ended = FALSE /\ late = FALSE /\ disturbed = FALSE
    /\ acts = 0

(* Time passes; the radar has a frame of the new instant, or not.           *)
Advance ==
    /\ now < MaxNow
    /\ now' = now + 1
    /\ archive' \in {archive, archive \cup {now + 1}}
    /\ UNCHANGED <<selection, frames, index, live, playing, dwell, refs, replies, loads, ended, late, disturbed, acts>>

-----------------------------------------------------------------------------
(* load, on mount and every INDEX_REFRESH_MS.                               *)

Load ==
    /\ Cardinality(replies) < MaxInFlight /\ loads < MaxLoads
    /\ loads' = loads + 1
    /\ replies' = replies \cup {[at |-> now, list |-> Listed(selection)]}
    /\ UNCHANGED <<backend, selection, frames, index, live, playing, dwell, refs, ended, late, disturbed, acts>>

(* A 503 or an error: a banner, and nothing else.                           *)
LoadFails ==
    /\ \E r \in replies : replies' = replies \ {r}
    /\ UNCHANGED <<backend, selection, frames, index, live, playing, dwell, refs, loads, ended, late, disturbed, acts>>

(* Where the instant the refs point at is in the next list, or -1.          *)
Moved(next) ==
    SelectInSeq(next, LAMBDA t : t = frames[Min({refs.index, Last0(frames)}) + 1]) - 1

(* The place in the next list, and whether it follows new arrivals.         *)
PlaceIn(next) ==
    IF frames = <<>> /\ Len(next) > 1 /\ refs.playing THEN [index |-> 0, live |-> FALSE]
    ELSE IF refs.live /\ next # <<>> THEN [index |-> Last0(next), live |-> live]
    ELSE IF frames # <<>> /\ next # <<>> /\ Moved(next) >= 0
         THEN [index |-> Moved(next), live |-> live]
    ELSE [index |-> index, live |-> live]

(* Mutant of Arrive: the place in the list is kept rather than the instant. *)
ArriveInPlace ==
    \E r \in replies :
        /\ replies' = replies \ {r}
        /\ frames' = r.list
        /\ index' = IF refs.live /\ r.list # <<>> THEN Last0(r.list) ELSE index
        /\ UNCHANGED <<backend, selection, live, playing, dwell, refs, loads, ended, late, disturbed, acts>>

(* A list arrives: setFrames with everything its updater sets.              *)
Arrive ==
    \E r \in replies :
        /\ replies' = replies \ {r}
        /\ frames' = r.list
        /\ index' = PlaceIn(r.list).index
        /\ live' = PlaceIn(r.list).live
        /\ late' = (refs # Refs(live, index, playing))
        /\ disturbed' =
              (disturbed \/ late'
                         \/ /\ frames # <<>>
                            /\ \/ frames[Min({index, Last0(frames)}) + 1] \notin ToSet(r.list)
                               \/ Last(r.list) < Last(frames))
        /\ UNCHANGED <<backend, selection, playing, dwell, refs, loads, ended, acts>>

(* The effect that writes the refs, after a commit no event forced.         *)
SyncRefs ==
    /\ refs # Refs(live, index, playing)
    /\ refs' = Refs(live, index, playing)
    /\ UNCHANGED <<backend, selection, frames, index, live, playing, dwell, replies, loads, ended, late, disturbed, acts>>

-----------------------------------------------------------------------------
(* The animation timer, which runs while there is something to play. The    *)
(* effects of the commit before this one have run by now.                   *)

(* Mutant of Tick: reaching the newest frame does not make the view live.   *)
TickNotLive ==
    /\ playing /\ Len(frames) >= 2
    /\ IF index < Last0(frames)
       THEN /\ index' = index + 1
            /\ UNCHANGED <<playing, dwell, ended>>
       ELSE /\ dwell' = IF dwell < END_DWELL_FRAMES THEN dwell + 1 ELSE 0
            /\ playing' = (dwell < END_DWELL_FRAMES)
            /\ ended' = (dwell >= END_DWELL_FRAMES)
            /\ UNCHANGED index
    /\ refs' = Refs(live, index, playing)
    /\ UNCHANGED <<backend, selection, frames, live, replies, loads, late, disturbed, acts>>

(* Mutant of Tick: the dwell on the newest frame never runs out.            *)
TickForever ==
    /\ playing /\ Len(frames) >= 2
    /\ index' = IF index < Last0(frames) THEN index + 1 ELSE 0
    /\ live' = (index' = Last0(frames))
    /\ refs' = Refs(live, index, playing)
    /\ UNCHANGED <<backend, selection, frames, playing, dwell, replies, loads, ended, late, disturbed, acts>>

Step ==
    /\ index < Last0(frames)
    /\ index' = index + 1
    /\ live' = (live \/ index + 1 >= Last0(frames))
    /\ UNCHANGED <<playing, dwell, ended>>

Dwell ==
    /\ index >= Last0(frames)
    /\ dwell < END_DWELL_FRAMES
    /\ dwell' = dwell + 1
    /\ UNCHANGED <<index, live, playing, ended>>

Stop ==
    /\ index >= Last0(frames)
    /\ dwell >= END_DWELL_FRAMES
    /\ dwell' = 0
    /\ playing' = FALSE
    /\ ended' = TRUE
    /\ UNCHANGED <<index, live>>

Tick ==
    /\ playing /\ Len(frames) >= 2
    /\ Step \/ Dwell \/ Stop
    /\ refs' = Refs(live, index, playing)
    /\ UNCHANGED <<backend, selection, frames, replies, loads, late, disturbed, acts>>

-----------------------------------------------------------------------------
(* The viewer. An event's commit runs its effects before anything else.     *)

Act ==
    /\ acts < MaxActs
    /\ acts' = acts + 1
    /\ ended' = FALSE
    /\ refs' = Refs(live', index', playing')
    /\ UNCHANGED backend

(* setIndex, from the scrubber, which is there while there are frames.      *)
setIndex ==
    /\ frames # <<>>
    /\ index' \in 0..Last0(frames)
    /\ live' = (index' = Last0(frames))
    /\ dwell' = 0
    /\ UNCHANGED <<selection, frames, playing, replies, loads, late, disturbed>>
    /\ Act

(* Mutant of togglePlaying: play on a finished run starts it over but the   *)
(* view still counts as live.                                               *)
toggleStillLive ==
    /\ frames # <<>>
    /\ playing' = ~playing
    /\ IF ~playing /\ Len(frames) > 1 /\ index >= Last0(frames)
       THEN index' = 0 /\ dwell' = 0
       ELSE UNCHANGED <<index, dwell>>
    /\ UNCHANGED <<live, selection, frames, replies, loads, late, disturbed>>
    /\ Act

togglePlaying ==
    /\ frames # <<>>
    /\ playing' = ~playing
    /\ IF ~playing /\ Len(frames) > 1 /\ index >= Last0(frames)
       THEN index' = 0 /\ live' = FALSE /\ dwell' = 0
       ELSE UNCHANGED <<index, live, dwell>>
    /\ UNCHANGED <<selection, frames, replies, loads, late, disturbed>>
    /\ Act

(* Another product or window: the reset during render, the cleanup that     *)
(* disowns what is on its way, and the new effect's first load.             *)
Select ==
    /\ selection' \in Selections \ {selection}
    /\ frames' = <<>> /\ index' = 0 /\ live' = TRUE
    /\ replies' = {[at |-> now, list |-> Listed(selection')]}
    /\ late' = FALSE /\ disturbed' = FALSE
    /\ UNCHANGED <<playing, dwell, loads>>
    /\ Act

Next == Advance \/ Load \/ LoadFails \/ Arrive \/ SyncRefs \/ Tick
        \/ setIndex \/ togglePlaying \/ Select

(* The interval timer keeps firing.                                         *)
Spec == Init /\ [][Next]_vars /\ WF_vars(Tick)

-----------------------------------------------------------------------------
(* The instant on the map; only meaningful while there are frames.          *)
Shown == frames[Min({index, Last0(frames)}) + 1]

(* A map that counts as live shows the newest frame of its list, whatever   *)
(* order refreshes, ticks and scrubs come in, playing or not; a list that   *)
(* came between a commit and its effects may break that until the next one. *)
LiveShowsNewest == live /\ ~late /\ frames # <<>> => Shown = Last(frames)

(* A run that ends by itself leaves the map live on the newest frame, so    *)
(* that a map nobody watches goes on to show the present.                   *)
RunEndsLive ==
    ended /\ ~disturbed => live /\ (frames # <<>> => Shown = Last(frames))

(* A refresh leaves a viewer who paused in the past where they were, if the *)
(* effects of the last commit have run.                                     *)
PlaceKept ==
    [][/\ Arrive /\ refs = Refs(live, index, playing)
       /\ ~playing /\ ~live /\ frames # <<>> /\ Shown \in ToSet(frames')
       => Shown' = Shown]_vars

(* Playback is once, not forever: left alone it stops, whatever arrives     *)
(* meanwhile, or runs out of frames to play.                                *)
RunEnds == playing /\ Len(frames) >= 2 ~> ~playing \/ Len(frames) < 2
=============================================================================
