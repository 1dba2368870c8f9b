--------------------------- MODULE FramePollersProofs ---------------------------
(***************************************************************************)
(* Theorems about the radar pollers, for any lookback, chunk, retention,   *)
(* publication delay, history and bounds, with any operations failing.     *)
(***************************************************************************)
EXTENDS FramePollers, WellFoundedInduction, TLAPS

USE PeriodAssumption, BoundAssumption, NoneAssumption

(***************************************************************************)
(* The invariants.                                                         *)
(***************************************************************************)

LiveState == [pc : {"idle", "next", "fetch"}, todo : SUBSET Frames, t : Frames \cup {None}]
BackfillState == [pc : {"wait", "discover", "next", "fetch", "done"}, todo : SUBSET Frames,
                  t : Frames \cup {None}, to : Int, deadline : Int, started : Nat]

(* A download is of a frame; a backfill pass needs an archive and has       *)
(* started in the past.                                                     *)
Running ==
    /\ live.pc = "fetch" => live.t \in Frames
    /\ backfill.pc = "fetch" => backfill.t \in Frames
    /\ backfill.pc # "wait" => ArchiveEnabled
    /\ backfill.pc = "wait" => filled = {}
    /\ backfill.started <= now

(* What the backfill need not bring any more.                               *)
Settled == archived \cup missed \cup skipped

(* What it is about to look at.                                             *)
AtHand ==
    CASE backfill.pc = "next"  -> backfill.todo
      [] backfill.pc = "fetch" -> backfill.todo \cup {backfill.t}
      [] OTHER -> {}

(* Listed when the pass started, not expired, and not too old for FMI.      *)
Owed(u) ==
    /\ u + PublishDelay <= backfill.started
    /\ ~Expired(u)
    /\ now - u <= upstreamHistory

(* All the frames owed that are newer than the chunk, or inside it, are     *)
(* settled or at hand; beside a frame at hand so is every newer one; and    *)
(* the frame being downloaded is the newest at hand.                        *)
Swept ==
    /\ backfill.pc = "discover" =>
          \A u \in Frames : Owed(u) /\ u > backfill.to => u \in Settled
    /\ backfill.pc \in {"next", "fetch"} /\ backfill.to - Chunk > backfill.deadline =>
          \A u \in Frames : Owed(u) /\ u > backfill.to - Chunk => u \in Settled \cup AtHand
    /\ \A t \in AtHand : NewerThan(t) \subseteq Settled \cup AtHand
    /\ backfill.pc = "fetch" => NewerThan(backfill.t) \subseteq Settled

PassInv == TypeOK /\ Running /\ Swept /\ BackfillContiguous

(* A frame that is not archived has not been downloaded, and the downloads  *)
(* in progress count towards the two a frame can cost.                      *)
InDownload(poller, t) == IF poller.pc = "fetch" /\ poller.t = t THEN 1 ELSE 0

Downloads ==
    \A t \in Frames :
        /\ t \notin archived => fetches[t] = 0
        /\ fetches[t] + InDownload(live, t) + InDownload(backfill, t) <= 2

(***************************************************************************)
(* Helpers.                                                                *)
(***************************************************************************)

LEMMA OldestIsPicked ==
    ASSUME NEW S \in SUBSET Nat, S # {}
    PROVE  Min(S) \in S /\ \A u \in S : Min(S) <= u
<1> DEFINE R == {ss \in Nat \X Nat : ss[1] < ss[2]}
<1>1. IsWellFoundedOn(R, Nat)
    BY NatLessThanWellFounded DEF OpToRel
<1>2. \E x \in S : \A y \in S : ~ (<<y, x>> \in R)
    <2> HIDE DEF R
    <2> QED  BY <1>1, WFMin
<1>3. \E x \in S : \A y \in S : x <= y
    <2>1. PICK x \in S : \A y \in S : <<y, x>> \notin R
        BY <1>2
    <2>2. ASSUME NEW y \in S PROVE x <= y
        <3>1. <<y, x>> \in Nat \X Nat
            OBVIOUS
        <3>2. ~(y < x)
            BY <2>1, <2>2, <3>1
        <3> QED  BY <3>2
    <2> QED  BY <2>2
<1> QED  BY <1>3 DEF Min

LEMMA NewestIsPicked ==
    ASSUME NEW S \in SUBSET Frames, S # {}
    PROVE  Max(S) \in S /\ \A u \in S : u <= Max(S)
<1> DEFINE D == {MaxNow - u : u \in S}
<1>0. \A u \in S : u \in Nat /\ MaxNow - u \in Nat
    BY DEF Frames
<1>1. D \in SUBSET Nat /\ D # {}
    BY <1>0
<1>2. PICK d \in D : \A e \in D : d <= e
    <2> HIDE DEF D
    <2> QED  BY <1>1, OldestIsPicked
<1>3. PICK x \in S : d = MaxNow - x
    BY <1>2
<1>4. ASSUME NEW y \in S PROVE x >= y
    <2>1. MaxNow - y \in D
        BY <1>4
    <2>2. d <= MaxNow - y
        BY <1>2, <2>1
    <2> QED  BY <1>0, <1>3, <1>4, <2>2
<1>5. \E z \in S : \A y \in S : z >= y
    BY <1>4
<1>6. Max(S) \in S /\ \A y \in S : Max(S) >= y
    BY <1>5 DEF Max
<1> QED  BY <1>0, <1>6

LEMMA FrameIsNat == \A t \in Frames : t \in Nat /\ t # None
BY DEF Frames

LEMMA ChunkTyped ==
    ASSUME NEW b \in BackfillState
    PROVE  NextChunk(b) \in BackfillState
<1>1. b.to - Chunk \in Int
    BY DEF BackfillState
<1> QED  BY <1>1 DEF NextChunk, BackfillState

LEMMA PutTyped ==
    ASSUME NEW t \in Frames, archived \subseteq Frames, Put(t)
    PROVE  archived' \subseteq Frames
BY DEF Put

LEMMA DownloadedTyped ==
    ASSUME NEW t \in Frames, fetches \in [Frames -> 0..3]
    PROVE  Downloaded(t) \in [Frames -> 0..3]
BY DEF Downloaded

LEMMA FailsTyped ==
    ASSUME NEW operation, Fails(operation), faults \in 0..MaxFaults
    PROVE  faults' \in 0..MaxFaults
BY DEF Fails

(***************************************************************************)
(* Types.                                                                  *)
(***************************************************************************)

LEMMA TypeStep ==
    ASSUME TypeOK, Running, [Next]_vars
    PROVE  TypeOK'
<1>0. /\ live \in LiveState /\ backfill \in BackfillState
      /\ now \in Nat /\ archived \subseteq Frames /\ faults \in 0..MaxFaults
    BY DEF TypeOK, LiveState, BackfillState
<1> SUFFICES /\ live' \in LiveState /\ backfill' \in BackfillState
             /\ now' \in Start..MaxNow /\ archived' \subseteq Frames
             /\ faults' \in 0..MaxFaults /\ restarts' \in 0..MaxRestarts
             /\ filled' \subseteq Frames /\ missed' \subseteq Frames /\ skipped' \subseteq Int
             /\ fetches' \in [Frames -> 0..3]
    BY DEF TypeOK, LiveState, BackfillState
<1>1. CASE LiveDiscover
    <2>1. live' \in LiveState
        BY <1>0, <1>1 DEF LiveDiscover, LiveState, discoverFrames
    <2>2. faults' \in 0..MaxFaults
        BY <1>0, <1>1, FailsTyped DEF LiveDiscover
    <2> QED  BY <1>0, <1>1, <2>1, <2>2 DEF LiveDiscover, TypeOK, history
<1>2. CASE LiveNext
    <2>1. Min(live.todo) \in live.todo
        BY <1>0, <1>2, OldestIsPicked, FrameIsNat DEF LiveNext, LiveState
    <2>2. live' \in LiveState
        BY <1>0, <1>2, <2>1 DEF LiveNext, LiveState
    <2> QED  BY <1>0, <1>2, <2>2 DEF LiveNext, TypeOK, history
<1>3. CASE LiveFetch
    <2>0. \/ live' = [live EXCEPT !.pc = "next", !.t = None]
          \/ live' = LiveIdle
        BY <1>3 DEF LiveFetch
    <2>1. live' \in LiveState
        <3>1. LiveIdle \in LiveState
            BY DEF LiveIdle, LiveState
        <3>2. [live EXCEPT !.pc = "next", !.t = None] \in LiveState
            BY <1>0 DEF LiveState
        <3> QED  BY <2>0, <3>1, <3>2
    <2>2. faults' \in 0..MaxFaults /\ archived' \subseteq Frames
        BY <1>0, <1>3, FailsTyped, PutTyped DEF LiveFetch, Running
    <2>3. fetches' \in [Frames -> 0..3]
        BY <1>3, DownloadedTyped DEF LiveFetch, Running, TypeOK
    <2> QED  BY <1>0, <1>3, <2>1, <2>2, <2>3 DEF LiveFetch, TypeOK
<1>4. CASE LiveDone
    BY <1>0, <1>4 DEF LiveDone, LiveIdle, LiveState, TypeOK, history
<1>5. CASE BackfillStart
    <2>1. now - horizon \in Int
        BY <1>0 DEF horizon
    <2>2. backfill' = [backfill EXCEPT !.pc = "discover", !.to = now, !.started = now,
                                       !.deadline = now - horizon]
        BY <1>5 DEF BackfillStart
    <2>3. backfill' \in BackfillState
        <3> DEFINE d == now - horizon
        <3> HIDE DEF d
        <3>1. d \in Int /\ now \in Int /\ now \in Nat
            BY <1>0, <2>1 DEF d
        <3>2. backfill' = [backfill EXCEPT !.pc = "discover", !.to = now, !.started = now,
                                           !.deadline = d]
            BY <2>2 DEF d
        <3> QED  BY <1>0, <3>1, <3>2 DEF BackfillState
    <2> QED  BY <1>0, <1>5, <2>3 DEF BackfillStart, TypeOK, history
<1>6. CASE BackfillDiscover
    <2>0. \/ backfill' = NextChunk(backfill)
          \/ \E todo \in SUBSET Frames : backfill' = [backfill EXCEPT !.pc = "next", !.todo = todo]
        BY <1>6 DEF BackfillDiscover, discoverFrames
    <2>1. backfill' \in BackfillState
        <3>1. ASSUME NEW todo \in SUBSET Frames
              PROVE  [backfill EXCEPT !.pc = "next", !.todo = todo] \in BackfillState
            BY <1>0 DEF BackfillState
        <3> QED  BY <1>0, <2>0, <3>1, ChunkTyped
    <2>2. faults' \in 0..MaxFaults
        BY <1>0, <1>6, FailsTyped DEF BackfillDiscover
    <2>3. skipped' \subseteq Int
        <3>1. backfill.to \in Int /\ backfill.to - Chunk \in Int /\ backfill.deadline \in Int
            BY <1>0 DEF BackfillState
        <3> QED  BY <1>6, <3>1 DEF BackfillDiscover, TypeOK
    <2> QED  BY <1>0, <1>6, <2>1, <2>2, <2>3 DEF BackfillDiscover, TypeOK
<1>7. CASE BackfillNext
    <2>1. CASE backfill.todo = {}
        BY <1>0, <1>7, <2>1, ChunkTyped DEF BackfillNext, TypeOK, history
    <2>2. CASE backfill.todo # {}
        <3>1. BackfillPick(backfill.todo) \in backfill.todo
            BY <1>0, <2>2, NewestIsPicked DEF BackfillPick, BackfillState
        <3> DEFINE t == BackfillPick(backfill.todo)
        <3> HIDE DEF t
        <3>2. \/ backfill' = [backfill EXCEPT !.todo = @ \ {t}]
              \/ backfill' = [backfill EXCEPT !.todo = @ \ {t}, !.pc = "fetch", !.t = t]
            BY <1>7, <2>2 DEF BackfillNext, t
        <3>3. backfill.todo \ {t} \in SUBSET Frames /\ t \in Frames
            BY <1>0, <3>1 DEF BackfillState, t
        <3>4. backfill' \in BackfillState
            BY <1>0, <3>2, <3>3 DEF BackfillState
        <3> QED  BY <1>0, <1>7, <3>4 DEF BackfillNext, TypeOK, history
    <2> QED  BY <2>1, <2>2
<1>8. CASE BackfillFetch
    <2>1. backfill' \in BackfillState
        BY <1>0, <1>8 DEF BackfillFetch, BackfillState
    <2>2. backfill.t \in Frames
        BY <1>8 DEF BackfillFetch, Running
    <2>3. faults' \in 0..MaxFaults /\ archived' \subseteq Frames
        BY <1>0, <1>8, <2>2, FailsTyped, PutTyped DEF BackfillFetch
    <2>4. fetches' \in [Frames -> 0..3]
        BY <1>8, <2>2, DownloadedTyped DEF BackfillFetch, TypeOK
    <2> QED  BY <1>0, <1>8, <2>1, <2>2, <2>3, <2>4 DEF BackfillFetch, TypeOK
<1>9. CASE Prune
    BY <1>0, <1>9 DEF Prune, TypeOK
<1>10. CASE Restart
    BY <1>0, <1>10 DEF Restart, TypeOK, LiveIdle, LiveState, BackfillWaiting, BackfillState
<1>11. CASE Tick
    BY <1>0, <1>11 DEF Tick, TypeOK, history
<1>12. CASE UNCHANGED vars
    BY <1>0, <1>12 DEF vars, history, TypeOK
<1> QED
    BY <1>1, <1>2, <1>3, <1>4, <1>5, <1>6, <1>7, <1>8, <1>9, <1>10, <1>11, <1>12
    DEF Next, Live, Backfill

(***************************************************************************)
(* The backfill's sweep.                                                   *)
(***************************************************************************)

LEMMA PassInit == Init => PassInv
<1> SUFFICES ASSUME Init PROVE PassInv
    OBVIOUS
<1>1. TypeOK
    <2>1. archived \subseteq Frames
        BY DEF Init, Frames
    <2>2. LiveIdle \in LiveState /\ BackfillWaiting \in BackfillState
        BY DEF LiveIdle, LiveState, BackfillWaiting, BackfillState
    <2> QED  BY <2>1, <2>2 DEF Init, TypeOK, LiveState, BackfillState
<1>2. backfill.pc = "wait" /\ live.pc = "idle" /\ filled = {} /\ backfill.started <= now
    BY DEF Init, LiveIdle, BackfillWaiting
<1> QED  BY <1>1, <1>2 DEF PassInv, Running, Swept, AtHand, BackfillContiguous

LEMMA RunningStep ==
    ASSUME TypeOK, Running, [Next]_vars
    PROVE  Running'
<1>0. live \in LiveState /\ backfill \in BackfillState /\ now \in Nat
    BY DEF TypeOK, LiveState, BackfillState
<1>1. CASE LiveDiscover
    <2>1. live'.pc # "fetch"
        BY <1>0, <1>1 DEF LiveDiscover, LiveState
    <2> QED  BY <1>1, <2>1 DEF LiveDiscover, Running, history
<1>2. CASE LiveNext
    <2>1. Min(live.todo) \in Frames
        BY <1>0, <1>2, OldestIsPicked, FrameIsNat DEF LiveNext, LiveState
    <2>2. live'.pc = "fetch" => live'.t \in Frames
        BY <1>0, <1>2, <2>1 DEF LiveNext, LiveState
    <2> QED  BY <1>2, <2>2 DEF LiveNext, Running, history
<1>3. CASE LiveFetch
    <2>0. \/ live' = [live EXCEPT !.pc = "next", !.t = None]
          \/ live' = LiveIdle
        BY <1>3 DEF LiveFetch
    <2>1. live'.pc # "fetch"
        <3>1. LiveIdle.pc # "fetch"
            BY DEF LiveIdle
        <3>2. [live EXCEPT !.pc = "next", !.t = None].pc # "fetch"
            BY <1>0 DEF LiveState
        <3> QED  BY <2>0, <3>1, <3>2
    <2> QED  BY <1>3, <2>1 DEF LiveFetch, Running
<1>4. CASE LiveDone
    BY <1>4 DEF LiveDone, LiveIdle, Running, history
<1>5. CASE BackfillStart
    <2>1. backfill'.pc = "discover" /\ backfill'.started = now
        BY <1>0, <1>5 DEF BackfillStart, BackfillState
    <2> QED  BY <1>0, <1>5, <2>1 DEF BackfillStart, Running, history
<1>6. CASE BackfillDiscover
    <2>1. backfill'.pc \in {"discover", "next", "done"} /\ backfill'.started = backfill.started
        BY <1>0, <1>6 DEF BackfillDiscover, BackfillState, NextChunk
    <2> QED  BY <1>6, <2>1 DEF BackfillDiscover, Running
<1>7. CASE BackfillNext
    <2>0. backfill.pc = "next"
        BY <1>7 DEF BackfillNext
    <2>1. CASE backfill.todo = {}
        <3>1. backfill'.pc \in {"discover", "done"} /\ backfill'.started = backfill.started
            BY <1>0, <1>7, <2>1 DEF BackfillNext, BackfillState, NextChunk
        <3> QED  BY <1>7, <2>0, <3>1 DEF BackfillNext, Running, history
    <2>2. CASE backfill.todo # {}
        <3>1. BackfillPick(backfill.todo) \in Frames
            BY <1>0, <2>2, NewestIsPicked DEF BackfillPick, BackfillState
        <3>2. /\ backfill'.pc \in {"next", "fetch"} /\ backfill'.started = backfill.started
              /\ backfill'.pc = "fetch" => backfill'.t \in Frames
            BY <1>0, <1>7, <2>0, <2>2, <3>1 DEF BackfillNext, BackfillState
        <3> QED  BY <1>7, <2>0, <3>2 DEF BackfillNext, Running, history
    <2> QED  BY <2>1, <2>2
<1>8. CASE BackfillFetch
    <2>1. backfill'.pc = "next" /\ backfill'.started = backfill.started
        BY <1>0, <1>8 DEF BackfillFetch, BackfillState
    <2> QED  BY <1>8, <2>1 DEF BackfillFetch, Running
<1>9. CASE Prune
    BY <1>9 DEF Prune, Running
<1>10. CASE Restart
    BY <1>0, <1>10 DEF Restart, Running, LiveIdle, BackfillWaiting
<1>11. CASE Tick
    <2>1. backfill.started \in Nat
        BY <1>0 DEF BackfillState
    <2> QED  BY <1>0, <1>11, <2>1 DEF Tick, Running, history
<1>12. CASE UNCHANGED vars
    BY <1>12 DEF vars, history, Running
<1> QED
    BY <1>1, <1>2, <1>3, <1>4, <1>5, <1>6, <1>7, <1>8, <1>9, <1>10, <1>11, <1>12
    DEF Next, Live, Backfill

(* Time passing, pruning and the live poller do not disturb the sweep.      *)
LEMMA SweptKept ==
    ASSUME TypeOK, Swept, BackfillContiguous,
           backfill' = backfill, filled' = filled,
           now' \in Nat, now' >= now,
           \A u \in Settled \cap Frames : u \in Settled' \/ Expired(u)'
    PROVE  Swept' /\ BackfillContiguous'
<1>0. /\ now \in Nat /\ backfill.started \in Nat
      /\ AtHand' = AtHand /\ \A t \in AtHand : t \in Frames \/ t = None
    BY DEF TypeOK, AtHand
<1>1. \A t : NewerThan(t)' \subseteq NewerThan(t)
    BY <1>0, FrameIsNat DEF NewerThan, Expired
<1>2. ASSUME NEW u \in Frames, Owed(u)'
      PROVE  Owed(u) /\ (u \in Settled => u \in Settled')
    BY <1>0, <1>2, FrameIsNat DEF Owed, Expired
<1>3. ASSUME NEW t, NEW u \in NewerThan(t)'
      PROVE  u \in NewerThan(t) /\ (u \in Settled => u \in Settled')
    <2>1. u \in Frames /\ ~Expired(u)'
        BY <1>3 DEF NewerThan
    <2> QED  BY <1>1, <1>3, <2>1
<1>4. BackfillContiguous'
    BY <1>3 DEF BackfillContiguous, Settled
<1>5. \A t \in AtHand' : NewerThan(t)' \subseteq (Settled \cup AtHand)'
    BY <1>0, <1>3 DEF Swept
<1>6. (backfill.pc = "fetch" => NewerThan(backfill.t) \subseteq Settled)'
    BY <1>3 DEF Swept
<1>7. backfill'.pc = "discover" =>
         \A u \in Frames : Owed(u)' /\ u > backfill'.to => u \in Settled'
    BY <1>2 DEF Swept
<1>8. backfill'.pc \in {"next", "fetch"} /\ backfill'.to - Chunk > backfill'.deadline =>
         \A u \in Frames : Owed(u)' /\ u > backfill'.to - Chunk => u \in (Settled \cup AtHand)'
    BY <1>0, <1>2 DEF Swept
<1> QED  BY <1>4, <1>5, <1>6, <1>7, <1>8 DEF Swept

(* Nor does a frame at hand that is settled and let go.                     *)
LEMMA SweptOn ==
    ASSUME TypeOK, Swept,
           now' = now, backfill'.started = backfill.started,
           backfill'.to = backfill.to, backfill'.deadline = backfill.deadline,
           backfill.pc \in {"next", "fetch"}, backfill'.pc \in {"next", "fetch"},
           Settled \subseteq Settled', AtHand' \subseteq AtHand,
           AtHand \subseteq AtHand' \cup Settled',
           (backfill.pc = "fetch" => NewerThan(backfill.t) \subseteq Settled)'
    PROVE  Swept'
<1>1. \A u : (Owed(u)' <=> Owed(u)) /\ NewerThan(u)' = NewerThan(u)
    BY DEF Owed, NewerThan, Expired
<1>2. Settled \cup AtHand \subseteq Settled' \cup AtHand'
    OBVIOUS
<1>3. \A t \in AtHand' : NewerThan(t)' \subseteq (Settled \cup AtHand)'
    BY <1>1, <1>2 DEF Swept
<1>4. backfill'.to - Chunk > backfill'.deadline =>
         \A u \in Frames : Owed(u)' /\ u > backfill'.to - Chunk => u \in (Settled \cup AtHand)'
    BY <1>1, <1>2 DEF Swept
<1> QED  BY <1>3, <1>4 DEF Swept

(* The chunk is done once everything newer than its start is settled.       *)
LEMMA SweptChunk ==
    ASSUME TypeOK, now' = now, backfill' = NextChunk(backfill),
           backfill.to - Chunk > backfill.deadline =>
              \A u \in Frames : Owed(u) /\ u > backfill.to - Chunk => u \in Settled'
    PROVE  Swept'
<1>0. backfill \in BackfillState
    BY DEF TypeOK, BackfillState
<1>1. /\ backfill'.pc = IF backfill.to - Chunk > backfill.deadline THEN "discover" ELSE "done"
      /\ backfill'.to = backfill.to - Chunk /\ backfill'.started = backfill.started
    BY <1>0 DEF NextChunk, BackfillState
<1>2. AtHand' = {}
    BY <1>1 DEF AtHand
<1>3. \A u : Owed(u)' <=> Owed(u)
    BY <1>1 DEF Owed, Expired
<1> QED  BY <1>1, <1>2, <1>3 DEF Swept

LEMMA StartSwept ==
    ASSUME TypeOK, Running, Swept, BackfillContiguous, BackfillStart
    PROVE  Swept' /\ BackfillContiguous'
<1>0. backfill \in BackfillState /\ now \in Nat
    BY DEF TypeOK, BackfillState
<1>1. /\ backfill'.pc = "discover" /\ backfill'.to = now /\ backfill'.started = now
      /\ now' = now /\ filled' = {}
    BY <1>0 DEF BackfillStart, BackfillState, Running, history
<1>2. AtHand' = {}
    BY <1>1 DEF AtHand
<1>3. \A u \in Frames : Owed(u)' => ~(u > backfill'.to)
    BY <1>0, <1>1, FrameIsNat DEF Owed
<1> QED  BY <1>1, <1>2, <1>3 DEF Swept, BackfillContiguous

LEMMA DiscoverSwept ==
    ASSUME TypeOK, Running, Swept, BackfillContiguous, BackfillDiscover
    PROVE  Swept' /\ BackfillContiguous'
<1> DEFINE from == IF backfill.to - Chunk < backfill.deadline
                   THEN backfill.deadline ELSE backfill.to - Chunk
<1>0. backfill \in BackfillState /\ now \in Nat
    BY DEF TypeOK, BackfillState
<1>n. /\ backfill.to \in Int /\ backfill.deadline \in Int /\ from \in Int
      /\ backfill.started \in Nat /\ backfill.started <= now
      /\ backfill.to - Chunk \in Int
    BY <1>0 DEF BackfillState, Running
<1>s. \A u \in Frames : Owed(u) /\ u > backfill.to => u \in Settled
    BY DEF BackfillDiscover, Swept
<1>u. /\ now' = now /\ filled' = filled /\ archived' = archived /\ missed' = missed
      /\ skipped \subseteq skipped'
    BY DEF BackfillDiscover
<1>k. Settled \subseteq Settled'
    BY <1>u DEF Settled
<1>f. backfill.to - Chunk > backfill.deadline => from = backfill.to - Chunk
    BY <1>n
<1> HIDE DEF from
<1>d. \/ /\ backfill' = [backfill EXCEPT !.pc = "next", !.todo = discoverFrames(from, backfill.to)]
         /\ skipped' = skipped
      \/ /\ backfill' = NextChunk(backfill)
         /\ skipped' = skipped \cup (from..backfill.to)
    BY DEF BackfillDiscover, from
<1>c. BackfillContiguous'
    <2>1. backfill'.started = backfill.started
        BY <1>0, <1>d DEF NextChunk, BackfillState
    <2>2. \A t : NewerThan(t)' = NewerThan(t)
        BY <1>u, <2>1 DEF NewerThan, Expired
    <2> QED  BY <1>u, <2>2 DEF BackfillContiguous
<1>1. CASE /\ backfill' = [backfill EXCEPT !.pc = "next",
                                           !.todo = discoverFrames(from, backfill.to)]
           /\ skipped' = skipped
    <2>1. /\ backfill'.pc = "next" /\ backfill'.todo = discoverFrames(from, backfill.to)
          /\ backfill'.to = backfill.to /\ backfill'.deadline = backfill.deadline
          /\ backfill'.started = backfill.started
        BY <1>0, <1>1 DEF BackfillState
    <2>2. AtHand' = discoverFrames(from, backfill.to)
        BY <2>1 DEF AtHand
    <2>3. \A u : (Owed(u)' <=> Owed(u)) /\ NewerThan(u)' = NewerThan(u)
        BY <1>u, <2>1 DEF Owed, NewerThan, Expired
    <2>4. ASSUME NEW u \in Frames, Owed(u), u >= from
          PROVE  u \in (Settled \cup AtHand)'
        <3>1. CASE u > backfill.to
            BY <1>s, <1>k, <2>4, <3>1
        <3>2. CASE u <= backfill.to
            <4>1. u + PublishDelay <= now /\ now - u <= upstreamHistory
                BY <1>0, <1>n, <2>4, FrameIsNat DEF Owed
            <4>2. u \in discoverFrames(from, backfill.to)
                BY <2>4, <3>2, <4>1 DEF discoverFrames
            <4> QED  BY <2>2, <4>2
        <3> QED  BY <1>n, <3>1, <3>2, FrameIsNat
    <2>5. ASSUME NEW t \in AtHand', NEW u \in NewerThan(t)
          PROVE  u \in (Settled \cup AtHand)'
        <3>1. t \in Frames /\ from <= t /\ now - t <= upstreamHistory
            BY <2>2, <2>5 DEF discoverFrames
        <3>2. u \in Frames /\ t < u /\ u + PublishDelay <= backfill.started /\ ~Expired(u)
            BY <2>5 DEF NewerThan
        <3>3. now - u <= upstreamHistory /\ u >= from
            BY <1>0, <1>n, <3>1, <3>2, FrameIsNat
        <3> QED  BY <2>4, <3>2, <3>3 DEF Owed
    <2>6. ASSUME backfill'.to - Chunk > backfill'.deadline,
                 NEW u \in Frames, Owed(u)', u > backfill'.to - Chunk
          PROVE  u \in (Settled \cup AtHand)'
        <3>1. u >= from
            BY <1>n, <1>f, <2>1, <2>6, FrameIsNat
        <3> QED  BY <2>3, <2>4, <2>6, <3>1
    <2>7. \A t \in AtHand' : NewerThan(t)' \subseteq (Settled \cup AtHand)'
        BY <2>3, <2>5
    <2>8. Swept'
        BY <2>1, <2>6, <2>7 DEF Swept
    <2> QED  BY <1>c, <2>8
<1>2. CASE /\ backfill' = NextChunk(backfill)
           /\ skipped' = skipped \cup (from..backfill.to)
    <2>1. ASSUME backfill.to - Chunk > backfill.deadline,
                 NEW u \in Frames, Owed(u), u > backfill.to - Chunk
          PROVE  u \in Settled'
        <3>1. CASE u > backfill.to
            BY <1>s, <1>k, <2>1, <3>1
        <3>2. CASE u <= backfill.to
            <4>1. u \in from..backfill.to
                BY <1>n, <1>f, <2>1, <3>2, FrameIsNat
            <4> QED  BY <1>2, <4>1 DEF Settled
        <3> QED  BY <1>n, <3>1, <3>2, FrameIsNat
    <2>2. Swept'
        BY <1>u, <1>2, <2>1, SweptChunk
    <2> QED  BY <1>c, <2>2
<1> QED  BY <1>d, <1>1, <1>2

LEMMA NextSwept ==
    ASSUME TypeOK, Running, Swept, BackfillContiguous, BackfillNext
    PROVE  Swept' /\ BackfillContiguous'
<1>0. backfill \in BackfillState /\ now \in Nat
    BY DEF TypeOK, BackfillState
<1>u. /\ backfill.pc = "next" /\ AtHand = backfill.todo
      /\ now' = now /\ filled' = filled /\ Settled' = Settled
      /\ archived' = archived /\ missed' = missed /\ skipped' = skipped
    BY DEF BackfillNext, history, Settled, AtHand
<1>c. ASSUME backfill'.started = backfill.started
      PROVE  BackfillContiguous'
    <2>1. \A t : NewerThan(t)' = NewerThan(t)
        BY <1>u, <1>c DEF NewerThan, Expired
    <2> QED  BY <1>u, <2>1 DEF BackfillContiguous
<1>1. CASE backfill.todo = {}
    <2>1. backfill' = NextChunk(backfill)
        BY <1>1 DEF BackfillNext
    <2>2. backfill'.started = backfill.started
        BY <1>0, <2>1 DEF NextChunk, BackfillState
    <2>3. backfill.to - Chunk > backfill.deadline =>
             \A u \in Frames : Owed(u) /\ u > backfill.to - Chunk => u \in Settled'
        BY <1>1, <1>u DEF Swept
    <2> QED  BY <1>u, <1>c, <2>1, <2>2, <2>3, SweptChunk
<1>2. CASE backfill.todo # {}
    <2>0. PICK t : t = BackfillPick(backfill.todo)
        OBVIOUS
    <2>1. /\ t \in backfill.todo /\ \A u \in backfill.todo : u <= t
          /\ t \in Frames /\ backfill.todo \in SUBSET Frames
        BY <1>0, <1>2, <2>0, NewestIsPicked DEF BackfillPick, BackfillState
    <2>2. \/ Has(t) /\ backfill' = [backfill EXCEPT !.todo = @ \ {t}]
          \/ backfill' = [backfill EXCEPT !.todo = @ \ {t}, !.pc = "fetch", !.t = t]
        BY <1>2, <2>0 DEF BackfillNext
    <2>3. /\ backfill'.to = backfill.to /\ backfill'.deadline = backfill.deadline
          /\ backfill'.started = backfill.started /\ backfill'.pc \in {"next", "fetch"}
        BY <1>0, <1>u, <2>2 DEF BackfillState
    <2>4. CASE Has(t) /\ backfill' = [backfill EXCEPT !.todo = @ \ {t}]
        <3>1. backfill'.pc = "next" /\ AtHand' = backfill.todo \ {t}
            BY <1>0, <1>u, <2>4 DEF BackfillState, AtHand
        <3>2. t \in Settled'
            BY <1>u, <2>4 DEF Has, Settled
        <3> QED  BY <1>u, <1>c, <2>3, <3>1, <3>2, SweptOn
    <2>5. CASE backfill' = [backfill EXCEPT !.todo = @ \ {t}, !.pc = "fetch", !.t = t]
        <3>1. backfill'.pc = "fetch" /\ backfill'.t = t /\ AtHand' = AtHand
            BY <1>0, <1>u, <2>1, <2>5 DEF BackfillState, AtHand
        <3>2. NewerThan(t)' \subseteq Settled'
            <4>1. NewerThan(t) \subseteq Settled \cup backfill.todo
                BY <1>u, <2>1 DEF Swept
            <4>2. ASSUME NEW u \in NewerThan(t) PROVE u \notin backfill.todo
                BY <2>1, <4>2, FrameIsNat DEF NewerThan
            <4>3. NewerThan(t)' = NewerThan(t)
                BY <1>u, <2>3 DEF NewerThan, Expired
            <4> QED  BY <1>u, <4>1, <4>2, <4>3
        <3> QED  BY <1>u, <1>c, <2>3, <3>1, <3>2, SweptOn
    <2> QED  BY <2>2, <2>4, <2>5
<1> QED  BY <1>1, <1>2

LEMMA FetchSwept ==
    ASSUME TypeOK, Running, Swept, BackfillContiguous, BackfillFetch
    PROVE  Swept' /\ BackfillContiguous'
<1>0. backfill \in BackfillState /\ now \in Nat
    BY DEF TypeOK, BackfillState
<1>u. /\ backfill.pc = "fetch" /\ AtHand = backfill.todo \cup {backfill.t}
      /\ now' = now /\ skipped' = skipped /\ ArchiveEnabled
    BY DEF BackfillFetch, AtHand, Running
<1>1. /\ backfill'.pc = "next" /\ backfill'.todo = backfill.todo
      /\ backfill'.to = backfill.to /\ backfill'.deadline = backfill.deadline
      /\ backfill'.started = backfill.started
    BY <1>0 DEF BackfillFetch, BackfillState
<1>2. AtHand' = backfill.todo
    BY <1>1 DEF AtHand
<1>3. Settled \subseteq Settled' /\ backfill.t \in Settled'
    BY <1>u DEF BackfillFetch, Put, Settled
<1>4. Swept'
    BY <1>u, <1>1, <1>2, <1>3, SweptOn
<1>5. \A t : NewerThan(t)' = NewerThan(t)
    BY <1>u, <1>1 DEF NewerThan, Expired
<1>6. filled' \subseteq filled \cup {backfill.t}
    BY DEF BackfillFetch
<1>7. \A t \in filled' : NewerThan(t) \subseteq Settled
    BY <1>u, <1>6 DEF Swept, BackfillContiguous, Settled
<1> QED  BY <1>3, <1>4, <1>5, <1>7 DEF BackfillContiguous, Settled

LEMMA PassStep == PassInv /\ [Next]_vars => PassInv'
<1> SUFFICES ASSUME PassInv, [Next]_vars PROVE PassInv'
    OBVIOUS
<1>t. TypeOK /\ Running /\ Swept /\ BackfillContiguous
    BY DEF PassInv
<1>u. TypeOK' /\ Running'
    BY <1>t, TypeStep, RunningStep
<1>n. now \in Nat /\ archived \subseteq Frames
    BY <1>t DEF TypeOK
<1> SUFFICES Swept' /\ BackfillContiguous'
    BY <1>u DEF PassInv
<1>1. CASE Live
    <2>1. /\ backfill' = backfill /\ filled' = filled /\ now' = now
          /\ missed' = missed /\ skipped' = skipped
        BY <1>1 DEF Live, LiveDiscover, LiveNext, LiveFetch, LiveDone, history
    <2>2. archived \subseteq archived'
        BY <1>1 DEF Live, LiveDiscover, LiveNext, LiveFetch, LiveDone, Put
    <2> QED  BY <1>t, <1>n, <2>1, <2>2, SweptKept DEF Settled
<1>2. CASE Backfill
    BY <1>t, <1>2, StartSwept, DiscoverSwept, NextSwept, FetchSwept DEF Backfill
<1>3. CASE Prune
    <2>1. /\ backfill' = backfill /\ filled' = filled /\ now' = now
          /\ missed' = missed /\ skipped' = skipped
          /\ archived' = {t \in archived : ~Expired(t)}
        BY <1>3 DEF Prune
    <2>2. \A u : Expired(u)' = Expired(u)
        BY <2>1 DEF Expired
    <2> QED  BY <1>t, <1>n, <2>1, <2>2, SweptKept DEF Settled
<1>4. CASE Restart
    BY <1>4 DEF Restart, BackfillWaiting, Swept, AtHand, BackfillContiguous
<1>5. CASE Tick
    <2>1. /\ backfill' = backfill /\ filled' = filled /\ now' = now + 1
          /\ missed' = missed /\ skipped' = skipped /\ archived' = archived
        BY <1>5 DEF Tick, history
    <2> QED  BY <1>t, <1>n, <2>1, SweptKept DEF Settled
<1>6. CASE UNCHANGED vars
    <2>1. /\ backfill' = backfill /\ filled' = filled /\ now' = now
          /\ missed' = missed /\ skipped' = skipped /\ archived' = archived
        BY <1>6 DEF vars, history
    <2> QED  BY <1>t, <1>n, <2>1, SweptKept DEF Settled
<1> QED  BY <1>1, <1>2, <1>3, <1>4, <1>5, <1>6 DEF Next

(***************************************************************************)
(* The downloads.                                                          *)
(***************************************************************************)

LEMMA DownloadsInit == Init => Downloads
<1> SUFFICES ASSUME Init PROVE Downloads
    OBVIOUS
<1>1. live.pc = "idle" /\ backfill.pc = "wait"
    BY DEF Init, LiveIdle, BackfillWaiting
<1> QED  BY <1>1 DEF Init, Downloads, InDownload

(* One of the pollers moves on from p to q without touching the archive;    *)
(* it may only start to download a frame that is not archived.              *)
LEMMA DownloadStarts ==
    ASSUME Downloads, TypeOK, archived' = archived, fetches' = fetches,
           \/ /\ backfill' = backfill
              /\ live'.pc = "fetch" => live' = live \/ (live.pc # "fetch" /\ ~Has(live'.t))
           \/ /\ live' = live
              /\ backfill'.pc = "fetch" =>
                    backfill' = backfill \/ (backfill.pc # "fetch" /\ ~Has(backfill'.t))
    PROVE  Downloads'
<1> SUFFICES ASSUME NEW t \in Frames
             PROVE  /\ t \notin archived => fetches[t] = 0
                    /\ fetches[t] + InDownload(live', t) + InDownload(backfill', t) <= 2
    BY DEF Downloads, InDownload
<1>1. /\ t \notin archived => fetches[t] = 0
      /\ fetches[t] + InDownload(live, t) + InDownload(backfill, t) <= 2
      /\ fetches[t] \in Nat
    BY DEF Downloads, TypeOK
<1> QED  BY <1>1 DEF InDownload, Has

(* A download that succeeds is counted and no longer in progress.           *)
LEMMA DownloadCounted ==
    ASSUME TypeOK, Downloads, ArchiveEnabled,
           NEW t \in Frames, Put(t), fetches' = Downloaded(t),
           \/ /\ backfill' = backfill
              /\ live.pc = "fetch" /\ live.t = t /\ live'.pc # "fetch"
           \/ /\ live' = live
              /\ backfill.pc = "fetch" /\ backfill.t = t /\ backfill'.pc # "fetch"
    PROVE  Downloads'
<1> SUFFICES ASSUME NEW u \in Frames
             PROVE  /\ u \notin archived' => fetches'[u] = 0
                    /\ fetches'[u] + InDownload(live', u) + InDownload(backfill', u) <= 2
    BY DEF Downloads, InDownload
<1>1. /\ u \notin archived => fetches[u] = 0
      /\ fetches[u] + InDownload(live, u) + InDownload(backfill, u) <= 2
      /\ fetches[u] \in Nat
    BY DEF Downloads, TypeOK
<1>2. archived' = archived \cup {t}
    BY DEF Put
<1>3. CASE u = t
    <2>1. fetches'[u] = IF fetches[u] < 3 THEN fetches[u] + 1 ELSE fetches[u]
        BY <1>3 DEF Downloaded, TypeOK
    <2> QED  BY <1>1, <1>2, <1>3, <2>1 DEF InDownload
<1>4. CASE u # t
    <2>1. fetches'[u] = fetches[u]
        BY <1>4 DEF Downloaded, TypeOK
    <2> QED  BY <1>1, <1>2, <1>4, <2>1 DEF InDownload
<1> QED  BY <1>3, <1>4

LEMMA DownloadsStep ==
    ASSUME ArchiveEnabled, TypeOK, Running, Downloads, [Next]_vars
    PROVE  Downloads'
<1>0. live \in LiveState /\ backfill \in BackfillState
    BY DEF TypeOK, LiveState, BackfillState
<1>1. CASE LiveDiscover
    <2>1. live'.pc # "fetch"
        BY <1>0, <1>1 DEF LiveDiscover, LiveState
    <2> QED  BY <1>1, <2>1, DownloadStarts DEF LiveDiscover, history
<1>2. CASE LiveNext
    <2>1. live.pc # "fetch" /\ (live'.pc = "fetch" => ~Has(live'.t))
        BY <1>0, <1>2 DEF LiveNext, LiveState
    <2> QED  BY <1>2, <2>1, DownloadStarts DEF LiveNext, history
<1>3. CASE LiveFetch
    <2>0. \/ live' = [live EXCEPT !.pc = "next", !.t = None]
          \/ live' = LiveIdle
        BY <1>3 DEF LiveFetch
    <2>1. live'.pc # "fetch"
        <3>1. LiveIdle.pc # "fetch"
            BY DEF LiveIdle
        <3>2. [live EXCEPT !.pc = "next", !.t = None].pc # "fetch"
            BY <1>0 DEF LiveState
        <3> QED  BY <2>0, <3>1, <3>2
    <2>2. CASE Put(live.t) /\ fetches' = Downloaded(live.t)
        BY <1>3, <2>1, <2>2, DownloadCounted DEF LiveFetch, Running
    <2>3. CASE archived' = archived /\ fetches' = fetches
        BY <1>3, <2>1, <2>3, DownloadStarts DEF LiveFetch
    <2> QED  BY <1>3, <2>2, <2>3 DEF LiveFetch
<1>4. CASE LiveDone
    <2>1. live'.pc # "fetch"
        BY <1>4 DEF LiveDone, LiveIdle
    <2> QED  BY <1>4, <2>1, DownloadStarts DEF LiveDone, history
<1>5. CASE BackfillStart
    <2>1. backfill'.pc # "fetch"
        BY <1>0, <1>5 DEF BackfillStart, BackfillState
    <2> QED  BY <1>5, <2>1, DownloadStarts DEF BackfillStart, history
<1>6. CASE BackfillDiscover
    <2>1. backfill'.pc # "fetch"
        BY <1>0, <1>6 DEF BackfillDiscover, BackfillState, NextChunk
    <2> QED  BY <1>6, <2>1, DownloadStarts DEF BackfillDiscover
<1>7. CASE BackfillNext
    <2>1. backfill.pc # "fetch" /\ (backfill'.pc = "fetch" => ~Has(backfill'.t))
        BY <1>0, <1>7 DEF BackfillNext, BackfillState, NextChunk
    <2> QED  BY <1>7, <2>1, DownloadStarts DEF BackfillNext, history
<1>8. CASE BackfillFetch
    <2>1. backfill'.pc # "fetch"
        BY <1>0, <1>8 DEF BackfillFetch, BackfillState
    <2>2. CASE Put(backfill.t) /\ fetches' = Downloaded(backfill.t)
        BY <1>8, <2>1, <2>2, DownloadCounted DEF BackfillFetch, Running
    <2>3. CASE archived' = archived /\ fetches' = fetches
        BY <1>8, <2>1, <2>3, DownloadStarts DEF BackfillFetch
    <2> QED  BY <1>8, <2>2, <2>3 DEF BackfillFetch
<1>9. CASE Prune
    <2>1. \A t \in Frames : fetches[t] \in Nat
        BY DEF TypeOK
    <2>2. \A t \in Frames : InDownload(live, t) <= 1 /\ InDownload(backfill, t) <= 1
        BY DEF InDownload
    <2>3. live' = live /\ backfill' = backfill
        BY <1>9 DEF Prune
    <2>4. ASSUME NEW t \in Frames
          PROVE  /\ t \notin archived' => fetches'[t] = 0
                 /\ fetches'[t] + InDownload(live, t) + InDownload(backfill, t) <= 2
        <3>1. CASE t \in archived /\ Expired(t)
            BY <1>9, <3>1 DEF Prune, InDownload
        <3>2. CASE ~(t \in archived /\ Expired(t))
            <4>1. fetches'[t] = fetches[t] /\ (t \in archived' <=> t \in archived)
                BY <1>9, <3>2 DEF Prune
            <4> QED  BY <4>1 DEF Downloads
        <3> QED  BY <3>1, <3>2
    <2> QED  BY <2>3, <2>4 DEF Downloads
<1>10. CASE Restart
    <2>1. live'.pc = "idle" /\ backfill'.pc = "wait"
        BY <1>10 DEF Restart, LiveIdle, BackfillWaiting
    <2> QED  BY <1>10, <2>1 DEF Restart, Downloads, InDownload
<1>11. CASE Tick
    BY <1>11, DownloadStarts DEF Tick, history
<1>12. CASE UNCHANGED vars
    BY <1>12, DownloadStarts DEF vars, history
<1> QED
    BY <1>1, <1>2, <1>3, <1>4, <1>5, <1>6, <1>7, <1>8, <1>9, <1>10, <1>11, <1>12
    DEF Next, Live, Backfill

(***************************************************************************)
(* The theorems.                                                           *)
(***************************************************************************)

(* Both pollers, their windows, the archive and the history keep their      *)
(* types.                                                                   *)
THEOREM TypeCorrect == Spec => []TypeOK
<1>1. PassInv => TypeOK
    BY DEF PassInv
<1> QED  BY <1>1, PassInit, PassStep, PTL DEF Spec

(* Whatever fails and however retention and the live poller interfere, the  *)
(* backfill never leaves a hole behind it that is not a failure of its own: *)
(* backfillProduct's newest-first chunks reach back contiguously.           *)
THEOREM BackfillReachesBack == Spec => []BackfillContiguous
<1>1. PassInv => BackfillContiguous
    BY DEF PassInv
<1> QED  BY <1>1, PassInit, PassStep, PTL DEF Spec

(* With an archive, the two pollers' check of Has before each download      *)
(* bounds what a frame can cost upstream, however often they run.           *)
THEOREM DownloadsBounded ==
    ASSUME ArchiveEnabled
    PROVE  Spec => []TrafficProportional
<1>1. PassInv /\ Downloads => TrafficProportional
    <2> SUFFICES ASSUME PassInv, Downloads, NEW t \in Frames PROVE fetches[t] <= 2
        BY DEF TrafficProportional
    <2>1. fetches[t] \in Nat /\ fetches[t] + InDownload(live, t) + InDownload(backfill, t) <= 2
        BY DEF PassInv, TypeOK, Downloads
    <2> QED  BY <2>1 DEF InDownload
<1>2. PassInv /\ Downloads /\ [Next]_vars => Downloads'
    BY DownloadsStep DEF PassInv
<1> QED  BY <1>1, <1>2, PassInit, PassStep, DownloadsInit, PTL DEF Spec
=================================================================================
