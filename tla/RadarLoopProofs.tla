---------------------------- MODULE RadarLoopProofs ----------------------------
(***************************************************************************)
(* Theorems about RadarLoop, for any selections, window lengths, dwell and *)
(* numbers of requests and actions: what counts as live shows the newest   *)
(* frame, a run that ends leaves the map live, and a refresh leaves a      *)
(* viewer who paused in the past where they were.                          *)
(***************************************************************************)
EXTENDS RadarLoop, WellFoundedInduction, FiniteSetTheorems, SequenceTheorems, TLAPS

(***************************************************************************)
(* Lists.                                                                  *)
(***************************************************************************)

(* A list of frames: instants, oldest first, none twice.                    *)
Increasing(l) == \A i, j \in DOMAIN l : i < j => l[i] < l[j]
Lists == {l \in Seq(Nat) : Increasing(l)}

(* A set of naturals that is not empty has a least member.                  *)
LEMMA Least ==
    ASSUME NEW S \in SUBSET Nat, S # {}
    PROVE  \E m \in S : \A i \in S : m <= i
<1> DEFINE R == {ij \in Nat \X Nat : ij[1] < ij[2]}
<1>1. IsWellFoundedOn(R, Nat)
    BY NatLessThanWellFounded DEF OpToRel
<1>2. \E m \in S : \A i \in S : ~ (<<i, m>> \in R)
    <2> HIDE DEF R
    <2> QED  BY <1>1, WFMin
<1>3. PICK m \in S : \A i \in S : <<i, m>> \notin R
    BY <1>2
<1>4. ASSUME NEW i \in S PROVE m <= i
    <2>1. <<i, m>> \in Nat \X Nat
        OBVIOUS
    <2> QED  BY <1>3, <2>1
<1> QED  BY <1>4

(* A set of instants can be listed in increasing order: the instants up to  *)
(* k can, for every k.                                                      *)
LEMMA Listable ==
    ASSUME NEW n \in Nat, NEW S \in SUBSET (1 .. n)
    PROVE  \E l \in SetToSeqs(S) : Increasing(l)
<1> DEFINE upTo(k) == {t \in S : t <= k}
           Out == {k \in 0 .. n : ~ \E l \in SetToSeqs(upTo(k)) : Increasing(l)}
<1>1. \A t \in S : t \in Nat /\ 1 <= t /\ t <= n
    OBVIOUS
<1>2. S = upTo(n)
    BY <1>1
<1> SUFFICES Out = {}
    BY <1>2
<1> SUFFICES ASSUME Out # {} PROVE FALSE
    OBVIOUS
<1>3. Out \in SUBSET Nat
    OBVIOUS
<1>4. PICK k \in Out : \A i \in Out : k <= i
    <2> HIDE DEF Out
    <2> QED  BY <1>3, Least
<1>5. k # 0
    <2> SUFFICES ASSUME k = 0 PROVE FALSE
        OBVIOUS
    <2>1. upTo(k) = {}
        <3>1. \A t \in S : ~(t <= k)
            BY <1>1
        <3> QED  BY <3>1
    <2>2. Cardinality({}) = 0
        BY FS_EmptySet
    <2>3. <<>> \in SetToSeqs({}) /\ Increasing(<<>>)
        BY <2>2 DEF SetToSeqs, Increasing
    <2> QED  BY <2>1, <2>3
<1>6. k \in 1 .. n /\ k - 1 \in 0 .. n
    BY <1>5
<1>7. k - 1 \notin Out
    <2>1. k \in Nat /\ ~(k <= k - 1)
        BY <1>6
    <2> HIDE DEF Out
    <2> QED  BY <2>1, <1>4
<1>8. PICK l \in SetToSeqs(upTo(k - 1)) : Increasing(l)
    BY <1>6, <1>7
<1> DEFINE T == upTo(k - 1)
           c == Cardinality(T)
<1>9. IsFiniteSet(T) /\ c \in Nat
    <2>1. T \in SUBSET (1 .. n)
        BY <1>1
    <2>2. IsFiniteSet(1 .. n)
        BY FS_Interval
    <2> HIDE DEF T
    <2> QED  BY <2>1, <2>2, FS_Subset, FS_CardinalityType
<1>10. l \in [1 .. c -> T] /\ DOMAIN l = 1 .. c /\ \A i, j \in 1 .. c : i # j => l[i] # l[j]
    BY <1>8 DEF SetToSeqs
<1>11. CASE k \notin S
    <2>1. \A t \in S : t <= k <=> t <= k - 1
        BY <1>1, <1>6, <1>11
    <2>2. upTo(k) = T
        BY <2>1
    <2> QED  BY <2>2, <1>8
<1>12. CASE k \in S
    <2> DEFINE longer == [i \in 1 .. c + 1 |-> IF i = c + 1 THEN k ELSE l[i]]
    <2>1. upTo(k) = T \cup {k} /\ k \notin T
        <3>1. \A t \in S : t <= k <=> t <= k - 1 \/ t = k
            BY <1>1, <1>6
        <3>2. ~(k <= k - 1)
            BY <1>6
        <3>3. upTo(k) = T \cup {k}
            BY <3>1, <1>12
        <3> QED  BY <3>2, <3>3
    <2>2. Cardinality(upTo(k)) = c + 1
        <3> HIDE DEF T, upTo
        <3> QED  BY <2>1, <1>9, FS_AddElement
    <2>3. \A t \in T : t \in Nat /\ t < k
        BY <1>6
    <2>4. longer \in [1 .. c + 1 -> T \cup {k}]
        <3>1. \A i \in 1 .. c + 1 : i = c + 1 \/ i \in 1 .. c
            BY <1>9
        <3>2. \A i \in 1 .. c : l[i] \in T
            BY <1>10
        <3> HIDE DEF T
        <3> QED  BY <3>1, <3>2
    <2>5. ASSUME NEW i \in 1 .. c + 1, NEW j \in 1 .. c + 1, i < j PROVE longer[i] < longer[j]
        <3>1. i \in 1 .. c /\ longer[i] = l[i] /\ l[i] \in T
            BY <1>9, <1>10, <2>5
        <3>2. CASE j = c + 1
            BY <3>1, <3>2, <2>3
        <3>3. CASE j # c + 1
            <4>1. j \in 1 .. c /\ longer[j] = l[j]
                BY <1>9, <3>3
            <4> QED  BY <3>1, <4>1, <2>5, <1>8, <1>10 DEF Increasing
        <3> QED  BY <3>2, <3>3
    <2>6. \A i \in 1 .. c + 1 : longer[i] \in Nat
        <3>1. k \in Nat /\ \A t \in T \cup {k} : t \in Nat
            <4>1. k \in Nat
                BY <1>6
            <4> HIDE DEF T
            <4> QED  BY <2>3, <4>1
        <3> HIDE DEF longer, T
        <3> QED  BY <2>4, <3>1
    <2>7. \A i, j \in 1 .. c + 1 : i # j => longer[i] # longer[j]
        <3> HIDE DEF longer
        <3> TAKE i, j \in 1 .. c + 1
        <3>1. i \in Nat /\ j \in Nat
            BY <1>9
        <3>2. i < j \/ j < i \/ i = j
            BY <3>1
        <3> QED  BY <3>2, <2>5, <2>6
    <2>8. Increasing(longer) /\ DOMAIN longer = 1 .. c + 1
        BY <2>5 DEF Increasing
    <2>9. longer \in SetToSeqs(upTo(k))
        <3> HIDE DEF longer, T, upTo
        <3> QED  BY <2>1, <2>2, <2>4, <2>7 DEF SetToSeqs
    <2> QED  BY <2>8, <2>9
<1> QED  BY <1>11, <1>12

(* What the backend answers is a list of frames.                            *)
LEMMA ListedIsList ==
    ASSUME archive \in SUBSET (1 .. now), now \in Nat, NEW s
    PROVE  Listed(s) \in Lists
<1> DEFINE S == {t \in archive : t > now - windowHours[s]}
<1>1. S \in SUBSET (1 .. now)
    OBVIOUS
<1> HIDE DEF S
<1>2. \E l \in SetToSeqs(S) : Increasing(l)
    BY <1>1, Listable
<1>3. Listed(s) = CHOOSE l \in SetToSeqs(S) : Increasing(l)
    BY DEF Listed, S, Increasing
<1>4. Listed(s) \in SetToSeqs(S) /\ Increasing(Listed(s))
    BY <1>2, <1>3
<1>5. Cardinality(S) \in Nat
    <2>1. IsFiniteSet(1 .. now)
        BY FS_Interval
    <2> QED  BY <2>1, <1>1, FS_Subset, FS_CardinalityType
<1>6. Listed(s) \in [1 .. Cardinality(S) -> S]
    BY <1>4 DEF SetToSeqs
<1>7. Listed(s) \in [1 .. Cardinality(S) -> Nat]
    <2>1. \A t \in S : t \in Nat
        BY <1>1
    <2> QED  BY <1>6, <2>1
<1>8. Listed(s) \in Seq(Nat)
    BY <1>5, <1>7
<1> QED  BY <1>4, <1>8 DEF Lists

(* The place of an instant in a list.                                       *)
LEMMA PlaceOf ==
    ASSUME NEW list \in Lists, NEW i \in 1 .. Len(list)
    PROVE  SelectInSeq(list, LAMBDA t : t = list[i]) = i
<1> DEFINE At == {j \in 1 .. Len(list) : list[j] = list[i]}
<1>1. list \in Seq(Nat) /\ Increasing(list)
    BY DEF Lists
<1>2. Len(list) \in Nat /\ DOMAIN list = 1 .. Len(list) /\ \A j \in 1 .. Len(list) : list[j] \in Nat
    BY <1>1, LenProperties, ElementOfSeq
<1>3. At = {i}
    <2> HIDE DEF At
    <2>0. \A a, b \in 1 .. Len(list) : a < b => list[a] < list[b]
        BY <1>1, <1>2 DEF Increasing
    <2>1. ASSUME NEW j \in 1 .. Len(list), list[j] = list[i] PROVE j = i
        <3>1. j \in Nat /\ i \in Nat /\ list[j] \in Nat /\ list[i] \in Nat
            BY <1>2
        <3>2. ~(i < j)
            BY <3>1, <2>0, <2>1
        <3>3. ~(j < i)
            BY <3>1, <2>0, <2>1
        <3> QED  BY <3>1, <3>2, <3>3
    <2> QED  BY <2>1 DEF At
<1>4. SelectInSeq(list, LAMBDA t : t = list[i]) = Min(At)
    BY <1>3 DEF SelectInSeq
<1>5. Min({i}) = i
    BY DEF Min
<1> QED  BY <1>3, <1>4, <1>5

(* Where in the list the place is, from 1.                                  *)
Place(i, l) == Min({i, Last0(l)}) + 1

LEMMA PlaceRange ==
    ASSUME NEW l \in Lists, l # <<>>, NEW i \in Nat
    PROVE  /\ Len(l) \in Nat \ {0} /\ Last0(l) \in Nat
           /\ Place(i, l) \in 1 .. Len(l)
           /\ i >= Last0(l) => Place(i, l) = Len(l)
           /\ i < Last0(l) => Place(i, l) = i + 1
<1>1. Len(l) \in Nat \ {0}
    BY EmptySeq DEF Lists
<1>2. Last0(l) \in Nat /\ Last0(l) + 1 = Len(l)
    BY <1>1 DEF Last0
<1>3. CASE i >= Last0(l)
    <2>1. Min({i, Last0(l)}) = Last0(l)
        BY <1>2, <1>3 DEF Min
    <2> QED  BY <2>1, <1>1, <1>2, <1>3 DEF Place
<1>4. CASE i < Last0(l)
    <2>1. Min({i, Last0(l)}) = i
        BY <1>2, <1>4 DEF Min
    <2> QED  BY <2>1, <1>1, <1>2, <1>4 DEF Place
<1> QED  BY <1>2, <1>3, <1>4

(***************************************************************************)
(* The loop.                                                               *)
(***************************************************************************)
LoopType ==
    /\ now \in Nat /\ archive \in SUBSET (1 .. now)
    /\ frames \in Lists /\ index \in Nat
    /\ live \in BOOLEAN /\ playing \in BOOLEAN
    /\ ended \in BOOLEAN /\ late \in BOOLEAN /\ disturbed \in BOOLEAN
    /\ refs \in [live : BOOLEAN, index : Nat, playing : BOOLEAN]
    /\ replies \in SUBSET [at : Nat, list : Lists]

(* Live means on the newest frame and, while nothing has disturbed the      *)
(* list, the other way round.                                               *)
Following ==
    /\ late => disturbed
    /\ live /\ ~late /\ frames # <<>> => index >= Last0(frames)
    /\ ~disturbed /\ frames = <<>> => live
    /\ ~disturbed /\ frames # <<>> /\ index >= Last0(frames) => live

Ending ==
    /\ ended => ~playing
    /\ ended /\ ~disturbed => live

LoopInv == LoopType /\ Following /\ Ending

LEMMA LoopInit == Init => LoopInv
<1> SUFFICES ASSUME Init PROVE LoopInv
    OBVIOUS
<1>1. <<>> \in Lists
    BY DEF Lists, Increasing
<1>2. archive \in SUBSET (1 .. now) /\ now \in Nat
    BY DEF Init
<1>3. LoopType
    BY <1>1, <1>2 DEF Init, LoopType, Refs
<1>4. Following /\ Ending
    BY DEF Init, Following, Ending
<1> QED  BY <1>3, <1>4 DEF LoopInv

(* Where a list puts the place.                                             *)
LEMMA PlaceInTyped ==
    ASSUME LoopInv, NEW next \in Lists
    PROVE  PlaceIn(next) \in [index : Nat, live : BOOLEAN]
<1> USE DEF LoopInv, LoopType
<1>1. next # <<>> => Last0(next) \in Nat
    <2>1. next # <<>> => Len(next) \in Nat \ {0}
        BY EmptySeq DEF Lists
    <2> QED  BY <2>1 DEF Last0
<1>2. Moved(next) >= 0 => Moved(next) \in Nat
    <2> DEFINE u == frames[Min({refs.index, Last0(frames)}) + 1]
    <2>1. Moved(next) = SelectInSeq(next, LAMBDA t : t = u) - 1
        BY DEF Moved
    <2>2. CASE u \notin ToSet(next)
        <3> HIDE DEF u
        <3>1. DOMAIN next = 1 .. Len(next)
            BY LenProperties DEF Lists
        <3>2. {j \in 1 .. Len(next) : next[j] = u} = {}
            BY <2>2, <3>1 DEF ToSet
        <3>3. SelectInSeq(next, LAMBDA t : t = u) = 0
            BY <3>2 DEF SelectInSeq
        <3> QED  BY <2>1, <3>3
    <2>3. CASE u \in ToSet(next)
        <3>1. DOMAIN next = 1 .. Len(next) /\ Len(next) \in Nat
            BY LenProperties DEF Lists
        <3>2. PICK i \in 1 .. Len(next) : u = next[i]
            BY <2>3, <3>1 DEF ToSet
        <3>3. SelectInSeq(next, LAMBDA t : t = next[i]) = i
            BY PlaceOf
        <3>4. Moved(next) = i - 1
            <4> HIDE DEF u
            <4> QED  BY <2>1, <3>2, <3>3
        <3> QED  BY <3>1, <3>4
    <2> QED  BY <2>2, <2>3
<1> QED  BY <1>1, <1>2 DEF PlaceIn

(* The refresh keeps the instant shown where it can.                        *)
LEMMA InstantKept ==
    ASSUME LoopInv, NEW next \in Lists, refs = Refs(live, index, playing),
           ~live, frames # <<>>, Shown \in ToSet(next)
    PROVE  /\ next # <<>>
           /\ \E i \in 1 .. Len(next) : next[i] = Shown /\ PlaceIn(next) = [index |-> i - 1, live |-> FALSE]
<1>1. DOMAIN next = 1 .. Len(next) /\ Len(next) \in Nat
    BY LenProperties DEF Lists
<1>2. PICK i \in 1 .. Len(next) : next[i] = Shown
    BY <1>1 DEF ToSet
<1>3. next # <<>> /\ i - 1 >= 0
    BY <1>1
<1>4. refs.index = index /\ refs.live = FALSE
    BY DEF Refs, LoopInv, LoopType
<1>5. Moved(next) = i - 1
    <2>1. SelectInSeq(next, LAMBDA t : t = next[i]) = i
        BY PlaceOf
    <2>2. Moved(next) = SelectInSeq(next, LAMBDA t : t = Shown) - 1
        BY <1>4 DEF Moved, Shown
    <2> HIDE DEF Shown
    <2> QED  BY <1>2, <2>1, <2>2
<1>6. PlaceIn(next) = [index |-> i - 1, live |-> FALSE]
    BY <1>3, <1>4, <1>5 DEF PlaceIn, LoopInv, LoopType
<1> QED  BY <1>2, <1>3, <1>6

(* A list arrives, in time or late.                                         *)
LEMMA ArriveKeeps ==
    ASSUME LoopInv, Arrive
    PROVE  LoopInv'
<1>1. PICK r \in replies :
         /\ replies' = replies \ {r} /\ frames' = r.list
         /\ index' = PlaceIn(r.list).index /\ live' = PlaceIn(r.list).live
         /\ late' = (refs # Refs(live, index, playing))
         /\ disturbed' =
              (disturbed \/ late'
                         \/ /\ frames # <<>>
                            /\ \/ frames[Min({index, Last0(frames)}) + 1] \notin ToSet(r.list)
                               \/ Last(r.list) < Last(frames))
         /\ UNCHANGED <<backend, playing, refs, ended>>
    BY DEF Arrive
<1> DEFINE next == r.list
<1>2. next \in Lists
    BY DEF LoopInv, LoopType
<1> HIDE DEF next
<1>3. frames' = next /\ PlaceIn(next) \in [index : Nat, live : BOOLEAN]
    BY <1>1, <1>2, PlaceInTyped DEF next
<1>4. index' = PlaceIn(next).index /\ live' = PlaceIn(next).live
    BY <1>1 DEF next
<1>5. late' \in BOOLEAN /\ disturbed' \in BOOLEAN /\ (late' => disturbed')
    BY <1>1 DEF LoopInv, LoopType
<1>6. LoopType'
    BY <1>1, <1>2, <1>3, <1>4, <1>5 DEF LoopInv, LoopType, backend
<1>7. CASE late'
    BY <1>1, <1>5, <1>6, <1>7 DEF LoopInv, Following, Ending
<1>8. CASE ~late'
    <2>1. refs = Refs(live, index, playing)
        BY <1>1, <1>8
    <2>2. refs.live = live /\ refs.playing = playing
        BY <2>1 DEF Refs
    <2>3. Len(next) \in Nat /\ (next # <<>> => Last0(next) \in Nat /\ Len(next) \in Nat \ {0})
        <3>1. Len(next) \in Nat /\ (next # <<>> => Len(next) \in Nat \ {0})
            BY <1>2, EmptySeq, LenProperties DEF Lists
        <3> QED  BY <3>1 DEF Last0
    <2>4. CASE frames = <<>> /\ Len(next) > 1 /\ playing
        <3>1. index' = 0 /\ ~live' /\ Last0(next) > 0 /\ next # <<>>
            BY <1>4, <2>2, <2>3, <2>4 DEF PlaceIn, Last0
        <3>2. ~ended'
            BY <1>1, <2>4 DEF LoopInv, LoopType, Ending
        <3>3. Following'
            <4>1. Last0(next) \in Nat
                BY <2>3, <3>1
            <4>2. ~live' /\ ~(index' >= Last0(next))
                BY <3>1, <4>1
            <4> QED  BY <1>3, <1>5, <3>1, <4>2 DEF Following
        <3>4. Ending'
            BY <3>2 DEF Ending
        <3> QED  BY <1>6, <3>3, <3>4 DEF LoopInv
    <2>5. CASE ~(frames = <<>> /\ Len(next) > 1 /\ playing) /\ live
        <3>1. live' /\ (next # <<>> => index' = Last0(next))
            BY <1>4, <2>2, <2>5 DEF PlaceIn
        <3>2. Following'
            BY <1>3, <1>5, <2>3, <3>1 DEF Following
        <3>3. Ending'
            BY <1>1, <3>1 DEF LoopInv, Ending
        <3> QED  BY <1>6, <3>2, <3>3 DEF LoopInv
    <2>6. CASE ~(frames = <<>> /\ Len(next) > 1 /\ playing) /\ ~live
        <3>1. ~live'
            BY <1>4, <2>2, <2>6 DEF PlaceIn
        <3>2. ASSUME ~disturbed' PROVE ~ended /\ next # <<>> /\ ~(index' >= Last0(next))
            <4>1. ~disturbed /\ ~ended /\ frames # <<>>
                BY <1>1, <2>6, <3>2 DEF LoopInv, Following, Ending
            <4>2. Shown \in ToSet(next) /\ ~(Last(next) < Last(frames))
                BY <1>1, <3>2, <4>1 DEF Shown, next
            <4>3. PICK i \in 1 .. Len(next) : next[i] = Shown /\ PlaceIn(next) = [index |-> i - 1, live |-> FALSE]
                BY <1>2, <2>1, <2>6, <4>1, <4>2, InstantKept
            <4>4. next # <<>> /\ index' = i - 1
                BY <1>4, <4>3, <2>3
            <4>5. index < Last0(frames)
                BY <2>6, <4>1, PlaceRange DEF LoopInv, LoopType, Following
            <4>6. Shown < Last(frames)
                <5>1. frames \in Seq(Nat) /\ Increasing(frames) /\ index \in Nat
                    BY DEF LoopInv, LoopType, Lists
                <5>2. DOMAIN frames = 1 .. Len(frames)
                    BY <5>1, LenProperties
                <5>3. /\ Len(frames) \in Nat \ {0} /\ Last0(frames) \in Nat
                      /\ Place(index, frames) = index + 1
                    BY <4>1, <4>5, PlaceRange DEF LoopInv, LoopType
                <5>4. Shown = frames[index + 1]
                    BY <5>3 DEF Shown, Place
                <5>5. index + 1 \in DOMAIN frames /\ Len(frames) \in DOMAIN frames /\ index + 1 < Len(frames)
                    BY <4>5, <5>1, <5>2, <5>3 DEF Last0
                <5> QED  BY <5>1, <5>4, <5>5 DEF Increasing, Last
            <4>7. Shown \in Nat /\ Last(frames) \in Nat /\ Last(next) \in Nat
                <5>1. next[i] \in Nat /\ next[Len(next)] \in Nat
                    BY <1>2, <2>3, <4>3, ElementOfSeq DEF Lists
                <5>2. frames[Len(frames)] \in Nat
                    BY <4>1, EmptySeq, ElementOfSeq DEF LoopInv, LoopType, Lists
                <5> QED  BY <4>3, <5>1, <5>2 DEF Last
            <4>8. i # Len(next)
                BY <4>2, <4>3, <4>6, <4>7 DEF Last
            <4> QED  BY <2>3, <4>1, <4>4, <4>8 DEF Last0
        <3> QED  BY <1>1, <1>3, <1>5, <1>6, <3>1, <3>2 DEF LoopInv, Following, Ending
    <2> QED  BY <2>4, <2>5, <2>6
<1> QED  BY <1>5, <1>7, <1>8

(* The animation timer.                                                     *)
LEMMA TickKeeps ==
    ASSUME LoopInv, Tick
    PROVE  LoopInv'
<1> USE DEF LoopInv, LoopType, Following, Ending
<1>1. /\ playing /\ Len(frames) >= 2 /\ refs' = Refs(live, index, playing)
      /\ UNCHANGED <<backend, frames, replies, late, disturbed>>
    BY DEF Tick
<1>2. frames # <<>> /\ Last0(frames) \in Nat
    <2>1. frames # <<>>
        BY <1>1
    <2> QED  BY <2>1, PlaceRange
<1>3. refs' \in [live : BOOLEAN, index : Nat, playing : BOOLEAN]
    BY <1>1 DEF Refs
<1>4. CASE Step
    <2>1. /\ index < Last0(frames) /\ index' = index + 1
          /\ live' = (live \/ index + 1 >= Last0(frames))
          /\ UNCHANGED <<playing, dwell, ended>>
        BY <1>4 DEF Step
    <2>2. live' \in BOOLEAN /\ index' \in Nat
        BY <2>1
    <2>3. LoopType'
        BY <1>1, <1>3, <2>1, <2>2 DEF backend
    <2>4. Following'
        <3>1. live /\ ~late => FALSE
            BY <1>2, <2>1
        <3>2. live' <=> live \/ index' >= Last0(frames)
            BY <2>1
        <3> QED  BY <1>1, <1>2, <2>1, <3>1, <3>2
    <2>5. Ending'
        BY <1>1, <2>1
    <2> QED  BY <2>3, <2>4, <2>5
<1>5. CASE Dwell
    BY <1>1, <1>2, <1>3, <1>5 DEF Dwell, backend
<1>6. CASE Stop
    BY <1>1, <1>2, <1>3, <1>6 DEF Stop, backend
<1> QED  BY <1>4, <1>5, <1>6 DEF Tick

(* The viewer.                                                              *)
LEMMA ActKeeps ==
    ASSUME LoopInv, setIndex \/ togglePlaying \/ Select
    PROVE  LoopInv'
<1> USE DEF LoopInv, LoopType, Following, Ending
<1>1. ended' = FALSE /\ refs' = Refs(live', index', playing') /\ UNCHANGED backend
    BY DEF setIndex, togglePlaying, Select, Act
<1>2. frames # <<>> => Last0(frames) \in Nat
    BY PlaceRange
<1>3. refs' \in [live : BOOLEAN, index : Nat, playing : BOOLEAN] <=>
         live' \in BOOLEAN /\ index' \in Nat /\ playing' \in BOOLEAN
    BY <1>1 DEF Refs
<1>4. CASE setIndex
    <2>1. /\ frames # <<>> /\ index' \in 0 .. Last0(frames) /\ live' = (index' = Last0(frames))
          /\ UNCHANGED <<frames, playing, replies, late, disturbed>>
        BY <1>4 DEF setIndex
    <2>2. index' \in Nat /\ live' \in BOOLEAN /\ (live' <=> index' >= Last0(frames))
        <3> DEFINE end == Last0(frames)
        <3>1. end \in Nat /\ index' \in 0 .. end /\ live' = (index' = end)
            BY <1>2, <2>1
        <3> HIDE DEF end
        <3>2. index' \in Nat /\ (index' >= end <=> index' = end)
            BY <3>1
        <3>3. live' \in BOOLEAN /\ (live' <=> index' = end)
            BY <3>1, Zenon
        <3> QED  BY <3>2, <3>3 DEF end
    <2>3. LoopType'
        BY <1>1, <1>3, <2>1, <2>2 DEF backend
    <2>4. Following'
        BY <2>1, <2>2
    <2>5. Ending'
        BY <1>1
    <2> QED  BY <2>3, <2>4, <2>5
<1>5. CASE togglePlaying
    <2>1. frames # <<>> /\ playing' = ~playing /\ UNCHANGED <<frames, replies, late, disturbed>>
        BY <1>5 DEF togglePlaying
    <2>2. \/ index' = 0 /\ live' = FALSE /\ Len(frames) > 1
          \/ UNCHANGED <<index, live>>
        BY <1>5 DEF togglePlaying
    <2>3. Len(frames) > 1 => Last0(frames) > 0
        BY <1>2, <2>1, PlaceRange DEF Last0
    <2>4. index' \in Nat /\ live' \in BOOLEAN /\ playing' \in BOOLEAN
        <3>1. playing' \in BOOLEAN
            BY <2>1
        <3>2. index' \in Nat
            BY <2>2
        <3>3. live' \in BOOLEAN
            BY <2>2
        <3> QED  BY <3>1, <3>2, <3>3
    <2>5. LoopType'
        BY <1>1, <1>3, <2>1, <2>4 DEF backend
    <2>6. Following'
        BY <1>2, <2>1, <2>2, <2>3
    <2>7. Ending'
        BY <1>1
    <2> QED  BY <2>5, <2>6, <2>7
<1>6. CASE Select
    <2>1. /\ frames' = <<>> /\ index' = 0 /\ live' = TRUE /\ late' = FALSE /\ disturbed' = FALSE
          /\ playing' = playing
          /\ replies' = {[at |-> now, list |-> Listed(selection')]}
        BY <1>6 DEF Select
    <2>2. Listed(selection') \in Lists
        BY ListedIsList
    <2>3. <<>> \in Lists
        BY DEF Lists, Increasing
    <2>4. replies' \in SUBSET [at : Nat, list : Lists]
        BY <2>1, <2>2
    <2>5. LoopType'
        BY <1>1, <1>3, <2>1, <2>3, <2>4 DEF backend
    <2>6. Following' /\ Ending'
        BY <1>1, <2>1
    <2> QED  BY <2>5, <2>6
<1> QED  BY <1>4, <1>5, <1>6

LEMMA LoopStep == LoopInv /\ [Next]_vars => LoopInv'
<1> SUFFICES ASSUME LoopInv, [Next]_vars PROVE LoopInv'
    OBVIOUS
<1>1. CASE Advance
    <2>1. now + 1 \in Nat /\ archive' \in SUBSET (1 .. now + 1)
        BY <1>1 DEF Advance, LoopInv, LoopType
    <2> QED  BY <1>1, <2>1 DEF Advance, LoopInv, LoopType, Following, Ending
<1>2. CASE Load
    <2>1. [at |-> now, list |-> Listed(selection)] \in [at : Nat, list : Lists]
        BY ListedIsList DEF LoopInv, LoopType
    <2> QED  BY <1>2, <2>1 DEF Load, LoopInv, LoopType, Following, Ending, backend
<1>3. CASE LoadFails
    BY <1>3 DEF LoadFails, LoopInv, LoopType, Following, Ending, backend
<1>4. CASE SyncRefs
    BY <1>4 DEF SyncRefs, Refs, LoopInv, LoopType, Following, Ending, backend
<1>5. CASE UNCHANGED vars
    BY <1>5 DEF vars, LoopInv, LoopType, Following, Ending, backend
<1> QED  BY <1>1, <1>2, <1>3, <1>4, <1>5, ArriveKeeps, TickKeeps, ActKeeps DEF Next

LEMMA LoopAlways == Spec => []LoopInv
BY LoopInit, LoopStep, PTL DEF Spec

(* On a map that counts as live, what is shown is the newest frame.         *)
LEMMA NewestShown ==
    ASSUME LoopInv, frames # <<>>, index >= Last0(frames)
    PROVE  Shown = Last(frames)
<1>1. Place(index, frames) = Len(frames)
    BY PlaceRange DEF LoopInv, LoopType
<1> QED  BY <1>1 DEF Shown, Place, Last

(* Whatever order refreshes, ticks and scrubs come in, a map that counts as *)
(* live shows the newest frame of its list (useRadarLoop.ts, live).         *)
THEOREM LiveIsNewest == Spec => []LiveShowsNewest
<1>1. LoopInv => LiveShowsNewest
    BY NewestShown DEF LoopInv, Following, LiveShowsNewest
<1> QED  BY <1>1, LoopAlways, PTL

(* A run of playback that ends by itself leaves the map live on the newest  *)
(* frame (useRadarLoop.ts, the animation effect).                           *)
THEOREM RunLeavesLive == Spec => []RunEndsLive
<1>1. LoopInv => RunEndsLive
    <2> SUFFICES ASSUME LoopInv, ended, ~disturbed PROVE live /\ (frames # <<>> => Shown = Last(frames))
        BY DEF RunEndsLive
    <2>1. live /\ ~late
        BY DEF LoopInv, Following, Ending
    <2>2. frames # <<>> => index >= Last0(frames)
        BY <2>1 DEF LoopInv, Following
    <2> QED  BY <2>1, <2>2, NewestShown
<1> QED  BY <1>1, LoopAlways, PTL

(* A refresh leaves a viewer who paused in the past at the instant they     *)
(* were looking at (useRadarLoop.ts, the updater of setFrames).             *)
THEOREM RefreshKeepsPlace == Spec => PlaceKept
<1> DEFINE Kept == /\ Arrive /\ refs = Refs(live, index, playing)
                   /\ ~playing /\ ~live /\ frames # <<>> /\ Shown \in ToSet(frames')
                   => Shown' = Shown
<1>1. LoopInv /\ [Next]_vars => [Kept]_vars
    <2> SUFFICES ASSUME LoopInv, Arrive, refs = Refs(live, index, playing), ~live, frames # <<>>,
                        Shown \in ToSet(frames')
                 PROVE  Shown' = Shown
        OBVIOUS
    <2>1. PICK r \in replies : frames' = r.list /\ index' = PlaceIn(r.list).index
        BY DEF Arrive
    <2> DEFINE next == r.list
    <2>2. next \in Lists /\ frames' = next /\ index' = PlaceIn(next).index
        BY <2>1 DEF LoopInv, LoopType
    <2> HIDE DEF next
    <2>3. PICK i \in 1 .. Len(next) : next[i] = Shown /\ PlaceIn(next) = [index |-> i - 1, live |-> FALSE]
        BY <2>2, InstantKept
    <2>4. Len(next) \in Nat \ {0} /\ next # <<>>
        BY <2>2, <2>3, EmptySeq, InstantKept DEF Lists
    <2>5. index' = i - 1 /\ i - 1 \in Nat
        BY <2>2, <2>3, <2>4
    <2>6. Place(i - 1, next) = i
        BY <2>2, <2>3, <2>4, <2>5, PlaceRange DEF Last0
    <2>7. Shown' = frames'[Place(index', frames')]
        BY DEF Shown, Place
    <2> HIDE DEF Shown
    <2> QED  BY <2>2, <2>3, <2>5, <2>6, <2>7
<1>2. Spec => [][Kept]_vars
    BY <1>1, LoopAlways, PTL DEF Spec
<1> QED  BY <1>2 DEF PlaceKept
================================================================================
