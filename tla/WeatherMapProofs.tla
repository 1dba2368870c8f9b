---------------------------- MODULE WeatherMapProofs ----------------------------
(***************************************************************************)
(* Theorems about WeatherMap, for any points, stations, products, layers,  *)
(* overlays and numbers of taps and theme swaps.                           *)
(*   - The readout: however slow or late an answer is, the numbers shown   *)
(*     are the picked point's, and a readout that says it is loading is    *)
(*     being loaded.                                                       *)
(*   - The stack: it is always in its declared order, and once the map has *)
(*     settled it carries what is switched on and nothing else.            *)
(***************************************************************************)
EXTENDS WeatherMap, WellFoundedInduction, SequenceTheorems, TLAPS

(***************************************************************************)
(* The readout.                                                            *)
(***************************************************************************)
Requests == [at : Places, product : ProductIds]

(* The state of the readout. Its heart is the second line: a request that   *)
(* still counts is for the point picked now and the product shown now.      *)
ReadoutInv ==
    /\ product \in ProductIds /\ probe \in Places \cup {None}
    /\ reads \subseteq Requests
    /\ point \in Requests \cup {None}
    /\ \A r \in reads : r = [at |-> probe, product |-> product]
    /\ ReadoutBelongsToProbe
    /\ LoadingIsHonest

LEMMA ReadoutInit == Init => ReadoutInv
BY DEF Init, PanelsInit, ReadoutInv, ReadoutBelongsToProbe, LoadingIsHonest, pointLoading, Requests

(* A request is for the point it was made for.                              *)
LEMMA ReadOne ==
    ASSUME NEW at \in Places \cup {None}, NEW prod \in ProductIds, Read(at, prod)
    PROVE  /\ reads' \subseteq Requests
           /\ \A r \in reads' : at # None /\ r = [at |-> at, product |-> prod]
           /\ at # None => [at |-> at, product |-> prod] \in reads'
BY DEF Read, Requests

(* What an answer, or the lack of one, does to the readout.                 *)
LEMMA PanelStep ==
    ASSUME ReadoutInv, PanelsNext
    PROVE  ReadoutInv'
<1> USE NoneAssumption DEF ReadoutInv, ReadoutBelongsToProbe, LoadingIsHonest, pointLoading
<1>1. CASE ClosePoint
    <2>1. /\ probe' = None /\ point' = None /\ product' = product
          /\ Read(None, product)
        BY <1>1 DEF ClosePoint, closePoint
    <2>2. reads' = {}
        BY <2>1, ReadOne
    <2> QED  BY <2>1, <2>2
<1>2. CASE CloseStation \/ StationArrives \/ StationFails
    BY <1>2 DEF CloseStation, StationArrives, StationFails, readout
<1>3. CASE PointArrives
    <2>1. PICK r \in reads : point' = r /\ reads' = reads \ {r}
        BY <1>3 DEF PointArrives
    <2>2. r \in Requests /\ r = [at |-> probe, product |-> product] /\ probe # None
        BY <2>1 DEF Requests
    <2> QED  BY <1>3, <2>1, <2>2 DEF PointArrives, Requests
<1>4. CASE PointFails
    BY <1>4 DEF PointFails
<1> QED  BY <1>1, <1>2, <1>3, <1>4 DEF PanelsNext

LEMMA ReadoutStep == ReadoutInv /\ [Next]_vars => ReadoutInv'
<1> SUFFICES ASSUME ReadoutInv, [Next]_vars PROVE ReadoutInv'
    OBVIOUS
<1> USE NoneAssumption
<1>1. CASE UNCHANGED panels
    BY <1>1 DEF panels, readout, ReadoutInv, ReadoutBelongsToProbe, LoadingIsHonest, pointLoading
<1>2. CASE TapStation
    <2>1. /\ probe' = None /\ point' = None /\ product' = product
          /\ Read(None, product)
        BY <1>2 DEF TapStation, selectStation, closePoint
    <2>2. product \in ProductIds /\ reads' = {}
        BY <2>1, ReadOne DEF ReadoutInv
    <2> QED
        BY <2>1, <2>2 DEF ReadoutInv, ReadoutBelongsToProbe, LoadingIsHonest, pointLoading
<1>3. CASE TapMap
    <2>1. PICK at \in Places : pickPoint(at)
        BY <1>3 DEF TapMap
    <2>2. probe' = at /\ point' = None /\ product' = product /\ Read(at, product)
        BY <2>1 DEF pickPoint
    <2> QED
        BY <2>2, ReadOne DEF ReadoutInv, ReadoutBelongsToProbe, LoadingIsHonest, pointLoading
<1>4. CASE PickProduct
    <2>1. PICK p \in ProductIds : setProduct(p)
        BY <1>4 DEF PickProduct
    <2>2. /\ product' = p /\ Read(probe, p)
          /\ probe' = probe /\ point' = point /\ pointError' = pointError
        BY <2>1 DEF setProduct
    <2> QED
        BY <2>2, ReadOne DEF ReadoutInv, ReadoutBelongsToProbe, LoadingIsHonest, pointLoading
<1>5. CASE Panel
    BY <1>5, PanelStep DEF Panel
<1>6. CASE StyleLoad \/ MapLoad \/ Commit \/ ShowFrame \/ GridArrives \/ ToggleTheme \/ ToggleOverlay
    BY <1>1, <1>6 DEF StyleLoad, MapLoad, Commit, ShowFrame, GridArrives, ToggleTheme, ToggleOverlay
<1>7. CASE UNCHANGED vars
    BY <1>1, <1>7 DEF vars
<1> QED  BY <1>2, <1>3, <1>4, <1>5, <1>6, <1>7 DEF Next

(* Late answers are harmless: the readout is never of a point other than    *)
(* the one picked (WeatherMap.tsx, the effect's cleanup).                   *)
THEOREM ReadoutNeverStray == Spec => []ReadoutBelongsToProbe
<1>1. ReadoutInv => ReadoutBelongsToProbe
    BY DEF ReadoutInv
<1> QED  BY <1>1, ReadoutInit, ReadoutStep, PTL DEF Spec

(* A spinner is never for nothing: pointLoading, which is derived rather    *)
(* than set, implies a request for this point and product on its way.       *)
THEOREM SpinnerHonest == Spec => []LoadingIsHonest
<1>1. ReadoutInv => LoadingIsHonest
    BY DEF ReadoutInv
<1> QED  BY <1>1, ReadoutInit, ReadoutStep, PTL DEF Spec

(***************************************************************************)
(* Folds. A FoldLeft is a recursive function over the sets of positions,   *)
(* chosen among the solutions of its recursion: there is one, and it walks *)
(* through the sequence a position at a time.                              *)
(***************************************************************************)
(* A set of naturals has a least member.                                    *)
LEMMA Least ==
    ASSUME NEW S \in SUBSET Nat, S # {}
    PROVE  \E m \in S : \A i \in S : m <= i
<1> DEFINE R == {ij \in Nat \X Nat : ij[1] < ij[2]}
<1>1. IsWellFoundedOn(R, Nat)
    BY NatLessThanWellFounded DEF OpToRel
<1>2. \E m \in S : \A i \in S : ~ (<<i, m>> \in R)
    <2> HIDE DEF R
    <2> QED  BY <1>1, WFMin
<1>3. PICK m \in S : \A i \in S : <<i, m>> \notin R
    BY <1>2
<1>4. ASSUME NEW i \in S PROVE m <= i
    <2>1. <<i, m>> \in Nat \X Nat
        OBVIOUS
    <2> QED  BY <1>3, <2>1
<1> QED  BY <1>4

(* Induction up to n, over a set rather than a predicate.                   *)
LEMMA UpTo ==
    ASSUME NEW n \in Nat, NEW K, 0 \in K, \A k \in 1 .. n : k - 1 \in K => k \in K
    PROVE  \A k \in 0 .. n : k \in K
<1> SUFFICES ASSUME NEW k \in 0 .. n, k \notin K PROVE FALSE
    OBVIOUS
<1> DEFINE Out == {i \in 0 .. n : i \notin K}
<1>1. Out # {} /\ Out \subseteq Nat
    OBVIOUS
<1>2. PICK m \in Out : \A i \in Out : m <= i
    <2> HIDE DEF Out
    <2> QED  BY <1>1, Least
<1>3. m \in 0 .. n /\ m # 0 /\ m \notin K
    OBVIOUS
<1>4. m - 1 \in 0 .. n /\ m - 1 \notin Out
    BY <1>2, <1>3
<1> QED  BY <1>3, <1>4

(* A non-empty set of positions has a last one.                             *)
LEMMA LastPosition ==
    ASSUME NEW n \in Nat, NEW S \in SUBSET (1 .. n), S # {}
    PROVE  Max(S) \in S /\ \A i \in S : i <= Max(S)
<1> DEFINE Above == {k \in Nat : \A i \in S : i <= k}
<1>1. n \in Above /\ Above \subseteq Nat
    OBVIOUS
<1>2. PICK m \in Above : \A k \in Above : m <= k
    <2> HIDE DEF Above
    <2> QED  BY <1>1, Least
<1>3. m \in S
    <2> SUFFICES ASSUME m \notin S PROVE FALSE
        OBVIOUS
    <2>1. \A i \in S : i \in Nat /\ i <= m /\ i # m
        BY <1>2
    <2>2. m > 0
        <3>1. PICK i \in S : i \in 1 .. n
            OBVIOUS
        <3> QED  BY <3>1, <2>1, <1>2
    <2>3. m - 1 \in Nat
        BY <1>2, <2>2
    <2>4. m - 1 \in Above
        BY <2>1, <2>3, <1>2
    <2> QED  BY <2>4, <1>2
<1>4. \E x \in S : \A y \in S : x >= y
    BY <1>2, <1>3
<1>5. Max(S) \in S /\ \A y \in S : Max(S) >= y
    BY <1>4 DEF Max
<1> QED  BY <1>5

LEMMA PrefixMax ==
    ASSUME NEW n \in Nat, NEW k \in 1 .. n
    PROVE  (1 .. k) \in SUBSET (1 .. n) /\ (1 .. k) # {} /\ Max(1 .. k) = k /\ (1 .. k) \ {k} = 1 .. (k - 1)
<1>1. (1 .. k) \in SUBSET (1 .. n) /\ (1 .. k) # {} /\ k \in 1 .. k
    OBVIOUS
<1>2. Max(1 .. k) \in 1 .. k /\ \A i \in 1 .. k : i <= Max(1 .. k)
    BY <1>1, LastPosition
<1> QED  BY <1>1, <1>2

(* it solves the recursion of a fold of step over the positions 1 .. n.     *)
IsFold(it, base, step, n) ==
    \A S \in SUBSET (1 .. n) :
        it[S] = IF S = {} THEN base ELSE step[<<it[S \ {Max(S)}], Max(S)>>]

(* A fold over the positions 1 .. n exists: the recursion that defines it   *)
(* has a solution.                                                          *)
LEMMA FoldExists ==
    ASSUME NEW V, NEW n \in Nat, NEW base \in V, NEW step \in [V \X (1 .. n) -> V]
    PROVE  \E it \in [SUBSET (1 .. n) -> V] : IsFold(it, base, step, n)
<1> DEFINE K == {k \in 0 .. n : \E it \in [SUBSET (1 .. k) -> V] : IsFold(it, base, step, k)}
<1>1. 0 \in K
    <2>1. [S \in SUBSET (1 .. 0) |-> base] \in [SUBSET (1 .. 0) -> V]
        OBVIOUS
    <2>2. IsFold([S \in SUBSET (1 .. 0) |-> base], base, step, 0)
        BY DEF IsFold
    <2> QED  BY <2>1, <2>2
<1>2. ASSUME NEW k \in 1 .. n, k - 1 \in K PROVE k \in K
    <2>1. PICK it \in [SUBSET (1 .. (k - 1)) -> V] : IsFold(it, base, step, k - 1)
        BY <1>2
    <2> DEFINE longer == [S \in SUBSET (1 .. k) |-> IF k \in S THEN step[<<it[S \ {k}], k>>] ELSE it[S]]
    <2>2. \A S \in SUBSET (1 .. k) : S \ {k} \in SUBSET (1 .. (k - 1))
        OBVIOUS
    <2>3. longer \in [SUBSET (1 .. k) -> V]
        BY <2>1, <2>2
    <2>4. ASSUME NEW S \in SUBSET (1 .. k)
          PROVE  longer[S] = IF S = {} THEN base ELSE step[<<longer[S \ {Max(S)}], Max(S)>>]
        <3>1. CASE k \in S
            <4>1. Max(S) \in S /\ \A i \in S : i <= Max(S)
                <5>1. k \in Nat /\ S # {}
                    BY <3>1
                <5> QED  BY <5>1, LastPosition
            <4>2. Max(S) = k
                <5>1. Max(S) \in 1 .. k /\ k <= Max(S)
                    BY <4>1, <3>1
                <5> QED  BY <5>1
            <4>3. S \ {k} \in SUBSET (1 .. k) /\ k \notin S \ {k}
                OBVIOUS
            <4>4. longer[S \ {k}] = it[S \ {k}]
                BY <4>3
            <4>5. longer[S] = step[<<it[S \ {k}], k>>]
                BY <3>1
            <4> QED  BY <4>2, <4>4, <4>5, <3>1
        <3>2. CASE k \notin S /\ S # {}
            <4>1. S \in SUBSET (1 .. (k - 1))
                BY <3>2
            <4>2. longer[S] = it[S] /\ longer[S \ {Max(S)}] = it[S \ {Max(S)}]
                BY <3>2
            <4>3. it[S] = step[<<it[S \ {Max(S)}], Max(S)>>]
                BY <2>1, <4>1, <3>2 DEF IsFold
            <4> QED  BY <4>2, <4>3, <3>2
        <3>3. CASE S = {}
            <4>1. longer[S] = it[{}] /\ {} \in SUBSET (1 .. (k - 1))
                BY <3>3
            <4>2. it[{}] = base
                BY <2>1, <4>1 DEF IsFold
            <4> QED  BY <4>1, <4>2, <3>3
        <3> QED  BY <3>1, <3>2, <3>3
    <2>5. IsFold(longer, base, step, k)
        BY <2>4 DEF IsFold
    <2> HIDE DEF longer
    <2> QED  BY <2>3, <2>5
<1>3. n \in K
    <2> HIDE DEF K
    <2>1. \A k \in 0 .. n : k \in K
        BY <1>1, <1>2, UpTo
    <2> QED  BY <2>1
<1> QED  BY <1>3

(* h goes from base to last, by step.                                       *)
IsHistory(h, V, base, step, n, last) ==
    /\ h \in [0 .. n -> V] /\ h[0] = base /\ h[n] = last
    /\ \A k \in 1 .. n : h[k] = step[<<h[k - 1], k>>]

(* What is known of a solution c as long as its values stay in V.           *)
UnfoldsTo(c, base, step, V, n) ==
    /\ c[{}] = base
    /\ \A k \in 1 .. n : c[1 .. (k - 1)] \in V => c[1 .. k] = step[<<c[1 .. (k - 1)], k>>]

(* The values a fold goes through, one per position, from the solution c of *)
(* its recursion.                                                           *)
LEMMA FoldByStep ==
    ASSUME NEW V, NEW n \in Nat, NEW base \in V, NEW step \in [V \X (1 .. n) -> V], NEW c,
           UnfoldsTo(c, base, step, V, n)
    PROVE  \E h : IsHistory(h, V, base, step, n, c[1 .. n])
<1> DEFINE K == {k \in 0 .. n : c[1 .. k] \in V}
           h == [k \in 0 .. n |-> c[1 .. k]]
<1>1. 0 \in K /\ c[1 .. 0] = base
    <2>1. 1 .. 0 = {}
        OBVIOUS
    <2> QED  BY <2>1 DEF UnfoldsTo
<1>2. ASSUME NEW k \in 1 .. n, k - 1 \in K PROVE k \in K
    <2>1. c[1 .. k] = step[<<c[1 .. (k - 1)], k>>] /\ <<c[1 .. (k - 1)], k>> \in V \X (1 .. n)
        BY <1>2 DEF UnfoldsTo
    <2> QED  BY <2>1
<1>3. \A k \in 0 .. n : k \in K
    <2> HIDE DEF K
    <2> QED  BY <1>1, <1>2, UpTo
<1>4. h \in [0 .. n -> V] /\ h[n] = c[1 .. n]
    BY <1>1, <1>3
<1>5. IsHistory(h, V, base, step, n, c[1 .. n])
    BY <1>1, <1>3, <1>4 DEF IsHistory, UnfoldsTo
<1> HIDE DEF h
<1> QED  BY <1>5

(* h goes from first to last through V.                                     *)
Walk(h, V, first, n, last) == h \in [0 .. n -> V] /\ h[0] = first /\ h[n] = last

(* The stacks InstallOverlay goes through, one per layer.                   *)
LEMMA AddHistory ==
    ASSUME NEW V, NEW base \in V, NEW D, NEW q \in Seq(D),
           \A v \in V, d \in D : AddLayer(v, d) \in V
    PROVE  \E h :
              /\ Walk(h, V, base, Len(q), FoldLeft(AddLayer, base, q))
              /\ \A k \in 1 .. Len(q) : h[k] = AddLayer(h[k - 1], q[k])
<1> DEFINE n == Len(q)
           step == [p \in V \X (1 .. n) |-> AddLayer(p[1], q[p[2]])]
           Solves(it) == it = [S \in SUBSET DOMAIN q |->
                                 IF S = {} THEN base ELSE AddLayer(it[S \ {Max(S)}], q[Max(S)])]
           c == CHOOSE it : Solves(it)
<1>1. n \in Nat /\ DOMAIN q = 1 .. n /\ \A i \in 1 .. n : q[i] \in D
    BY LenProperties
<1>2. step \in [V \X (1 .. n) -> V]
    BY <1>1
<1>3. PICK it \in [SUBSET (1 .. n) -> V] : IsFold(it, base, step, n)
    <2>1. n \in Nat
        BY <1>1
    <2> HIDE DEF step, n
    <2> QED  BY <2>1, <1>2, FoldExists
<1>4. \A S \in SUBSET (1 .. n) : it[S] = IF S = {} THEN base ELSE AddLayer(it[S \ {Max(S)}], q[Max(S)])
    <2> SUFFICES ASSUME NEW S \in SUBSET (1 .. n), S # {}
                 PROVE  step[<<it[S \ {Max(S)}], Max(S)>>] = AddLayer(it[S \ {Max(S)}], q[Max(S)])
        BY <1>3 DEF IsFold
    <2>1. Max(S) \in 1 .. n
        BY <1>1, LastPosition
    <2>2. it[S \ {Max(S)}] \in V
        BY <1>3
    <2> QED  BY <2>1, <2>2
<1>5. Solves(it)
    BY <1>1, <1>3, <1>4
<1>6. Solves(c)
    <2> HIDE DEF Solves
    <2> QED  BY <1>5
<1>7. FoldLeft(AddLayer, base, q) = c[1 .. n] /\ c[{}] = base
    <2>1. FoldLeft(AddLayer, base, q) = c[DOMAIN q]
        BY DEF FoldLeft, MapThenFoldSet
    <2> QED  BY <2>1, <1>1, <1>6
<1>8. \A k \in 1 .. n : c[1 .. k] = AddLayer(c[1 .. (k - 1)], q[k])
    <2> TAKE k \in 1 .. n
    <2>1. (1 .. k) \in SUBSET (1 .. n) /\ (1 .. k) # {} /\ Max(1 .. k) = k /\ (1 .. k) \ {k} = 1 .. (k - 1)
        BY <1>1, PrefixMax
    <2>2. c[1 .. k] = AddLayer(c[(1 .. k) \ {Max(1 .. k)}], q[Max(1 .. k)])
        <3> HIDE DEF c
        <3> QED  BY <2>1, <1>1, <1>6
    <2> QED  BY <2>1, <2>2
<1> HIDE DEF c
<1>9. UnfoldsTo(c, base, step, V, n)
    BY <1>7, <1>8 DEF UnfoldsTo
<1>10. PICK h : IsHistory(h, V, base, step, n, c[1 .. n])
    <2>1. n \in Nat
        BY <1>1
    <2> HIDE DEF step, n
    <2> QED  BY <2>1, <1>2, <1>9, FoldByStep
<1>11. h[0] = base /\ \A k \in 1 .. n : h[k] = AddLayer(h[k - 1], q[k])
    <2> SUFFICES ASSUME NEW k \in 1 .. n PROVE h[k] = AddLayer(h[k - 1], q[k])
        BY <1>10 DEF IsHistory
    <2>1. h[k - 1] \in V
        BY <1>1, <1>10 DEF IsHistory
    <2> QED  BY <2>1, <1>10 DEF IsHistory
<1>12. Walk(h, V, base, n, c[1 .. n])
    BY <1>10 DEF IsHistory, Walk
<1> QED  BY <1>7, <1>11, <1>12

(* The stacks RemoveOverlay goes through, one per layer.                    *)
LEMMA RemoveHistory ==
    ASSUME NEW V, NEW base \in V, NEW D, NEW q \in Seq(D),
           \A v \in V, d \in D : RemoveFirst(v, d) \in V
    PROVE  \E h :
              /\ Walk(h, V, base, Len(q), FoldLeft(RemoveFirst, base, q))
              /\ \A k \in 1 .. Len(q) : h[k] = RemoveFirst(h[k - 1], q[k])
<1> DEFINE n == Len(q)
           step == [p \in V \X (1 .. n) |-> RemoveFirst(p[1], q[p[2]])]
           Solves(it) == it = [S \in SUBSET DOMAIN q |->
                                 IF S = {} THEN base ELSE RemoveFirst(it[S \ {Max(S)}], q[Max(S)])]
           c == CHOOSE it : Solves(it)
<1>1. n \in Nat /\ DOMAIN q = 1 .. n /\ \A i \in 1 .. n : q[i] \in D
    BY LenProperties
<1>2. step \in [V \X (1 .. n) -> V]
    BY <1>1
<1>3. PICK it \in [SUBSET (1 .. n) -> V] : IsFold(it, base, step, n)
    <2>1. n \in Nat
        BY <1>1
    <2> HIDE DEF step, n
    <2> QED  BY <2>1, <1>2, FoldExists
<1>4. \A S \in SUBSET (1 .. n) : it[S] = IF S = {} THEN base ELSE RemoveFirst(it[S \ {Max(S)}], q[Max(S)])
    <2> SUFFICES ASSUME NEW S \in SUBSET (1 .. n), S # {}
                 PROVE  step[<<it[S \ {Max(S)}], Max(S)>>] = RemoveFirst(it[S \ {Max(S)}], q[Max(S)])
        BY <1>3 DEF IsFold
    <2>1. Max(S) \in 1 .. n
        BY <1>1, LastPosition
    <2>2. it[S \ {Max(S)}] \in V
        BY <1>3
    <2> QED  BY <2>1, <2>2
<1>5. Solves(it)
    BY <1>1, <1>3, <1>4
<1>6. Solves(c)
    <2> HIDE DEF Solves
    <2> QED  BY <1>5
<1>7. FoldLeft(RemoveFirst, base, q) = c[1 .. n] /\ c[{}] = base
    <2>1. FoldLeft(RemoveFirst, base, q) = c[DOMAIN q]
        BY DEF FoldLeft, MapThenFoldSet
    <2> QED  BY <2>1, <1>1, <1>6
<1>8. \A k \in 1 .. n : c[1 .. k] = RemoveFirst(c[1 .. (k - 1)], q[k])
    <2> TAKE k \in 1 .. n
    <2>1. (1 .. k) \in SUBSET (1 .. n) /\ (1 .. k) # {} /\ Max(1 .. k) = k /\ (1 .. k) \ {k} = 1 .. (k - 1)
        BY <1>1, PrefixMax
    <2>2. c[1 .. k] = RemoveFirst(c[(1 .. k) \ {Max(1 .. k)}], q[Max(1 .. k)])
        <3> HIDE DEF c
        <3> QED  BY <2>1, <1>1, <1>6
    <2> QED  BY <2>1, <2>2
<1> HIDE DEF c
<1>9. UnfoldsTo(c, base, step, V, n)
    BY <1>7, <1>8 DEF UnfoldsTo
<1>10. PICK h : IsHistory(h, V, base, step, n, c[1 .. n])
    <2>1. n \in Nat
        BY <1>1
    <2> HIDE DEF step, n
    <2> QED  BY <2>1, <1>2, <1>9, FoldByStep
<1>11. h[0] = base /\ \A k \in 1 .. n : h[k] = RemoveFirst(h[k - 1], q[k])
    <2> SUFFICES ASSUME NEW k \in 1 .. n PROVE h[k] = RemoveFirst(h[k - 1], q[k])
        BY <1>10 DEF IsHistory
    <2>1. h[k - 1] \in V
        BY <1>1, <1>10 DEF IsHistory
    <2> QED  BY <2>1, <1>10 DEF IsHistory
<1>12. Walk(h, V, base, n, c[1 .. n])
    BY <1>10 DEF IsHistory, Walk
<1> QED  BY <1>7, <1>11, <1>12

(* The stacks Rebuilt's cleanups go through, one per overlay.               *)
LEMMA CleanupHistory ==
    ASSUME NEW V, NEW base \in V, NEW D, NEW q \in Seq(D),
           \A v \in V, d \in D : RemoveOverlay(v, d) \in V
    PROVE  \E h :
              /\ Walk(h, V, base, Len(q), FoldLeft(RemoveOverlay, base, q))
              /\ \A k \in 1 .. Len(q) : h[k] = RemoveOverlay(h[k - 1], q[k])
<1> DEFINE n == Len(q)
           step == [p \in V \X (1 .. n) |-> RemoveOverlay(p[1], q[p[2]])]
           Solves(it) == it = [S \in SUBSET DOMAIN q |->
                                 IF S = {} THEN base ELSE RemoveOverlay(it[S \ {Max(S)}], q[Max(S)])]
           c == CHOOSE it : Solves(it)
<1>1. n \in Nat /\ DOMAIN q = 1 .. n /\ \A i \in 1 .. n : q[i] \in D
    BY LenProperties
<1>2. step \in [V \X (1 .. n) -> V]
    BY <1>1
<1>3. PICK it \in [SUBSET (1 .. n) -> V] : IsFold(it, base, step, n)
    <2>1. n \in Nat
        BY <1>1
    <2> HIDE DEF step, n
    <2> QED  BY <2>1, <1>2, FoldExists
<1>4. \A S \in SUBSET (1 .. n) : it[S] = IF S = {} THEN base ELSE RemoveOverlay(it[S \ {Max(S)}], q[Max(S)])
    <2> SUFFICES ASSUME NEW S \in SUBSET (1 .. n), S # {}
                 PROVE  step[<<it[S \ {Max(S)}], Max(S)>>] = RemoveOverlay(it[S \ {Max(S)}], q[Max(S)])
        BY <1>3 DEF IsFold
    <2>1. Max(S) \in 1 .. n
        BY <1>1, LastPosition
    <2>2. it[S \ {Max(S)}] \in V
        BY <1>3
    <2> QED  BY <2>1, <2>2
<1>5. Solves(it)
    BY <1>1, <1>3, <1>4
<1>6. Solves(c)
    <2> HIDE DEF Solves
    <2> QED  BY <1>5
<1>7. FoldLeft(RemoveOverlay, base, q) = c[1 .. n] /\ c[{}] = base
    <2>1. FoldLeft(RemoveOverlay, base, q) = c[DOMAIN q]
        BY DEF FoldLeft, MapThenFoldSet
    <2> QED  BY <2>1, <1>1, <1>6
<1>8. \A k \in 1 .. n : c[1 .. k] = RemoveOverlay(c[1 .. (k - 1)], q[k])
    <2> TAKE k \in 1 .. n
    <2>1. (1 .. k) \in SUBSET (1 .. n) /\ (1 .. k) # {} /\ Max(1 .. k) = k /\ (1 .. k) \ {k} = 1 .. (k - 1)
        BY <1>1, PrefixMax
    <2>2. c[1 .. k] = RemoveOverlay(c[(1 .. k) \ {Max(1 .. k)}], q[Max(1 .. k)])
        <3> HIDE DEF c
        <3> QED  BY <2>1, <1>1, <1>6
    <2> QED  BY <2>1, <2>2
<1> HIDE DEF c
<1>9. UnfoldsTo(c, base, step, V, n)
    BY <1>7, <1>8 DEF UnfoldsTo
<1>10. PICK h : IsHistory(h, V, base, step, n, c[1 .. n])
    <2>1. n \in Nat
        BY <1>1
    <2> HIDE DEF step, n
    <2> QED  BY <2>1, <1>2, <1>9, FoldByStep
<1>11. h[0] = base /\ \A k \in 1 .. n : h[k] = RemoveOverlay(h[k - 1], q[k])
    <2> SUFFICES ASSUME NEW k \in 1 .. n PROVE h[k] = RemoveOverlay(h[k - 1], q[k])
        BY <1>10 DEF IsHistory
    <2>1. h[k - 1] \in V
        BY <1>1, <1>10 DEF IsHistory
    <2> QED  BY <2>1, <1>10 DEF IsHistory
<1>12. Walk(h, V, base, n, c[1 .. n])
    BY <1>10 DEF IsHistory, Walk
<1> QED  BY <1>7, <1>11, <1>12

(* The stacks Rebuilt's installs go through, one per overlay.               *)
LEMMA InstallHistory ==
    ASSUME NEW V, NEW base \in V, NEW D, NEW q \in Seq(D),
           \A v \in V, d \in D : InstallEnabled(v, d) \in V
    PROVE  \E h :
              /\ Walk(h, V, base, Len(q), FoldLeft(InstallEnabled, base, q))
              /\ \A k \in 1 .. Len(q) : h[k] = InstallEnabled(h[k - 1], q[k])
<1> DEFINE n == Len(q)
           step == [p \in V \X (1 .. n) |-> InstallEnabled(p[1], q[p[2]])]
           Solves(it) == it = [S \in SUBSET DOMAIN q |->
                                 IF S = {} THEN base ELSE InstallEnabled(it[S \ {Max(S)}], q[Max(S)])]
           c == CHOOSE it : Solves(it)
<1>1. n \in Nat /\ DOMAIN q = 1 .. n /\ \A i \in 1 .. n : q[i] \in D
    BY LenProperties
<1>2. step \in [V \X (1 .. n) -> V]
    BY <1>1
<1>3. PICK it \in [SUBSET (1 .. n) -> V] : IsFold(it, base, step, n)
    <2>1. n \in Nat
        BY <1>1
    <2> HIDE DEF step, n
    <2> QED  BY <2>1, <1>2, FoldExists
<1>4. \A S \in SUBSET (1 .. n) : it[S] = IF S = {} THEN base ELSE InstallEnabled(it[S \ {Max(S)}], q[Max(S)])
    <2> SUFFICES ASSUME NEW S \in SUBSET (1 .. n), S # {}
                 PROVE  step[<<it[S \ {Max(S)}], Max(S)>>] = InstallEnabled(it[S \ {Max(S)}], q[Max(S)])
        BY <1>3 DEF IsFold
    <2>1. Max(S) \in 1 .. n
        BY <1>1, LastPosition
    <2>2. it[S \ {Max(S)}] \in V
        BY <1>3
    <2> QED  BY <2>1, <2>2
<1>5. Solves(it)
    BY <1>1, <1>3, <1>4
<1>6. Solves(c)
    <2> HIDE DEF Solves
    <2> QED  BY <1>5
<1>7. FoldLeft(InstallEnabled, base, q) = c[1 .. n] /\ c[{}] = base
    <2>1. FoldLeft(InstallEnabled, base, q) = c[DOMAIN q]
        BY DEF FoldLeft, MapThenFoldSet
    <2> QED  BY <2>1, <1>1, <1>6
<1>8. \A k \in 1 .. n : c[1 .. k] = InstallEnabled(c[1 .. (k - 1)], q[k])
    <2> TAKE k \in 1 .. n
    <2>1. (1 .. k) \in SUBSET (1 .. n) /\ (1 .. k) # {} /\ Max(1 .. k) = k /\ (1 .. k) \ {k} = 1 .. (k - 1)
        BY <1>1, PrefixMax
    <2>2. c[1 .. k] = InstallEnabled(c[(1 .. k) \ {Max(1 .. k)}], q[Max(1 .. k)])
        <3> HIDE DEF c
        <3> QED  BY <2>1, <1>1, <1>6
    <2> QED  BY <2>1, <2>2
<1> HIDE DEF c
<1>9. UnfoldsTo(c, base, step, V, n)
    BY <1>7, <1>8 DEF UnfoldsTo
<1>10. PICK h : IsHistory(h, V, base, step, n, c[1 .. n])
    <2>1. n \in Nat
        BY <1>1
    <2> HIDE DEF step, n
    <2> QED  BY <2>1, <1>2, <1>9, FoldByStep
<1>11. h[0] = base /\ \A k \in 1 .. n : h[k] = InstallEnabled(h[k - 1], q[k])
    <2> SUFFICES ASSUME NEW k \in 1 .. n PROVE h[k] = InstallEnabled(h[k - 1], q[k])
        BY <1>10 DEF IsHistory
    <2>1. h[k - 1] \in V
        BY <1>1, <1>10 DEF IsHistory
    <2> QED  BY <2>1, <1>10 DEF IsHistory
<1>12. Walk(h, V, base, n, c[1 .. n])
    BY <1>10 DEF IsHistory, Walk
<1> QED  BY <1>7, <1>11, <1>12

(***************************************************************************)
(* The draw order.                                                         *)
(***************************************************************************)
Ids == ToSet(DRAW_ORDER)
Ordered(layers) == \A i, j \in DOMAIN layers : i < j => Rank(layers[i]) < Rank(layers[j])
Stacks == {layers \in Seq(Ids) : Ordered(layers)}

(* A layer's rank is its place in the order, so no two share one.           *)
LEMMA RankIsPlace ==
    ASSUME NEW id \in Ids
    PROVE  Rank(id) \in 1 .. Len(DRAW_ORDER) /\ DRAW_ORDER[Rank(id)] = id
<1> DEFINE At == {i \in 1 .. Len(DRAW_ORDER) : DRAW_ORDER[i] = id}
<1>1. DRAW_ORDER \in Seq(Ids)
    BY OrderAssumption DEF Ids
<1>2. Len(DRAW_ORDER) \in Nat /\ DOMAIN DRAW_ORDER = 1 .. Len(DRAW_ORDER)
    BY <1>1, LenProperties
<1>3. At # {} /\ At \in SUBSET Nat
    BY <1>2 DEF Ids, ToSet
<1>4. Min(At) \in At
    <2>1. \E m \in At : \A i \in At : m <= i
        BY <1>3, Least
    <2> HIDE DEF At
    <2> QED  BY <2>1 DEF Min
<1>5. Rank(id) = Min(At)
    BY <1>3 DEF Rank, SelectInSeq
<1> QED  BY <1>4, <1>5

LEMMA RankTellsApart ==
    ASSUME NEW a \in Ids, NEW b \in Ids, Rank(a) = Rank(b)
    PROVE  a = b
BY RankIsPlace

(* In a stack, no layer is there twice.                                     *)
LEMMA OnceEach ==
    ASSUME NEW layers \in Stacks, NEW i \in DOMAIN layers, NEW j \in DOMAIN layers,
           layers[i] = layers[j]
    PROVE  i = j
<1>1. layers \in Seq(Ids) /\ Ordered(layers)
    BY DEF Stacks
<1>2. Len(layers) \in Nat /\ DOMAIN layers = 1 .. Len(layers)
    BY <1>1, LenProperties
<1>3. layers[i] \in Ids
    BY <1>1, <1>2, ElementOfSeq
<1>4. Rank(layers[i]) \in Nat
    BY <1>3, RankIsPlace
<1> QED  BY <1>1, <1>2, <1>4 DEF Ordered

(* addLayer finds its place: the stack stays in order and gains the layer.  *)
LEMMA AddLayerTyped ==
    ASSUME NEW layers \in Seq(Ids), NEW id \in Ids
    PROVE  /\ AddLayer(layers, id) \in Seq(Ids)
           /\ ToSet(AddLayer(layers, id)) = ToSet(layers) \cup {id}
           /\ Ordered(layers) /\ id \notin ToSet(layers) => Ordered(AddLayer(layers, id))
<1> DEFINE n == Len(layers)
           above == {k \in DOMAIN layers : Rank(layers[k]) > Rank(id)}
           added == AddLayer(layers, id)
<1>1. n \in Nat /\ DOMAIN layers = 1 .. n /\ \A k \in 1 .. n : layers[k] \in Ids
    BY LenProperties, ElementOfSeq
<1>2. Rank(id) \in Nat /\ \A k \in 1 .. n : Rank(layers[k]) \in Nat
    BY <1>1, RankIsPlace
<1>3. PICK next \in 1 .. n + 1 :
         /\ added \in Seq(Ids) /\ Len(added) = n + 1
         /\ \A k \in 1 .. n + 1 : added[k] = IF k < next THEN layers[k]
                                             ELSE IF k = next THEN id ELSE layers[k - 1]
         /\ next <= n => next \in above /\ \A j \in above : Rank(layers[next]) <= Rank(layers[j])
         /\ next = n + 1 => above = {}
    <2>1. CASE above = {}
        <3>1. added = Append(layers, id)
            BY <2>1 DEF AddLayer
        <3>2. added \in Seq(Ids) /\ Len(added) = n + 1
            BY <3>1, AppendProperties
        <3>3. \A k \in 1 .. n + 1 : added[k] = IF k < n + 1 THEN layers[k]
                                   ELSE IF k = n + 1 THEN id ELSE layers[k - 1]
            BY <3>1, <1>1, AppendProperties
        <3>4. n + 1 \in 1 .. n + 1 /\ ~ (n + 1 <= n)
            BY <1>1
        <3> HIDE DEF above, added, n
        <3> QED  BY <2>1, <3>2, <3>3, <3>4
    <2>2. CASE above # {}
        <3> DEFINE next == CHOOSE k \in above : \A j \in above : Rank(layers[k]) <= Rank(layers[j])
        <3>1. \E k \in above : \A j \in above : Rank(layers[k]) <= Rank(layers[j])
            <4> DEFINE R == {Rank(layers[k]) : k \in above}
            <4>1. R \in SUBSET Nat /\ R # {}
                BY <1>1, <1>2, <2>2
            <4>2. PICK r \in R : \A q \in R : r <= q
                <5> HIDE DEF R
                <5> QED  BY <4>1, Least
            <4> QED  BY <4>2
        <3>2. next \in above /\ \A j \in above : Rank(layers[next]) <= Rank(layers[j])
            <4> HIDE DEF above
            <4> QED  BY <3>1
        <3>3. added = SubSeq(layers, 1, next - 1) \o <<id>> \o SubSeq(layers, next, n)
            BY <2>2 DEF AddLayer, InsertAt
        <3> DEFINE before == SubSeq(layers, 1, next - 1)
                   after == SubSeq(layers, next, n)
        <3> HIDE DEF next
        <3>4. next \in 1 .. n
            BY <3>2, <1>1
        <3>5. /\ before \in Seq(Ids) /\ Len(before) = next - 1
              /\ \A k \in 1 .. next - 1 : before[k] = layers[k]
            BY <3>4, <1>1, SubSeqProperties
        <3>6. /\ after \in Seq(Ids) /\ Len(after) = n - next + 1
              /\ \A k \in 1 .. n - next + 1 : after[k] = layers[next + k - 1]
            BY <3>4, <1>1, SubSeqProperties
        <3>7. <<id>> \in Seq(Ids) /\ Len(<<id>>) = 1 /\ <<id>>[1] = id
            OBVIOUS
        <3> HIDE DEF before, after
        <3> DEFINE lower == before \o <<id>>
        <3>8. /\ lower \in Seq(Ids) /\ Len(lower) = next
              /\ \A k \in 1 .. next : lower[k] = IF k < next THEN layers[k] ELSE id
            BY <3>4, <3>5, <3>7, ConcatProperties, <1>1
        <3> HIDE DEF lower
        <3>9. /\ lower \o after \in Seq(Ids) /\ Len(lower \o after) = n + 1
              /\ \A k \in 1 .. n + 1 : (lower \o after)[k] = IF k <= next THEN lower[k] ELSE after[k - next]
            <4>1. Len(lower) = next /\ Len(after) = n - next + 1 /\ next + (n - next + 1) = n + 1
                BY <3>4, <3>8, <3>6, <1>1
            <4>2. /\ lower \o after \in Seq(Ids) /\ Len(lower \o after) = Len(lower) + Len(after)
                  /\ \A k \in 1 .. Len(lower) + Len(after) :
                        (lower \o after)[k] = IF k <= Len(lower) THEN lower[k] ELSE after[k - Len(lower)]
                BY <3>8, <3>6, ConcatProperties
            <4> QED  BY <4>1, <4>2
        <3>10. added = lower \o after
            BY <3>3 DEF lower, before, after
        <3>11. \A k \in 1 .. n + 1 : added[k] = IF k < next THEN layers[k]
                                   ELSE IF k = next THEN id ELSE layers[k - 1]
            BY <3>10, <3>9, <3>8, <3>6, <3>4, <1>1
        <3>12. next \in 1 .. n + 1 /\ next # n + 1
            BY <3>4, <1>1
        <3> HIDE DEF above, added, n
        <3> QED  BY <3>2, <3>9, <3>10, <3>11, <3>12
    <2> QED  BY <2>1, <2>2
<1> HIDE DEF added
<1>4. DOMAIN added = 1 .. n + 1
    BY <1>3, LenProperties
<1>5. ToSet(added) = ToSet(layers) \cup {id}
    <2>1. ASSUME NEW k \in 1 .. n + 1, added[k] # id PROVE \E i \in 1 .. n : added[k] = layers[i]
        <3>1. CASE k < next
            <4>1. k \in 1 .. n
                BY <3>1, <1>1, <1>3
            <4> QED  BY <3>1, <4>1, <1>3
        <3>2. CASE k > next
            <4>1. k - 1 \in 1 .. n
                BY <3>2, <1>1, <1>3
            <4> QED  BY <3>2, <4>1, <1>3
        <3> QED  BY <2>1, <3>1, <3>2, <1>3
    <2>2. ASSUME NEW k \in 1 .. n PROVE \E i \in 1 .. n + 1 : added[i] = layers[k]
        <3>1. CASE k < next
            <4>1. k \in 1 .. n + 1
                BY <1>1
            <4> QED  BY <3>1, <4>1, <1>3
        <3>2. CASE k >= next
            <4>1. k + 1 \in 1 .. n + 1 /\ ~(k + 1 < next) /\ k + 1 # next /\ (k + 1) - 1 = k
                BY <3>2, <1>1, <1>3
            <4> QED  BY <4>1, <1>3
        <3> QED  BY <3>1, <3>2, <1>1, <1>3
    <2>3. added[next] = id
        BY <1>3, <1>1
    <2>4. ToSet(added) = {added[k] : k \in 1 .. n + 1} /\ ToSet(layers) = {layers[k] : k \in 1 .. n}
        BY <1>1, <1>4 DEF ToSet
    <2>5. \A e \in ToSet(added) : e \in ToSet(layers) \cup {id}
        BY <2>1, <2>4
    <2>6. \A e \in ToSet(layers) \cup {id} : e \in ToSet(added)
        BY <2>2, <2>3, <2>4, <1>3
    <2> QED  BY <2>5, <2>6
<1>6. ASSUME Ordered(layers), id \notin ToSet(layers) PROVE Ordered(added)
    <2>1. \A k \in 1 .. n : Rank(layers[k]) # Rank(id)
        BY <1>6, <1>1, RankTellsApart DEF ToSet
    <2>2. ASSUME NEW k \in 1 .. n, k < next PROVE Rank(layers[k]) < Rank(id)
        <3> SUFFICES ASSUME Rank(layers[k]) > Rank(id) PROVE FALSE
            BY <2>1, <1>2
        <3>1. k \in above
            BY <1>1
        <3>2. next <= n /\ Rank(layers[next]) <= Rank(layers[k])
            BY <3>1, <1>3, <1>1
        <3>3. next \in 1 .. n
            BY <3>2, <1>3, <1>1
        <3> QED  BY <3>2, <3>3, <2>2, <1>1, <1>2, <1>6 DEF Ordered
    <2>3. ASSUME NEW k \in 1 .. n, k >= next PROVE Rank(id) < Rank(layers[k])
        <3>1. next \in 1 .. n /\ Rank(layers[next]) > Rank(id)
            BY <2>3, <1>3, <1>1
        <3> QED  BY <3>1, <2>3, <1>1, <1>2, <1>6 DEF Ordered
    <2>4. ASSUME NEW i \in 1 .. n + 1, NEW j \in 1 .. n + 1, i < j
          PROVE  Rank(added[i]) < Rank(added[j])
        <3>1. CASE j < next
            <4>1. added[i] = layers[i] /\ added[j] = layers[j] /\ i \in 1 .. n /\ j \in 1 .. n
                BY <3>1, <2>4, <1>3, <1>1
            <4> QED  BY <4>1, <2>4, <1>1, <1>6 DEF Ordered
        <3>2. CASE j = next
            <4>1. added[i] = layers[i] /\ added[j] = id /\ i \in 1 .. n
                BY <3>2, <2>4, <1>3, <1>1
            <4> QED  BY <4>1, <2>2, <2>4, <3>2
        <3>3. CASE j > next /\ i < next
            <4>1. added[i] = layers[i] /\ added[j] = layers[j - 1] /\ i \in 1 .. n /\ j - 1 \in 1 .. n /\ i < j - 1
                BY <3>3, <2>4, <1>3, <1>1
            <4> QED  BY <4>1, <1>1, <1>6 DEF Ordered
        <3>4. CASE i = next
            <4>1. added[i] = id /\ added[j] = layers[j - 1] /\ j - 1 \in 1 .. n /\ j - 1 >= next
                BY <3>4, <2>4, <1>3, <1>1
            <4> QED  BY <4>1, <2>3
        <3>5. CASE i > next
            <4>1. added[i] = layers[i - 1] /\ added[j] = layers[j - 1] /\ i - 1 \in 1 .. n /\ j - 1 \in 1 .. n /\ i - 1 < j - 1
                BY <3>5, <2>4, <1>3, <1>1
            <4> QED  BY <4>1, <1>1, <1>6 DEF Ordered
        <3> QED  BY <3>1, <3>2, <3>3, <3>4, <3>5, <2>4, <1>3, <1>1
    <2> QED  BY <1>4, <2>4 DEF Ordered
<1> QED  BY <1>3, <1>5, <1>6 DEF added

(* Removing a layer, or trying to, leaves the rest of the stack in order.   *)
LEMMA RemoveFirstTyped ==
    ASSUME NEW layers \in Stacks, NEW id
    PROVE  RemoveFirst(layers, id) \in Stacks /\ ToSet(RemoveFirst(layers, id)) = ToSet(layers) \ {id}
<1> DEFINE n == Len(layers)
           at == {i \in 1 .. n : layers[i] = id}
           rest == RemoveFirst(layers, id)
<1>1. layers \in Seq(Ids) /\ Ordered(layers)
    BY DEF Stacks
<1>2. n \in Nat /\ DOMAIN layers = 1 .. n /\ \A k \in 1 .. n : layers[k] \in Ids
    BY <1>1, LenProperties, ElementOfSeq
<1>3. CASE at = {}
    <2>1. rest = layers
        BY <1>3 DEF RemoveFirst
    <2> QED  BY <2>1, <1>3, <1>2 DEF ToSet
<1>4. CASE at # {}
    <2>1. PICK p \in at : rest = SubSeq(layers, 1, p - 1) \o SubSeq(layers, p + 1, n)
        <3>1. at \in SUBSET Nat
            BY <1>2
        <3>2. \E m \in at : \A i \in at : m <= i
            BY <3>1, <1>4, Least
        <3>3. Min(at) \in at
            <4> HIDE DEF at
            <4> QED  BY <3>2 DEF Min
        <3>4. rest = SubSeq(layers, 1, Min(at) - 1) \o SubSeq(layers, Min(at) + 1, n)
            BY <1>4 DEF RemoveFirst, RemoveAt, SelectInSeq
        <3> HIDE DEF at, rest
        <3> QED  BY <3>3, <3>4
    <2>2. p \in 1 .. n /\ layers[p] = id
        OBVIOUS
    <2> DEFINE before == SubSeq(layers, 1, p - 1)
               after == SubSeq(layers, p + 1, n)
    <2>3. /\ before \in Seq(Ids) /\ Len(before) = p - 1
          /\ \A k \in 1 .. p - 1 : before[k] = layers[k]
        BY <2>2, <1>2, SubSeqProperties
    <2>4. /\ after \in Seq(Ids) /\ Len(after) = n - p
          /\ \A k \in 1 .. n - p : after[k] = layers[p + k]
        <3>1. p + 1 \in Int /\ n \in Int /\ \A i \in p + 1 .. n : layers[i] \in Ids
            BY <2>2, <1>2
        <3>2. /\ after \in Seq(Ids)
              /\ Len(after) = IF p + 1 <= n THEN n - (p + 1) + 1 ELSE 0
              /\ \A k \in 1 .. n - (p + 1) + 1 : after[k] = layers[(p + 1) + k - 1]
            BY <3>1, SubSeqProperties
        <3> HIDE DEF after, n
        <3>3. p \in Nat /\ n \in Nat /\ p <= n
            BY <2>2, <1>2
        <3>4. n - (p + 1) + 1 = n - p /\ (p + 1 <= n \/ n - p = 0)
            BY <3>3
        <3>5. \A k \in 1 .. n - p : (p + 1) + k - 1 = p + k
            BY <3>3
        <3> QED  BY <3>2, <3>3, <3>4, <3>5
    <2>5. rest = before \o after
        BY <2>1
    <2> HIDE DEF before, after, rest
    <2>6. /\ rest \in Seq(Ids) /\ Len(rest) = n - 1
          /\ \A k \in 1 .. n - 1 : rest[k] = IF k < p THEN layers[k] ELSE layers[k + 1]
        <3>1. Len(before) = p - 1 /\ Len(after) = n - p /\ (p - 1) + (n - p) = n - 1
            BY <2>2, <2>3, <2>4, <1>2
        <3>2. /\ rest \in Seq(Ids) /\ Len(rest) = Len(before) + Len(after)
              /\ \A k \in 1 .. Len(before) + Len(after) :
                    rest[k] = IF k <= Len(before) THEN before[k] ELSE after[k - Len(before)]
            BY <2>3, <2>4, <2>5, ConcatProperties
        <3>3. ASSUME NEW k \in 1 .. n - 1 PROVE rest[k] = IF k < p THEN layers[k] ELSE layers[k + 1]
            <4>1. rest[k] = IF k <= p - 1 THEN before[k] ELSE after[k - (p - 1)]
                BY <3>1, <3>2
            <4>2. k < p => k \in 1 .. p - 1
                BY <2>2, <1>2
            <4>3. ~(k < p) => k - (p - 1) \in 1 .. n - p /\ p + (k - (p - 1)) = k + 1
                BY <2>2, <1>2
            <4> QED  BY <4>1, <4>2, <4>3, <2>2, <2>3, <2>4
        <3> QED  BY <3>1, <3>2, <3>3
    <2>7. DOMAIN rest = 1 .. n - 1
        BY <2>6, LenProperties
    <2>8. Ordered(rest)
        <3> SUFFICES ASSUME NEW i \in 1 .. n - 1, NEW j \in 1 .. n - 1, i < j
                     PROVE  Rank(rest[i]) < Rank(rest[j])
            BY <2>7 DEF Ordered
        <3>1. PICK a \in 1 .. n, b \in 1 .. n : rest[i] = layers[a] /\ rest[j] = layers[b] /\ a < b
            <4>1. CASE j < p
                BY <4>1, <2>6, <2>2, <1>2
            <4>2. CASE i < p /\ j >= p
                <5>1. i \in 1 .. n /\ j + 1 \in 1 .. n /\ i < j + 1
                    BY <1>2
                <5> QED  BY <5>1, <4>2, <2>6, <2>2
            <4>3. CASE i >= p
                <5>1. i + 1 \in 1 .. n /\ j + 1 \in 1 .. n /\ i + 1 < j + 1
                    BY <1>2
                <5>2. ~(i < p) /\ ~(j < p)
                    BY <4>3, <2>2
                <5> QED  BY <5>1, <5>2, <2>6
            <4> QED  BY <4>1, <4>2, <4>3, <2>2
        <3> QED  BY <3>1, <1>1, <1>2 DEF Ordered
    <2>9. ToSet(rest) = ToSet(layers) \ {id}
        <3>1. ASSUME NEW k \in 1 .. n - 1 PROVE rest[k] \in ToSet(layers) \ {id}
            <4>1. PICK a \in 1 .. n : rest[k] = layers[a] /\ a # p
                <5>1. k \in 1 .. n /\ k + 1 \in 1 .. n
                    BY <1>2
                <5> QED  BY <5>1, <2>6, <2>2
            <4>2. layers[a] # layers[p]
                BY <4>1, <2>2, <1>2, OnceEach
            <4> QED  BY <4>1, <4>2, <2>2, <1>2 DEF ToSet
        <3>2. ASSUME NEW a \in 1 .. n, layers[a] # id PROVE \E k \in 1 .. n - 1 : rest[k] = layers[a]
            <4>1. CASE a < p
                <5>1. a \in 1 .. n - 1
                    BY <4>1, <2>2, <1>2
                <5> QED  BY <4>1, <5>1, <2>6
            <4>2. CASE a > p
                <5>1. a - 1 \in 1 .. n - 1 /\ ~(a - 1 < p) /\ (a - 1) + 1 = a
                    BY <4>2, <2>2, <1>2
                <5> QED  BY <5>1, <2>6
            <4> QED  BY <4>1, <4>2, <3>2, <2>2
        <3>3. ToSet(rest) = {rest[k] : k \in 1 .. n - 1} /\ ToSet(layers) = {layers[k] : k \in 1 .. n}
            BY <2>7, <1>2 DEF ToSet
        <3>4. \A e \in ToSet(layers) \ {id} : e \in ToSet(rest)
            <4> SUFFICES ASSUME NEW a \in 1 .. n, layers[a] # id PROVE layers[a] \in ToSet(rest)
                BY <3>3
            <4> QED  BY <3>2, <3>3
        <3>5. \A e \in ToSet(rest) : e \in ToSet(layers) \ {id}
            BY <3>1, <3>3
        <3> QED  BY <3>4, <3>5
    <2> QED  BY <2>6, <2>8, <2>9 DEF Stacks, rest
<1> QED  BY <1>3, <1>4

(***************************************************************************)
(* The overlays.                                                           *)
(***************************************************************************)
Ours(overlays) == UNION {ToSet(LayersOf[o]) : o \in overlays}

(* An overlay switched on: its layers join a stack that holds none of them. *)
LEMMA InstallOverlayKeeps ==
    ASSUME NEW layers \in Seq(Ids), NEW o \in ToSet(Overlays)
    PROVE  /\ InstallOverlay(layers, o) \in Seq(Ids)
           /\ layers \in Stacks /\ ToSet(layers) \cap ToSet(LayersOf[o]) = {}
                => /\ InstallOverlay(layers, o) \in Stacks
                   /\ ToSet(InstallOverlay(layers, o)) = ToSet(layers) \cup ToSet(LayersOf[o])
<1> DEFINE q == LayersOf[o]
           n == Len(q)
<1>1. q \in Seq(Ids) /\ IsInjective(q)
    <2>1. q \in Seq(Ids \ {RADAR_LAYER, PROBE_LAYER}) /\ IsInjective(q)
        BY OverlayAssumption DEF Ids
    <2> QED  BY <2>1, SeqMonotonic
<1>2. n \in Nat /\ DOMAIN q = 1 .. n /\ \A k \in 1 .. n : q[k] \in Ids
    BY <1>1, LenProperties, ElementOfSeq
<1>3. \A i, j \in 1 .. n : q[i] = q[j] => i = j
    BY <1>1, <1>2 DEF IsInjective
<1>4. PICK h \in [0 .. n -> Seq(Ids)] :
         /\ h[0] = layers /\ h[n] = InstallOverlay(layers, o)
         /\ \A k \in 1 .. n : h[k] = AddLayer(h[k - 1], q[k])
    <2>1. \A v \in Seq(Ids), d \in Ids : AddLayer(v, d) \in Seq(Ids)
        BY AddLayerTyped
    <2> HIDE DEF q
    <2>2. \E h :
             /\ Walk(h, Seq(Ids), layers, n, FoldLeft(AddLayer, layers, q))
             /\ \A k \in 1 .. n : h[k] = AddLayer(h[k - 1], q[k])
        BY <2>1, <1>1, AddHistory
    <2> QED  BY <2>2 DEF InstallOverlay, q, Walk
<1>5. h[n] \in Seq(Ids)
    BY <1>2, <1>4
<1>6. ASSUME layers \in Stacks, ToSet(layers) \cap ToSet(q) = {}
      PROVE  h[n] \in Stacks /\ ToSet(h[n]) = ToSet(layers) \cup ToSet(q)
    <2> DEFINE got(k) == {q[i] : i \in 1 .. k}
               K == {k \in 0 .. n : h[k] \in Stacks /\ ToSet(h[k]) = ToSet(layers) \cup got(k)}
    <2>1. 0 \in K
        BY <1>2, <1>4, <1>6
    <2>2. ASSUME NEW k \in 1 .. n, k - 1 \in K PROVE k \in K
        <3>1. h[k - 1] \in Stacks /\ ToSet(h[k - 1]) = ToSet(layers) \cup got(k - 1)
            BY <2>2
        <3>2. q[k] \in Ids /\ q[k] \in ToSet(q)
            BY <1>2 DEF ToSet
        <3>3. q[k] \notin got(k - 1)
            BY <1>2, <1>3
        <3>4. q[k] \notin ToSet(h[k - 1])
            BY <3>1, <3>2, <3>3, <1>6
        <3>5. h[k - 1] \in Seq(Ids) /\ Ordered(h[k - 1])
            BY <3>1 DEF Stacks
        <3>6. h[k] = AddLayer(h[k - 1], q[k])
            BY <1>4
        <3>7. h[k] \in Stacks /\ ToSet(h[k]) = ToSet(h[k - 1]) \cup {q[k]}
            BY <3>2, <3>4, <3>5, <3>6, AddLayerTyped DEF Stacks
        <3>8. got(k) = got(k - 1) \cup {q[k]}
            BY <1>2
        <3>9. ToSet(h[k]) = ToSet(layers) \cup got(k)
            BY <3>1, <3>7, <3>8
        <3> HIDE DEF got
        <3> QED  BY <3>7, <3>9
    <2>3. n \in K
        <3> HIDE DEF K
        <3>1. \A k \in 0 .. n : k \in K
            BY <2>1, <2>2, <1>2, UpTo
        <3> QED  BY <3>1, <1>2
    <2>4. got(n) = ToSet(q)
        BY <1>2 DEF ToSet
    <2> QED  BY <2>3, <2>4
<1> QED  BY <1>4, <1>5, <1>6

(* An overlay switched off: its layers leave, and no other.                 *)
LEMMA RemoveOverlayKeeps ==
    ASSUME NEW layers \in Stacks, NEW o \in ToSet(Overlays)
    PROVE  /\ RemoveOverlay(layers, o) \in Stacks
           /\ ToSet(RemoveOverlay(layers, o)) = ToSet(layers) \ ToSet(LayersOf[o])
<1> DEFINE q == LayersOf[o]
           n == Len(q)
<1>1. q \in Seq(Ids)
    <2>1. q \in Seq(Ids \ {RADAR_LAYER, PROBE_LAYER})
        BY OverlayAssumption DEF Ids
    <2> QED  BY <2>1, SeqMonotonic
<1>2. n \in Nat /\ DOMAIN q = 1 .. n
    BY <1>1, LenProperties
<1>3. PICK h \in [0 .. n -> Stacks] :
         /\ h[0] = layers /\ h[n] = RemoveOverlay(layers, o)
         /\ \A k \in 1 .. n : h[k] = RemoveFirst(h[k - 1], q[k])
    <2>1. \A v \in Stacks, d \in Ids : RemoveFirst(v, d) \in Stacks
        BY RemoveFirstTyped
    <2> HIDE DEF q
    <2>2. \E h :
             /\ Walk(h, Stacks, layers, n, FoldLeft(RemoveFirst, layers, q))
             /\ \A k \in 1 .. n : h[k] = RemoveFirst(h[k - 1], q[k])
        BY <2>1, <1>1, RemoveHistory
    <2> QED  BY <2>2 DEF RemoveOverlay, q, Walk
<1> DEFINE gone(k) == {q[i] : i \in 1 .. k}
           K == {k \in 0 .. n : ToSet(h[k]) = ToSet(layers) \ gone(k)}
<1>4. 0 \in K
    BY <1>2, <1>3
<1>5. ASSUME NEW k \in 1 .. n, k - 1 \in K PROVE k \in K
    <2>1. h[k - 1] \in Stacks /\ ToSet(h[k - 1]) = ToSet(layers) \ gone(k - 1)
        BY <1>2, <1>3, <1>5
    <2>2. h[k] = RemoveFirst(h[k - 1], q[k])
        BY <1>3
    <2>3. ToSet(h[k]) = ToSet(h[k - 1]) \ {q[k]}
        BY <2>1, <2>2, RemoveFirstTyped
    <2>4. gone(k) = gone(k - 1) \cup {q[k]}
        BY <1>2
    <2>5. ToSet(h[k]) = ToSet(layers) \ gone(k)
        BY <2>1, <2>3, <2>4
    <2> HIDE DEF gone
    <2> QED  BY <2>5
<1>6. n \in K
    <2> HIDE DEF K
    <2>1. \A k \in 0 .. n : k \in K
        BY <1>4, <1>5, <1>2, UpTo
    <2> QED  BY <2>1, <1>2
<1>7. gone(n) = ToSet(q)
    BY <1>2 DEF ToSet
<1>8. h[n] \in Stacks
    BY <1>2, <1>3
<1> QED  BY <1>3, <1>6, <1>7, <1>8

(* What every overlay's cleanup leaves.                                     *)
LEMMA CleanupsKeep ==
    ASSUME NEW layers \in Stacks
    PROVE  /\ FoldLeft(RemoveOverlay, layers, Overlays) \in Stacks
           /\ ToSet(FoldLeft(RemoveOverlay, layers, Overlays)) = ToSet(layers) \ Ours(ToSet(Overlays))
<1> DEFINE q == Overlays
           n == Len(q)
           cleaned == FoldLeft(RemoveOverlay, layers, q)
<1>1. q \in Seq(ToSet(Overlays))
    BY OverlayAssumption
<1>2. n \in Nat /\ DOMAIN q = 1 .. n /\ \A k \in 1 .. n : q[k] \in ToSet(Overlays)
    BY <1>1, LenProperties, ElementOfSeq
<1>3. PICK h \in [0 .. n -> Stacks] :
         /\ h[0] = layers /\ h[n] = cleaned
         /\ \A k \in 1 .. n : h[k] = RemoveOverlay(h[k - 1], q[k])
    <2>1. \A v \in Stacks, d \in ToSet(Overlays) : RemoveOverlay(v, d) \in Stacks
        BY RemoveOverlayKeeps
    <2>2. \E h : /\ Walk(h, Stacks, layers, Len(Overlays), FoldLeft(RemoveOverlay, layers, Overlays))
                 /\ \A k \in 1 .. Len(Overlays) : h[k] = RemoveOverlay(h[k - 1], Overlays[k])
        BY <2>1, <1>1, CleanupHistory
    <2> QED  BY <2>2 DEF Walk
<1> DEFINE gone(k) == Ours({q[i] : i \in 1 .. k})
           K == {k \in 0 .. n : ToSet(h[k]) = ToSet(layers) \ gone(k)}
<1>4. 0 \in K
    BY <1>2, <1>3 DEF Ours
<1>5. ASSUME NEW k \in 1 .. n, k - 1 \in K PROVE k \in K
    <2>1. h[k - 1] \in Stacks /\ ToSet(h[k - 1]) = ToSet(layers) \ gone(k - 1)
        BY <1>2, <1>3, <1>5
    <2>2. h[k] = RemoveOverlay(h[k - 1], q[k]) /\ q[k] \in ToSet(Overlays)
        BY <1>2, <1>3
    <2>3. ToSet(h[k]) = ToSet(h[k - 1]) \ ToSet(LayersOf[q[k]])
        BY <2>1, <2>2, RemoveOverlayKeeps
    <2>4. gone(k) = gone(k - 1) \cup ToSet(LayersOf[q[k]])
        <3>1. {q[i] : i \in 1 .. k} = {q[i] : i \in 1 .. (k - 1)} \cup {q[k]}
            BY <1>2
        <3> QED  BY <3>1 DEF Ours
    <2>5. ToSet(h[k]) = ToSet(layers) \ gone(k)
        BY <2>1, <2>3, <2>4
    <2> HIDE DEF gone
    <2> QED  BY <2>5
<1>6. n \in K
    <2> HIDE DEF K
    <2>1. \A k \in 0 .. n : k \in K
        BY <1>4, <1>5, <1>2, UpTo
    <2> QED  BY <2>1, <1>2
<1>7. {q[i] : i \in 1 .. n} = ToSet(Overlays)
    BY <1>2 DEF ToSet
<1>8. h[n] \in Stacks
    BY <1>2, <1>3
<1> QED  BY <1>3, <1>6, <1>7, <1>8

(* A rebuild puts back every layer of the overlays that are on, once each   *)
(* and in order, and leaves nothing of the others.                          *)
LEMMA RebuiltKeeps ==
    ASSUME NEW layers \in Stacks, enabled \in SUBSET ToSet(Overlays)
    PROVE  /\ Rebuilt(layers) \in Stacks
           /\ ToSet(Rebuilt(layers)) = (ToSet(layers) \ Ours(ToSet(Overlays))) \cup Ours(enabled)
<1> DEFINE q == Overlays
           n == Len(q)
           cleaned == FoldLeft(RemoveOverlay, layers, q)
<1>1. q \in Seq(ToSet(Overlays)) /\ IsInjective(q)
    BY OverlayAssumption
<1>2. n \in Nat /\ DOMAIN q = 1 .. n /\ \A k \in 1 .. n : q[k] \in ToSet(Overlays)
    BY <1>1, LenProperties, ElementOfSeq
<1>3. \A i, j \in 1 .. n : q[i] = q[j] => i = j
    BY <1>1, <1>2 DEF IsInjective
<1>4. cleaned \in Stacks /\ cleaned \in Seq(Ids) /\ ToSet(cleaned) = ToSet(layers) \ Ours(ToSet(Overlays))
    BY CleanupsKeep DEF Stacks
<1>5. PICK h \in [0 .. n -> Seq(Ids)] :
         /\ h[0] = cleaned /\ h[n] = Rebuilt(layers)
         /\ \A k \in 1 .. n : h[k] = InstallEnabled(h[k - 1], q[k])
    <2>1. \A v \in Seq(Ids), d \in ToSet(Overlays) : InstallEnabled(v, d) \in Seq(Ids)
        BY InstallOverlayKeeps DEF InstallEnabled
    <2>2. cleaned \in Seq(Ids) /\ Overlays \in Seq(ToSet(Overlays))
        BY <1>1, <1>4
    <2> HIDE DEF cleaned
    <2>3. \E h : /\ Walk(h, Seq(Ids), cleaned, Len(Overlays), FoldLeft(InstallEnabled, cleaned, Overlays))
                 /\ \A k \in 1 .. Len(Overlays) : h[k] = InstallEnabled(h[k - 1], Overlays[k])
        BY <2>1, <2>2, InstallHistory
    <2>4. FoldLeft(InstallEnabled, cleaned, Overlays) = Rebuilt(layers)
        BY DEF Rebuilt, cleaned
    <2> QED  BY <2>3, <2>4 DEF Walk
<1> DEFINE on(k) == enabled \cap {q[i] : i \in 1 .. k}
           K == {k \in 0 .. n : h[k] \in Stacks /\ ToSet(h[k]) = ToSet(cleaned) \cup Ours(on(k))}
<1>6. 0 \in K
    <2>1. on(0) = {}
        OBVIOUS
    <2>2. Ours(on(0)) = {}
        BY <2>1 DEF Ours
    <2> HIDE DEF on, cleaned
    <2> QED  BY <1>2, <1>4, <1>5, <2>2
<1>7. ASSUME NEW k \in 1 .. n, k - 1 \in K PROVE k \in K
    <2>1. h[k - 1] \in Stacks /\ h[k - 1] \in Seq(Ids) /\ ToSet(h[k - 1]) = ToSet(cleaned) \cup Ours(on(k - 1))
        BY <1>7 DEF Stacks
    <2>2. h[k] = InstallEnabled(h[k - 1], q[k]) /\ q[k] \in ToSet(Overlays)
        BY <1>2, <1>5
    <2>3. {q[i] : i \in 1 .. k} = {q[i] : i \in 1 .. (k - 1)} \cup {q[k]}
        BY <1>2
    <2>4. CASE q[k] \notin enabled
        <3>1. on(k) = on(k - 1) /\ h[k] = h[k - 1]
            BY <2>2, <2>3, <2>4 DEF InstallEnabled
        <3> HIDE DEF on, cleaned
        <3> QED  BY <2>1, <3>1
    <2>5. CASE q[k] \in enabled
        <3>1. on(k) = on(k - 1) \cup {q[k]}
            BY <2>3, <2>5
        <3>2. q[k] \notin on(k - 1) /\ on(k - 1) \subseteq ToSet(Overlays)
            BY <1>2, <1>3
        <3>3. ToSet(LayersOf[q[k]]) \cap Ours(on(k - 1)) = {}
            BY <3>2, <2>2, OverlayAssumption DEF Ours
        <3>4. ToSet(LayersOf[q[k]]) \cap ToSet(cleaned) = {}
            BY <2>2, <1>4 DEF Ours
        <3> HIDE DEF on, cleaned
        <3>5. ToSet(h[k - 1]) \cap ToSet(LayersOf[q[k]]) = {}
            BY <2>1, <3>3, <3>4
        <3>6. h[k] = InstallOverlay(h[k - 1], q[k])
            BY <2>2, <2>5 DEF InstallEnabled
        <3>7. h[k] \in Stacks /\ ToSet(h[k]) = ToSet(h[k - 1]) \cup ToSet(LayersOf[q[k]])
            BY <2>1, <2>2, <3>5, <3>6, InstallOverlayKeeps
        <3>8. Ours(on(k)) = Ours(on(k - 1)) \cup ToSet(LayersOf[q[k]])
            BY <3>1 DEF Ours
        <3>9. ToSet(h[k]) = ToSet(cleaned) \cup Ours(on(k))
            BY <2>1, <3>7, <3>8
        <3> QED  BY <3>7, <3>9
    <2> QED  BY <2>4, <2>5
<1>8. n \in K
    <2> HIDE DEF K
    <2>1. \A k \in 0 .. n : k \in K
        BY <1>6, <1>7, <1>2, UpTo
    <2> QED  BY <2>1, <1>2
<1>9. on(n) = enabled
    BY <1>2 DEF ToSet
<1> HIDE DEF cleaned
<1> QED  BY <1>4, <1>5, <1>8, <1>9

(***************************************************************************)
(* The stack over the life of the map.                                     *)
(***************************************************************************)
Images == [product : ProductIds, frame : Frames]
Styles == [layers : Stacks, image : Images \cup {None}, pin : Places \cup {None}]

(* The order of the map's events.                                           *)
Phases ==
    /\ loading /\ ~waiting => ~live
    /\ loaded \/ pending \/ mounted \/ styleReady => live
    /\ loaded => pending \/ mounted
    /\ loaded /\ ~loading => styleReady

(* What is on the stack: of the overlays, only those switched on once they  *)
(* have been handed the map, and all of those once a rebuild is committed.  *)
(* While a style is on its way the frame may be behind: the frame effect    *)
(* does nothing then, and MapLoad leaves a radar layer it finds alone.      *)
Holdings ==
    LET held == ToSet(style.layers)
    IN  /\ held \subseteq {RADAR_LAYER, PROBE_LAYER} \cup Ours(IF mounted THEN enabled ELSE {})
        /\ mounted /\ ~pending => Ours(enabled) \subseteq held
        /\ styleReady => PROBE_LAYER \in held
        /\ PROBE_LAYER \in held => style.pin = probe
        /\ styleReady /\ ~loading /\ grid /\ url # None => RADAR_LAYER \in held /\ style.image = url
        /\ ~styleReady /\ ~loading => RADAR_LAYER \notin held

StackInv ==
    /\ style \in Styles
    /\ url \in Images \cup {None} /\ grid \in BOOLEAN
    /\ enabled \in SUBSET ToSet(Overlays)
    /\ Phases
    /\ Holdings

(* The fixed layers are nobody's overlay.                                   *)
LEMMA FixedLayers ==
    /\ RADAR_LAYER \in Ids /\ PROBE_LAYER \in Ids /\ RADAR_LAYER # PROBE_LAYER
    /\ \A on \in SUBSET ToSet(Overlays) : RADAR_LAYER \notin Ours(on) /\ PROBE_LAYER \notin Ours(on)
<1>1. RADAR_LAYER \in Ids /\ PROBE_LAYER \in Ids /\ RADAR_LAYER # PROBE_LAYER
    BY OrderAssumption DEF Ids
<1>2. ASSUME NEW o \in ToSet(Overlays)
      PROVE  RADAR_LAYER \notin ToSet(LayersOf[o]) /\ PROBE_LAYER \notin ToSet(LayersOf[o])
    <2>1. LayersOf[o] \in Seq(Ids \ {RADAR_LAYER, PROBE_LAYER})
        BY OverlayAssumption DEF Ids
    <2>2. \A k \in DOMAIN LayersOf[o] : LayersOf[o][k] \in Ids \ {RADAR_LAYER, PROBE_LAYER}
        BY <2>1, LenProperties, ElementOfSeq
    <2> QED  BY <2>2 DEF ToSet
<1> QED  BY <1>1, <1>2 DEF Ours

(* The probe is the top of the order, so appending it is adding it.         *)
LEMMA ProbeOnTop ==
    ASSUME NEW layers \in Stacks
    PROVE  Append(layers, PROBE_LAYER) = AddLayer(layers, PROBE_LAYER)
<1>1. DRAW_ORDER \in Seq(Ids) /\ IsInjective(DRAW_ORDER) /\ DRAW_ORDER[Len(DRAW_ORDER)] = PROBE_LAYER
    BY OrderAssumption DEF Ids, Last
<1>2. Len(DRAW_ORDER) \in Nat /\ DOMAIN DRAW_ORDER = 1 .. Len(DRAW_ORDER)
    BY <1>1, LenProperties
<1>3. Rank(PROBE_LAYER) \in 1 .. Len(DRAW_ORDER) /\ DRAW_ORDER[Rank(PROBE_LAYER)] = PROBE_LAYER
    BY FixedLayers, RankIsPlace
<1>4. Rank(PROBE_LAYER) = Len(DRAW_ORDER)
    BY <1>1, <1>2, <1>3 DEF IsInjective
<1>5. \A k \in DOMAIN layers : Rank(layers[k]) \in 1 .. Len(DRAW_ORDER)
    BY LenProperties, ElementOfSeq, RankIsPlace DEF Stacks
<1>6. {k \in DOMAIN layers : Rank(layers[k]) > Rank(PROBE_LAYER)} = {}
    BY <1>2, <1>4, <1>5
<1> QED  BY <1>6 DEF AddLayer

LEMMA AddLayerKeeps ==
    ASSUME NEW layers \in Stacks, NEW id \in Ids, id \notin ToSet(layers)
    PROVE  AddLayer(layers, id) \in Stacks /\ ToSet(AddLayer(layers, id)) = ToSet(layers) \cup {id}
BY AddLayerTyped DEF Stacks

(* t holds what s does, the radar and the probe, newly made where they were *)
(* missing.                                                                 *)
Restores(s, frame, hasGrid, t) ==
    /\ t \in Styles
    /\ ToSet(t.layers) = ToSet(s.layers) \cup {PROBE_LAYER}
                           \cup IF hasGrid /\ frame # None THEN {RADAR_LAYER} ELSE {}
    /\ t.pin = IF PROBE_LAYER \in ToSet(s.layers) THEN s.pin ELSE probe
    /\ t.image = IF hasGrid /\ frame # None /\ RADAR_LAYER \notin ToSet(s.layers)
                 THEN frame ELSE s.image

(* install puts back exactly what is missing of the radar and the probe.    *)
LEMMA InstalledKeeps ==
    ASSUME NEW s \in Styles, NEW frame \in Images \cup {None}, NEW hasGrid \in BOOLEAN,
           probe \in Places \cup {None}
    PROVE  Restores(s, frame, hasGrid, Installed(s, frame, hasGrid))
<1> DEFINE t == Installed(s, frame, hasGrid)
           adds == hasGrid /\ frame # None /\ RADAR_LAYER \notin ToSet(s.layers)
           radar == IF adds THEN [s EXCEPT !.layers = AddLayer(@, RADAR_LAYER), !.image = frame] ELSE s
<1> SUFFICES Restores(s, frame, hasGrid, t)
    OBVIOUS
<1>1. s.layers \in Stacks /\ s = [layers |-> s.layers, image |-> s.image, pin |-> s.pin]
    BY DEF Styles
<1>2. /\ radar \in Styles
      /\ ToSet(radar.layers) = ToSet(s.layers) \cup IF adds THEN {RADAR_LAYER} ELSE {}
      /\ radar.pin = s.pin
      /\ radar.image = IF adds THEN frame ELSE s.image
    <2>1. CASE adds
        <3>1. /\ AddLayer(s.layers, RADAR_LAYER) \in Stacks
              /\ ToSet(AddLayer(s.layers, RADAR_LAYER)) = ToSet(s.layers) \cup {RADAR_LAYER}
            BY <1>1, <2>1, FixedLayers, AddLayerKeeps
        <3>2. radar = [s EXCEPT !.layers = AddLayer(@, RADAR_LAYER), !.image = frame]
            BY <2>1
        <3> QED  BY <3>1, <3>2, <1>1, <2>1 DEF Styles
    <2>2. CASE ~adds
        BY <2>2
    <2> QED  BY <2>1, <2>2
<1>3. t = IF PROBE_LAYER \in ToSet(s.layers) THEN radar
          ELSE [radar EXCEPT !.layers = Append(@, PROBE_LAYER), !.pin = probe]
    BY DEF Installed
<1> HIDE DEF t, radar
<1>4. /\ ToSet(radar.layers) = ToSet(s.layers) \cup IF hasGrid /\ frame # None THEN {RADAR_LAYER} ELSE {}
      /\ radar.image = IF hasGrid /\ frame # None /\ RADAR_LAYER \notin ToSet(s.layers)
                       THEN frame ELSE s.image
    <2>1. CASE adds
        BY <1>2, <2>1
    <2>2. CASE ~adds
        BY <1>2, <2>2
    <2> QED  BY <2>1, <2>2
<1> HIDE DEF adds
<1>5. CASE PROBE_LAYER \in ToSet(s.layers)
    <2>1. t = radar
        BY <1>3, <1>5
    <2>2. ToSet(t.layers) = ToSet(t.layers) \cup {PROBE_LAYER}
        BY <1>4, <1>5, <2>1
    <2>3. t \in Styles
        BY <2>1, <1>2
    <2>4. ToSet(t.layers) = ToSet(s.layers) \cup {PROBE_LAYER}
                             \cup IF hasGrid /\ frame # None THEN {RADAR_LAYER} ELSE {}
        BY <2>1, <1>4, <1>5
    <2>5. t.pin = IF PROBE_LAYER \in ToSet(s.layers) THEN s.pin ELSE probe
        BY <2>1, <1>2, <1>5
    <2>6. t.image = IF hasGrid /\ frame # None /\ RADAR_LAYER \notin ToSet(s.layers)
                    THEN frame ELSE s.image
        BY <2>1, <1>4
    <2> QED  BY <2>3, <2>4, <2>5, <2>6 DEF Restores
<1>6. CASE PROBE_LAYER \notin ToSet(s.layers)
    <2>1. radar.layers \in Stacks /\ PROBE_LAYER \notin ToSet(radar.layers)
        BY <1>2, <1>6, FixedLayers DEF Styles
    <2>2. /\ Append(radar.layers, PROBE_LAYER) \in Stacks
          /\ ToSet(Append(radar.layers, PROBE_LAYER)) = ToSet(radar.layers) \cup {PROBE_LAYER}
        <3>1. PROBE_LAYER \in Ids
            BY FixedLayers
        <3>2. Append(radar.layers, PROBE_LAYER) = AddLayer(radar.layers, PROBE_LAYER)
            BY <2>1, ProbeOnTop
        <3> QED  BY <2>1, <3>1, <3>2, AddLayerKeeps
    <2>3. t = [radar EXCEPT !.layers = Append(@, PROBE_LAYER), !.pin = probe]
        BY <1>3, <1>6
    <2>4. /\ t \in Styles /\ t.layers = Append(radar.layers, PROBE_LAYER)
          /\ t.pin = probe /\ t.image = radar.image
        BY <2>2, <2>3, <1>2 DEF Styles
    <2>5. ToSet(t.layers) = ToSet(s.layers) \cup {PROBE_LAYER}
                             \cup IF hasGrid /\ frame # None THEN {RADAR_LAYER} ELSE {}
        BY <2>2, <2>4, <1>4
    <2>6. t.pin = IF PROBE_LAYER \in ToSet(s.layers) THEN s.pin ELSE probe
        BY <2>4, <1>6
    <2>7. t.image = IF hasGrid /\ frame # None /\ RADAR_LAYER \notin ToSet(s.layers)
                    THEN frame ELSE s.image
        BY <2>4, <1>4
    <2> QED  BY <2>4, <2>5, <2>6, <2>7 DEF Restores
<1> QED  BY <1>5, <1>6

LEMMA StackInit == Init => StackInv
<1> SUFFICES ASSUME Init PROVE StackInv
    OBVIOUS
<1>1. style = Bare /\ url = None /\ grid = FALSE /\ ~live /\ loading /\ ~waiting /\ ~loaded
      /\ ~styleReady /\ ~pending /\ ~mounted /\ probe = None /\ enabled \in SUBSET ToSet(Overlays)
    BY DEF Init, PanelsInit
<1>2. Bare \in Styles /\ ToSet(Bare.layers) = {}
    BY DEF Bare, Styles, Stacks, Ordered, ToSet
<1> QED  BY <1>1, <1>2 DEF StackInv, Phases, Holdings, Ours, Bare

(* A style arrives, with or without the theme effect waiting for it.        *)
LEMMA StyleLoadKeeps ==
    ASSUME StackInv, ReadoutInv, StyleLoad
    PROVE  StackInv'
<1>1. /\ loading /\ ~loading' /\ live' /\ ~waiting'
      /\ UNCHANGED <<url, grid, loaded, mounted, enabled, probe>>
    BY DEF StyleLoad, panels, readout
<1>2. Bare \in Styles /\ ToSet(Bare.layers) = {}
    BY DEF Bare, Styles, Stacks, Ordered, ToSet
<1>3. CASE waiting
    <2>1. styleReady' /\ style' = Installed(Bare, url, grid) /\ pending'
        BY <1>3 DEF StyleLoad
    <2>2. probe \in Places \cup {None} /\ url \in Images \cup {None} /\ grid \in BOOLEAN
        BY DEF ReadoutInv, StackInv
    <2>3. /\ style' \in Styles
          /\ ToSet(style'.layers) = {PROBE_LAYER} \cup IF grid /\ url # None THEN {RADAR_LAYER} ELSE {}
          /\ style'.pin = probe
          /\ grid /\ url # None => style'.image = url
        <3>1. Bare \in Styles
            BY <1>2
        <3>2. Restores(Bare, url, grid, Installed(Bare, url, grid))
            BY <3>1, <2>2, InstalledKeeps
        <3>3. Restores(Bare, url, grid, style')
            BY <3>2, <2>1
        <3> QED  BY <3>3, <1>2 DEF Restores
    <2>4. Phases'
        BY <1>1, <2>1 DEF StackInv, Phases
    <2>5. Holdings'
        BY <1>1, <2>1, <2>3 DEF Holdings
    <2> QED  BY <1>1, <2>3, <2>4, <2>5 DEF StackInv
<1>4. CASE ~waiting
    <2>1. style' = Bare /\ UNCHANGED <<styleReady, pending>>
        BY <1>4 DEF StyleLoad
    <2>2. ~live /\ ~loaded /\ ~pending /\ ~mounted /\ ~styleReady
        BY <1>1, <1>4 DEF StackInv, Phases
    <2>3. Phases'
        BY <1>1, <2>1, <2>2 DEF Phases
    <2>4. Holdings'
        BY <1>1, <1>2, <2>1, <2>2 DEF Holdings
    <2> QED  BY <1>1, <1>2, <2>1, <2>3, <2>4 DEF StackInv
<1> QED  BY <1>3, <1>4

(* The load event puts back what is missing, on whichever style is live.    *)
LEMMA MapLoadKeeps ==
    ASSUME StackInv, ReadoutInv, MapLoad
    PROVE  StackInv'
<1>1. /\ live /\ ~loaded /\ loaded' /\ styleReady' /\ pending'
      /\ style' = Installed(style, url, grid)
      /\ UNCHANGED <<url, grid, live, loading, waiting, mounted, enabled, probe>>
    BY DEF MapLoad, panels, readout
<1>2. /\ probe \in Places \cup {None} /\ url \in Images \cup {None} /\ grid \in BOOLEAN
      /\ style \in Styles
    BY DEF ReadoutInv, StackInv
<1>3. /\ style' \in Styles
      /\ ToSet(style'.layers) = ToSet(style.layers) \cup {PROBE_LAYER}
                                   \cup IF grid /\ url # None THEN {RADAR_LAYER} ELSE {}
      /\ style'.pin = IF PROBE_LAYER \in ToSet(style.layers) THEN style.pin ELSE probe
      /\ style'.image = IF grid /\ url # None /\ RADAR_LAYER \notin ToSet(style.layers)
                        THEN url ELSE style.image
    <2>1. Restores(style, url, grid, Installed(style, url, grid))
        BY <1>2, InstalledKeeps
    <2> QED  BY <2>1, <1>1 DEF Restores
<1>4. Phases'
    BY <1>1 DEF StackInv, Phases
<1>5. Holdings'
    BY <1>1, <1>3 DEF StackInv, Holdings
<1> QED  BY <1>1, <1>3, <1>4, <1>5 DEF StackInv

(* What a rebuild does to a style in hand.                                  *)
LEMMA RebuiltHoldings ==
    ASSUME StackInv
    PROVE  LET t == [style EXCEPT !.layers = Rebuilt(@)]
               held == ToSet(style.layers)
           IN  /\ t \in Styles /\ t.image = style.image /\ t.pin = style.pin
               /\ ToSet(t.layers) = (held \cap {RADAR_LAYER, PROBE_LAYER}) \cup Ours(enabled)
<1> DEFINE t == [style EXCEPT !.layers = Rebuilt(@)]
           held == ToSet(style.layers)
           all == ToSet(Overlays)
<1>1. style \in Styles /\ style.layers \in Stacks /\ enabled \in SUBSET all
    BY DEF StackInv, Styles
<1>2. Rebuilt(style.layers) \in Stacks /\ ToSet(Rebuilt(style.layers)) = (held \ Ours(all)) \cup Ours(enabled)
    BY <1>1, RebuiltKeeps
<1>3. t \in Styles /\ t.image = style.image /\ t.pin = style.pin /\ t.layers = Rebuilt(style.layers)
    BY <1>1, <1>2 DEF Styles
<1>4. Ours(enabled) \subseteq Ours(all) /\ RADAR_LAYER \notin Ours(all) /\ PROBE_LAYER \notin Ours(all)
    BY <1>1, FixedLayers DEF Ours
<1>5. held \subseteq {RADAR_LAYER, PROBE_LAYER} \cup Ours(all)
    <2>1. Ours({}) \subseteq Ours(all)
        BY DEF Ours
    <2> QED  BY <1>4, <2>1 DEF StackInv, Holdings
<1> HIDE DEF t, held
<1>6. ToSet(t.layers) = (held \cap {RADAR_LAYER, PROBE_LAYER}) \cup Ours(enabled)
    BY <1>2, <1>3, <1>4, <1>5
<1> QED  BY <1>3, <1>6 DEF t, held

(* The overlays re-run their effects when the new map state is committed.   *)
LEMMA CommitKeeps ==
    ASSUME StackInv, Commit
    PROVE  StackInv'
<1>1. /\ pending /\ ~pending' /\ mounted'
      /\ style' = [style EXCEPT !.layers = Rebuilt(@)]
      /\ UNCHANGED <<url, grid, live, loading, waiting, loaded, styleReady, enabled, probe>>
    BY DEF Commit, panels, readout
<1>2. /\ style' \in Styles /\ style'.image = style.image /\ style'.pin = style.pin
      /\ ToSet(style'.layers) = (ToSet(style.layers) \cap {RADAR_LAYER, PROBE_LAYER}) \cup Ours(enabled)
    BY <1>1, RebuiltHoldings
<1>3. RADAR_LAYER \notin Ours(enabled) /\ PROBE_LAYER \notin Ours(enabled)
    BY FixedLayers DEF StackInv
<1>4. Phases'
    BY <1>1 DEF StackInv, Phases
<1>5. Holdings'
    BY <1>1, <1>2, <1>3 DEF StackInv, Holdings
<1> QED  BY <1>1, <1>2, <1>4, <1>5 DEF StackInv

(* A theme swap empties the overlays' layers and puts them back at once,    *)
(* on the style that is on its way out.                                     *)
LEMMA ToggleThemeKeeps ==
    ASSUME StackInv, ToggleTheme
    PROVE  StackInv'
<1>1. /\ loading' /\ waiting' /\ ~styleReady'
      /\ style' = IF mounted THEN [style EXCEPT !.layers = Rebuilt(@)] ELSE style
      /\ UNCHANGED <<url, grid, live, loaded, pending, mounted, enabled, probe>>
    BY DEF ToggleTheme, panels, readout
<1>2. Phases'
    BY <1>1 DEF StackInv, Phases
<1>3. CASE mounted
    <2>1. /\ style' \in Styles /\ style'.pin = style.pin
          /\ ToSet(style'.layers) = (ToSet(style.layers) \cap {RADAR_LAYER, PROBE_LAYER}) \cup Ours(enabled)
        BY <1>1, <1>3, RebuiltHoldings
    <2>2. PROBE_LAYER \notin Ours(enabled)
        BY FixedLayers DEF StackInv
    <2>3. Holdings'
        BY <1>1, <1>3, <2>1, <2>2 DEF StackInv, Holdings
    <2> QED  BY <1>1, <1>2, <2>1, <2>3 DEF StackInv
<1>4. CASE ~mounted
    <2>1. Holdings'
        BY <1>1, <1>4 DEF StackInv, Holdings
    <2> QED  BY <1>1, <1>2, <1>4, <2>1 DEF StackInv
<1> QED  BY <1>3, <1>4

(* The frame effect swaps the image, or installs the layer.                 *)
LEMMA FrameEffectKeeps ==
    ASSUME StackInv, ReadoutInv, url' \in Images \cup {None}, grid' \in BOOLEAN, FrameEffect(url', grid'),
           UNCHANGED <<live, loading, waiting, loaded, styleReady, mounted, enabled, probe>>
    PROVE  StackInv'
<1>1. /\ probe \in Places \cup {None} /\ style \in Styles
    BY DEF ReadoutInv, StackInv
<1>2. CASE ~styleReady \/ ~grid' \/ url' = None
    <2>1. UNCHANGED <<style, pending>>
        BY <1>2 DEF FrameEffect
    <2>2. Phases' /\ Holdings'
        BY <1>2, <2>1 DEF StackInv, Phases, Holdings
    <2> QED  BY <2>1, <2>2 DEF StackInv
<1>3. CASE styleReady /\ grid' /\ url' # None /\ RADAR_LAYER \in ToSet(style.layers)
    <2>1. style' = [style EXCEPT !.image = url'] /\ pending' = pending
        BY <1>3 DEF FrameEffect
    <2>2. /\ style' \in Styles /\ style'.layers = style.layers
          /\ style'.pin = style.pin /\ style'.image = url'
        BY <1>1, <1>3, <2>1 DEF Styles
    <2>3. Phases'
        BY <2>1 DEF StackInv, Phases
    <2>4. Holdings'
        BY <1>3, <2>1, <2>2 DEF StackInv, Holdings
    <2> QED  BY <2>2, <2>3, <2>4 DEF StackInv
<1>4. CASE styleReady /\ grid' /\ url' # None /\ RADAR_LAYER \notin ToSet(style.layers)
    <2>1. style' = Installed(style, url', grid') /\ pending'
        BY <1>4 DEF FrameEffect
    <2>2. /\ style' \in Styles
          /\ ToSet(style'.layers) = ToSet(style.layers) \cup {PROBE_LAYER}
                                       \cup IF grid' /\ url' # None THEN {RADAR_LAYER} ELSE {}
          /\ style'.pin = IF PROBE_LAYER \in ToSet(style.layers) THEN style.pin ELSE probe
          /\ style'.image = IF grid' /\ url' # None /\ RADAR_LAYER \notin ToSet(style.layers)
                            THEN url' ELSE style.image
        <3>1. Restores(style, url', grid', Installed(style, url', grid'))
            BY <1>1, InstalledKeeps
        <3> QED  BY <3>1, <2>1 DEF Restores
    <2>3. Phases'
        BY <1>4, <2>1 DEF StackInv, Phases
    <2>4. Holdings'
        BY <1>4, <2>1, <2>2 DEF StackInv, Holdings
    <2> QED  BY <2>2, <2>3, <2>4 DEF StackInv
<1> QED  BY <1>2, <1>3, <1>4

LEMMA FramesKeep ==
    ASSUME StackInv, ReadoutInv, ShowFrame \/ GridArrives
    PROVE  StackInv'
<1>1. CASE ShowFrame
    <2>1. url' \in Images
        BY <1>1 DEF ShowFrame, Images, ReadoutInv
    <2>2. grid' = grid /\ FrameEffect(url', grid)
        BY <1>1 DEF ShowFrame
    <2> QED  BY <1>1, <2>1, <2>2, FrameEffectKeeps DEF ShowFrame, StackInv, panels, readout
<1>2. CASE GridArrives
    <2>1. grid' = TRUE /\ url' = url /\ FrameEffect(url, TRUE)
        BY <1>2 DEF GridArrives
    <2>2. FrameEffect(url', grid')
        BY <2>1
    <2>3. UNCHANGED <<live, loading, waiting, loaded, styleReady, mounted, enabled, probe>>
        BY <1>2 DEF GridArrives, panels, readout
    <2> QED  BY <2>1, <2>2, <2>3, FrameEffectKeeps DEF StackInv
<1> QED  BY <1>1, <1>2

(* An overlay is switched on or off, on whatever style is live.             *)
LEMMA ToggleOverlayKeeps ==
    ASSUME StackInv, ToggleOverlay
    PROVE  StackInv'
<1>1. UNCHANGED <<url, grid, live, loading, waiting, loaded, styleReady, pending, mounted, probe>>
    BY DEF ToggleOverlay, panels, readout
<1>2. PICK o \in ToSet(Overlays) :
          IF o \in enabled
          THEN /\ enabled' = enabled \ {o}
               /\ style' = IF mounted THEN [style EXCEPT !.layers = RemoveOverlay(@, o)] ELSE style
          ELSE /\ enabled' = enabled \cup {o}
               /\ style' = IF mounted THEN [style EXCEPT !.layers = InstallOverlay(@, o)] ELSE style
    BY DEF ToggleOverlay
<1>3. Phases'
    BY <1>1 DEF StackInv, Phases
<1>4. /\ style \in Styles /\ style.layers \in Stacks /\ style.layers \in Seq(Ids)
      /\ enabled \in SUBSET ToSet(Overlays)
    BY DEF StackInv, Styles, Stacks
<1>5. enabled' \in SUBSET ToSet(Overlays)
    BY <1>2, <1>4
<1>6. RADAR_LAYER \notin Ours({o}) /\ PROBE_LAYER \notin Ours({o}) /\ Ours({o}) = ToSet(LayersOf[o])
    BY FixedLayers DEF Ours
<1>7. CASE ~mounted
    <2>1. style' = style
        BY <1>2, <1>7
    <2>2. Holdings'
        BY <1>1, <1>7, <2>1 DEF StackInv, Holdings
    <2> QED  BY <1>1, <1>3, <1>4, <1>5, <2>1, <2>2 DEF StackInv
<1>8. CASE mounted /\ o \in enabled
    <2>1. enabled' = enabled \ {o} /\ style' = [style EXCEPT !.layers = RemoveOverlay(@, o)]
        BY <1>2, <1>8
    <2>2. /\ RemoveOverlay(style.layers, o) \in Stacks
          /\ ToSet(RemoveOverlay(style.layers, o)) = ToSet(style.layers) \ ToSet(LayersOf[o])
        BY <1>4, RemoveOverlayKeeps
    <2>3. /\ style' \in Styles /\ style'.pin = style.pin /\ style'.image = style.image
          /\ ToSet(style'.layers) = ToSet(style.layers) \ Ours({o})
        BY <2>1, <2>2, <1>4, <1>6 DEF Styles
    <2>4. Ours(enabled) = Ours(enabled') \cup Ours({o}) /\ Ours(enabled') \cap Ours({o}) = {}
        <3>1. \A p \in enabled' : p \in ToSet(Overlays) /\ p # o
            BY <2>1, <1>4
        <3>2. \A p \in enabled' : ToSet(LayersOf[p]) \cap ToSet(LayersOf[o]) = {}
            BY <3>1, OverlayAssumption
        <3>3. enabled = enabled' \cup {o}
            BY <2>1, <1>8
        <3>4. Ours(enabled') \cap Ours({o}) = {}
            BY <3>2, <1>6 DEF Ours
        <3>5. Ours(enabled) = Ours(enabled') \cup Ours({o})
            BY <3>3 DEF Ours
        <3> QED  BY <3>4, <3>5
    <2>5. Holdings'
        BY <1>1, <1>6, <1>8, <2>3, <2>4 DEF StackInv, Holdings
    <2> QED  BY <1>1, <1>3, <1>5, <2>3, <2>5 DEF StackInv
<1>9. CASE mounted /\ o \notin enabled
    <2>1. enabled' = enabled \cup {o} /\ style' = [style EXCEPT !.layers = InstallOverlay(@, o)]
        BY <1>2, <1>9
    <2>2. ToSet(style.layers) \cap ToSet(LayersOf[o]) = {}
        <3>1. Ours(enabled) \cap Ours({o}) = {}
            <4>1. \A p \in enabled : p \in ToSet(Overlays) /\ p # o
                BY <1>4, <1>9
            <4>2. \A p \in enabled : ToSet(LayersOf[p]) \cap ToSet(LayersOf[o]) = {}
                BY <4>1, OverlayAssumption
            <4> QED  BY <4>2, <1>6 DEF Ours
        <3>2. ToSet(style.layers) \subseteq {RADAR_LAYER, PROBE_LAYER} \cup Ours(enabled)
            BY <1>9 DEF StackInv, Holdings
        <3> QED  BY <1>6, <3>1, <3>2
    <2>3. /\ InstallOverlay(style.layers, o) \in Stacks
          /\ ToSet(InstallOverlay(style.layers, o)) = ToSet(style.layers) \cup ToSet(LayersOf[o])
        BY <1>4, <2>2, InstallOverlayKeeps
    <2>4. /\ style' \in Styles /\ style'.pin = style.pin /\ style'.image = style.image
          /\ ToSet(style'.layers) = ToSet(style.layers) \cup Ours({o})
        BY <2>1, <2>3, <1>4, <1>6 DEF Styles
    <2>5. Ours(enabled') = Ours(enabled) \cup Ours({o})
        BY <2>1 DEF Ours
    <2>6. Holdings'
        BY <1>1, <1>6, <1>9, <2>4, <2>5 DEF StackInv, Holdings
    <2> QED  BY <1>1, <1>3, <1>5, <2>4, <2>6 DEF StackInv
<1> QED  BY <1>7, <1>8, <1>9

(* The panels touch the pin and nothing else of the style.                  *)
LEMMA PinFollowsKeeps ==
    ASSUME StackInv, ReadoutInv', PinFollows, UNCHANGED unclicked
    PROVE  StackInv'
<1>1. /\ style \in Styles /\ probe' \in Places \cup {None}
      /\ style' = IF PROBE_LAYER \in ToSet(style.layers) THEN [style EXCEPT !.pin = probe'] ELSE style
    BY DEF StackInv, ReadoutInv, PinFollows
<1>2. /\ style' \in Styles /\ style'.layers = style.layers /\ style'.image = style.image
      /\ PROBE_LAYER \in ToSet(style.layers) => style'.pin = probe'
    BY <1>1 DEF Styles
<1>3. Phases'
    BY DEF StackInv, Phases, unclicked
<1>4. Holdings'
    BY <1>2 DEF StackInv, Holdings, unclicked
<1> QED  BY <1>2, <1>3, <1>4 DEF StackInv, unclicked

LEMMA StackStep == StackInv /\ ReadoutInv /\ [Next]_vars => StackInv'
<1> SUFFICES ASSUME StackInv, ReadoutInv, [Next]_vars PROVE StackInv'
    OBVIOUS
<1>1. ReadoutInv'
    BY ReadoutStep
<1>2. CASE TapStation \/ TapMap \/ Panel
    BY <1>1, <1>2, PinFollowsKeeps DEF TapStation, TapMap, Panel
<1>3. CASE PickProduct
    <2>1. url' = None /\ UNCHANGED <<grid, mapping, enabled, probe>>
        BY <1>3 DEF PickProduct, setProduct
    <2>2. Phases'
        BY <2>1 DEF StackInv, Phases, mapping
    <2>3. Holdings'
        BY <2>1 DEF StackInv, Holdings, mapping
    <2> QED  BY <2>1, <2>2, <2>3 DEF StackInv, mapping
<1>4. CASE UNCHANGED vars
    <2>1. UNCHANGED <<url, grid, mapping, enabled, probe>>
        BY <1>4 DEF vars, panels, readout
    <2>2. Phases'
        BY <2>1 DEF StackInv, Phases, mapping
    <2>3. Holdings'
        BY <2>1 DEF StackInv, Holdings, mapping
    <2> QED  BY <2>1, <2>2, <2>3 DEF StackInv, mapping
<1> QED
    BY <1>2, <1>3, <1>4, StyleLoadKeeps, MapLoadKeeps, CommitKeeps, FramesKeep, ToggleThemeKeeps,
       ToggleOverlayKeeps DEF Next

LEMMA StackAlways == Spec => [](StackInv /\ ReadoutInv)
<1>1. Init => StackInv /\ ReadoutInv
    BY StackInit, ReadoutInit
<1>2. StackInv /\ ReadoutInv /\ [Next]_vars => (StackInv /\ ReadoutInv)'
    BY StackStep, ReadoutStep
<1> QED  BY <1>1, <1>2, PTL DEF Spec

(* The stack is in its declared order, each layer once, in every style that *)
(* is ever live, mid-swap included (layers.ts addLayer, beforeLayer).       *)
THEOREM OrderAlwaysKept == Spec => []DrawOrderKept
<1>1. StackInv => DrawOrderKept
    BY DEF StackInv, Styles, Stacks, Ordered, DrawOrderKept
<1> QED  BY <1>1, StackAlways, PTL

(* Whatever the order of swaps, toggles, frames and late answers, a settled *)
(* map carries every enabled layer and no other, the current frame and the  *)
(* picked point's pin (Map.tsx install, the overlays' effects).             *)
THEOREM StackAlwaysRestored == Spec => []StackRestored
<1>1. StackInv => StackRestored
    <2> SUFFICES ASSUME StackInv, Settled PROVE StackRestored
        BY DEF StackRestored
    <2>1. mounted /\ styleReady /\ ~loading /\ ~pending
        BY DEF StackInv, Phases, Settled
    <2>2. Ours(enabled) = UNION {ToSet(LayersOf[o]) : o \in enabled}
        BY DEF Ours
    <2>3. RADAR_LAYER \notin Ours(enabled) /\ RADAR_LAYER # PROBE_LAYER
        BY FixedLayers DEF StackInv
    <2>4. ToSet(style.layers) \ {RADAR_LAYER} = {PROBE_LAYER} \cup Ours(enabled)
        BY <2>1, <2>3 DEF StackInv, Holdings
    <2> QED  BY <2>1, <2>2, <2>4 DEF StackInv, Holdings, StackRestored
<1> QED  BY <1>1, StackAlways, PTL
=================================================================================
