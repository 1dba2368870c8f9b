---------------------------- MODULE BackendProofs ----------------------------
(***************************************************************************)
(* Theorems about the backend beside its stores and caches: what a call of *)
(* its pure functions returns, for any inputs of the shapes the assumptions*)
(* of Decoders give (observation polls whole and damaged, discovery, the   *)
(* grid, the retention, the nowcast, the palettes), and the rate gate of   *)
(* the place search, for any number of searches, any intervals and any     *)
(* clock bound.                                                            *)
(***************************************************************************)
EXTENDS Decoders, RateGate, FiniteSetTheorems, WellFoundedInduction, SequenceTheorems, TLAPS

(***************************************************************************)
(* Calls.                                                                  *)
(***************************************************************************)

(* What a call of each function is made with.                               *)
CallTyped ==
    /\ call.fn = "observe" => call.report \in Reports /\ call.layout \in Layouts
    /\ call.fn = "observe-damaged" => call.loss \in Losses /\ call.layout \in Layouts
    /\ call.fn = "discover" => call.list \in FrameLists
    /\ call.fn = "paint" => call.cell \in Rasters
    /\ call.fn = "legend" => call.request \in Legends
    /\ call.fn = "nowcast" => call.storm \in Storms
    /\ call.fn = "point" => call.archive \in Archives
    /\ call.fn = "grid" => call.env \in Environments

LEMMA CallInitTyped == CallInit => CallTyped
    BY DEF CallInit, CallTyped

LEMMA CallStep ==
    ASSUME [CallNext]_callVars
    PROVE  /\ call' = call
           /\ \/ result' = result
              \/ /\ call.fn = "observe" => Observe
                 /\ call.fn = "observe-damaged" => ObserveDamaged
                 /\ call.fn = "discover" => Discover
                 /\ call.fn = "paint" => Paint
                 /\ call.fn = "legend" => LegendOf
                 /\ call.fn = "nowcast" => Nowcast
                 /\ call.fn = "point" => PointOf
                 /\ call.fn = "grid" => Grid
<1>1. CASE Observe
    BY <1>1 DEF Observe, Evaluate
<1>2. CASE ObserveDamaged
    <2>1. call' = call /\ call.fn = "observe-damaged"
        BY <1>2 DEF ObserveDamaged, Evaluate
    <2> QED  BY <1>2, <2>1
<1>3. CASE Discover
    <2>1. call' = call /\ call.fn = "discover"
        BY <1>3 DEF Discover, Evaluate
    <2> QED  BY <1>3, <2>1
<1>4. CASE Paint
    <2>1. call' = call /\ call.fn = "paint"
        BY <1>4 DEF Paint, Evaluate
    <2> QED  BY <1>4, <2>1
<1>5. CASE LegendOf
    <2>1. call' = call /\ call.fn = "legend"
        BY <1>5 DEF LegendOf, Evaluate
    <2> QED  BY <1>5, <2>1
<1>6. CASE Nowcast
    <2>1. call' = call /\ call.fn = "nowcast"
        BY <1>6 DEF Nowcast, Evaluate
    <2> QED  BY <1>6, <2>1
<1>7. CASE PointOf
    <2>1. call' = call /\ call.fn = "point"
        BY <1>7 DEF PointOf, Evaluate
    <2> QED  BY <1>7, <2>1
<1>8. CASE Grid
    <2>1. call' = call /\ call.fn = "grid"
        BY <1>8 DEF Grid, Evaluate
    <2> QED  BY <1>8, <2>1
<1>9. CASE UNCHANGED callVars
    BY <1>9 DEF callVars
<1> QED  BY <1>1, <1>2, <1>3, <1>4, <1>5, <1>6, <1>7, <1>8, <1>9 DEF CallNext

LEMMA CallsTyped == CallSpec => []CallTyped
<1>1. CallTyped /\ [CallNext]_callVars => CallTyped'
    BY CallStep DEF CallTyped
<1> QED  BY <1>1, CallInitTyped, PTL DEF CallSpec

(***************************************************************************)
(* Arithmetic.                                                             *)
(***************************************************************************)

(* Rounding a multiple and less than one more down gives the multiple.      *)
LEMMA DivOfMultiple ==
    ASSUME NEW q \in Int, NEW r \in Nat \ {0}, NEW c \in 0 .. (r - 1)
    PROVE  (q * r + c) \div r = q
<1> DEFINE d == (q * r + c) \div r
<1>1. d \in Int /\ d * r <= q * r + c /\ q * r + c < (d + 1) * r
    OBVIOUS
<1> QED  BY <1>1

(* Rounding down keeps an order.                                            *)
LEMMA DivMonotone ==
    ASSUME NEW x \in Int, NEW y \in Int, x <= y, NEW r \in Nat \ {0}
    PROVE  x \div r <= y \div r
<1> DEFINE c == x \div r
           e == y \div r
<1>1. c \in Int /\ c * r <= x /\ x < (c + 1) * r
    OBVIOUS
<1>2. e \in Int /\ e * r <= y /\ y < (e + 1) * r
    OBVIOUS
<1>3. c * r < (e + 1) * r
    <2> HIDE DEF c, e
    <2>1. c * r \in Int /\ (e + 1) * r \in Int
        BY <1>1, <1>2
    <2> QED  BY <1>1, <1>2, <2>1
<1> HIDE DEF c, e
<1>4. c < e + 1
    BY <1>1, <1>2, <1>3
<1> QED  BY <1>1, <1>2, <1>4

(* A common factor cancels.                                                 *)
LEMMA SameFactor ==
    ASSUME NEW a \in Nat, NEW b \in Nat, NEW w \in Nat \ {0}, a * w = b * w
    PROVE  a = b
<1>1. (a * w + 0) \div w = a /\ (b * w + 0) \div w = b
    BY DivOfMultiple
<1> QED  BY <1>1

(* Of two whole numbers, the larger.                                        *)
LEMMA MaxOfTwo ==
    ASSUME NEW a \in Int, NEW b \in Int
    PROVE  Max({a, b}) \in {a, b} /\ Max({a, b}) >= a /\ Max({a, b}) >= b
<1>1. \E m \in {a, b} : \A y \in {a, b} : m >= y
    <2>1. CASE a >= b  BY <2>1
    <2>2. CASE ~(a >= b)  BY <2>2
    <2> QED  BY <2>1, <2>2
<1>2. Max({a, b}) \in {a, b} /\ \A y \in {a, b} : Max({a, b}) >= y
    BY <1>1 DEF Max
<1> QED  BY <1>2

(***************************************************************************)
(* Folds. A FoldLeft is a recursive function over the sets of positions,   *)
(* chosen among the solutions of its recursion: there is one, and it walks *)
(* through the sequence a position at a time.                              *)
(***************************************************************************)
(* A set of naturals has a least member.                                    *)
LEMMA Least ==
    ASSUME NEW S \in SUBSET Nat, S # {}
    PROVE  \E m \in S : \A i \in S : m <= i
<1> DEFINE R == {ij \in Nat \X Nat : ij[1] < ij[2]}
<1>1. IsWellFoundedOn(R, Nat)
    BY NatLessThanWellFounded DEF OpToRel
<1>2. \E m \in S : \A i \in S : ~ (<<i, m>> \in R)
    <2> HIDE DEF R
    <2> QED  BY <1>1, WFMin
<1>3. PICK m \in S : \A i \in S : <<i, m>> \notin R
    BY <1>2
<1>4. ASSUME NEW i \in S PROVE m <= i
    <2>1. <<i, m>> \in Nat \X Nat
        OBVIOUS
    <2> QED  BY <1>3, <2>1
<1> QED  BY <1>4

(* Induction up to n, over a set rather than a predicate.                   *)
LEMMA UpTo ==
    ASSUME NEW n \in Nat, NEW K, 0 \in K, \A k \in 1 .. n : k - 1 \in K => k \in K
    PROVE  \A k \in 0 .. n : k \in K
<1> SUFFICES ASSUME NEW k \in 0 .. n, k \notin K PROVE FALSE
    OBVIOUS
<1> DEFINE Out == {i \in 0 .. n : i \notin K}
<1>1. Out # {} /\ Out \subseteq Nat
    OBVIOUS
<1>2. PICK m \in Out : \A i \in Out : m <= i
    <2> HIDE DEF Out
    <2> QED  BY <1>1, Least
<1>3. m \in 0 .. n /\ m # 0 /\ m \notin K
    OBVIOUS
<1>4. m - 1 \in 0 .. n /\ m - 1 \notin Out
    BY <1>2, <1>3
<1> QED  BY <1>3, <1>4

(* A non-empty set of positions has a last one.                             *)
LEMMA LastPosition ==
    ASSUME NEW n \in Nat, NEW S \in SUBSET (1 .. n), S # {}
    PROVE  Max(S) \in S /\ \A i \in S : i <= Max(S)
<1> DEFINE Above == {k \in Nat : \A i \in S : i <= k}
<1>1. n \in Above /\ Above \subseteq Nat
    OBVIOUS
<1>2. PICK m \in Above : \A k \in Above : m <= k
    <2> HIDE DEF Above
    <2> QED  BY <1>1, Least
<1>3. m \in S
    <2> SUFFICES ASSUME m \notin S PROVE FALSE
        OBVIOUS
    <2>1. \A i \in S : i \in Nat /\ i <= m /\ i # m
        BY <1>2
    <2>2. m > 0
        <3>1. PICK i \in S : i \in 1 .. n
            OBVIOUS
        <3> QED  BY <3>1, <2>1, <1>2
    <2>3. m - 1 \in Nat
        BY <1>2, <2>2
    <2>4. m - 1 \in Above
        BY <2>1, <2>3, <1>2
    <2> QED  BY <2>4, <1>2
<1>4. \E x \in S : \A y \in S : x >= y
    BY <1>2, <1>3
<1>5. Max(S) \in S /\ \A y \in S : Max(S) >= y
    BY <1>4 DEF Max
<1> QED  BY <1>5

LEMMA PrefixMax ==
    ASSUME NEW n \in Nat, NEW k \in 1 .. n
    PROVE  (1 .. k) \in SUBSET (1 .. n) /\ (1 .. k) # {} /\ Max(1 .. k) = k /\ (1 .. k) \ {k} = 1 .. (k - 1)
<1>1. (1 .. k) \in SUBSET (1 .. n) /\ (1 .. k) # {} /\ k \in 1 .. k
    OBVIOUS
<1>2. Max(1 .. k) \in 1 .. k /\ \A i \in 1 .. k : i <= Max(1 .. k)
    BY <1>1, LastPosition
<1> QED  BY <1>1, <1>2

(* it solves the recursion of a fold of step over the positions 1 .. n.     *)
IsFold(it, base, step, n) ==
    \A S \in SUBSET (1 .. n) :
        it[S] = IF S = {} THEN base ELSE step[<<it[S \ {Max(S)}], Max(S)>>]

(* A fold over the positions 1 .. n exists: the recursion that defines it   *)
(* has a solution.                                                          *)
LEMMA FoldExists ==
    ASSUME NEW V, NEW n \in Nat, NEW base \in V, NEW step \in [V \X (1 .. n) -> V]
    PROVE  \E it \in [SUBSET (1 .. n) -> V] : IsFold(it, base, step, n)
<1> DEFINE K == {k \in 0 .. n : \E it \in [SUBSET (1 .. k) -> V] : IsFold(it, base, step, k)}
<1>1. 0 \in K
    <2>1. [S \in SUBSET (1 .. 0) |-> base] \in [SUBSET (1 .. 0) -> V]
        OBVIOUS
    <2>2. IsFold([S \in SUBSET (1 .. 0) |-> base], base, step, 0)
        BY DEF IsFold
    <2> QED  BY <2>1, <2>2
<1>2. ASSUME NEW k \in 1 .. n, k - 1 \in K PROVE k \in K
    <2>1. PICK it \in [SUBSET (1 .. (k - 1)) -> V] : IsFold(it, base, step, k - 1)
        BY <1>2
    <2> DEFINE longer == [S \in SUBSET (1 .. k) |-> IF k \in S THEN step[<<it[S \ {k}], k>>] ELSE it[S]]
    <2>2. \A S \in SUBSET (1 .. k) : S \ {k} \in SUBSET (1 .. (k - 1))
        OBVIOUS
    <2>3. longer \in [SUBSET (1 .. k) -> V]
        BY <2>1, <2>2
    <2>4. ASSUME NEW S \in SUBSET (1 .. k)
          PROVE  longer[S] = IF S = {} THEN base ELSE step[<<longer[S \ {Max(S)}], Max(S)>>]
        <3>1. CASE k \in S
            <4>1. Max(S) \in S /\ \A i \in S : i <= Max(S)
                <5>1. k \in Nat /\ S # {}
                    BY <3>1
                <5> QED  BY <5>1, LastPosition
            <4>2. Max(S) = k
                <5>1. Max(S) \in 1 .. k /\ k <= Max(S)
                    BY <4>1, <3>1
                <5> QED  BY <5>1
            <4>3. S \ {k} \in SUBSET (1 .. k) /\ k \notin S \ {k}
                OBVIOUS
            <4>4. longer[S \ {k}] = it[S \ {k}]
                BY <4>3
            <4>5. longer[S] = step[<<it[S \ {k}], k>>]
                BY <3>1
            <4> QED  BY <4>2, <4>4, <4>5, <3>1
        <3>2. CASE k \notin S /\ S # {}
            <4>1. S \in SUBSET (1 .. (k - 1))
                BY <3>2
            <4>2. longer[S] = it[S] /\ longer[S \ {Max(S)}] = it[S \ {Max(S)}]
                BY <3>2
            <4>3. it[S] = step[<<it[S \ {Max(S)}], Max(S)>>]
                BY <2>1, <4>1, <3>2 DEF IsFold
            <4> QED  BY <4>2, <4>3, <3>2
        <3>3. CASE S = {}
            <4>1. longer[S] = it[{}] /\ {} \in SUBSET (1 .. (k - 1))
                BY <3>3
            <4>2. it[{}] = base
                BY <2>1, <4>1 DEF IsFold
            <4> QED  BY <4>1, <4>2, <3>3
        <3> QED  BY <3>1, <3>2, <3>3
    <2>5. IsFold(longer, base, step, k)
        BY <2>4 DEF IsFold
    <2> HIDE DEF longer
    <2> QED  BY <2>3, <2>5
<1>3. n \in K
    <2> HIDE DEF K
    <2>1. \A k \in 0 .. n : k \in K
        BY <1>1, <1>2, UpTo
    <2> QED  BY <2>1
<1> QED  BY <1>3

(* h goes from base to last, by step.                                       *)
IsHistory(h, V, base, step, n, last) ==
    /\ h \in [0 .. n -> V] /\ h[0] = base /\ h[n] = last
    /\ \A k \in 1 .. n : h[k] = step[<<h[k - 1], k>>]

(* What is known of a solution c as long as its values stay in V.           *)
UnfoldsTo(c, base, step, V, n) ==
    /\ c[{}] = base
    /\ \A k \in 1 .. n : c[1 .. (k - 1)] \in V => c[1 .. k] = step[<<c[1 .. (k - 1)], k>>]

(* The values a fold goes through, one per position, from the solution c of *)
(* its recursion.                                                           *)
LEMMA FoldByStep ==
    ASSUME NEW V, NEW n \in Nat, NEW base \in V, NEW step \in [V \X (1 .. n) -> V], NEW c,
           UnfoldsTo(c, base, step, V, n)
    PROVE  \E h : IsHistory(h, V, base, step, n, c[1 .. n])
<1> DEFINE K == {k \in 0 .. n : c[1 .. k] \in V}
           h == [k \in 0 .. n |-> c[1 .. k]]
<1>1. 0 \in K /\ c[1 .. 0] = base
    <2>1. 1 .. 0 = {}
        OBVIOUS
    <2> QED  BY <2>1 DEF UnfoldsTo
<1>2. ASSUME NEW k \in 1 .. n, k - 1 \in K PROVE k \in K
    <2>1. c[1 .. k] = step[<<c[1 .. (k - 1)], k>>] /\ <<c[1 .. (k - 1)], k>> \in V \X (1 .. n)
        BY <1>2 DEF UnfoldsTo
    <2> QED  BY <2>1
<1>3. \A k \in 0 .. n : k \in K
    <2> HIDE DEF K
    <2> QED  BY <1>1, <1>2, UpTo
<1>4. h \in [0 .. n -> V] /\ h[n] = c[1 .. n]
    BY <1>1, <1>3
<1>5. IsHistory(h, V, base, step, n, c[1 .. n])
    BY <1>1, <1>3, <1>4 DEF IsHistory, UnfoldsTo
<1> HIDE DEF h
<1> QED  BY <1>5

(* h goes from first to last through V.                                     *)
Walk(h, V, first, n, last) == h \in [0 .. n -> V] /\ h[0] = first /\ h[n] = last

(* What envRetention's loop has read so far, one per entry.                 *)
LEMMA OverrideHistory ==
    ASSUME NEW V, NEW base \in V, NEW D, NEW q \in Seq(D),
           \A v \in V, d \in D : Overridden(v, d) \in V
    PROVE  \E h :
              /\ Walk(h, V, base, Len(q), FoldLeft(Overridden, base, q))
              /\ \A k \in 1 .. Len(q) : h[k] = Overridden(h[k - 1], q[k])
<1> DEFINE n == Len(q)
           step == [p \in V \X (1 .. n) |-> Overridden(p[1], q[p[2]])]
           Solves(it) == it = [S \in SUBSET DOMAIN q |->
                                 IF S = {} THEN base ELSE Overridden(it[S \ {Max(S)}], q[Max(S)])]
           c == CHOOSE it : Solves(it)
<1>1. n \in Nat /\ DOMAIN q = 1 .. n /\ \A i \in 1 .. n : q[i] \in D
    BY LenProperties
<1>2. step \in [V \X (1 .. n) -> V]
    BY <1>1
<1>3. PICK it \in [SUBSET (1 .. n) -> V] : IsFold(it, base, step, n)
    <2>1. n \in Nat
        BY <1>1
    <2> HIDE DEF step, n
    <2> QED  BY <2>1, <1>2, FoldExists
<1>4. \A S \in SUBSET (1 .. n) : it[S] = IF S = {} THEN base ELSE Overridden(it[S \ {Max(S)}], q[Max(S)])
    <2> SUFFICES ASSUME NEW S \in SUBSET (1 .. n), S # {}
                 PROVE  step[<<it[S \ {Max(S)}], Max(S)>>] = Overridden(it[S \ {Max(S)}], q[Max(S)])
        BY <1>3 DEF IsFold
    <2>1. Max(S) \in 1 .. n
        BY <1>1, LastPosition
    <2>2. it[S \ {Max(S)}] \in V
        BY <1>3
    <2> QED  BY <2>1, <2>2
<1>5. Solves(it)
    BY <1>1, <1>3, <1>4
<1>6. Solves(c)
    <2> HIDE DEF Solves
    <2> QED  BY <1>5
<1>7. FoldLeft(Overridden, base, q) = c[1 .. n] /\ c[{}] = base
    <2>1. FoldLeft(Overridden, base, q) = c[DOMAIN q]
        BY DEF FoldLeft, MapThenFoldSet
    <2> QED  BY <2>1, <1>1, <1>6
<1>8. \A k \in 1 .. n : c[1 .. k] = Overridden(c[1 .. (k - 1)], q[k])
    <2> TAKE k \in 1 .. n
    <2>1. (1 .. k) \in SUBSET (1 .. n) /\ (1 .. k) # {} /\ Max(1 .. k) = k /\ (1 .. k) \ {k} = 1 .. (k - 1)
        BY <1>1, PrefixMax
    <2>2. c[1 .. k] = Overridden(c[(1 .. k) \ {Max(1 .. k)}], q[Max(1 .. k)])
        <3> HIDE DEF c
        <3> QED  BY <2>1, <1>1, <1>6
    <2> QED  BY <2>1, <2>2
<1> HIDE DEF c
<1>9. UnfoldsTo(c, base, step, V, n)
    BY <1>7, <1>8 DEF UnfoldsTo
<1>10. PICK h : IsHistory(h, V, base, step, n, c[1 .. n])
    <2>1. n \in Nat
        BY <1>1
    <2> HIDE DEF step, n
    <2> QED  BY <2>1, <1>2, <1>9, FoldByStep
<1>11. h[0] = base /\ \A k \in 1 .. n : h[k] = Overridden(h[k - 1], q[k])
    <2> SUFFICES ASSUME NEW k \in 1 .. n PROVE h[k] = Overridden(h[k - 1], q[k])
        BY <1>10 DEF IsHistory
    <2>1. h[k - 1] \in V
        BY <1>1, <1>10 DEF IsHistory
    <2> QED  BY <2>1, <1>10 DEF IsHistory
<1>12. Walk(h, V, base, n, c[1 .. n])
    BY <1>10 DEF IsHistory, Walk
<1> QED  BY <1>7, <1>11, <1>12

(***************************************************************************)
(* Discovery.                                                              *)
(***************************************************************************)

(* What the loop over the members has collected, one per member.            *)
LEMMA CollectHistory ==
    ASSUME NEW product, NEW V, <<>> \in V, NEW D, NEW q \in Seq(D),
           \A v \in V, d \in D : Collected(v, d, product) \in V
    PROVE  \E h :
              /\ Walk(h, V, <<>>, Len(q), Discovered(q, product))
              /\ \A k \in 1 .. Len(q) : h[k] = Collected(h[k - 1], q[k], product)
<1> DEFINE n == Len(q)
           step == [p \in V \X (1 .. n) |-> Collected(p[1], q[p[2]], product)]
           Solves(it) == it = [S \in SUBSET DOMAIN q |->
                                 IF S = {} THEN <<>> ELSE Collected(it[S \ {Max(S)}], q[Max(S)], product)]
           c == CHOOSE it : Solves(it)
<1>1. n \in Nat /\ DOMAIN q = 1 .. n /\ \A i \in 1 .. n : q[i] \in D
    BY LenProperties
<1>2. step \in [V \X (1 .. n) -> V]
    BY <1>1
<1>3. PICK it \in [SUBSET (1 .. n) -> V] : IsFold(it, <<>>, step, n)
    <2>1. n \in Nat
        BY <1>1
    <2> HIDE DEF step, n
    <2> QED  BY <2>1, <1>2, FoldExists
<1>4. \A S \in SUBSET (1 .. n) : it[S] = IF S = {} THEN <<>> ELSE Collected(it[S \ {Max(S)}], q[Max(S)], product)
    <2> SUFFICES ASSUME NEW S \in SUBSET (1 .. n), S # {}
                 PROVE  step[<<it[S \ {Max(S)}], Max(S)>>] = Collected(it[S \ {Max(S)}], q[Max(S)], product)
        BY <1>3 DEF IsFold
    <2>1. Max(S) \in 1 .. n
        BY <1>1, LastPosition
    <2>2. it[S \ {Max(S)}] \in V
        BY <1>3
    <2> QED  BY <2>1, <2>2
<1>5. Solves(it)
    BY <1>1, <1>3, <1>4
<1>6. Solves(c)
    <2> HIDE DEF Solves
    <2> QED  BY <1>5
<1>7. Discovered(q, product) = c[1 .. n] /\ c[{}] = <<>>
    <2>1. Discovered(q, product) = c[DOMAIN q]
        BY DEF Discovered, FoldLeft, MapThenFoldSet
    <2> QED  BY <2>1, <1>1, <1>6
<1>8. \A k \in 1 .. n : c[1 .. k] = Collected(c[1 .. (k - 1)], q[k], product)
    <2> TAKE k \in 1 .. n
    <2>1. (1 .. k) \in SUBSET (1 .. n) /\ (1 .. k) # {} /\ Max(1 .. k) = k /\ (1 .. k) \ {k} = 1 .. (k - 1)
        BY <1>1, PrefixMax
    <2>2. c[1 .. k] = Collected(c[(1 .. k) \ {Max(1 .. k)}], q[Max(1 .. k)], product)
        <3> HIDE DEF c
        <3> QED  BY <2>1, <1>1, <1>6
    <2> QED  BY <2>1, <2>2
<1> HIDE DEF c
<1>9. UnfoldsTo(c, <<>>, step, V, n)
    BY <1>7, <1>8 DEF UnfoldsTo
<1>10. PICK h : IsHistory(h, V, <<>>, step, n, c[1 .. n])
    <2>1. n \in Nat
        BY <1>1
    <2> HIDE DEF step, n
    <2> QED  BY <2>1, <1>2, <1>9, FoldByStep
<1>11. h[0] = <<>> /\ \A k \in 1 .. n : h[k] = Collected(h[k - 1], q[k], product)
    <2> SUFFICES ASSUME NEW k \in 1 .. n PROVE h[k] = Collected(h[k - 1], q[k], product)
        BY <1>10 DEF IsHistory
    <2>1. h[k - 1] \in V
        BY <1>1, <1>10 DEF IsHistory
    <2> QED  BY <2>1, <1>10 DEF IsHistory
<1>12. Walk(h, V, <<>>, n, c[1 .. n])
    BY <1>10 DEF IsHistory, Walk
<1> QED  BY <1>7, <1>11, <1>12

(* What the insertion sort has sorted, one per frame.                       *)
LEMMA SortHistory ==
    ASSUME NEW V, <<>> \in V, NEW D, NEW q \in Seq(D),
           \A v \in V, d \in D : Inserted(v, d) \in V
    PROVE  \E h :
              /\ Walk(h, V, <<>>, Len(q), sortFrameMetas(q))
              /\ \A k \in 1 .. Len(q) : h[k] = Inserted(h[k - 1], q[k])
<1> DEFINE n == Len(q)
           step == [p \in V \X (1 .. n) |-> Inserted(p[1], q[p[2]])]
           Solves(it) == it = [S \in SUBSET DOMAIN q |->
                                 IF S = {} THEN <<>> ELSE Inserted(it[S \ {Max(S)}], q[Max(S)])]
           c == CHOOSE it : Solves(it)
<1>1. n \in Nat /\ DOMAIN q = 1 .. n /\ \A i \in 1 .. n : q[i] \in D
    BY LenProperties
<1>2. step \in [V \X (1 .. n) -> V]
    BY <1>1
<1>3. PICK it \in [SUBSET (1 .. n) -> V] : IsFold(it, <<>>, step, n)
    <2>1. n \in Nat
        BY <1>1
    <2> HIDE DEF step, n
    <2> QED  BY <2>1, <1>2, FoldExists
<1>4. \A S \in SUBSET (1 .. n) : it[S] = IF S = {} THEN <<>> ELSE Inserted(it[S \ {Max(S)}], q[Max(S)])
    <2> SUFFICES ASSUME NEW S \in SUBSET (1 .. n), S # {}
                 PROVE  step[<<it[S \ {Max(S)}], Max(S)>>] = Inserted(it[S \ {Max(S)}], q[Max(S)])
        BY <1>3 DEF IsFold
    <2>1. Max(S) \in 1 .. n
        BY <1>1, LastPosition
    <2>2. it[S \ {Max(S)}] \in V
        BY <1>3
    <2> QED  BY <2>1, <2>2
<1>5. Solves(it)
    BY <1>1, <1>3, <1>4
<1>6. Solves(c)
    <2> HIDE DEF Solves
    <2> QED  BY <1>5
<1>7. sortFrameMetas(q) = c[1 .. n] /\ c[{}] = <<>>
    <2>1. sortFrameMetas(q) = c[DOMAIN q]
        BY DEF sortFrameMetas, FoldLeft, MapThenFoldSet
    <2> QED  BY <2>1, <1>1, <1>6
<1>8. \A k \in 1 .. n : c[1 .. k] = Inserted(c[1 .. (k - 1)], q[k])
    <2> TAKE k \in 1 .. n
    <2>1. (1 .. k) \in SUBSET (1 .. n) /\ (1 .. k) # {} /\ Max(1 .. k) = k /\ (1 .. k) \ {k} = 1 .. (k - 1)
        BY <1>1, PrefixMax
    <2>2. c[1 .. k] = Inserted(c[(1 .. k) \ {Max(1 .. k)}], q[Max(1 .. k)])
        <3> HIDE DEF c
        <3> QED  BY <2>1, <1>1, <1>6
    <2> QED  BY <2>1, <2>2
<1> HIDE DEF c
<1>9. UnfoldsTo(c, <<>>, step, V, n)
    BY <1>7, <1>8 DEF UnfoldsTo
<1>10. PICK h : IsHistory(h, V, <<>>, step, n, c[1 .. n])
    <2>1. n \in Nat
        BY <1>1
    <2> HIDE DEF step, n
    <2> QED  BY <2>1, <1>2, <1>9, FoldByStep
<1>11. h[0] = <<>> /\ \A k \in 1 .. n : h[k] = Inserted(h[k - 1], q[k])
    <2> SUFFICES ASSUME NEW k \in 1 .. n PROVE h[k] = Inserted(h[k - 1], q[k])
        BY <1>10 DEF IsHistory
    <2>1. h[k - 1] \in V
        BY <1>1, <1>10 DEF IsHistory
    <2> QED  BY <2>1, <1>10 DEF IsHistory
<1>12. Walk(h, V, <<>>, n, c[1 .. n])
    BY <1>10 DEF IsHistory, Walk
<1> QED  BY <1>7, <1>11, <1>12

(* more is s with e after its first k.                                      *)
Longer(more, s, k, e) ==
    /\ Len(more) = Len(s) + 1
    /\ \A i \in 1 .. k : more[i] = s[i]
    /\ more[k + 1] = e
    /\ \A i \in (k + 1) .. Len(s) : more[i + 1] = s[i]

LEMMA InsertedElements ==
    ASSUME NEW S, NEW s \in Seq(S), NEW k \in 0 .. Len(s), NEW e \in S
    PROVE  InsertedAfter(s, e, k) \in Seq(S) /\ Longer(InsertedAfter(s, e, k), s, k, e)
<1> DEFINE n == Len(s)
           left == SubSeq(s, 1, k)
           right == SubSeq(s, k + 1, n)
           both == left \o <<e>>
<1>1. n \in Nat /\ k \in Nat /\ k <= n /\ \A i \in 1 .. n : s[i] \in S
    BY LenProperties, ElementOfSeq
<1>2. InsertedAfter(s, e, k) = both \o right
    BY DEF InsertedAfter
<1>3. left \in Seq(S) /\ Len(left) = k /\ \A i \in 1 .. k : left[i] = s[i]
    <2>1. 1 \in 1 .. n + 1 /\ k \in 1 - 1 .. n /\ k - 1 + 1 = k
        BY <1>1
    <2> HIDE DEF left, n
    <2>2. left \in Seq(S) /\ Len(left) = k - 1 + 1 /\ \A i \in 1 .. k - 1 + 1 : left[i] = s[1 + i - 1]
        BY <2>1, SubSeqProperties DEF left, n
    <2>3. \A i \in 1 .. k : 1 + i - 1 = i
        BY <1>1
    <2> QED  BY <2>1, <2>2, <2>3
<1>4. right \in Seq(S) /\ Len(right) = n - k /\ \A i \in 1 .. (n - k) : right[i] = s[k + i]
    <2>1. k + 1 \in 1 .. n + 1 /\ n \in (k + 1) - 1 .. n /\ n - (k + 1) + 1 = n - k
        BY <1>1
    <2> DEFINE m == k + 1
    <2>4. m \in 1 .. Len(s) + 1 /\ Len(s) \in m - 1 .. Len(s)
        BY <2>1
    <2> HIDE DEF m
    <2>5. /\ SubSeq(s, m, Len(s)) \in Seq(S)
          /\ Len(SubSeq(s, m, Len(s))) = Len(s) - m + 1
          /\ \A i \in 1 .. Len(s) - m + 1 : SubSeq(s, m, Len(s))[i] = s[m + i - 1]
        BY <2>4, SubSeqProperties
    <2>2. /\ right \in Seq(S) /\ Len(right) = n - (k + 1) + 1
          /\ \A i \in 1 .. n - (k + 1) + 1 : right[i] = s[(k + 1) + i - 1]
        BY <2>5 DEF m
    <2> HIDE DEF right, n
    <2>3. \A i \in 1 .. (n - k) : (k + 1) + i - 1 = k + i
        BY <1>1
    <2> QED  BY <2>1, <2>2, <2>3
<1>5. <<e>> \in Seq(S) /\ Len(<<e>>) = 1 /\ <<e>>[1] = e
    OBVIOUS
<1> HIDE DEF left, right, n
<1>6. both \in Seq(S) /\ Len(both) = k + 1 /\ both[k + 1] = e /\ \A i \in 1 .. k : both[i] = s[i]
    <2>1. /\ both \in Seq(S) /\ Len(both) = Len(left) + Len(<<e>>)
          /\ \A i \in 1 .. Len(left) + Len(<<e>>) :
                both[i] = IF i <= Len(left) THEN left[i] ELSE <<e>>[i - Len(left)]
        BY <1>3, <1>5, ConcatProperties
    <2>2. Len(left) + Len(<<e>>) = k + 1
        BY <1>3, <1>5
    <2>3. \A i \in 1 .. k + 1 : both[i] = IF i <= k THEN left[i] ELSE <<e>>[i - k]
        BY <1>3, <2>1, <2>2
    <2>4. k + 1 \in 1 .. k + 1 /\ ~(k + 1 <= k) /\ k + 1 - k = 1 /\ \A i \in 1 .. k : i \in 1 .. k + 1 /\ i <= k
        BY <1>1
    <2>5. both[k + 1] = e
        <3> DEFINE one == <<e>>
        <3>1. \A i \in 1 .. k + 1 : both[i] = IF i <= k THEN left[i] ELSE one[i - k]
            BY <2>3
        <3>2. one[1] = e
            BY <1>5
        <3> HIDE DEF one
        <3> DEFINE g(i) == IF i <= k THEN left[i] ELSE one[i - k]
        <3>3. g(k + 1) = one[1]
            BY <2>4
        <3>4. \A i \in 1 .. k + 1 : both[i] = g(i)
            BY <3>1
        <3> HIDE DEF g
        <3>5. both[k + 1] = g(k + 1)
            BY <3>4, <2>4
        <3> QED  BY <3>2, <3>3, <3>5
    <2>6. \A i \in 1 .. k : both[i] = s[i]
        BY <1>3, <2>3, <2>4
    <2> QED  BY <2>1, <2>2, <2>5, <2>6
<1> HIDE DEF both
<1> DEFINE all == both \o right
<1>7. /\ all \in Seq(S) /\ Len(all) = n + 1
      /\ \A i \in 1 .. n + 1 : all[i] = IF i <= k + 1 THEN both[i] ELSE right[i - (k + 1)]
    <2>1. /\ all \in Seq(S) /\ Len(all) = Len(both) + Len(right)
          /\ \A i \in 1 .. Len(both) + Len(right) :
                all[i] = IF i <= Len(both) THEN both[i] ELSE right[i - Len(both)]
        BY <1>4, <1>6, ConcatProperties
    <2>2. Len(both) + Len(right) = n + 1
        BY <1>1, <1>4, <1>6
    <2> QED  BY <1>6, <2>1, <2>2
<1> HIDE DEF all
<1>8. ASSUME NEW i \in (k + 1) .. n PROVE all[i + 1] = s[i]
    <2>1. i + 1 \in 1 .. n + 1 /\ ~(i + 1 <= k + 1) /\ i + 1 - (k + 1) = i - k
        BY <1>1
    <2>2. all[i + 1] = right[i - k]
        BY <1>7, <2>1
    <2>3. i - k \in 1 .. (n - k) /\ k + (i - k) = i
        BY <1>1
    <2> QED  BY <1>4, <2>2, <2>3
<1>9. all[k + 1] = e
    <2>1. k + 1 \in 1 .. n + 1 /\ k + 1 <= k + 1
        BY <1>1
    <2> QED  BY <1>6, <1>7, <2>1
<1>10. \A i \in 1 .. k : all[i] = s[i]
    <2>1. \A i \in 1 .. k : i \in 1 .. n + 1 /\ i <= k + 1
        BY <1>1
    <2> QED  BY <1>6, <1>7, <2>1
<1>11. Longer(all, s, k, e)
    BY <1>7, <1>8, <1>9, <1>10 DEF Longer, n
<1> QED  BY <1>2, <1>7, <1>11 DEF all

(* The last of some positions, 0 when there is none.                        *)
LEMMA LastOrNone ==
    ASSUME NEW n \in Nat, NEW S \in SUBSET (1 .. n)
    PROVE  /\ Max({0} \cup S) \in 0 .. n /\ \A i \in S : i <= Max({0} \cup S)
           /\ Max({0} \cup S) # 0 => Max({0} \cup S) \in S
<1>1. \E x \in {0} \cup S : \A y \in {0} \cup S : x >= y
    <2>1. CASE S = {}
        BY <2>1
    <2>2. CASE S # {}
        <3>1. Max(S) \in S /\ \A i \in S : i <= Max(S)
            BY <2>2, LastPosition
        <3>2. Max(S) \in 1 .. n /\ \A i \in S : i \in 1 .. n
            BY <3>1
        <3> QED  BY <3>1, <3>2
    <2> QED  BY <2>1, <2>2
<1>2. Max({0} \cup S) \in {0} \cup S /\ \A y \in {0} \cup S : Max({0} \cup S) >= y
    <2> DEFINE T == {0} \cup S
    <2>1. \E x \in T : \A y \in T : x >= y
        BY <1>1
    <2> HIDE DEF T
    <2>2. Max(T) \in T /\ \A y \in T : Max(T) >= y
        BY <2>1 DEF Max
    <2> QED  BY <2>2 DEF T
<1> DEFINE M == Max({0} \cup S)
<1> HIDE DEF M
<1>3. (M = 0 \/ M \in S) /\ M >= 0 /\ \A i \in S : M >= i
    BY <1>2 DEF M
<1>4. \A i \in S : i \in 1 .. n
    OBVIOUS
<1>5. M \in 0 .. n
    <2>1. CASE M = 0
        BY <2>1
    <2>2. CASE M \in S
        <3>1. M \in 1 .. n
            BY <1>4, <2>2
        <3> QED  BY <3>1
    <2> QED  BY <1>3, <2>1, <2>2
<1>6. \A i \in S : i <= M
    BY <1>3, <1>4, <1>5
<1> QED  BY <1>3, <1>5, <1>6 DEF M

(* Members as the feed's assumption has them, and what is made of a dated   *)
(* one.                                                                     *)
Members == [time : Int \cup {Unreadable},
            params : Seq([name : STRING, measure : Int \cup {Unreadable}])]
Metas(product) == {Meta(m, product) : m \in {d \in Members : d.time # Unreadable}}

LEMMA MetaTime ==
    ASSUME NEW product
    PROVE  /\ \A m : Meta(m, product).time = m.time
           /\ \A f \in Metas(product) : f.time \in Int
<1>1. \A m : Meta(m, product).time = m.time
    BY DEF Meta
<1>2. ASSUME NEW f \in Metas(product) PROVE f.time \in Int
    <2>1. PICK m \in Members : m.time # Unreadable /\ f = Meta(m, product)
        BY DEF Metas
    <2>2. m.time \in Int
        BY <2>1 DEF Members
    <2> QED  BY <1>1, <2>1, <2>2
<1> QED  BY <1>1, <1>2

(* Member j is the first that FMI dated with its instant.                   *)
First(members, j) ==
    /\ members[j].time # Unreadable
    /\ \A l \in 1 .. (j - 1) : members[l].time # members[j].time

(* out has one frame for each instant of the first n members, that of its   *)
(* first member.                                                            *)
Complete(out, members, product, n) ==
    /\ out \in Seq(Metas(product))
    /\ \A i \in 1 .. Len(out) : \E j \in 1 .. n : First(members, j) /\ out[i] = Meta(members[j], product)
    /\ \A j \in 1 .. n : members[j].time # Unreadable => \E i \in 1 .. Len(out) : out[i].time = members[j].time
    /\ \A i, k \in 1 .. Len(out) : out[i].time = out[k].time => i = k

LEMMA CollectedTyped ==
    ASSUME NEW product, NEW out \in Seq(Metas(product)), NEW m \in Members
    PROVE  Collected(out, m, product) \in Seq(Metas(product))
<1>1. m.time # Unreadable => Meta(m, product) \in Metas(product)
    BY DEF Metas
<1> DEFINE F == Metas(product)
<1> HIDE DEF F
<1>2. \A f \in F : Append(out, f) \in Seq(F)
    BY AppendProperties DEF F
<1> QED  BY <1>1, <1>2 DEF Collected, F

LEMMA CollectedCompletes ==
    ASSUME NEW members \in Seq(Members), NEW product, NEW n \in 1 .. Len(members), NEW out,
           Complete(out, members, product, n - 1)
    PROVE  Complete(Collected(out, members[n], product), members, product, n)
<1> DEFINE F == Metas(product)
           m == members[n]
           x == Len(out)
<1>1. Len(members) \in Nat /\ m \in Members /\ out \in Seq(F)
    BY LenProperties, ElementOfSeq DEF Complete
<1>2. x \in Nat /\ DOMAIN out = 1 .. x /\ \A i \in 1 .. x : out[i] \in F
    BY <1>1, LenProperties, ElementOfSeq
<1>3. n \in Nat /\ n - 1 \in Nat /\ \A j \in 1 .. n : j = n \/ j \in 1 .. (n - 1)
    BY <1>1
<1>4. ToSet(out) = {out[i] : i \in 1 .. x}
    BY <1>2 DEF ToSet
<1> HIDE DEF F
<1>5. CASE m.time = Unreadable \/ \E f \in ToSet(out) : f.time = m.time
    <2>1. Collected(out, m, product) = out
        BY <1>5 DEF Collected
    <2>2. \A j \in 1 .. (n - 1) : j \in 1 .. n
        BY <1>3
    <2>3. m.time # Unreadable => \E i \in 1 .. x : out[i].time = m.time
        BY <1>4, <1>5
    <2> HIDE DEF x
    <2>4. \A i \in 1 .. Len(out) : \E j \in 1 .. n : First(members, j) /\ out[i] = Meta(members[j], product)
        BY <2>2 DEF Complete
    <2>5. \A j \in 1 .. n : members[j].time # Unreadable => \E i \in 1 .. Len(out) : out[i].time = members[j].time
        BY <1>3, <2>3 DEF Complete, x
    <2>6. out \in Seq(Metas(product)) /\ \A i, k \in 1 .. Len(out) : out[i].time = out[k].time => i = k
        BY DEF Complete
    <2>7. Complete(out, members, product, n)
        BY <2>4, <2>5, <2>6 DEF Complete
    <2> QED  BY <2>1, <2>7
<1>6. CASE ~(m.time = Unreadable \/ \E f \in ToSet(out) : f.time = m.time)
    <2> DEFINE f == Meta(m, product)
               more == Append(out, f)
    <2>1. Collected(out, m, product) = more
        BY <1>6 DEF Collected
    <2>2. f \in F /\ f.time = m.time
        BY <1>1, <1>6, MetaTime DEF F, Metas
    <2>3. more \in Seq(F) /\ Len(more) = x + 1 /\ more[x + 1] = f /\ \A i \in 1 .. x : more[i] = out[i]
        BY <1>1, <2>2, AppendProperties
    <2>4. \A i \in 1 .. x + 1 : i = x + 1 \/ i \in 1 .. x
        BY <1>2
    <2>5. \A i \in 1 .. x : out[i].time # m.time
        BY <1>4, <1>6
    <2>6. First(members, n)
        <3>1. ASSUME NEW l \in 1 .. (n - 1), members[l].time = m.time PROVE FALSE
            <4>1. members[l].time # Unreadable
                BY <1>6, <3>1
            <4>2. \E i \in 1 .. Len(out) : out[i].time = members[l].time
                BY <4>1 DEF Complete
            <4> QED  BY <4>2, <2>5, <3>1
        <3> QED  BY <1>6, <3>1 DEF First
    <2>0. n \in 1 .. n /\ x + 1 \in 1 .. x + 1
        BY <1>2, <1>3
    <2> HIDE DEF more, f, x
    <2>7. \A i \in 1 .. x + 1 : \E j \in 1 .. n : First(members, j) /\ more[i] = Meta(members[j], product)
        <3>1. more[x + 1] = Meta(members[n], product)
            BY <2>3 DEF f
        <3>2. ASSUME NEW i \in 1 .. x
              PROVE  \E j \in 1 .. n : First(members, j) /\ more[i] = Meta(members[j], product)
            <4>1. PICK j \in 1 .. (n - 1) : First(members, j) /\ out[i] = Meta(members[j], product)
                BY DEF Complete, x
            <4>2. j \in 1 .. n
                BY <1>3
            <4> QED  BY <2>3, <4>1, <4>2
        <3> QED  BY <2>0, <2>4, <2>6, <3>1, <3>2
    <2>8. ASSUME NEW j \in 1 .. n, members[j].time # Unreadable
          PROVE  \E i \in 1 .. x + 1 : more[i].time = members[j].time
        <3>1. CASE j = n
            <4>1. more[x + 1].time = members[j].time
                BY <2>2, <2>3, <3>1
            <4> QED  BY <2>0, <4>1
        <3>2. CASE j \in 1 .. (n - 1)
            <4>1. PICK i \in 1 .. x : out[i].time = members[j].time
                BY <2>8, <3>2 DEF Complete, x
            <4>2. i \in 1 .. x + 1
                BY <1>2
            <4> QED  BY <2>3, <4>1, <4>2
        <3> QED  BY <1>3, <3>1, <3>2
    <2>9. ASSUME NEW i \in 1 .. x + 1, NEW k \in 1 .. x + 1, more[i].time = more[k].time PROVE i = k
        <3>1. CASE i \in 1 .. x /\ k \in 1 .. x
            BY <2>3, <2>9, <3>1 DEF Complete, x
        <3>2. CASE i = x + 1 /\ k \in 1 .. x
            BY <2>2, <2>3, <2>5, <2>9, <3>2
        <3>3. CASE k = x + 1 /\ i \in 1 .. x
            BY <2>2, <2>3, <2>5, <2>9, <3>3
        <3> QED  BY <2>4, <3>1, <3>2, <3>3
    <2>10. Complete(more, members, product, n)
        BY <2>3, <2>7, <2>8, <2>9 DEF Complete, F
    <2> QED  BY <2>1, <2>10
<1> QED  BY <1>5, <1>6

(* The loop over the members collects one frame for each instant.           *)
LEMMA CollectsAll ==
    ASSUME NEW members \in Seq(Members), NEW product
    PROVE  Complete(Discovered(members, product), members, product, Len(members))
<1> DEFINE n == Len(members)
           F == Metas(product)
           V == Seq(F)
<1>1. n \in Nat
    BY LenProperties
<1>2. <<>> \in V
    OBVIOUS
<1>3. \A v \in V, m \in Members : Collected(v, m, product) \in V
    BY CollectedTyped
<1> HIDE DEF V
<1>4. PICK h : /\ Walk(h, V, <<>>, n, Discovered(members, product))
               /\ \A k \in 1 .. n : h[k] = Collected(h[k - 1], members[k], product)
    <2> DEFINE D == Members
    <2>1. members \in Seq(D) /\ \A v \in V, d \in D : Collected(v, d, product) \in V
        BY <1>3
    <2> HIDE DEF D
    <2>2. \E h : /\ Walk(h, V, <<>>, Len(members), Discovered(members, product))
                 /\ \A k \in 1 .. Len(members) : h[k] = Collected(h[k - 1], members[k], product)
        BY <1>2, <2>1, CollectHistory
    <2> QED  BY <2>2
<1> DEFINE K == {k \in 0 .. n : Complete(h[k], members, product, k)}
<1>5. 0 \in K
    <2>1. h[0] = <<>> /\ Len(<<>>) = 0 /\ <<>> \in Seq(Metas(product))
        BY <1>4 DEF Walk
    <2>2. \A i : ~(i \in 1 .. 0)
        OBVIOUS
    <2>3. Complete(h[0], members, product, 0)
        BY <2>1, <2>2 DEF Complete
    <2> QED  BY <1>1, <2>3
<1>6. ASSUME NEW k \in 1 .. n, k - 1 \in K PROVE k \in K
    <2>1. Complete(h[k - 1], members, product, k - 1)
        BY <1>6
    <2>2. Complete(Collected(h[k - 1], members[k], product), members, product, k)
        BY <2>1, CollectedCompletes
    <2>3. k \in 0 .. n
        BY <1>1
    <2> QED  BY <1>4, <2>2, <2>3
<1>7. n \in K
    <2> HIDE DEF K, n
    <2>1. \A k \in 0 .. n : k \in K
        BY <1>1, <1>5, <1>6, UpTo
    <2> QED  BY <1>1, <2>1
<1> QED  BY <1>4, <1>7 DEF Walk

(* srt holds the first n of metas in order of time.                         *)
SortedOf(srt, product, metas, n) ==
    /\ srt \in Seq(Metas(product))
    /\ \A i, k \in 1 .. Len(srt) : i < k => srt[i].time < srt[k].time
    /\ \A i \in 1 .. Len(srt) : \E j \in 1 .. n : srt[i] = metas[j]
    /\ \A j \in 1 .. n : \E i \in 1 .. Len(srt) : srt[i] = metas[j]

LEMMA InsertedPlace ==
    ASSUME NEW product, NEW out \in Seq(Metas(product)), NEW f \in Metas(product)
    PROVE  \E k \in 0 .. Len(out) :
              /\ Inserted(out, f) = InsertedAfter(out, f, k)
              /\ \A i \in 1 .. Len(out) : out[i].time <= f.time => i <= k
              /\ k # 0 => out[k].time <= f.time
<1> DEFINE n == Len(out)
           S == {i \in DOMAIN out : out[i].time <= f.time}
           k == Max({0} \cup S)
<1>1. n \in Nat /\ DOMAIN out = 1 .. n
    BY LenProperties
<1>2. S \in SUBSET (1 .. n)
    BY <1>1
<1>3. k \in 0 .. n /\ (\A i \in S : i <= k) /\ (k # 0 => k \in S)
    <2> HIDE DEF n, S, k
    <2>1. /\ Max({0} \cup S) \in 0 .. n /\ \A i \in S : i <= Max({0} \cup S)
          /\ Max({0} \cup S) # 0 => Max({0} \cup S) \in S
        BY <1>1, <1>2, LastOrNone
    <2> QED  BY <2>1 DEF k
<1>4. Inserted(out, f) = InsertedAfter(out, f, k)
    BY DEF Inserted
<1> HIDE DEF k, n
<1>5. \A i \in 1 .. n : out[i].time <= f.time => i <= k
    BY <1>1, <1>3
<1>6. k # 0 => out[k].time <= f.time
    BY <1>3
<1> QED  BY <1>3, <1>4, <1>5, <1>6 DEF n

LEMMA InsertedTyped ==
    ASSUME NEW product, NEW out \in Seq(Metas(product)), NEW f \in Metas(product)
    PROVE  Inserted(out, f) \in Seq(Metas(product))
<1> DEFINE F == Metas(product)
<1>1. PICK k \in 0 .. Len(out) : Inserted(out, f) = InsertedAfter(out, f, k)
    BY InsertedPlace
<1>2. out \in Seq(F) /\ f \in F
    OBVIOUS
<1> HIDE DEF F
<1>3. InsertedAfter(out, f, k) \in Seq(F)
    BY <1>2, InsertedElements
<1> QED  BY <1>1, <1>3 DEF F

(* A round of the sort puts the next frame in its place.                    *)
LEMMA InsertedSorts ==
    ASSUME NEW product, NEW metas \in Seq(Metas(product)),
           \A i, k \in 1 .. Len(metas) : metas[i].time = metas[k].time => i = k,
           NEW n \in 1 .. Len(metas), NEW srt, SortedOf(srt, product, metas, n - 1)
    PROVE  SortedOf(Inserted(srt, metas[n]), product, metas, n)
<1> DEFINE F == Metas(product)
           f == metas[n]
           x == Len(srt)
<1>1. Len(metas) \in Nat /\ f \in F /\ srt \in Seq(F)
    BY LenProperties, ElementOfSeq DEF SortedOf
<1>2. x \in Nat /\ \A i \in 1 .. x : srt[i] \in F
    BY <1>1, LenProperties, ElementOfSeq
<1>3. n \in Nat /\ \A j \in 1 .. n : j = n \/ j \in 1 .. (n - 1)
    BY <1>1
<1>4. f.time \in Int /\ \A i \in 1 .. x : srt[i].time \in Int
    BY <1>1, <1>2, MetaTime
<1>5. PICK k \in 0 .. x :
        /\ Inserted(srt, f) = InsertedAfter(srt, f, k)
        /\ \A i \in 1 .. x : srt[i].time <= f.time => i <= k
        /\ k # 0 => srt[k].time <= f.time
    BY <1>1, InsertedPlace
<1> DEFINE more == InsertedAfter(srt, f, k)
<1>6. /\ more \in Seq(F) /\ Len(more) = x + 1
      /\ \A i \in 1 .. k : more[i] = srt[i]
      /\ more[k + 1] = f
      /\ \A i \in (k + 1) .. x : more[i + 1] = srt[i]
    <2> HIDE DEF F, f
    <2>1. InsertedAfter(srt, f, k) \in Seq(F) /\ Longer(InsertedAfter(srt, f, k), srt, k, f)
        BY <1>1, InsertedElements
    <2> QED  BY <2>1 DEF Longer
<1>7. \A i \in 1 .. x : srt[i].time # f.time
    <2> SUFFICES ASSUME NEW i \in 1 .. x, srt[i].time = f.time PROVE FALSE
        OBVIOUS
    <2>1. PICK j \in 1 .. (n - 1) : srt[i] = metas[j]
        BY DEF SortedOf
    <2>2. j \in 1 .. Len(metas) /\ n \in 1 .. Len(metas) /\ j # n
        BY <1>1
    <2>3. metas[j].time = metas[n].time
        BY <2>1
    <2> QED  BY <2>2, <2>3
<1>8. \A i, j \in 1 .. x : i < j => srt[i].time < srt[j].time
    BY DEF SortedOf
<1> HIDE DEF more, f, F, x
(* The first k are before f, the others after it.                           *)
<1>9. ASSUME NEW i \in 1 .. k PROVE srt[i].time < f.time
    <2>1. i \in 1 .. x /\ k \in 1 .. x /\ k # 0 /\ (i = k \/ i < k)
        BY <1>2
    <2>2. srt[k].time <= f.time /\ srt[k].time # f.time
        BY <1>5, <1>7, <2>1
    <2>3. srt[i].time = srt[k].time \/ srt[i].time < srt[k].time
        BY <1>8, <2>1
    <2>4. srt[i].time \in Int /\ srt[k].time \in Int
        BY <1>4, <2>1
    <2> QED  BY <1>4, <2>2, <2>3, <2>4
<1>10. ASSUME NEW i \in (k + 1) .. x PROVE f.time < srt[i].time
    <2>1. i \in 1 .. x /\ ~(i <= k)
        BY <1>2
    <2>2. ~(srt[i].time <= f.time)
        BY <1>5, <2>1
    <2> QED  BY <1>4, <2>1, <2>2
(* Where an element of more comes from.                                     *)
<1>11. ASSUME NEW i \in 1 .. x + 1
       PROVE  i \in 1 .. k \/ i = k + 1 \/ (i - 1 \in (k + 1) .. x /\ more[i] = srt[i - 1])
    <2>1. i \in 1 .. k \/ i = k + 1 \/ i - 1 \in (k + 1) .. x
        BY <1>2
    <2>2. i - 1 + 1 = i
        BY <1>2
    <2>3. i - 1 \in (k + 1) .. x => more[i - 1 + 1] = srt[i - 1]
        BY <1>6
    <2> QED  BY <2>1, <2>2, <2>3
<1>12. ASSUME NEW i \in 1 .. x + 1, NEW j \in 1 .. x + 1, i < j PROVE more[i].time < more[j].time
    <2>1. CASE i \in 1 .. k /\ j \in 1 .. k
        <3>1. i \in 1 .. x /\ j \in 1 .. x
            BY <1>2, <2>1
        <3> QED  BY <1>6, <1>8, <1>12, <2>1, <3>1
    <2>2. CASE i \in 1 .. k /\ j = k + 1
        BY <1>6, <1>9, <2>2
    <2>3. CASE i \in 1 .. k /\ j - 1 \in (k + 1) .. x /\ more[j] = srt[j - 1]
        <3>1. i \in 1 .. x /\ j - 1 \in 1 .. x /\ i < j - 1
            BY <1>2, <2>3
        <3>2. srt[i].time < srt[j - 1].time
            BY <1>8, <3>1
        <3> QED  BY <1>6, <2>3, <3>2
    <2>4. CASE i = k + 1 /\ j - 1 \in (k + 1) .. x /\ more[j] = srt[j - 1]
        <3>1. f.time < srt[j - 1].time
            BY <1>10, <2>4
        <3> QED  BY <1>6, <2>4, <3>1
    <2>5. CASE /\ i - 1 \in (k + 1) .. x /\ more[i] = srt[i - 1]
               /\ j - 1 \in (k + 1) .. x /\ more[j] = srt[j - 1]
        <3>1. i - 1 \in 1 .. x /\ j - 1 \in 1 .. x /\ i - 1 < j - 1
            BY <1>2, <1>12, <2>5
        <3>2. srt[i - 1].time < srt[j - 1].time
            BY <1>8, <3>1
        <3> QED  BY <2>5, <3>2
    <2>6. k \in Nat /\ i \in Nat /\ j \in Nat
        BY <1>2
    <2>7. CASE i = k + 1 /\ (j \in 1 .. k \/ j = k + 1)
        BY <1>12, <2>6, <2>7
    <2>8. CASE i - 1 \in (k + 1) .. x /\ (j \in 1 .. k \/ j = k + 1)
        BY <1>12, <2>6, <2>8
    <2> QED  BY <1>11, <2>1, <2>2, <2>3, <2>4, <2>5, <2>7, <2>8
<1>13. ASSUME NEW i \in 1 .. x + 1 PROVE \E j \in 1 .. n : more[i] = metas[j]
    <2>1. \A l \in 1 .. x : \E j \in 1 .. n : srt[l] = metas[j]
        <3> TAKE l \in 1 .. x
        <3>1. PICK j \in 1 .. (n - 1) : srt[l] = metas[j]
            BY DEF SortedOf, x
        <3>2. j \in 1 .. n
            BY <1>3
        <3> QED  BY <3>1, <3>2
    <2>2. CASE i \in 1 .. k
        <3>1. i \in 1 .. x
            BY <1>2, <2>2
        <3> QED  BY <1>6, <2>1, <2>2, <3>1
    <2>3. CASE i = k + 1
        <3>1. n \in 1 .. n /\ more[i] = metas[n]
            BY <1>3, <1>6, <2>3 DEF f
        <3> QED  BY <3>1
    <2>4. CASE i - 1 \in (k + 1) .. x /\ more[i] = srt[i - 1]
        <3>1. i - 1 \in 1 .. x
            BY <1>2, <2>4
        <3> QED  BY <2>1, <2>4, <3>1
    <2> QED  BY <1>11, <2>2, <2>3, <2>4
<1>14. ASSUME NEW j \in 1 .. n PROVE \E i \in 1 .. x + 1 : more[i] = metas[j]
    <2>1. CASE j = n
        <3>1. k + 1 \in 1 .. x + 1 /\ more[k + 1] = metas[j]
            BY <1>2, <1>6, <2>1 DEF f
        <3> QED  BY <3>1
    <2>2. CASE j \in 1 .. (n - 1)
        <3>1. PICK i \in 1 .. x : srt[i] = metas[j]
            BY <2>2 DEF SortedOf, x
        <3>2. i \in 1 .. k \/ i \in (k + 1) .. x
            BY <1>2
        <3>3. CASE i \in 1 .. k
            <4>1. i \in 1 .. x + 1 /\ more[i] = metas[j]
                BY <1>2, <1>6, <3>1, <3>3
            <4> QED  BY <4>1
        <3>4. CASE i \in (k + 1) .. x
            <4>1. i + 1 \in 1 .. x + 1 /\ more[i + 1] = metas[j]
                BY <1>2, <1>6, <3>1, <3>4
            <4> QED  BY <4>1
        <3> QED  BY <3>2, <3>3, <3>4
    <2> QED  BY <1>3, <2>1, <2>2
<1>15. SortedOf(more, product, metas, n)
    BY <1>6, <1>12, <1>13, <1>14 DEF SortedOf, F
<1> QED  BY <1>5, <1>15 DEF more, f

(* The sort puts frames of different instants in order, and all of them.    *)
LEMMA SortsAll ==
    ASSUME NEW product, NEW metas \in Seq(Metas(product)),
           \A i, k \in 1 .. Len(metas) : metas[i].time = metas[k].time => i = k
    PROVE  SortedOf(sortFrameMetas(metas), product, metas, Len(metas))
<1> DEFINE n == Len(metas)
           F == Metas(product)
           V == Seq(F)
<1>1. n \in Nat
    BY LenProperties
<1>2. <<>> \in V
    OBVIOUS
<1>3. \A v \in V, f \in F : Inserted(v, f) \in V
    BY InsertedTyped
<1> HIDE DEF V, F
<1>4. PICK h : /\ Walk(h, V, <<>>, n, sortFrameMetas(metas))
               /\ \A k \in 1 .. n : h[k] = Inserted(h[k - 1], metas[k])
    <2>1. metas \in Seq(F)
        BY DEF F
    <2>2. \E h : /\ Walk(h, V, <<>>, Len(metas), sortFrameMetas(metas))
                 /\ \A k \in 1 .. Len(metas) : h[k] = Inserted(h[k - 1], metas[k])
        BY <1>2, <1>3, <2>1, SortHistory
    <2> QED  BY <2>2
<1> DEFINE K == {k \in 0 .. n : SortedOf(h[k], product, metas, k)}
<1>5. 0 \in K
    <2>1. h[0] = <<>> /\ Len(<<>>) = 0 /\ <<>> \in Seq(Metas(product))
        BY <1>4 DEF Walk
    <2>2. \A i : ~(i \in 1 .. 0)
        OBVIOUS
    <2>3. SortedOf(h[0], product, metas, 0)
        BY <2>1, <2>2 DEF SortedOf
    <2> QED  BY <1>1, <2>3
<1>6. ASSUME NEW k \in 1 .. n, k - 1 \in K PROVE k \in K
    <2>1. SortedOf(h[k - 1], product, metas, k - 1)
        BY <1>6
    <2>2. SortedOf(Inserted(h[k - 1], metas[k]), product, metas, k)
        BY <2>1, InsertedSorts
    <2>3. k \in 0 .. n
        BY <1>1
    <2> QED  BY <1>4, <2>2, <2>3
<1>7. n \in K
    <2> HIDE DEF K, n
    <2>1. \A k \in 0 .. n : k \in K
        BY <1>1, <1>5, <1>6, UpTo
    <2> QED  BY <1>1, <2>1
<1> QED  BY <1>4, <1>7 DEF Walk

(* Every instant FMI dated is listed once, oldest first, from its first     *)
(* member.                                                                  *)
LEMMA ListFaithful ==
    ASSUME NEW members \in Seq(Members), NEW product, NEW out,
           out = sortFrameMetas(Discovered(members, product))
    PROVE  /\ DOMAIN out = 1 .. Len(out)
           /\ \A i, j \in 1 .. Len(out) : i < j => out[i].time < out[j].time
           /\ \A k \in 1 .. Len(members) : members[k].time # Unreadable =>
                 \E i \in 1 .. Len(out) : \E j \in 1 .. Len(members) :
                    /\ out[i].time = members[k].time
                    /\ First(members, j) /\ out[i] = Meta(members[j], product)
<1> DEFINE metas == Discovered(members, product)
           n == Len(members)
<1>1. Complete(metas, members, product, n)
    BY CollectsAll
<1>2. metas \in Seq(Metas(product)) /\ \A i, k \in 1 .. Len(metas) : metas[i].time = metas[k].time => i = k
    BY <1>1 DEF Complete
<1> HIDE DEF metas, n
<1>3. SortedOf(out, product, metas, Len(metas))
    <2>1. SortedOf(sortFrameMetas(metas), product, metas, Len(metas))
        BY <1>2, SortsAll
    <2> QED  BY <2>1 DEF metas
<1>4. DOMAIN out = 1 .. Len(out)
    BY <1>3, LenProperties DEF SortedOf
<1>5. ASSUME NEW k \in 1 .. n, members[k].time # Unreadable
      PROVE  \E i \in 1 .. Len(out) : \E j \in 1 .. n :
                /\ out[i].time = members[k].time
                /\ First(members, j) /\ out[i] = Meta(members[j], product)
    <2>1. PICK a \in 1 .. Len(metas) : metas[a].time = members[k].time
        BY <1>1, <1>5 DEF Complete
    <2>2. PICK j \in 1 .. n : First(members, j) /\ metas[a] = Meta(members[j], product)
        BY <1>1 DEF Complete
    <2>3. PICK i \in 1 .. Len(out) : out[i] = metas[a]
        BY <1>3 DEF SortedOf
    <2> QED  BY <2>1, <2>2, <2>3
<1>6. \A i, j \in 1 .. Len(out) : i < j => out[i].time < out[j].time
    BY <1>3 DEF SortedOf
<1> QED  BY <1>4, <1>5, <1>6 DEF n

(* Discovery neither loses nor doubles a frame, and lists each instant with *)
(* the scaling of its first member, oldest first, in whatever order FMI     *)
(* sends the members and however often it repeats one (fmiwfs.go).          *)
THEOREM DiscoveryAlwaysFaithful == CallSpec => []DiscoveryFaithful
<1> DEFINE Inv == CallTyped /\ DiscoveryFaithful
<1>1. CallInit => Inv
    BY CallInitTyped DEF CallInit, DiscoveryFaithful, Done
<1>2. ASSUME Inv, [CallNext]_callVars PROVE Inv'
    <2>1. CallTyped' /\ call' = call
        BY <1>2, CallStep DEF CallTyped
    <2>2. CASE result' = result
        BY <1>2, <2>1, <2>2 DEF DiscoveryFaithful, Done
    <2>3. CASE call.fn # "discover" \/ call.list.kind # "collection"
        BY <2>1, <2>3 DEF DiscoveryFaithful, Done
    <2>4. CASE call.fn = "discover" /\ call.list.kind = "collection" /\ Discover
        <3> DEFINE ms == call.list.members
                   product == [gain |-> 1, offset |-> 0]
                   out == result'
        <3>1. out = sortFrameMetas(Discovered(ms, product))
            BY <2>4 DEF Discover, Evaluate, parseWFSFrames
        <3>2. ms \in Seq(Members)
            BY <1>2, <2>4, FrameListAssumption DEF CallTyped, Members
        <3>3. DOMAIN ms = 1 .. Len(ms) /\ Len(ms) \in Nat
            BY <3>2, LenProperties
        <3> HIDE DEF ms, product, out
        <3>4. /\ DOMAIN out = 1 .. Len(out)
              /\ \A i, j \in 1 .. Len(out) : i < j => out[i].time < out[j].time
              /\ \A k \in 1 .. Len(ms) : ms[k].time # Unreadable =>
                    \E i \in 1 .. Len(out) : \E j \in 1 .. Len(ms) :
                       /\ out[i].time = ms[k].time
                       /\ First(ms, j) /\ out[i] = Meta(ms[j], product)
            BY <3>1, <3>2, ListFaithful
        <3> DEFINE dated == {k \in DOMAIN ms : ms[k].time # Unreadable}
        <3>5. ASSUME NEW k \in dated
              PROVE  \E i \in DOMAIN out :
                        /\ out[i].time = ms[k].time
                        /\ (\A j \in dated : ms[j].time = out[i].time => k <= j)
                              => out[i] = Meta(ms[k], product)
            <4>1. k \in 1 .. Len(ms) /\ ms[k].time # Unreadable
                BY <3>3
            <4>2. PICK i \in 1 .. Len(out) : \E j \in 1 .. Len(ms) :
                    /\ out[i].time = ms[k].time
                    /\ First(ms, j) /\ out[i] = Meta(ms[j], product)
                BY <3>4, <4>1
            <4>3. PICK j \in 1 .. Len(ms) :
                    /\ out[i].time = ms[k].time
                    /\ First(ms, j) /\ out[i] = Meta(ms[j], product)
                BY <4>2
            <4>4. ms[j].time = ms[k].time
                <5>1. Meta(ms[j], product).time = ms[j].time
                    <6> HIDE DEF ms, product
                    <6> QED  BY MetaTime
                <5>2. out[i] = Meta(ms[j], product) /\ out[i].time = ms[k].time
                    BY <4>3
                <5> HIDE DEF ms, product, out
                <5> QED  BY <5>1, <5>2
            <4>5. j \in dated
                BY <3>3, <4>3 DEF First
            <4>6. j <= k
                <5>1. \A l \in 1 .. (j - 1) : ms[l].time # ms[j].time
                    BY <4>3 DEF First
                <5>2. ~(k \in 1 .. (j - 1))
                    BY <4>4, <5>1
                <5> QED  BY <3>3, <4>1, <5>2
            <4>7. ASSUME \A l \in dated : ms[l].time = out[i].time => k <= l
                  PROVE  out[i] = Meta(ms[k], product)
                <5>1. k <= j
                    BY <4>3, <4>4, <4>5, <4>7
                <5>2. k = j
                    BY <3>3, <4>1, <4>6, <5>1
                <5> QED  BY <4>3, <5>2
            <4>8. i \in DOMAIN out
                BY <3>4
            <4> HIDE DEF dated
            <4> QED  BY <4>3, <4>7, <4>8
        <3>6. DiscoveryFaithful'
            BY <2>1, <3>4, <3>5 DEF DiscoveryFaithful, out, ms, product
        <3> QED  BY <2>1, <3>6
    <2> QED  BY <1>2, <2>1, <2>2, <2>3, <2>4, CallStep
<1>3. Inv => DiscoveryFaithful
    OBVIOUS
<1> QED  BY <1>1, <1>2, <1>3, PTL DEF CallSpec

(***************************************************************************)
(* The grid.                                                               *)
(***************************************************************************)

(* A box of whole metres, whatever was configured.                          *)
LEMMA BBoxTyped ==
    ASSUME NEW v \in Seq(Int \cup {Malformed})
    PROVE  /\ envBBox(v)[1] \in Int /\ envBBox(v)[2] \in Int
           /\ envBBox(v)[3] \in Int /\ envBBox(v)[4] \in Int
<1>1. CASE envBBox(v) = DefaultGridBBox
    BY <1>1 DEF DefaultGridBBox
<1>2. CASE envBBox(v) = v /\ Len(v) = 4 /\ Malformed \notin ToSet(v)
    <2>1. \A i \in 1 .. 4 : v[i] \in Int \cup {Malformed} /\ v[i] \in ToSet(v)
        BY <1>2, ElementOfSeq, LenProperties DEF ToSet
    <2>2. \A i \in 1 .. 4 : v[i] \in Int
        BY <1>2, <2>1
    <2> QED  BY <1>2, <2>2
<1> QED  BY <1>1, <1>2 DEF envBBox

(* A resolution that is a positive number.                                  *)
LEMMA ResolutionTyped ==
    ASSUME NEW v \in Seq(Int \cup {Malformed})
    PROVE  GridResolution(v) \in Nat \ {0}
<1>1. envFloat(v, DefaultGridResolution) \in Int
    <2>1. CASE Len(v) = 1 /\ Malformed \notin ToSet(v)
        <3>1. v[1] \in Int \cup {Malformed} /\ v[1] \in ToSet(v)
            BY <2>1, ElementOfSeq, LenProperties DEF ToSet
        <3> QED  BY <2>1, <3>1 DEF envFloat
    <2>2. CASE ~(Len(v) = 1 /\ Malformed \notin ToSet(v))
        BY <2>2 DEF envFloat, DefaultGridResolution
    <2> QED  BY <2>1, <2>2
<1> QED  BY <1>1 DEF GridResolution, DefaultGridResolution

(* A raster is at least a pixel wide and high.                              *)
LEMMA PixelsInGrid ==
    ASSUME NEW bbox, NEW r \in Nat \ {0},
           bbox[1] \in Int, bbox[2] \in Int, bbox[3] \in Int, bbox[4] \in Int
    PROVE  /\ NewGrid(bbox, r).width \in Nat \ {0} /\ NewGrid(bbox, r).height \in Nat \ {0}
           /\ NewGrid(bbox, r).minX = bbox[1] /\ NewGrid(bbox, r).minY = bbox[2]
           /\ NewGrid(bbox, r).maxX = bbox[1] + NewGrid(bbox, r).width * r
           /\ NewGrid(bbox, r).maxY = bbox[2] + NewGrid(bbox, r).height * r
           /\ NewGrid(bbox, r).resolution = r
<1> DEFINE w == Max({1, Rounded(bbox[3] - bbox[1], r)})
           h == Max({1, Rounded(bbox[4] - bbox[2], r)})
<1>1. Rounded(bbox[3] - bbox[1], r) \in Int /\ Rounded(bbox[4] - bbox[2], r) \in Int
    BY DEF Rounded
<1>2. \A a \in Int : Max({1, a}) \in Nat \ {0}
    <2> TAKE a \in Int
    <2>1. Max({1, a}) \in {1, a} /\ Max({1, a}) >= 1
        BY MaxOfTwo
    <2> QED  BY <2>1
<1>4. w \in Nat \ {0} /\ h \in Nat \ {0}
    BY <1>1, <1>2
<1>3. NewGrid(bbox, r) =
        [minX |-> bbox[1], minY |-> bbox[2], maxX |-> bbox[1] + w * r, maxY |-> bbox[2] + h * r,
         width |-> w, height |-> h, resolution |-> r]
    BY DEF NewGrid
<1> HIDE DEF w, h
<1> QED  BY <1>3, <1>4

(* The centre of a pixel is in that pixel.                                  *)
LEMMA CentreInPixel ==
    ASSUME NEW g, g.minX \in Int, g.minY \in Int, g.width \in Nat \ {0}, g.height \in Nat \ {0},
           g.resolution \in Nat \ {0},
           g.maxX = g.minX + g.width * g.resolution, g.maxY = g.minY + g.height * g.resolution,
           NEW px \in 0 .. (g.width - 1), NEW py \in 0 .. (g.height - 1)
    PROVE  PixelIndex(g, g.minX + px * g.resolution + g.resolution \div 2,
                         g.maxY - py * g.resolution - g.resolution \div 2) = <<px, py>>
<1> DEFINE r == g.resolution
           w == g.width
           h == g.height
           c == r \div 2
           x == g.minX + px * r + c
           y == g.maxY - py * r - c
<1>1. c \in 0 .. (r - 1)
    OBVIOUS
<1> HIDE DEF c
<1>2. (px * r + c) \div r = px /\ (py * r + c) \div r = py
    BY <1>1, DivOfMultiple
<1>3. px * r \in Nat /\ py * r \in Nat /\ w * r \in Nat /\ h * r \in Nat
    OBVIOUS
<1>4. x - g.minX = px * r + c /\ g.maxY - y = py * r + c
    BY <1>1, <1>3
<1>5. ~(x < g.minX) /\ ~(y > g.maxY)
    BY <1>1, <1>3
<1> HIDE DEF x, y
<1>6. PixelIndex(g, x, y) = <<px, py>>
    <2>1. (x - g.minX) \div r = px /\ (g.maxY - y) \div r = py
        BY <1>2, <1>4
    <2>2. ~(px >= w) /\ ~(py >= h)
        OBVIOUS
    <2> QED  BY <1>5, <2>1, <2>2 DEF PixelIndex
<1> QED  BY <1>6 DEF x, y, c

(* The corners the map is handed are the raster's and every pixel is read   *)
(* back at its own centre, whatever box and resolution were configured      *)
(* (config.go, grid.go).                                                    *)
THEOREM GridAlwaysMatches == CallSpec => []RasterMatchesCorners
<1> DEFINE Inv == CallTyped /\ RasterMatchesCorners
<1>1. CallInit => Inv
    BY CallInitTyped DEF CallInit, RasterMatchesCorners, Done
<1>2. ASSUME Inv, [CallNext]_callVars PROVE Inv'
    <2>1. CallTyped'
        BY <1>2, CallStep DEF CallTyped
    <2>2. CASE result' = result
        BY <1>2, <2>1, <2>2, CallStep DEF RasterMatchesCorners, Done
    <2>3. CASE call.fn # "grid"
        <3>1. call' = call
            BY <1>2, CallStep
        <3>2. ~Done("grid")'
            BY <2>3, <3>1 DEF Done
        <3> QED  BY <2>1, <3>2 DEF RasterMatchesCorners
    <2>4. CASE call.fn = "grid" /\ Grid
        <3> DEFINE v == call.env.bbox
                   r == GridResolution(call.env.resolution)
                   g == NewGrid(envBBox(v), r)
        <3>1. result'.raster = g
            BY <2>4 DEF Grid, Evaluate
        <3>2. v \in Seq(Int \cup {Malformed}) /\ r \in Nat \ {0}
            BY <1>2, <2>4, EnvironmentsAssumption, ResolutionTyped DEF CallTyped
        <3>3. /\ envBBox(v)[1] \in Int /\ envBBox(v)[2] \in Int
              /\ envBBox(v)[3] \in Int /\ envBBox(v)[4] \in Int
            <4> HIDE DEF v
            <4> QED  BY <3>2, BBoxTyped
        <3> HIDE DEF v, r
        <3>4. /\ g.width \in Nat \ {0} /\ g.height \in Nat \ {0} /\ g.minX \in Int /\ g.minY \in Int
              /\ g.maxX = g.minX + g.width * r /\ g.maxY = g.minY + g.height * r
              /\ g.resolution = r
            <4> DEFINE bbox == envBBox(v)
            <4>1. bbox[1] \in Int /\ bbox[2] \in Int /\ bbox[3] \in Int /\ bbox[4] \in Int
                BY <3>3
            <4> HIDE DEF bbox
            <4>2. /\ NewGrid(bbox, r).width \in Nat \ {0} /\ NewGrid(bbox, r).height \in Nat \ {0}
                  /\ NewGrid(bbox, r).minX = bbox[1] /\ NewGrid(bbox, r).minY = bbox[2]
                  /\ NewGrid(bbox, r).maxX = bbox[1] + NewGrid(bbox, r).width * r
                  /\ NewGrid(bbox, r).maxY = bbox[2] + NewGrid(bbox, r).height * r
                  /\ NewGrid(bbox, r).resolution = r
                BY <3>2, <4>1, PixelsInGrid
            <4>3. g = NewGrid(bbox, r)
                BY DEF bbox
            <4> HIDE DEF g
            <4> QED  BY <4>1, <4>2, <4>3
        <3> HIDE DEF g
        <3>5. g.maxX - g.minX = g.width * r /\ g.maxY - g.minY = g.height * r
            BY <3>2, <3>4
        <3>6. \A px \in 0 .. (g.width - 1), py \in 0 .. (g.height - 1) :
                 PixelIndex(g, g.minX + px * r + r \div 2, g.maxY - py * r - r \div 2) = <<px, py>>
            <4> TAKE px \in 0 .. (g.width - 1), py \in 0 .. (g.height - 1)
            <4> QED  BY <3>2, <3>4, CentreInPixel
        <3>7. RasterMatchesCorners'
            BY <3>1, <3>4, <3>5, <3>6 DEF RasterMatchesCorners
        <3> QED  BY <2>1, <3>7
    <2> QED  BY <1>2, <2>1, <2>2, <2>3, <2>4, CallStep
<1>3. Inv => RasterMatchesCorners
    OBVIOUS
<1> QED  BY <1>1, <1>2, <1>3, PTL DEF CallSpec

(***************************************************************************)
(* Retention.                                                              *)
(***************************************************************************)

Entries == [name : STRING, hours : Int \cup {Malformed}]
Overrides == UNION {[S -> Nat] : S \in SUBSET STRING}

(* The well-formed entries for p among the first n.                         *)
Good(v, p, n) == {i \in 1 .. n : v[i].name = p /\ v[i].hours \in Nat}

(* What out holds for p is the last well-formed entry of the first n.       *)
Settles(out, v, p, n) ==
    /\ p \in DOMAIN out <=> Good(v, p, n) # {}
    /\ Good(v, p, n) # {} => out[p] = v[Max(Good(v, p, n))].hours

LEMMA OverriddenTyped ==
    ASSUME NEW out \in Overrides, NEW e \in Entries
    PROVE  Overridden(out, e) \in Overrides
<1>1. PICK S \in SUBSET STRING : out \in [S -> Nat]
    BY DEF Overrides
<1>2. CASE e.hours = Malformed \/ e.hours < 0
    BY <1>2 DEF Overridden
<1>3. CASE ~(e.hours = Malformed \/ e.hours < 0)
    <2>0. e.hours \in Int \cup {Malformed} /\ e.name \in STRING
        BY DEF Entries
    <2>1. e.hours \in Nat
        BY <1>3, <2>0
    <2>3. S \cup {e.name} \in SUBSET STRING
        BY <1>1, <2>0
    <2>2. Overridden(out, e) \in [S \cup {e.name} -> Nat]
        BY <1>1, <1>3, <2>1 DEF Overridden
    <2> QED  BY <2>2, <2>3 DEF Overrides
<1> QED  BY <1>2, <1>3

(* One entry settles what it is about and leaves the rest.                  *)
LEMMA OverriddenSettles ==
    ASSUME NEW v \in Seq(Entries), NEW p, NEW n \in 1 .. Len(v), NEW out \in Overrides,
           Settles(out, v, p, n - 1)
    PROVE  Settles(Overridden(out, v[n]), v, p, n)
<1>1. Len(v) \in Nat /\ v[n] \in Entries
    BY LenProperties, ElementOfSeq
<1>2. CASE v[n].hours = Malformed \/ v[n].hours < 0
    <2>1. v[n].hours \notin Nat
        BY <1>1, <1>2, MalformedAssumption DEF Entries
    <2>2. Good(v, p, n) = Good(v, p, n - 1)
        BY <1>1, <2>1 DEF Good
    <2> QED  BY <1>2, <2>2 DEF Settles, Overridden
<1>3. CASE ~(v[n].hours = Malformed \/ v[n].hours < 0)
    <2> DEFINE read == Overridden(out, v[n])
    <2>1. v[n].hours \in Nat
        BY <1>1, <1>3 DEF Entries
    <2>2. /\ DOMAIN read = DOMAIN out \cup {v[n].name} /\ read[v[n].name] = v[n].hours
          /\ \A q \in DOMAIN out : q # v[n].name => read[q] = out[q]
        BY <1>3 DEF Overridden
    <2> HIDE DEF read
    <2>3. CASE v[n].name = p
        <3>1. n \in Good(v, p, n) /\ Good(v, p, n) \in SUBSET (1 .. n)
            BY <1>1, <2>1, <2>3 DEF Good
        <3>2. Max(Good(v, p, n)) \in 1 .. n /\ n <= Max(Good(v, p, n))
            <4> DEFINE S == Good(v, p, n)
            <4>1. n \in Nat /\ S \in SUBSET (1 .. n) /\ n \in S
                BY <1>1, <3>1
            <4> HIDE DEF S
            <4>2. Max(S) \in S /\ \A i \in S : i <= Max(S)
                BY <4>1, LastPosition
            <4>3. Max(S) \in 1 .. n /\ n <= Max(S)
                BY <4>1, <4>2
            <4> QED  BY <4>3 DEF S
        <3>3. Max(Good(v, p, n)) = n
            BY <1>1, <3>2
        <3> QED  BY <2>2, <2>3, <3>1, <3>3 DEF Settles, read
    <2>4. CASE v[n].name # p
        <3>1. Good(v, p, n) = Good(v, p, n - 1)
            BY <1>1, <2>4 DEF Good
        <3> QED  BY <2>2, <2>4, <3>1 DEF Settles, read
    <2> QED  BY <2>3, <2>4
<1> QED  BY <1>2, <1>3

(* The list of entries leaves, for each product, its last well-formed one.  *)
LEMMA RetentionSettles ==
    ASSUME NEW v \in Seq(Entries), NEW p
    PROVE  Settles(envRetention(v), v, p, Len(v))
<1> DEFINE n == Len(v)
<1>1. n \in Nat
    BY LenProperties
<1>2. <<>> \in Overrides /\ Settles(<<>>, v, p, 0)
    <2>1. <<>> \in [{} -> Nat] /\ DOMAIN <<>> = {}
        OBVIOUS
    <2>2. <<>> \in Overrides
        BY <2>1 DEF Overrides
    <2>3. Good(v, p, 0) = {}
        BY DEF Good
    <2> QED  BY <2>1, <2>2, <2>3 DEF Settles
<1>3. PICK h : /\ Walk(h, Overrides, <<>>, n, envRetention(v))
               /\ \A k \in 1 .. n : h[k] = Overridden(h[k - 1], v[k])
    BY <1>2, OverriddenTyped, OverrideHistory DEF envRetention
<1> DEFINE K == {k \in 0 .. n : Settles(h[k], v, p, k)}
<1>4. 0 \in K
    BY <1>1, <1>2, <1>3 DEF Walk
<1>5. ASSUME NEW k \in 1 .. n, k - 1 \in K PROVE k \in K
    <2>1. h[k - 1] \in Overrides /\ Settles(h[k - 1], v, p, k - 1)
        BY <1>1, <1>3, <1>5 DEF Walk
    <2>2. Settles(Overridden(h[k - 1], v[k]), v, p, k)
        BY <2>1, OverriddenSettles
    <2> QED  BY <1>1, <1>3, <2>2
<1>6. n \in K
    <2> HIDE DEF K, n
    <2>1. \A k \in 0 .. n : k \in K
        BY <1>1, <1>4, <1>5, UpTo
    <2> QED  BY <1>1, <2>1
<1> QED  BY <1>3, <1>6 DEF Walk

(* A malformed or negative entry costs itself and nothing else, wherever it *)
(* stands in the list (config.go, service.go).                              *)
THEOREM TyposNeverSpread == CallSpec => []TyposCostThemselves
<1> DEFINE Inv == CallTyped /\ TyposCostThemselves
<1>1. CallInit => Inv
    BY CallInitTyped DEF CallInit, TyposCostThemselves, Done
<1>2. ASSUME Inv, [CallNext]_callVars PROVE Inv'
    <2>1. CallTyped' /\ call' = call
        BY <1>2, CallStep DEF CallTyped
    <2>2. CASE result' = result
        BY <1>2, <2>1, <2>2 DEF TyposCostThemselves, Done
    <2>3. CASE call.fn # "grid"
        <3>1. ~Done("grid")'
            BY <2>1, <2>3 DEF Done
        <3> QED  BY <2>1, <3>1 DEF TyposCostThemselves
    <2>4. CASE call.fn = "grid" /\ Grid
        <3> DEFINE v == call.env.retention
        <3>1. result'.retain = RetainHours(v)
            BY <2>4 DEF Grid, Evaluate
        <3>2. v \in Seq(Entries)
            BY <1>2, <2>4, EnvironmentsAssumption DEF CallTyped, Entries
        <3>3. DOMAIN v = 1 .. Len(v)
            BY <3>2, LenProperties
        <3> HIDE DEF v
        <3>4. ASSUME NEW p \in RadarProducts
              PROVE  result'.retain[p] =
                        IF Good(v, p, Len(v)) = {} THEN defaultRetainHours[p]
                        ELSE v[Max(Good(v, p, Len(v)))].hours
            <4>1. Settles(envRetention(v), v, p, Len(v))
                BY <3>2, RetentionSettles
            <4> QED  BY <3>1, <4>1 DEF Settles, RetainHours
        <3>5. TyposCostThemselves'
            BY <2>1, <3>3, <3>4 DEF TyposCostThemselves, Good, v
        <3> QED  BY <2>1, <3>5
    <2> QED  BY <1>2, <2>1, <2>2, <2>3, <2>4, CallStep
<1>3. Inv => TyposCostThemselves
    OBVIOUS
<1> QED  BY <1>1, <1>2, <1>3, PTL DEF CallSpec

(***************************************************************************)
(* The nowcast's frames.                                                   *)
(***************************************************************************)

(* What Point's loop has read so far, one per listed time.                  *)
LEMMA ReadHistory ==
    ASSUME NEW readable, NEW V, <<>> \in V, NEW D, NEW q \in Seq(D),
           \A v \in V, d \in D : Got(readable, v, d) \in V
    PROVE  \E h :
              /\ Walk(h, V, <<>>, Len(q), ReadableTimes(q, readable))
              /\ \A k \in 1 .. Len(q) : h[k] = Got(readable, h[k - 1], q[k])
<1> DEFINE n == Len(q)
           step == [p \in V \X (1 .. n) |-> Got(readable, p[1], q[p[2]])]
           Solves(it) == it = [S \in SUBSET DOMAIN q |->
                                 IF S = {} THEN <<>> ELSE Got(readable, it[S \ {Max(S)}], q[Max(S)])]
           c == CHOOSE it : Solves(it)
<1>1. n \in Nat /\ DOMAIN q = 1 .. n /\ \A i \in 1 .. n : q[i] \in D
    BY LenProperties
<1>2. step \in [V \X (1 .. n) -> V]
    BY <1>1
<1>3. PICK it \in [SUBSET (1 .. n) -> V] : IsFold(it, <<>>, step, n)
    <2>1. n \in Nat
        BY <1>1
    <2> HIDE DEF step, n
    <2> QED  BY <2>1, <1>2, FoldExists
<1>4. \A S \in SUBSET (1 .. n) : it[S] = IF S = {} THEN <<>> ELSE Got(readable, it[S \ {Max(S)}], q[Max(S)])
    <2> SUFFICES ASSUME NEW S \in SUBSET (1 .. n), S # {}
                 PROVE  step[<<it[S \ {Max(S)}], Max(S)>>] = Got(readable, it[S \ {Max(S)}], q[Max(S)])
        BY <1>3 DEF IsFold
    <2>1. Max(S) \in 1 .. n
        BY <1>1, LastPosition
    <2>2. it[S \ {Max(S)}] \in V
        BY <1>3
    <2> QED  BY <2>1, <2>2
<1>5. Solves(it)
    BY <1>1, <1>3, <1>4
<1>6. Solves(c)
    <2> HIDE DEF Solves
    <2> QED  BY <1>5
<1>7. ReadableTimes(q, readable) = c[1 .. n] /\ c[{}] = <<>>
    <2>1. ReadableTimes(q, readable) = c[DOMAIN q]
        BY DEF ReadableTimes, FoldLeft, MapThenFoldSet
    <2> QED  BY <2>1, <1>1, <1>6
<1>8. \A k \in 1 .. n : c[1 .. k] = Got(readable, c[1 .. (k - 1)], q[k])
    <2> TAKE k \in 1 .. n
    <2>1. (1 .. k) \in SUBSET (1 .. n) /\ (1 .. k) # {} /\ Max(1 .. k) = k /\ (1 .. k) \ {k} = 1 .. (k - 1)
        BY <1>1, PrefixMax
    <2>2. c[1 .. k] = Got(readable, c[(1 .. k) \ {Max(1 .. k)}], q[Max(1 .. k)])
        <3> HIDE DEF c
        <3> QED  BY <2>1, <1>1, <1>6
    <2> QED  BY <2>1, <2>2
<1> HIDE DEF c
<1>9. UnfoldsTo(c, <<>>, step, V, n)
    BY <1>7, <1>8 DEF UnfoldsTo
<1>10. PICK h : IsHistory(h, V, <<>>, step, n, c[1 .. n])
    <2>1. n \in Nat
        BY <1>1
    <2> HIDE DEF step, n
    <2> QED  BY <2>1, <1>2, <1>9, FoldByStep
<1>11. h[0] = <<>> /\ \A k \in 1 .. n : h[k] = Got(readable, h[k - 1], q[k])
    <2> SUFFICES ASSUME NEW k \in 1 .. n PROVE h[k] = Got(readable, h[k - 1], q[k])
        BY <1>10 DEF IsHistory
    <2>1. h[k - 1] \in V
        BY <1>1, <1>10 DEF IsHistory
    <2> QED  BY <2>1, <1>10 DEF IsHistory
<1>12. Walk(h, V, <<>>, n, c[1 .. n])
    BY <1>10 DEF IsHistory, Walk
<1> QED  BY <1>7, <1>11, <1>12

(* Only listed times are read, and all of them when all can be.             *)
LEMMA ReadableOfTimes ==
    ASSUME NEW times \in Seq(Int), NEW readable
    PROVE  /\ ReadableTimes(times, readable) \in Seq(Int)
           /\ \A i \in 1 .. Len(ReadableTimes(times, readable)) :
                 \E j \in 1 .. Len(times) : ReadableTimes(times, readable)[i] = times[j]
           /\ (\A j \in 1 .. Len(times) : times[j] \in readable) => ReadableTimes(times, readable) = times
<1> DEFINE n == Len(times)
           all == \A j \in 1 .. n : times[j] \in readable
           Fine(got, k) ==
              /\ \A i \in 1 .. Len(got) : \E j \in 1 .. k : got[i] = times[j]
              /\ all => Len(got) = k /\ \A i \in 1 .. k : got[i] = times[i]
<1>1. n \in Nat /\ \A j \in 1 .. n : times[j] \in Int
    BY LenProperties, ElementOfSeq
<1>2. \A got \in Seq(Int), t \in Int : Got(readable, got, t) \in Seq(Int)
    BY DEF Got
<1>3. <<>> \in Seq(Int)
    OBVIOUS
<1>4. PICK h : /\ Walk(h, Seq(Int), <<>>, n, ReadableTimes(times, readable))
               /\ \A k \in 1 .. n : h[k] = Got(readable, h[k - 1], times[k])
    <2> DEFINE D == Int
               V == Seq(D)
    <2>1. <<>> \in V /\ times \in Seq(D) /\ \A v \in V, d \in D : Got(readable, v, d) \in V
        BY <1>2, <1>3
    <2> HIDE DEF V, D
    <2>2. \E h : /\ Walk(h, V, <<>>, Len(times), ReadableTimes(times, readable))
                 /\ \A k \in 1 .. Len(times) : h[k] = Got(readable, h[k - 1], times[k])
        BY <2>1, ReadHistory
    <2> QED  BY <2>2 DEF V, D
<1> DEFINE K == {k \in 0 .. n : Fine(h[k], k)}
<1>5. 0 \in K
    <2>1. h[0] = <<>> /\ Len(<<>>) = 0
        BY <1>4 DEF Walk
    <2> QED  BY <1>1, <2>1
<1>6. ASSUME NEW k \in 1 .. n, k - 1 \in K PROVE k \in K
    <2> DEFINE got == h[k - 1]
               t == times[k]
    <2>1. got \in Seq(Int) /\ Fine(got, k - 1) /\ h[k] = Got(readable, got, t) /\ t \in Int
        BY <1>1, <1>4, <1>6 DEF Walk
    <2>2. Len(got) \in Nat
        BY <2>1, LenProperties
    <2>3. CASE t \in readable
        <3>1. h[k] = Append(got, t)
            BY <2>1, <2>3 DEF Got
        <3>2. /\ Len(h[k]) = Len(got) + 1 /\ h[k][Len(got) + 1] = t
              /\ \A i \in 1 .. Len(got) : h[k][i] = got[i]
            BY <2>1, <3>1, AppendProperties
        <3>3. \A i \in 1 .. Len(h[k]) : \E j \in 1 .. k : h[k][i] = times[j]
            <4> TAKE i \in 1 .. Len(h[k])
            <4>1. CASE i = Len(got) + 1
                BY <1>1, <3>2, <4>1
            <4>2. CASE i \in 1 .. Len(got)
                <5>1. PICK j \in 1 .. (k - 1) : got[i] = times[j]
                    BY <2>1, <4>2
                <5> QED  BY <1>1, <3>2, <4>2, <5>1
            <4>3. i = Len(got) + 1 \/ i \in 1 .. Len(got)
                <5> DEFINE m == Len(got)
                <5>1. m \in Nat /\ i \in 1 .. (m + 1)
                    BY <2>2, <3>2
                <5> HIDE DEF m
                <5>2. i = m + 1 \/ i \in 1 .. m
                    BY <5>1
                <5> QED  BY <5>2 DEF m
            <4> QED  BY <4>1, <4>2, <4>3
        <3>4. ASSUME all PROVE Len(h[k]) = k /\ \A i \in 1 .. k : h[k][i] = times[i]
            <4>1. Len(got) = k - 1 /\ \A i \in 1 .. (k - 1) : got[i] = times[i]
                BY <2>1, <3>4
            <4>2. Len(h[k]) = k
                BY <1>1, <3>2, <4>1
            <4>3. \A i \in 1 .. k : i = k \/ i \in 1 .. (k - 1)
                BY <1>1
            <4> QED  BY <3>2, <4>1, <4>2, <4>3
        <3> QED  BY <3>3, <3>4
    <2>4. CASE t \notin readable
        <3>1. h[k] = got /\ ~all
            BY <2>1, <2>4 DEF Got
        <3>2. \A j \in 1 .. (k - 1) : j \in 1 .. k
            BY <1>1
        <3>3. \A i \in 1 .. Len(h[k]) : \E j \in 1 .. k : h[k][i] = times[j]
            <4> TAKE i \in 1 .. Len(h[k])
            <4>1. PICK j \in 1 .. (k - 1) : got[i] = times[j]
                BY <2>1, <3>1
            <4> QED  BY <3>1, <3>2, <4>1
        <3> HIDE DEF all
        <3>4. Fine(h[k], k)
            BY <3>1, <3>3
        <3>5. k \in 0 .. n
            BY <1>1
        <3> HIDE DEF Fine
        <3> QED  BY <3>4, <3>5
    <2> QED  BY <2>3, <2>4
<1>7. n \in K
    <2> HIDE DEF K, n
    <2>1. \A k \in 0 .. n : k \in K
        BY <1>1, <1>5, <1>6, UpTo
    <2> QED  BY <1>1, <2>1
<1> DEFINE got == ReadableTimes(times, readable)
<1>8. got \in Seq(Int) /\ Fine(got, n)
    BY <1>1, <1>4, <1>7 DEF Walk
<1>9. ASSUME all PROVE got = times
    <2> HIDE DEF got
    <2>1. Len(got) = n /\ \A i \in 1 .. n : got[i] = times[i]
        BY <1>8, <1>9
    <2> QED  BY <1>8, <2>1, SeqEqual
<1> QED  BY <1>8, <1>9

(* A nowcast given at all starts from the newest listed frame, and is timed *)
(* over its own two frames when every listed one can be read.               *)
LEMMA PointIsFresh ==
    ASSUME NEW times \in Seq(Int), \A i, j \in DOMAIN times : i < j => times[i] < times[j],
           NEW readable, Point(times, readable).dt # 0
    PROVE  /\ Last(Point(times, readable).frames) = Last(times)
           /\ ToSet(times) \subseteq readable =>
                 Point(times, readable).dt
                    = Point(times, readable).frames[2] - Point(times, readable).frames[1]
<1> DEFINE got == ReadableTimes(times, readable)
           m == Len(got)
           n == Len(times)
<1>1. /\ got \in Seq(Int) /\ \A i \in 1 .. m : \E j \in 1 .. n : got[i] = times[j]
      /\ (\A j \in 1 .. n : times[j] \in readable) => got = times
    BY ReadableOfTimes
<1>2. m \in Nat /\ n \in Nat /\ DOMAIN times = 1 .. n /\ \A j \in 1 .. n : times[j] \in Int
    BY <1>1, LenProperties, ElementOfSeq
<1>3. Point(times, readable).dt = NowcastDt(times, readable)
    BY DEF Point
<1>4. m >= 2 /\ n >= 2
    BY <1>2, <1>3 DEF NowcastDt
<1>5. /\ NowcastDt(times, readable) = Last(got) - times[n - 1]
      /\ ~(Last(got) - times[n - 1] <= 0)
    BY <1>3, <1>4 DEF NowcastDt
<1>6. got # <<>>
    BY <1>4
<1>7. Point(times, readable).frames = SubSeq(got, m - 1, m)
    BY <1>3, <1>6 DEF Point
<1> DEFINE two == SubSeq(got, m - 1, m)
<1>8. Len(two) = 2 /\ two[1] = got[m - 1] /\ two[2] = got[m]
    <2>1. m - 1 \in 1 .. (m + 1) /\ m \in (m - 1) - 1 .. m /\ m - (m - 1) + 1 = 2
        BY <1>2, <1>4
    <2>2. /\ Len(two) = m - (m - 1) + 1
          /\ \A i \in 1 .. m - (m - 1) + 1 : two[i] = got[(m - 1) + i - 1]
        <3> HIDE DEF got
        <3> QED  BY <1>1, <1>2, <2>1, SubSeqProperties
    <2>3. Len(two) = 2 /\ two[1] = got[(m - 1) + 1 - 1] /\ two[2] = got[(m - 1) + 2 - 1]
        BY <2>1, <2>2
    <2>4. (m - 1) + 1 - 1 = m - 1 /\ (m - 1) + 2 - 1 = m
        BY <1>2
    <2> QED  BY <2>3, <2>4
<1>9. PICK j \in 1 .. n : got[m] = times[j]
    <2>1. m \in 1 .. m
        BY <1>2, <1>4
    <2> QED  BY <1>1, <2>1
<1>10. times[n - 1] < times[j]
    BY <1>2, <1>4, <1>5, <1>9 DEF Last
<1>11. j = n
    <2>1. n - 1 \in 1 .. n /\ j \in 1 .. n /\ times[n - 1] \in Int /\ times[j] \in Int
        BY <1>2, <1>4
    <2>2. j < n - 1 => times[j] < times[n - 1]
        BY <2>1, <1>2
    <2>3. ~(j < n - 1) /\ j # n - 1
        BY <2>1, <2>2, <1>10
    <2> HIDE DEF n
    <2> QED  BY <2>1, <2>3, <1>2
<1>12. Last(two) = Last(times)
    BY <1>8, <1>9, <1>11 DEF Last
<1>13. ASSUME ToSet(times) \subseteq readable PROVE NowcastDt(times, readable) = two[2] - two[1]
    <2>1. got = times
        BY <1>1, <1>2, <1>13 DEF ToSet
    <2> QED  BY <1>5, <1>8, <2>1 DEF Last
<1> QED  BY <1>3, <1>7, <1>12, <1>13

(* A nowcast is never drawn from a stale frame: whichever listed frames can *)
(* be read, it starts from the newest one (handlers.go).                    *)
THEOREM NowcastAlwaysFresh == CallSpec => []NowcastIsFresh
<1> DEFINE Inv == CallTyped /\ NowcastIsFresh
<1>1. CallInit => Inv
    BY CallInitTyped DEF CallInit, NowcastIsFresh, Done
<1>2. ASSUME Inv, [CallNext]_callVars PROVE Inv'
    <2>1. CallTyped' /\ call' = call
        BY <1>2, CallStep DEF CallTyped
    <2>2. CASE result' = result
        BY <1>2, <2>1, <2>2 DEF NowcastIsFresh, Done
    <2>3. CASE call.fn # "point"
        <3>1. ~Done("point")'
            BY <2>1, <2>3 DEF Done
        <3> QED  BY <2>1, <3>1 DEF NowcastIsFresh
    <2>4. CASE call.fn = "point" /\ PointOf
        <3> DEFINE times == call.archive.times
                   readable == call.archive.readable
        <3>1. result' = Point(times, readable)
            BY <2>4 DEF PointOf, Evaluate
        <3>2. times \in Seq(Int) /\ \A i, j \in DOMAIN times : i < j => times[i] < times[j]
            BY <1>2, <2>4, ArchivesAssumption DEF CallTyped
        <3> HIDE DEF times, readable
        <3>3. result'.dt # 0 =>
                /\ Last(result'.frames) = Last(times)
                /\ ToSet(times) \subseteq readable => result'.dt = result'.frames[2] - result'.frames[1]
            BY <3>1, <3>2, PointIsFresh
        <3>4. NowcastIsFresh'
            BY <2>1, <3>3 DEF NowcastIsFresh, times, readable
        <3> QED  BY <2>1, <3>4
    <2> QED  BY <1>2, <2>1, <2>2, <2>3, <2>4, CallStep
<1>3. Inv => NowcastIsFresh
    OBVIOUS
<1> QED  BY <1>1, <1>2, <1>3, PTL DEF CallSpec

(***************************************************************************)
(* The point feeds: a response some tokens of which were lost.             *)
(***************************************************************************)

(* A function on 1 .. n is a sequence of n entries.                         *)
LEMMA LengthOf ==
    ASSUME NEW n \in Nat, NEW f, f = [i \in 1 .. n |-> f[i]]
    PROVE  Len(f) = n
<1> DEFINE E == {f[i] : i \in 1 .. n}
           m == Len(f)
<1>1. f \in [1 .. n -> E]
    OBVIOUS
<1>2. f \in Seq(E)
    <2> HIDE DEF E
    <2> QED  BY <1>1, SeqDef
<1>3. m \in Nat /\ 1 .. m = 1 .. n
    <2> HIDE DEF E
    <2> QED  BY <1>1, <1>2, LenProperties
<1> HIDE DEF m, E
<1>4. \A i \in Int : i \in 1 .. m <=> i \in 1 .. n
    BY <1>3
<1>5. ~(m < n)
    <2> SUFFICES ASSUME m < n PROVE FALSE
        OBVIOUS
    <2>1. m + 1 \in 1 .. n /\ m + 1 \notin 1 .. m
        BY <1>3
    <2> QED  BY <2>1, <1>3, <1>4
<1>6. ~(n < m)
    <2> SUFFICES ASSUME n < m PROVE FALSE
        OBVIOUS
    <2>1. n + 1 \in 1 .. m /\ n + 1 \notin 1 .. n
        BY <1>3
    <2> QED  BY <2>1, <1>3, <1>4
<1> QED  BY <1>3, <1>5, <1>6 DEF m

(* n ascending positions out of n are all of them, each at its own place.   *)
LEMMA NothingLost ==
    ASSUME NEW n \in Nat, NEW kept \in Seq(Nat), Len(kept) = n,
           \A i, j \in DOMAIN kept : i < j => kept[i] < kept[j],
           \A i \in DOMAIN kept : kept[i] \in 1 .. n
    PROVE  DOMAIN kept = 1 .. n /\ \A i \in 1 .. n : kept[i] = i
<1>1. DOMAIN kept = 1 .. n /\ \A i \in 1 .. n : kept[i] \in 1 .. n
    BY LenProperties
<1>2. \A i \in 1 .. n : kept[i] >= i
    <2> DEFINE K == {k \in 0 .. n : k = 0 \/ kept[k] >= k}
    <2>1. 0 \in K
        OBVIOUS
    <2>2. ASSUME NEW k \in 1 .. n, k - 1 \in K PROVE k \in K
        <3>1. k \in DOMAIN kept /\ kept[k] \in 1 .. n
            BY <1>1
        <3>2. CASE k = 1
            BY <3>1, <3>2
        <3>3. CASE k # 1
            <4>1. k - 1 \in 1 .. n
                BY <3>3
            <4>2. \A i, j \in 1 .. n : i < j => kept[i] < kept[j]
                BY <1>1
            <4>3. kept[k - 1] < kept[k]
                BY <4>1, <4>2
            <4>4. kept[k - 1] \in 1 .. n
                BY <1>1, <4>1
            <4>5. kept[k - 1] >= k - 1
                BY <2>2, <4>1
            <4> QED  BY <3>1, <4>3, <4>4, <4>5
        <3> QED  BY <3>2, <3>3
    <2> HIDE DEF K
    <2>3. \A k \in 0 .. n : k \in K
        BY <2>1, <2>2, UpTo
    <2> QED  BY <2>3 DEF K
<1>3. \A i \in 1 .. n : kept[i] <= i
    <2> DEFINE K == {k \in 0 .. n : k = n \/ kept[n - k] <= n - k}
    <2>1. 0 \in K
        <3>1. CASE n = 0
            BY <3>1
        <3>2. CASE n # 0
            <4>1. n \in 1 .. n
                BY <3>2
            <4>2. kept[n] \in 1 .. n
                BY <1>1, <4>1
            <4>3. n - 0 = n /\ 0 \in 0 .. n
                OBVIOUS
            <4> QED  BY <4>2, <4>3
        <3> QED  BY <3>1, <3>2
    <2>2. ASSUME NEW k \in 1 .. n, k - 1 \in K PROVE k \in K
        <3>1. CASE k = n
            BY <3>1
        <3>2. CASE k # n
            <4>1. n - k \in 1 .. n /\ n - k + 1 \in 1 .. n /\ n - (k - 1) = n - k + 1 /\ n - k < n - k + 1
                BY <3>2
            <4>2. \A i, j \in 1 .. n : i < j => kept[i] < kept[j]
                BY <1>1
            <4>3. kept[n - k] < kept[n - k + 1]
                BY <4>1, <4>2
            <4>4. kept[n - k] \in 1 .. n /\ kept[n - k + 1] \in 1 .. n
                BY <1>1, <4>1
            <4>5. kept[n - k + 1] <= n - k + 1
                BY <2>2, <4>1
            <4>6. kept[n - k] <= n - k
                <5>1. n - k \in Int /\ n - k + 1 \in Int /\ kept[n - k] \in Int /\ kept[n - k + 1] \in Int
                    BY <4>1, <4>4
                <5> QED  BY <5>1, <4>3, <4>5
            <4> QED  BY <4>6
        <3> QED  BY <3>1, <3>2
    <2> HIDE DEF K
    <2>3. \A k \in 0 .. n : k \in K
        BY <2>1, <2>2, UpTo
    <2>4. ASSUME NEW i \in 1 .. n PROVE kept[i] <= i
        <3>1. n - i \in 0 .. n /\ n - (n - i) = i /\ n - i # n
            OBVIOUS
        <3>2. n - i \in K
            BY <2>3, <3>1
        <3> QED  BY <3>1, <3>2 DEF K
    <2> QED  BY <2>4
<1>4. ASSUME NEW i \in 1 .. n PROVE kept[i] = i
    <2>1. kept[i] \in 1 .. n /\ kept[i] >= i /\ kept[i] <= i
        BY <1>1, <1>2, <1>3
    <2> QED  BY <2>1
<1> QED  BY <1>1, <1>4

(* What is left of n entries, when n are left, is all of them.              *)
LEMMA AllLeft ==
    ASSUME NEW n \in Nat, NEW s, s = [i \in 1 .. n |-> s[i]], NEW kept \in Seq(Nat), Len(kept) = n,
           \A i, j \in DOMAIN kept : i < j => kept[i] < kept[j],
           \A i \in DOMAIN kept : kept[i] \in 1 .. n
    PROVE  Left(s, kept) = s
<1>1. DOMAIN kept = 1 .. n /\ \A i \in 1 .. n : kept[i] = i
    BY NothingLost
<1>2. Left(s, kept) = [i \in 1 .. n |-> s[kept[i]]]
    BY <1>1 DEF Left
<1>3. [i \in 1 .. n |-> s[kept[i]]] = [i \in 1 .. n |-> s[i]]
    BY <1>1
<1> QED  BY <1>2, <1>3

(* A response whose halves do not line up is refused.                       *)
LEMMA MisalignedRefused ==
    ASSUME NEW m, ~Aligned(m)
    PROVE  fetchObservations(Coverage(<<m>>)) = Error
<1>1. Coverage(<<m>>).kind = "coverage" /\ Coverage(<<m>>).members = <<m>>
    BY DEF Coverage
<1>2. m \in ToSet(<<m>>)
    BY DEF ToSet
<1>3. ~Parses(Coverage(<<m>>))
    BY <1>1, <1>2 DEF Parses
<1> QED  BY <1>3 DEF fetchObservations

(* The member FMI sends for a report: its halves, and how long they are.    *)
LEMMA Sent ==
    ASSUME NEW report, Len(report) \in Nat, NEW layout, Len(layout.fields) \in Nat \ {0}
    PROVE  LET m == Encoded(report, layout).members[1]
           IN  /\ Encoded(report, layout) = Coverage(<<m>>)
               /\ m = [fields |-> m.fields, positions |-> m.positions, tuples |-> m.tuples,
                       points |-> m.points, locations |-> m.locations]
               /\ m.fields = layout.fields
               /\ m.positions = [i \in 1 .. (Len(report) * 3) |-> m.positions[i]]
               /\ m.tuples = [i \in 1 .. (Len(report) * Len(layout.fields)) |-> m.tuples[i]]
<1> DEFINE m == Encoded(report, layout).members[1]
           f(i) == LET r == report[((i - 1) \div 3) + 1]
                   IN  <<layout.place[r.id][1], layout.place[r.id][2], r.time>>[((i - 1) % 3) + 1]
           w == Len(layout.fields)
           g(i) == report[((i - 1) \div w) + 1].values[layout.fields[((i - 1) % w) + 1]]
           points == [k \in DOMAIN layout.points |->
            [id |-> layout.points[k], pos |-> layout.drawn[layout.points[k]]]]
           locations == [k \in DOMAIN layout.locations |->
            [id |-> layout.locations[k],
             names |-> << [space |-> "geoid", value |-> 100], [space |-> "name", value |-> layout.locations[k]] >>]]
           one == [fields |-> layout.fields,
                   positions |-> [i \in 1 .. (Len(report) * 3) |-> f(i)],
                   tuples |-> [i \in 1 .. (Len(report) * w) |-> g(i)],
                   points |-> points, locations |-> locations]
<1>1. Encoded(report, layout) = Coverage(<<one>>)
    BY DEF Encoded
<1> HIDE DEF f, g, points, locations
<1>2. m = one
    BY <1>1 DEF Coverage
<1>3. one = [fields |-> one.fields, positions |-> one.positions, tuples |-> one.tuples,
             points |-> one.points, locations |-> one.locations]
    OBVIOUS
<1>4. one.positions = [i \in 1 .. (Len(report) * 3) |-> one.positions[i]]
    OBVIOUS
<1>5. one.tuples = [i \in 1 .. (Len(report) * w) |-> one.tuples[i]]
    OBVIOUS
<1>6. one.fields = layout.fields
    OBVIOUS
<1> QED
    <2> HIDE DEF one, m
    <2> QED  BY <1>1, <1>2, <1>3, <1>4, <1>5, <1>6 DEF m

(* Tokens lost from one half leave the response as it was or misaligned.    *)
LEMMA DamageShows ==
    ASSUME NEW loss \in Losses, NEW layout \in Layouts
    PROVE  LET sent == Encoded(loss.report, layout)
           IN  \/ Damaged(sent, loss) = sent
               \/ fetchObservations(Damaged(sent, loss)) = Error
<1> DEFINE n == Len(loss.report)
           w == Len(layout.fields)
           sent == Encoded(loss.report, layout)
           m == sent.members[1]
           kept == loss.kept
<1>1. n \in Nat /\ w \in Nat \ {0} /\ kept \in Seq(Nat) /\ Len(kept) \in Nat
    BY LossesAssumption, LayoutsAssumption, LenProperties
<1>2. \A i, j \in DOMAIN kept : i < j => kept[i] < kept[j]
    BY LossesAssumption
<1>3. /\ sent = Coverage(<<m>>)
      /\ m = [fields |-> m.fields, positions |-> m.positions, tuples |-> m.tuples,
              points |-> m.points, locations |-> m.locations]
      /\ m.fields = layout.fields
      /\ m.positions = [i \in 1 .. (n * 3) |-> m.positions[i]]
      /\ m.tuples = [i \in 1 .. (n * w) |-> m.tuples[i]]
    BY <1>1, Sent
<1>4. n * w \in Nat /\ n * 3 \in Nat /\ (n * 3) % 3 = 0 /\ (n * 3) \div 3 = n
    <2> HIDE DEF n, w
    <2>1. n * w \in Nat /\ n * 3 \in Nat
        BY <1>1
    <2>2. (n * 3) % 3 = 0 /\ (n * 3) \div 3 = n
        BY <1>1
    <2> QED  BY <2>1, <2>2
<1>5. DOMAIN kept = 1 .. Len(kept)
    BY <1>1, LenProperties
<1>6. CASE loss.half = "positions"
    <2> DEFINE left == [m EXCEPT !.positions = Left(@, kept)]
    <2>1. \A i \in DOMAIN kept : kept[i] \in 1 .. (n * 3)
        BY <1>6, LossesAssumption
    <2> HIDE DEF m, sent, n, w, kept
    <2>2. Damaged(sent, loss) = Coverage(<<left>>)
        BY <1>6 DEF Damaged, m, kept
    <2>3. left.positions = Left(m.positions, kept) /\ left.tuples = m.tuples /\ left.fields = layout.fields
        BY <1>3
    <2>4. CASE Len(kept) = n * 3
        <3>1. Left(m.positions, kept) = m.positions
            BY <1>1, <1>2, <1>3, <1>4, <2>1, <2>4, AllLeft
        <3>2. left = m
            BY <1>3, <3>1
        <3> QED  BY <1>3, <2>2, <3>2 DEF n, sent
    <2>5. CASE Len(kept) # n * 3
        <3>1. Len(left.positions) = Len(kept)
            <4>1. left.positions = [i \in 1 .. Len(kept) |-> left.positions[i]]
                BY <2>3, <1>5 DEF Left
            <4> HIDE DEF left
            <4> QED  BY <1>1, <4>1, LengthOf
        <3>2. Len(left.tuples) = n * w
            <4>1. left.tuples = [i \in 1 .. (n * w) |-> left.tuples[i]]
                BY <2>3, <1>3
            <4> HIDE DEF left
            <4> QED  BY <1>4, <4>1, LengthOf
        <3>3. Width(left) = w
            BY <2>3 DEF Width, w
        <3> HIDE DEF left
        <3>4. ASSUME Aligned(left) PROVE FALSE
            <4> DEFINE q == Len(kept) \div 3
            <4>1. Len(kept) % 3 = 0 /\ n * w = q * w
                BY <1>1, <3>1, <3>2, <3>3, <3>4 DEF Aligned, Count
            <4>2. q \in Nat /\ Len(kept) = q * 3
                BY <1>1, <4>1
            <4> HIDE DEF q
            <4>3. q = n
                BY <1>1, <4>1, <4>2, SameFactor
            <4> QED  BY <4>2, <4>3, <2>5
        <3>5. fetchObservations(Coverage(<<left>>)) = Error
            BY <3>4, MisalignedRefused
        <3> QED  BY <2>2, <3>5 DEF sent
    <2> QED  BY <2>4, <2>5
<1>7. CASE loss.half # "positions"
    <2> DEFINE left == [m EXCEPT !.tuples = Left(@, kept)]
    <2>1. \A i \in DOMAIN kept : kept[i] \in 1 .. (n * w)
        BY <1>7, LossesAssumption
    <2> HIDE DEF m, sent, n, w, kept
    <2>2. Damaged(sent, loss) = Coverage(<<left>>)
        BY <1>7 DEF Damaged, m, kept
    <2>3. left.positions = m.positions /\ left.tuples = Left(m.tuples, kept) /\ left.fields = layout.fields
        BY <1>3
    <2>4. CASE Len(kept) = n * w
        <3>1. Left(m.tuples, kept) = m.tuples
            BY <1>1, <1>2, <1>3, <1>4, <2>1, <2>4, AllLeft
        <3>2. left = m
            BY <1>3, <3>1
        <3> QED  BY <1>3, <2>2, <3>2 DEF sent
    <2>5. CASE Len(kept) # n * w
        <3>1. Len(left.tuples) = Len(kept)
            <4>1. left.tuples = [i \in 1 .. Len(kept) |-> left.tuples[i]]
                BY <2>3, <1>5 DEF Left
            <4> HIDE DEF left
            <4> QED  BY <1>1, <4>1, LengthOf
        <3>2. Len(left.positions) = n * 3
            <4>1. left.positions = [i \in 1 .. (n * 3) |-> left.positions[i]]
                BY <2>3, <1>3
            <4> HIDE DEF left
            <4> QED  BY <1>4, <4>1, LengthOf
        <3>3. Width(left) = w
            BY <2>3 DEF Width, w
        <3> HIDE DEF left
        <3>4. ~Aligned(left)
            BY <1>1, <1>4, <3>1, <3>2, <3>3, <2>5 DEF Aligned, Count
        <3>5. fetchObservations(Coverage(<<left>>)) = Error
            BY <3>4, MisalignedRefused
        <3> QED  BY <2>2, <3>5 DEF sent
    <2> QED  BY <2>4, <2>5
<1> QED  BY <1>6, <1>7

(* A damaged response never puts a reading where it does not belong:        *)
(* whatever tokens of either half are lost, of a report of any length, the  *)
(* poll fails or sees what was sent (multipoint.go).                        *)
THEOREM TruncationAlwaysCaught == CallSpec => []TruncationCaught
<1> DEFINE Inv == CallTyped /\ TruncationCaught
<1>1. CallInit => Inv
    BY CallInitTyped DEF CallInit, TruncationCaught, Done
<1>2. ASSUME Inv, [CallNext]_callVars PROVE Inv'
    <2>1. CallTyped' /\ call' = call
        BY <1>2, CallStep DEF CallTyped
    <2>2. CASE result' = result
        BY <1>2, <2>1, <2>2 DEF TruncationCaught, Done
    <2>3. CASE call.fn # "observe-damaged"
        <3>1. ~Done("observe-damaged")'
            BY <2>1, <2>3 DEF Done
        <3> QED  BY <2>1, <3>1 DEF TruncationCaught
    <2>4. CASE call.fn = "observe-damaged" /\ ObserveDamaged
        <3> DEFINE sent == Encoded(call.loss.report, call.layout)
        <3>1. result' = fetchObservations(Damaged(sent, call.loss))
            BY <2>4 DEF ObserveDamaged, Evaluate
        <3>2. call.loss \in Losses /\ call.layout \in Layouts
            BY <1>2, <2>4 DEF CallTyped
        <3>3. Damaged(sent, call.loss) = sent \/ fetchObservations(Damaged(sent, call.loss)) = Error
            BY <3>2, DamageShows
        <3>4. result' \in {Error, fetchObservations(sent)}
            BY <3>1, <3>3
        <3>5. TruncationCaught'
            BY <2>1, <3>4 DEF TruncationCaught
        <3> QED  BY <2>1, <3>5
    <2> QED  BY <1>2, <2>1, <2>2, <2>3, <2>4, CallStep
<1>3. Inv => TruncationCaught
    OBVIOUS
<1> QED  BY <1>1, <1>2, <1>3, PTL DEF CallSpec

(***************************************************************************)
(* Palettes.                                                               *)
(***************************************************************************)

Byte == 0 .. 255

Ascending(scale) ==
    \A i \in 1 .. 9 : scale[i] \in Int /\ \A j \in 1 .. 9 : i < j => scale[i] < scale[j]

Hues(hues) == \A i \in 1 .. 9 : hues[i][1] \in Byte /\ hues[i][2] \in Byte /\ hues[i][3] \in Byte

(* Transparent first, visible after, and never fainter than before.         *)
Fading(alpha) ==
    /\ alpha[1] = 0
    /\ \A i \in 1 .. 9 : /\ alpha[i] \in Byte /\ (i > 1 => alpha[i] > 0)
                         /\ \A j \in 1 .. 9 : i < j => alpha[i] <= alpha[j]

LEMMA ScalesAscend == Ascending(DbzScale) /\ Ascending(RateScale) /\ Ascending(AccumScale)
<1>0. \A i \in 1 .. 9 : i = 1 \/ i = 2 \/ i = 3 \/ i = 4 \/ i = 5 \/ i = 6 \/ i = 7 \/ i = 8 \/ i = 9
    OBVIOUS
<1>1. Ascending(DbzScale)
    BY <1>0 DEF Ascending, DbzScale
<1>2. Ascending(RateScale)
    BY <1>0 DEF Ascending, RateScale
<1>3. Ascending(AccumScale)
    BY <1>0 DEF Ascending, AccumScale
<1> QED  BY <1>1, <1>2, <1>3

LEMMA HuesTyped == Hues(Rainbow) /\ Hues(Accessible)
<1>0. \A i \in 1 .. 9 : i = 1 \/ i = 2 \/ i = 3 \/ i = 4 \/ i = 5 \/ i = 6 \/ i = 7 \/ i = 8 \/ i = 9
    OBVIOUS
<1>1. Hues(Rainbow)
    <2>1. \A i \in 1 .. 9 : Rainbow[i][1] \in Byte
        BY <1>0 DEF Rainbow, Byte
    <2>2. \A i \in 1 .. 9 : Rainbow[i][2] \in Byte
        BY <1>0 DEF Rainbow, Byte
    <2>3. \A i \in 1 .. 9 : Rainbow[i][3] \in Byte
        BY <1>0 DEF Rainbow, Byte
    <2> QED  BY <2>1, <2>2, <2>3 DEF Hues
<1>2. Hues(Accessible)
    <2>1. \A i \in 1 .. 9 : Accessible[i][1] \in Byte
        BY <1>0 DEF Accessible, Byte
    <2>2. \A i \in 1 .. 9 : Accessible[i][2] \in Byte
        BY <1>0 DEF Accessible, Byte
    <2>3. \A i \in 1 .. 9 : Accessible[i][3] \in Byte
        BY <1>0 DEF Accessible, Byte
    <2> QED  BY <2>1, <2>2, <2>3 DEF Hues
<1> QED  BY <1>1, <1>2

(* Stops a colour can be read from: nine, of ascending values, in bytes,    *)
(* transparent first and never fainter after.                               *)
Graded(stops) ==
    /\ stops \in Seq([value : Int, colour : Byte \X Byte \X Byte \X Byte]) /\ Len(stops) = 9
    /\ \A i, j \in 1 .. 9 : i < j => /\ stops[i].value < stops[j].value
                                     /\ stops[i].colour[4] <= stops[j].colour[4]
    /\ stops[1].colour[4] = 0
    /\ \A i \in 2 .. 9 : stops[i].colour[4] > 0

LEMMA StopsGraded ==
    ASSUME NEW unit, NEW scale, Ascending(scale), NEW hues, Hues(hues), NEW alpha, Fading(alpha)
    PROVE  Stops(unit, scale, hues, alpha).unit = unit /\ Graded(Stops(unit, scale, hues, alpha).stops)
<1> DEFINE stops == [i \in 1 .. 9 |->
        [value |-> scale[i], colour |-> <<hues[i][1], hues[i][2], hues[i][3], alpha[i]>>]]
<1>1. Stops(unit, scale, hues, alpha).unit = unit /\ Stops(unit, scale, hues, alpha).stops = stops
    BY DEF Stops
<1>2. \A i \in 1 .. 9 : /\ stops[i].value = scale[i]
                        /\ stops[i].colour = <<hues[i][1], hues[i][2], hues[i][3], alpha[i]>>
                        /\ stops[i].colour[4] = alpha[i]
                        /\ stops[i] = [value |-> scale[i], colour |-> <<hues[i][1], hues[i][2], hues[i][3], alpha[i]>>]
    OBVIOUS
<1>3. \A i \in 1 .. 9 : stops[i] \in [value : Int, colour : Byte \X Byte \X Byte \X Byte]
    <2> TAKE i \in 1 .. 9
    <2>1. scale[i] \in Int /\ hues[i][1] \in Byte /\ hues[i][2] \in Byte /\ hues[i][3] \in Byte /\ alpha[i] \in Byte
        BY DEF Ascending, Hues, Fading
    <2> HIDE DEF stops
    <2> QED  BY <1>2, <2>1
<1>4. DOMAIN stops = 1 .. 9 /\ stops = [i \in 1 .. 9 |-> stops[i]]
    OBVIOUS
<1>5. stops \in Seq([value : Int, colour : Byte \X Byte \X Byte \X Byte]) /\ Len(stops) = 9
    <2> DEFINE E == [value : Int, colour : Byte \X Byte \X Byte \X Byte]
    <2>1. \A i \in 1 .. 9 : stops[i] \in E
        BY <1>3
    <2> HIDE DEF stops, E
    <2>2. stops \in [1 .. 9 -> E]
        BY <1>4, <2>1
    <2>3. stops \in Seq(E)
        BY <2>2, SeqDef
    <2>4. Len(stops) = 9
        <3> DEFINE n == Len(stops)
        <3>1. n \in Nat /\ DOMAIN stops = 1 .. n
            BY <2>3, LenProperties
        <3> HIDE DEF n
        <3>2. \A i : i \in 1 .. n <=> i \in 1 .. 9
            BY <1>4, <3>1
        <3>3. 9 \in 1 .. n
            BY <3>2
        <3>4. ~(10 \in 1 .. n)
            BY <3>2
        <3>5. n = 9
            BY <3>1, <3>3, <3>4
        <3> QED  BY <3>5 DEF n
    <2> QED  BY <2>3, <2>4 DEF E
<1> HIDE DEF stops
<1>6. \A i, j \in 1 .. 9 : i < j => /\ stops[i].value < stops[j].value
                                     /\ stops[i].colour[4] <= stops[j].colour[4]
    BY <1>2 DEF Ascending, Fading
<1>7. stops[1].colour[4] = 0 /\ \A i \in 2 .. 9 : stops[i].colour[4] > 0
    BY <1>2 DEF Fading
<1> QED  BY <1>1, <1>5, <1>6, <1>7 DEF Graded

(* Every palette of the program is graded.                                  *)
LEMMA PalettesGraded ==
    /\ DOMAIN Palettes = PaletteIds
    /\ \A id \in PaletteIds : Graded(Palettes[id].stops)
    /\ Palettes["dbz"].unit = "dBZ" /\ Palettes["rate"].unit = "mm/h" /\ Palettes["accum"].unit = "mm"
<1> DEFINE A == <<0, 150, 205, 228, 242, 250, 255, 255, 255>>
           B == <<0, 145, 205, 228, 242, 250, 255, 255, 255>>
           C == <<0, 150, 208, 230, 243, 250, 255, 255, 255>>
           D == <<0, 155, 208, 228, 242, 250, 255, 255, 255>>
           E == <<0, 150, 208, 228, 242, 250, 255, 255, 255>>
           F == <<0, 155, 208, 230, 243, 250, 255, 255, 255>>
<1>0. \A i \in 1 .. 9 : i = 1 \/ i = 2 \/ i = 3 \/ i = 4 \/ i = 5 \/ i = 6 \/ i = 7 \/ i = 8 \/ i = 9
    OBVIOUS
<1>1. Fading(A) /\ Fading(B) /\ Fading(C)
    <2>1. Fading(A)
        BY <1>0 DEF Fading, Byte
    <2>2. Fading(B)
        BY <1>0 DEF Fading, Byte
    <2>3. Fading(C)
        BY <1>0 DEF Fading, Byte
    <2> QED  BY <2>1, <2>2, <2>3
<1>2. Fading(D) /\ Fading(E) /\ Fading(F)
    <2>1. Fading(D)
        BY <1>0 DEF Fading, Byte
    <2>2. Fading(E)
        BY <1>0 DEF Fading, Byte
    <2>3. Fading(F)
        BY <1>0 DEF Fading, Byte
    <2> QED  BY <2>1, <2>2, <2>3
<1>3. /\ Palettes["dbz"] = Stops("dBZ", DbzScale, Rainbow, A)
      /\ Palettes["rate"] = Stops("mm/h", RateScale, Rainbow, B)
      /\ Palettes["accum"] = Stops("mm", AccumScale, Rainbow, C)
    BY DEF Palettes, PaletteIds
<1>4. /\ Palettes["dbz-cvd"] = Stops("dBZ", DbzScale, Accessible, D)
      /\ Palettes["rate-cvd"] = Stops("mm/h", RateScale, Accessible, E)
      /\ Palettes["accum-cvd"] = Stops("mm", AccumScale, Accessible, F)
    BY DEF Palettes, PaletteIds
<1>5. DOMAIN Palettes = PaletteIds
    BY DEF Palettes
<1> HIDE DEF A, B, C, D, E, F
<1>6. Graded(Palettes["dbz"].stops) /\ Palettes["dbz"].unit = "dBZ"
    BY <1>1, <1>3, ScalesAscend, HuesTyped, StopsGraded
<1>7. Graded(Palettes["rate"].stops) /\ Palettes["rate"].unit = "mm/h"
    BY <1>1, <1>3, ScalesAscend, HuesTyped, StopsGraded
<1>8. Graded(Palettes["accum"].stops) /\ Palettes["accum"].unit = "mm"
    BY <1>1, <1>3, ScalesAscend, HuesTyped, StopsGraded
<1>9. Graded(Palettes["dbz-cvd"].stops)
    BY <1>2, <1>4, ScalesAscend, HuesTyped, StopsGraded
<1>10. Graded(Palettes["rate-cvd"].stops)
    BY <1>2, <1>4, ScalesAscend, HuesTyped, StopsGraded
<1>11. Graded(Palettes["accum-cvd"].stops)
    BY <1>2, <1>4, ScalesAscend, HuesTyped, StopsGraded
<1> QED  BY <1>5, <1>6, <1>7, <1>8, <1>9, <1>10, <1>11 DEF PaletteIds

(* Whatever is requested, a product gets a palette in its own unit.         *)
LEMMA ResolvedPalette ==
    ASSUME NEW p \in DOMAIN Products, NEW requested
    PROVE  /\ ResolvePalette(p, requested).unit = Products[p].unit
           /\ Graded(ResolvePalette(p, requested).stops)
<1>1. p = "dbz" \/ p = "rr" \/ p = "rr1h"
    BY DEF Products
<1>2. /\ Products["dbz"].palette = "dbz" /\ Products["dbz"].unit = "dBZ"
      /\ Products["rr"].palette = "rate" /\ Products["rr"].unit = "mm/h"
      /\ Products["rr1h"].palette = "accum" /\ Products["rr1h"].unit = "mm"
    BY DEF Products
<1>3. Products[p].palette \in PaletteIds /\ Palettes[Products[p].palette].unit = Products[p].unit
    BY <1>1, <1>2, PalettesGraded DEF PaletteIds
<1>4. CASE requested \in DOMAIN Palettes /\ Palettes[requested].unit = Products[p].unit
    BY <1>4, PalettesGraded DEF ResolvePalette
<1>5. CASE ~(requested \in DOMAIN Palettes /\ Palettes[requested].unit = Products[p].unit)
    BY <1>3, <1>5, PalettesGraded DEF ResolvePalette
<1> QED  BY <1>4, <1>5

(* Interpolation between two bytes, the second no smaller: never outside    *)
(* them, and never less for a later value.                                  *)
LEMMA LerpEnd ==
    ASSUME NEW a \in Byte, NEW b \in Byte, NEW d \in Nat \ {0}
    PROVE  lerp8(a, b, d, d) = b
<1>1. 2 * d \in Nat \ {0} /\ d \in 0 .. (2 * d - 1) /\ b \in Int /\ a \in Int
    BY DEF Byte
<1>2. (b * (2 * d) + d) \div (2 * d) = b
    <2> DEFINE r == 2 * d
    <2>1. r \in Nat \ {0} /\ d \in 0 .. (r - 1) /\ b \in Int
        BY <1>1
    <2> HIDE DEF r
    <2>2. (b * r + d) \div r = b
        BY <2>1, DivOfMultiple
    <2> QED  BY <2>2 DEF r
<1>3. 2 * (a * d + (b - a) * d) + d = b * (2 * d) + d
    BY <1>1
<1>4. b % 256 = b
    BY DEF Byte
<1> QED  BY <1>2, <1>3, <1>4 DEF lerp8

LEMMA LerpGrows ==
    ASSUME NEW a \in Byte, NEW b \in Byte, a <= b, NEW d \in Nat \ {0}, NEW n \in 0 .. d, NEW m \in n .. d
    PROVE  /\ lerp8(a, b, n, d) \in Byte /\ lerp8(a, b, m, d) \in Byte
           /\ a <= lerp8(a, b, n, d) /\ lerp8(a, b, n, d) <= lerp8(a, b, m, d) /\ lerp8(a, b, m, d) <= b
<1> DEFINE N == 2 * (a * d + (b - a) * n) + d
           M == 2 * (a * d + (b - a) * m) + d
           r == 2 * d
<1>1. /\ a \in Nat /\ b \in Nat /\ b - a \in Nat /\ b <= 255
      /\ n \in Nat /\ m \in Nat /\ d \in Nat /\ d > 0 /\ n <= m /\ m <= d
    BY DEF Byte
<1>2. /\ (b - a) * n \in Nat /\ (b - a) * m \in Nat /\ (b - a) * d \in Nat /\ a * d \in Nat
      /\ (b - a) * n <= (b - a) * m /\ (b - a) * m <= (b - a) * d
    BY <1>1
<1>3. a * d + (b - a) * d = b * d /\ a * r = 2 * (a * d) /\ b * r = 2 * (b * d)
    BY <1>1
<1>4. N \in Int /\ M \in Int /\ a * r + d \in Int /\ b * r + d \in Int /\ r \in Nat \ {0}
    BY <1>1
<1>5. a * r + d <= N /\ N <= M /\ M <= b * r + d
    <2> DEFINE x == (b - a) * n
               y == (b - a) * m
               z == (b - a) * d
               ad == a * d
               bd == b * d
    <2>1. x \in Nat /\ y \in Nat /\ z \in Nat /\ ad \in Nat /\ bd \in Nat /\ x <= y /\ y <= z /\ ad + z = bd
        BY <1>1, <1>2, <1>3
    <2> HIDE DEF x, y, z, ad, bd
    <2>2. 2 * ad + d <= 2 * (ad + x) + d /\ 2 * (ad + x) + d <= 2 * (ad + y) + d /\ 2 * (ad + y) + d <= 2 * bd + d
        BY <1>1, <2>1
    <2> QED  BY <2>2, <1>3 DEF x, y, ad, bd
<1>6. (a * r + d) \div r = a /\ (b * r + d) \div r = b
    <2>1. d \in 0 .. (r - 1) /\ a \in Int /\ b \in Int
        BY <1>1
    <2> HIDE DEF r
    <2> QED  BY <1>4, <2>1, DivOfMultiple
<1>7. N \div r \in Int /\ M \div r \in Int
    BY <1>4
<1>8. a <= N \div r /\ N \div r <= M \div r /\ M \div r <= b
    <2> HIDE DEF N, M, r
    <2>1. (a * r + d) \div r <= N \div r
        BY <1>4, <1>5, DivMonotone
    <2>2. N \div r <= M \div r
        BY <1>4, <1>5, DivMonotone
    <2>3. M \div r <= (b * r + d) \div r
        BY <1>4, <1>5, DivMonotone
    <2> QED  BY <1>6, <2>1, <2>2, <2>3
<1>9. lerp8(a, b, n, d) = (N \div r) % 256 /\ lerp8(a, b, m, d) = (M \div r) % 256
    BY DEF lerp8
<1> HIDE DEF N, M, r
<1> DEFINE p == N \div r
           q == M \div r
<1>10. p \in Int /\ q \in Int /\ 0 <= p /\ p <= 255 /\ 0 <= q /\ q <= 255
    BY <1>1, <1>7, <1>8
<1>11. p % 256 = p /\ q % 256 = q
    <2> HIDE DEF p, q
    <2> QED  BY <1>10
<1> QED  BY <1>8, <1>9, <1>10, <1>11 DEF Byte

(***************************************************************************)
(* Colours.                                                                *)
(***************************************************************************)

(* What is read from graded stops, one by one.                              *)
LEMMA GradedStop ==
    ASSUME NEW stops, Graded(stops), NEW i \in 1 .. 9
    PROVE  /\ DOMAIN stops = 1 .. 9 /\ Len(stops) = 9
           /\ stops[i].value \in Int /\ stops[i].colour \in Byte \X Byte \X Byte \X Byte
<1>1. stops[i] \in [value : Int, colour : Byte \X Byte \X Byte \X Byte]
    <2> DEFINE E == [value : Int, colour : Byte \X Byte \X Byte \X Byte]
    <2>1. stops \in Seq(E) /\ i \in 1 .. Len(stops)
        BY DEF Graded
    <2> HIDE DEF E
    <2>2. stops[i] \in E
        BY <2>1, ElementOfSeq
    <2> QED  BY <2>2 DEF E
<1>2. DOMAIN stops = 1 .. 9 /\ Len(stops) = 9
    BY LenProperties DEF Graded
<1> QED  BY <1>1, <1>2

(* v is over stop i - 1, not over stop i, and painted between the two.      *)
Between(stops, v, i) ==
    /\ stops[i - 1].value < v /\ v <= stops[i].value
    /\ ColourAt(stops, v) =
          [c \in 1 .. 4 |-> lerp8(stops[i - 1].colour[c], stops[i].colour[c],
                                  v - stops[i - 1].value, stops[i].value - stops[i - 1].value)]

(* The band a value falls in: above every stop, at or below the first, or   *)
(* over one stop and not over the next.                                     *)
LEMMA Band ==
    ASSUME NEW stops, Graded(stops), NEW v \in Int
    PROVE  \/ v > stops[9].value /\ ColourAt(stops, v) = stops[9].colour
           \/ v <= stops[1].value /\ ColourAt(stops, v) = stops[1].colour
           \/ \E i \in 2 .. 9 : Between(stops, v, i)
<1> DEFINE above == {i \in DOMAIN stops : v <= stops[i].value}
<1>1. DOMAIN stops = 1 .. 9 /\ Len(stops) = 9 /\ \A i \in 1 .. 9 : stops[i].value \in Int
    BY GradedStop
<1>2. CASE above = {}
    <2>1. v > stops[9].value
        BY <1>1, <1>2
    <2>2. ColourAt(stops, v) = Last(stops).colour
        BY <1>2 DEF ColourAt
    <2> QED  BY <1>1, <2>1, <2>2 DEF Last
<1>3. CASE above # {}
    <2> DEFINE i == Min(above)
    <2>1. above \in SUBSET Nat /\ above \subseteq 1 .. 9
        BY <1>1
    <2>2. i \in above /\ \A j \in above : i <= j
        <3>1. \E x \in above : \A y \in above : x <= y
            <4> HIDE DEF above
            <4> QED  BY <1>3, <2>1, Least
        <3> HIDE DEF above
        <3> QED  BY <3>1 DEF Min
    <2>3. i \in 1 .. 9 /\ v <= stops[i].value
        BY <2>1, <2>2
    <2>4. CASE i = 1
        <3>1. ColourAt(stops, v) = stops[1].colour
            BY <1>3, <2>4 DEF ColourAt
        <3> QED  BY <2>3, <2>4, <3>1
    <2>5. CASE i # 1
        <3>1. ColourAt(stops, v) =
                [c \in 1 .. 4 |-> lerp8(stops[i - 1].colour[c], stops[i].colour[c],
                                        v - stops[i - 1].value, stops[i].value - stops[i - 1].value)]
            BY <1>3, <2>5 DEF ColourAt
        <3>2. i \in 2 .. 9 /\ i - 1 \in 1 .. 9
            BY <2>3, <2>5
        <3>3. i - 1 \notin above
            <4> HIDE DEF above
            <4> SUFFICES ASSUME i - 1 \in above PROVE FALSE
                OBVIOUS
            <4>1. i <= i - 1
                BY <2>2
            <4> QED  BY <4>1, <3>2
        <3>4. stops[i - 1].value < v
            BY <1>1, <3>2, <3>3
        <3> HIDE DEF i
        <3>5. Between(stops, v, i)
            BY <2>3, <3>1, <3>4 DEF Between
        <3> QED  BY <3>2, <3>5
    <2> QED  BY <2>4, <2>5
<1> QED  BY <1>2, <1>3

(* A cell with the value of a stop has that stop's colour.                  *)
LEMMA OwnColour ==
    ASSUME NEW stops, Graded(stops), NEW k \in 1 .. 9
    PROVE  ColourAt(stops, stops[k].value) = stops[k].colour
<1> DEFINE v == stops[k].value
<1>1. \A i \in 1 .. 9 : stops[i].value \in Int /\ stops[i].colour \in Byte \X Byte \X Byte \X Byte
    BY GradedStop
<1>2. v \in Int
    BY <1>1
<1>3. \A i, j \in 1 .. 9 : i < j => stops[i].value < stops[j].value
    <2> HIDE DEF v
    <2> QED  BY Zenon DEF Graded
<1>4. CASE v > stops[9].value /\ ColourAt(stops, v) = stops[9].colour
    <2>1. k = 9 \/ k < 9
        OBVIOUS
    <2> QED  BY <1>1, <1>3, <1>4, <2>1
<1>5. CASE v <= stops[1].value /\ ColourAt(stops, v) = stops[1].colour
    <2>1. k = 1 \/ 1 < k
        OBVIOUS
    <2> QED  BY <1>1, <1>3, <1>5, <2>1
<1>6. ASSUME NEW i \in 2 .. 9, Between(stops, v, i)
      PROVE  ColourAt(stops, v) = stops[k].colour
    <2>1. i - 1 \in 1 .. 9 /\ i \in 1 .. 9
        OBVIOUS
    <2>2. ~(i < k)
        BY <1>1, <1>3, <1>6, <2>1 DEF Between
    <2>3. ~(k < i - 1) /\ k # i - 1
        BY <1>1, <1>3, <1>6, <2>1 DEF Between
    <2>4. k = i
        BY <2>1, <2>2, <2>3
    <2> DEFINE d == stops[i].value - stops[i - 1].value
    <2>5. d \in Nat \ {0}
        BY <1>1, <1>6, <2>1, <2>4 DEF Between
    <2>6. \A c \in 1 .. 4 : stops[i - 1].colour[c] \in Byte /\ stops[i].colour[c] \in Byte
        BY <1>1, <2>1
    <2>7. \A c \in 1 .. 4 : lerp8(stops[i - 1].colour[c], stops[i].colour[c], d, d) = stops[i].colour[c]
        <3> HIDE DEF d
        <3> QED  BY <2>5, <2>6, LerpEnd
    <2>8. ColourAt(stops, v) = [c \in 1 .. 4 |-> stops[i].colour[c]]
        BY <1>6, <2>4, <2>7 DEF Between
    <2>9. [c \in 1 .. 4 |-> stops[i].colour[c]] = stops[i].colour
        <3> DEFINE col == stops[i].colour
        <3>1. col \in Byte \X Byte \X Byte \X Byte
            BY <1>1, <2>1
        <3> HIDE DEF col
        <3>2. [c \in 1 .. 4 |-> col[c]] = col
            BY <3>1
        <3> QED  BY <3>2 DEF col
    <2> QED  BY <2>4, <2>8, <2>9
<1>7. ColourAt(stops, v) = stops[k].colour
    <2>1. \/ v > stops[9].value /\ ColourAt(stops, v) = stops[9].colour
          \/ v <= stops[1].value /\ ColourAt(stops, v) = stops[1].colour
          \/ \E i \in 2 .. 9 : Between(stops, v, i)
        <3> HIDE DEF v
        <3> QED  BY <1>2, Band
    <2> QED  BY <1>4, <1>5, <1>6, <2>1
<1> QED  BY <1>7

(* A greater value is never painted fainter.                                *)
LEMMA NeverFainter ==
    ASSUME NEW stops, Graded(stops), NEW v \in Int, NEW w \in Int, v <= w
    PROVE  /\ ColourAt(stops, v)[4] \in Byte /\ ColourAt(stops, w)[4] \in Byte
           /\ ColourAt(stops, v)[4] <= ColourAt(stops, w)[4]
<1> DEFINE a(i) == stops[i].colour[4]
           x(i) == stops[i].value
           over(u) == u > x(9) /\ ColourAt(stops, u)[4] = a(9)
           under(u) == u <= x(1) /\ ColourAt(stops, u)[4] = a(1)
           mid(u, i) == /\ x(i - 1) < u /\ u <= x(i)
                        /\ ColourAt(stops, u)[4] = lerp8(a(i - 1), a(i), u - x(i - 1), x(i) - x(i - 1))
<1>1. \A i \in 1 .. 9 : x(i) \in Int /\ a(i) \in Byte
    <2> TAKE i \in 1 .. 9
    <2>1. stops[i].value \in Int /\ stops[i].colour \in Byte \X Byte \X Byte \X Byte
        BY GradedStop
    <2> QED  BY <2>1
<1>2. \A i, j \in 1 .. 9 : i < j => x(i) < x(j) /\ a(i) <= a(j)
    BY DEF Graded
<1>3. ASSUME NEW u \in Int PROVE over(u) \/ under(u) \/ \E i \in 2 .. 9 : mid(u, i)
    <2>1. \/ u > stops[9].value /\ ColourAt(stops, u) = stops[9].colour
          \/ u <= stops[1].value /\ ColourAt(stops, u) = stops[1].colour
          \/ \E i \in 2 .. 9 : Between(stops, u, i)
        BY Band
    <2>2. ASSUME NEW i \in 2 .. 9, Between(stops, u, i) PROVE mid(u, i)
        BY <2>2 DEF Between
    <2> HIDE DEF mid
    <2> QED  BY <2>1, <2>2
<1> HIDE DEF a, x
<1>4. ASSUME NEW u \in Int, NEW i \in 2 .. 9, mid(u, i)
      PROVE  /\ ColourAt(stops, u)[4] \in Byte
             /\ a(i - 1) <= ColourAt(stops, u)[4] /\ ColourAt(stops, u)[4] <= a(i)
    <2> DEFINE d == x(i) - x(i - 1)
               n == u - x(i - 1)
    <2>1. i \in 1 .. 9 /\ i - 1 \in 1 .. 9 /\ i - 1 < i
        OBVIOUS
    <2>2. a(i - 1) \in Byte /\ a(i) \in Byte /\ a(i - 1) <= a(i)
        BY <1>1, <1>2, <2>1
    <2>3. d \in Nat \ {0} /\ n \in 0 .. d /\ n \in n .. d
        BY <1>1, <1>4, <2>1
    <2> HIDE DEF d, n
    <2>4. /\ lerp8(a(i - 1), a(i), n, d) \in Byte
          /\ a(i - 1) <= lerp8(a(i - 1), a(i), n, d) /\ lerp8(a(i - 1), a(i), n, d) <= a(i)
        BY <2>2, <2>3, LerpGrows
    <2> QED  BY <1>4, <2>4 DEF d, n
<1>5. ASSUME NEW u \in Int PROVE ColourAt(stops, u)[4] \in Byte
    <2>1. CASE over(u) \/ under(u)
        BY <1>1, <2>1
    <2>2. CASE \E i \in 2 .. 9 : mid(u, i)
        <3> HIDE DEF mid
        <3> QED  BY <1>4, <2>2
    <2> QED  BY <1>3, <2>1, <2>2
<1>6. ASSUME NEW u \in Int PROVE a(1) <= ColourAt(stops, u)[4] /\ ColourAt(stops, u)[4] <= a(9)
    <2>0. a(1) \in Int /\ a(9) \in Int /\ ColourAt(stops, u)[4] \in Int /\ a(1) <= a(9)
        <3>1. 1 \in 1 .. 9 /\ 9 \in 1 .. 9 /\ 1 < 9
            OBVIOUS
        <3>2. a(1) \in Byte /\ a(9) \in Byte /\ a(1) <= a(9)
            BY <3>1, <1>1, <1>2
        <3>3. ColourAt(stops, u)[4] \in Byte
            BY <1>5, <1>6
        <3>4. \A b \in Byte : b \in Int
            BY DEF Byte
        <3> QED  BY <3>2, <3>3, <3>4
    <2>1. CASE over(u) \/ under(u)
        BY <2>0, <2>1
    <2>2. ASSUME NEW i \in 2 .. 9, mid(u, i) PROVE a(1) <= ColourAt(stops, u)[4] /\ ColourAt(stops, u)[4] <= a(9)
        <3>1. a(i - 1) <= ColourAt(stops, u)[4] /\ ColourAt(stops, u)[4] <= a(i)
            BY <1>4, <2>2
        <3>2. i \in 1 .. 9 /\ i - 1 \in 1 .. 9 /\ (1 < i - 1 \/ 1 = i - 1) /\ (i < 9 \/ i = 9)
            OBVIOUS
        <3>3. a(i) \in Int /\ a(i - 1) \in Int
            BY <3>2, <1>1 DEF Byte
        <3>4. a(1) <= a(i - 1) /\ a(i) <= a(9)
            BY <3>2, <3>3, <2>0, <1>2
        <3> QED  BY <3>1, <3>3, <3>4, <2>0
    <2> QED  BY <1>3, <2>1, <2>2
<1>7. CASE under(v) \/ over(w)
    BY <1>5, <1>6, <1>7 DEF Byte
<1>8. CASE over(v) /\ ~over(w)
    <2>1. under(w) \/ \E i \in 2 .. 9 : mid(w, i)
        BY <1>3, <1>8
    <2>2. \A i \in 1 .. 9 : x(i) <= x(9)
        BY <1>1, <1>2
    <2>3. \E i \in 1 .. 9 : w <= x(i)
        BY <2>1
    <2> QED  BY <1>1, <1>8, <2>2, <2>3
<1>9. ASSUME NEW i \in 2 .. 9, mid(v, i), under(w) PROVE FALSE
    <2>1. i - 1 \in 1 .. 9 /\ (1 < i - 1 \/ 1 = i - 1)
        OBVIOUS
    <2>2. x(1) <= x(i - 1)
        BY <1>1, <1>2, <2>1
    <2> QED  BY <1>1, <1>9, <2>1, <2>2
<1>10. ASSUME NEW i \in 2 .. 9, mid(v, i), NEW j \in 2 .. 9, mid(w, j)
       PROVE  ColourAt(stops, v)[4] <= ColourAt(stops, w)[4]
    <2>0. /\ i \in 1 .. 9 /\ i - 1 \in 1 .. 9 /\ j \in 1 .. 9 /\ j - 1 \in 1 .. 9
          /\ (i < j \/ i = j \/ j < i)
        OBVIOUS
    <2>1. CASE i < j
        <3>1. i = j - 1 \/ i < j - 1
            BY <2>1
        <3>0. a(i) \in Int /\ a(j - 1) \in Int
            BY <1>1, <2>0 DEF Byte
        <3>2. a(i) <= a(j - 1)
            BY <1>2, <2>0, <3>0, <3>1
        <3>3. ColourAt(stops, v)[4] <= a(i) /\ a(j - 1) <= ColourAt(stops, w)[4]
            BY <1>4, <1>10
        <3>4. ColourAt(stops, v)[4] \in Byte /\ ColourAt(stops, w)[4] \in Byte
            BY <1>5, Zenon
        <3>5. \A b \in Byte : b \in Int
            BY DEF Byte
        <3>6. ColourAt(stops, v)[4] \in Int /\ ColourAt(stops, w)[4] \in Int
            BY <3>4, <3>5
        <3> QED  BY <3>0, <3>2, <3>3, <3>6
    <2>2. CASE i = j
        <3> DEFINE d == x(i) - x(i - 1)
                   n == v - x(i - 1)
                   m == w - x(i - 1)
        <3>1. a(i - 1) \in Byte /\ a(i) \in Byte /\ a(i - 1) <= a(i)
            BY <1>1, <1>2, <2>0
        <3>2. d \in Nat \ {0} /\ n \in 0 .. d /\ m \in n .. d
            BY <1>1, <1>10, <2>0, <2>2
        <3>3. /\ ColourAt(stops, v)[4] = lerp8(a(i - 1), a(i), n, d)
              /\ ColourAt(stops, w)[4] = lerp8(a(i - 1), a(i), m, d)
            BY <1>10, <2>2
        <3> HIDE DEF d, n, m
        <3>4. lerp8(a(i - 1), a(i), n, d) <= lerp8(a(i - 1), a(i), m, d)
            BY <3>1, <3>2, LerpGrows
        <3> QED  BY <3>3, <3>4
    <2>3. CASE j < i
        <3>1. j = i - 1 \/ j < i - 1
            BY <2>3
        <3>2. x(j) <= x(i - 1)
            BY <1>1, <1>2, <2>0, <3>1
        <3> QED  BY <1>1, <1>10, <2>0, <3>2
    <2> QED  BY <2>0, <2>1, <2>2, <2>3
<1> QED  BY <1>3, <1>5, <1>7, <1>8, <1>9, <1>10

(* The legend lists every stop after the first with the colour of its cells.*)
LEMMA LegendListed ==
    ASSUME NEW pal, Graded(pal.stops), NEW i \in DOMAIN Legend(pal)
    PROVE  /\ i \in 1 .. 8
           /\ Legend(pal)[i].value = pal.stops[i + 1].value
           /\ Legend(pal)[i].color = SubSeq(pal.stops[i + 1].colour, 1, 3)
<1> DEFINE stops == pal.stops
           E == [value : Int, colour : Byte \X Byte \X Byte \X Byte]
<1>1. stops \in Seq(E) /\ Len(stops) = 9 /\ stops[1].colour[4] = 0
    BY DEF Graded
<1>2. Legend(pal) = [k \in DOMAIN Tail(stops) |->
                        [value |-> Tail(stops)[k].value, color |-> SubSeq(Tail(stops)[k].colour, 1, 3)]]
    BY <1>1 DEF Legend
<1> HIDE DEF stops, E
<1>3. stops # <<>>
    <2>1. Len(<<>>) = 0
        OBVIOUS
    <2>2. Len(stops) = 9
        BY <1>1
    <2>3. Len(stops) # Len(<<>>)
        BY <2>1, <2>2
    <2> QED  BY <2>3, Zenon
<1>4. /\ Tail(stops) \in Seq(E) /\ Len(Tail(stops)) = 8
      /\ \A k \in 1 .. 8 : Tail(stops)[k] = stops[k + 1]
    <2>1. /\ Tail(stops) \in Seq(E) /\ Len(Tail(stops)) = Len(stops) - 1
          /\ \A k \in 1 .. Len(Tail(stops)) : Tail(stops)[k] = stops[k + 1]
        BY <1>1, <1>3, HeadTailProperties
    <2>2. Len(Tail(stops)) = 8
        BY <1>1, <2>1
    <2> QED  BY <2>1, <2>2
<1>5. DOMAIN Tail(stops) = 1 .. 8
    BY <1>4, LenProperties
<1>6. i \in 1 .. 8
    BY <1>2, <1>5
<1>7. Legend(pal)[i] = [value |-> Tail(stops)[i].value, color |-> SubSeq(Tail(stops)[i].colour, 1, 3)]
    BY <1>2, <1>5, <1>6
<1>8. Tail(stops)[i] = stops[i + 1]
    BY <1>4, <1>6
<1>9. Legend(pal)[i] = [value |-> stops[i + 1].value, color |-> SubSeq(stops[i + 1].colour, 1, 3)]
    BY <1>7, <1>8
<1> QED  BY <1>6, <1>9 DEF stops

(* The legend cannot drift from the map: in the product's unit, each stop in*)
(* the colour its cells are painted with, none invisible (palette.go,       *)
(* handlers.go).                                                            *)
THEOREM LegendAlwaysMatches == CallSpec => []LegendMatchesMap
<1> DEFINE Inv == CallTyped /\ LegendMatchesMap
<1>1. CallInit => Inv
    BY CallInitTyped DEF CallInit, LegendMatchesMap, Done
<1>2. ASSUME Inv, [CallNext]_callVars PROVE Inv'
    <2>1. CallTyped' /\ call' = call
        BY <1>2, CallStep DEF CallTyped
    <2>2. CASE result' = result
        BY <1>2, <2>1, <2>2 DEF LegendMatchesMap, Done
    <2>3. CASE call.fn # "legend"
        <3>1. ~Done("legend")'
            BY <2>1, <2>3 DEF Done
        <3> QED  BY <2>1, <3>1 DEF LegendMatchesMap
    <2>4. CASE call.fn = "legend" /\ LegendOf
        <3> DEFINE p == call.request.product
                   pal == ResolvePalette(p, call.request.requested)
        <3>1. result' = [unit |-> pal.unit, stops |-> Legend(pal),
                         map |-> [v \in {pal.stops[i].value : i \in DOMAIN pal.stops} |->
                                    ColourAt(pal.stops, v)]]
            BY <2>4 DEF LegendOf, Evaluate
        <3>2. p \in DOMAIN Products
            BY <1>2, <2>4, LegendsAssumption DEF CallTyped
        <3>3. pal.unit = Products[p].unit /\ Graded(pal.stops)
            <4> HIDE DEF p
            <4> QED  BY <3>2, ResolvedPalette
        <3>4. result'.unit = Products[p].unit
            BY <3>1, <3>3
        <3> HIDE DEF p, pal
        <3>5. ASSUME NEW i \in DOMAIN result'.stops
              PROVE  /\ result'.stops[i].color = SubSeq(result'.map[result'.stops[i].value], 1, 3)
                     /\ result'.map[result'.stops[i].value][4] > 0
            <4>1. i \in DOMAIN Legend(pal) /\ result'.stops = Legend(pal)
                BY <3>1, <3>5
            <4>2. /\ i \in 1 .. 8
                  /\ Legend(pal)[i].value = pal.stops[i + 1].value
                  /\ Legend(pal)[i].color = SubSeq(pal.stops[i + 1].colour, 1, 3)
                BY <3>3, <4>1, LegendListed
            <4>3. DOMAIN pal.stops = 1 .. 9 /\ i + 1 \in 1 .. 9
                BY <3>3, <4>2, GradedStop
            <4>4. result'.map[pal.stops[i + 1].value] = ColourAt(pal.stops, pal.stops[i + 1].value)
                BY <3>1, <4>2, <4>3
            <4>5. ColourAt(pal.stops, pal.stops[i + 1].value) = pal.stops[i + 1].colour
                <5> DEFINE k == i + 1
                <5>1. k \in 1 .. 9
                    BY <4>2
                <5> HIDE DEF k
                <5>2. ColourAt(pal.stops, pal.stops[k].value) = pal.stops[k].colour
                    BY <3>3, <5>1, OwnColour
                <5> QED  BY <5>2 DEF k
            <4>6. i + 1 \in 2 .. 9
                BY <4>2
            <4>7. pal.stops[i + 1].colour[4] > 0
                BY <3>3, <4>6 DEF Graded
            <4> QED  BY <4>1, <4>2, <4>4, <4>5, <4>7
        <3>6. LegendMatchesMap'
            BY <2>1, <3>4, <3>5 DEF LegendMatchesMap, p
        <3> QED  BY <2>1, <3>6
    <2> QED  BY <1>2, <2>1, <2>2, <2>3, <2>4, CallStep
<1>3. Inv => LegendMatchesMap
    OBVIOUS
<1> QED  BY <1>1, <1>2, <1>3, PTL DEF CallSpec

(* A sample's value: whatever a product's scaling, a whole number that      *)
(* grows with the raw one.                                                  *)
LEMMA ScalingGrows ==
    ASSUME NEW p \in DOMAIN Products, NEW raw \in Nat
    PROVE  /\ raw * Products[p].gain + Products[p].offset \in Int
           /\ (raw + 1) * Products[p].gain + Products[p].offset \in Int
           /\ raw * Products[p].gain + Products[p].offset
                 <= (raw + 1) * Products[p].gain + Products[p].offset
<1>1. p = "dbz" \/ p = "rr" \/ p = "rr1h"
    BY DEF Products
<1>2. /\ Products["dbz"].gain = 50 /\ Products["dbz"].offset = -3200
      /\ Products["rr"].gain = 1 /\ Products["rr"].offset = 0
      /\ Products["rr1h"].gain = 1 /\ Products["rr1h"].offset = 0
    BY DEF Products
<1>3. CASE p = "dbz"
    BY <1>2, <1>3
<1>4. CASE p = "rr"
    BY <1>2, <1>4
<1>5. CASE p = "rr1h"
    BY <1>2, <1>5
<1> QED  BY <1>1, <1>3, <1>4, <1>5

(* At either depth, what is not measured is never painted, the unseen is    *)
(* never read as dry, and more is never painted fainter (palette.go,        *)
(* models.go).                                                              *)
THEOREM MapAlwaysAgrees == CallSpec => []MapAgreesWithReadout
<1> DEFINE Inv == CallTyped /\ MapAgreesWithReadout
<1>1. CallInit => Inv
    BY CallInitTyped DEF CallInit, MapAgreesWithReadout, Done
<1>2. ASSUME Inv, [CallNext]_callVars PROVE Inv'
    <2>1. CallTyped' /\ call' = call
        BY <1>2, CallStep DEF CallTyped
    <2>2. CASE result' = result
        BY <1>2, <2>1, <2>2 DEF MapAgreesWithReadout, Done
    <2>3. CASE call.fn # "paint"
        <3>1. ~Done("paint")'
            BY <2>1, <2>3 DEF Done
        <3> QED  BY <2>1, <3>1 DEF MapAgreesWithReadout
    <2>4. CASE call.fn = "paint" /\ Paint
        <3> DEFINE c == call.cell
                   p == Products[c.product]
                   f == fetchFrame([kind |-> "geotiff", size |-> <<1, 1>>, pixel |-> c.pixel], <<1, 1>>,
                                   [time |-> 0, gain |-> p.gain, offset |-> p.offset])
                   pal == ResolvePalette(c.product, c.requested)
                   top == IF c.pixel = "gray" THEN 255 ELSE 65535
        <3>1. result' = [noData |-> f.noData, colour |-> Painted(pal, f, c.raw),
                         next |-> IF c.raw + 1 < f.noData THEN Painted(pal, f, c.raw + 1) ELSE <<>>,
                         read |-> ValueAtPixel(f, <<1, 1>>, [at \in {<<0, 0>>} |-> c.raw], 0, 0)]
            BY <2>4 DEF Paint, Evaluate
        <3>2. c \in Rasters
            BY <1>2, <2>4 DEF CallTyped
        <3>3. c.product \in DOMAIN Products /\ c.pixel \in {"gray", "gray16"} /\ c.raw \in 0 .. top
            BY <3>2, RastersAssumption
        <3>4. f.noData = top /\ f.gain = p.gain /\ f.offset = p.offset
            BY <3>3 DEF fetchFrame
        <3>5. top \in Nat \ {0}
            OBVIOUS
        <3>6. Graded(pal.stops)
            <4> HIDE DEF c
            <4> QED  BY <3>3, ResolvedPalette
        <3> HIDE DEF pal, f, top
        <3> DEFINE v == c.raw * p.gain + p.offset
                   w == (c.raw + 1) * p.gain + p.offset
        <3>7. v \in Int /\ w \in Int /\ v <= w
            <4>1. c.raw \in Nat
                BY <3>3, <3>5
            <4> HIDE DEF c
            <4> QED  BY <3>3, <4>1, ScalingGrows
        <3>8. /\ LUTAt(pal, f, c.raw) = IF c.raw \in {0, top} THEN Transparent ELSE ColourAt(pal.stops, v)
              /\ LUTAt(pal, f, c.raw + 1) = IF c.raw + 1 \in {0, top} THEN Transparent ELSE ColourAt(pal.stops, w)
            BY <3>4 DEF LUTAt
        <3>9. result'.read = IF c.raw = top THEN [state |-> "no_coverage", value |-> 0]
                             ELSE IF c.raw = 0 THEN [state |-> "no_echo", value |-> 0]
                             ELSE [state |-> "measured", value |-> c.raw * f.gain + f.offset]
            <4>1. [at \in {<<0, 0>>} |-> c.raw][<<0, 0>>] = c.raw
                OBVIOUS
            <4>2. <<1, 1>>[1] = 1 /\ <<1, 1>>[2] = 1 /\ 0 \in 0 .. (1 - 1)
                OBVIOUS
            <4>3. result'.read = ValueAtPixel(f, <<1, 1>>, [at \in {<<0, 0>>} |-> c.raw], 0, 0)
                BY <3>1
            <4> DEFINE raster == [at \in {<<0, 0>>} |-> c.raw]
            <4>4. 0 \in 0 .. (<<1, 1>>[1] - 1) /\ 0 \in 0 .. (<<1, 1>>[2] - 1)
                BY <4>2
            <4> HIDE DEF raster, c, p
            <4>5. ValueAtPixel(f, <<1, 1>>, raster, 0, 0) =
                    CASE raster[<<0, 0>>] = f.noData -> [state |-> "no_coverage", value |-> 0]
                      [] raster[<<0, 0>>] = 0        -> [state |-> "no_echo", value |-> 0]
                      [] OTHER -> [state |-> "measured", value |-> raster[<<0, 0>>] * f.gain + f.offset]
                BY <4>4 DEF ValueAtPixel
            <4>6. raster[<<0, 0>>] = c.raw
                BY <4>1 DEF raster
            <4>7. result'.read = ValueAtPixel(f, <<1, 1>>, raster, 0, 0)
                BY <4>3 DEF raster
            <4> QED  BY <3>4, <3>5, <4>5, <4>6, <4>7
        <3>10. /\ result'.noData = top /\ result'.colour = Painted(pal, f, c.raw)
               /\ result'.next # <<>> => c.raw + 1 < top /\ result'.next = Painted(pal, f, c.raw + 1)
            BY <3>1, <3>4
        <3>11. Transparent[4] = 0
            BY DEF Transparent
        <3>12. /\ result'.read.state # "measured" => c.raw \in {0, top}
               /\ (result'.read.state = "no_coverage") = (c.raw = top)
            BY <3>5, <3>9
        <3>13. \A raw : Painted(pal, f, raw)[4] = LUTAt(pal, f, raw)[4]
            BY <3>11 DEF Painted
        <3>14. result'.read.state # "measured" => result'.colour = Transparent
            BY <3>8, <3>10, <3>11, <3>12 DEF Painted
        <3>15. ASSUME result'.next # <<>> PROVE result'.colour[4] <= result'.next[4]
            <4>1. /\ ColourAt(pal.stops, v)[4] \in Byte /\ ColourAt(pal.stops, w)[4] \in Byte
                  /\ ColourAt(pal.stops, v)[4] <= ColourAt(pal.stops, w)[4]
                <5> HIDE DEF v, w
                <5> QED  BY <3>6, <3>7, NeverFainter
            <4>2. c.raw + 1 \notin {0, top} /\ c.raw # top
                BY <3>3, <3>5, <3>10, <3>15
            <4>3. LUTAt(pal, f, c.raw + 1)[4] = ColourAt(pal.stops, w)[4]
                BY <3>8, <4>2
            <4>4. LUTAt(pal, f, c.raw)[4] = 0 \/ LUTAt(pal, f, c.raw)[4] = ColourAt(pal.stops, v)[4]
                BY <3>8, <3>11
            <4>5. result'.colour[4] = LUTAt(pal, f, c.raw)[4] /\ result'.next[4] = LUTAt(pal, f, c.raw + 1)[4]
                BY <3>10, <3>13, <3>15
            <4> HIDE DEF v, w, c
            <4> QED  BY <4>1, <4>3, <4>4, <4>5 DEF Byte
        <3>16. MapAgreesWithReadout'
            BY <2>1, <3>10, <3>12, <3>14, <3>15 DEF MapAgreesWithReadout
        <3> QED  BY <2>1, <3>16
    <2> QED  BY <1>2, <2>1, <2>2, <2>3, <2>4, CallStep
<1>3. Inv => MapAgreesWithReadout
    OBVIOUS
<1> QED  BY <1>1, <1>2, <1>3, PTL DEF CallSpec

(***************************************************************************)
(* The rate gate.                                                          *)
(***************************************************************************)

USE TimeAssumption, NoneAssumption

(* The gate never runs further ahead than the longest accepted wait and one *)
(* interval; it is past the latest departure.                               *)
GateAhead ==
    /\ next <= now + maxQueue + minInterval
    /\ lastSent + Ceiling <= next

(* A waiter's slot is behind the gate, clear of the latest departure, and   *)
(* not yet missed by more than the jitter.                                  *)
SlotsHeld ==
    \A c \in Waiting :
        /\ calls[c].slot + minInterval <= next
        /\ lastSent + Ceiling <= calls[c].slot
        /\ now <= calls[c].slot + Jitter

(* No two waiters' slots are closer than the interval.                      *)
SlotsApart ==
    \A c, d \in Waiting : c # d =>
        \/ calls[c].slot + minInterval <= calls[d].slot
        \/ calls[d].slot + minInterval <= calls[c].slot

GateInv == GateAhead /\ SlotsHeld /\ SlotsApart

(***************************************************************************)
(* Type correctness.                                                       *)
(***************************************************************************)

LEMMA TypeInit == Init => TypeOK
  BY DEF Init, TypeOK, CallState, Idle

LEMMA TypeStep == TypeOK /\ [Next]_vars => TypeOK'
  <1> SUFFICES ASSUME TypeOK, [Next]_vars PROVE TypeOK'
    OBVIOUS
  <1>1. ASSUME NEW c \in Callers, NEW k \in Keys, Search(c, k) PROVE TypeOK'
    BY <1>1 DEF TypeOK, Search, CallState
  <1>2. ASSUME NEW c \in Callers, Acquire(c) PROVE TypeOK'
    <2>1. slot \in Nat
      BY DEF TypeOK, slot
    <2>2. calls' \in [Callers -> CallState] /\ next' \in Nat
      BY <1>2, <2>1 DEF TypeOK, Acquire, Wait, CallState, Idle
    <2> QED
      BY <1>2, <2>2 DEF TypeOK, Acquire
  <1>3. ASSUME NEW c \in Callers, Depart(c) PROVE TypeOK'
    BY <1>3 DEF TypeOK, Depart, CallState, Idle
  <1>4. ASSUME NEW c \in Callers, Abandon(c) PROVE TypeOK'
    BY <1>4 DEF TypeOK, Abandon, CallState
  <1>5. ASSUME NEW c \in Callers, Answer(c) PROVE TypeOK'
    BY <1>5 DEF TypeOK, Answer, CallState, Idle
  <1>6. CASE Tick
    BY <1>6 DEF TypeOK, Tick
  <1>7. CASE UNCHANGED vars
    BY <1>7 DEF TypeOK, vars
  <1> QED
    BY <1>1, <1>2, <1>3, <1>4, <1>5, <1>6, <1>7 DEF Next

(* Every variable of the gate keeps its type in every reachable state.      *)
THEOREM TypeCorrect == Spec => []TypeOK
  BY TypeInit, TypeStep, PTL DEF Spec

(***************************************************************************)
(* The gate's invariant.                                                   *)
(***************************************************************************)

LEMMA WaiterType ==
    ASSUME TypeOK, NEW c \in Waiting
    PROVE  c \in Callers /\ calls[c].slot \in Nat
  BY DEF TypeOK, Waiting, CallState, Idle

LEMMA GateInit == Init => GateInv
  BY DEF Init, GateInv, GateAhead, SlotsHeld, SlotsApart, Waiting, Idle

(* A search that stops waiting disturbs no slot.                            *)
LEMMA GateQuiet ==
    ASSUME TypeOK, GateInv, UNCHANGED <<now, next, lastSent>>, Waiting' \subseteq Waiting,
           \A c \in Waiting' : calls'[c].slot = calls[c].slot
    PROVE  GateInv'
  BY DEF GateInv, GateAhead, SlotsHeld, SlotsApart

LEMMA GateAcquire ==
    ASSUME TypeOK, GateInv, NEW c \in Callers, Acquire(c)
    PROVE  GateInv'
  <1>1. CASE slot - now > maxQueue
    <2>1. next' = next /\ calls' = [calls EXCEPT ![c] = Idle]
      BY <1>1 DEF Acquire, TypeOK, slot
    <2> QED
      BY <2>1, GateQuiet DEF TypeOK, Acquire, Waiting, Idle
  <1>2. CASE slot - now <= maxQueue
    <2>1. slot \in Nat /\ now \in Nat /\ next \in Nat /\ now <= slot /\ next <= slot
      BY DEF TypeOK, slot
    <2>2. /\ next' = slot + minInterval
          /\ calls' = [calls EXCEPT ![c].pc = "wait", ![c].slot = slot]
          /\ now' = now /\ lastSent' = lastSent
      BY <1>2, <2>1 DEF Acquire, Wait
    <2>3. Waiting' = Waiting \cup {c} /\ c \notin Waiting
      BY <2>2 DEF TypeOK, Acquire, Waiting, CallState, Idle
    <2>4. calls'[c].slot = slot
      BY <2>2 DEF TypeOK, Acquire, CallState, Idle
    <2>5. \A d \in Waiting : calls'[d].slot = calls[d].slot /\ calls[d].slot \in Nat
      BY <2>2, <2>3, WaiterType DEF TypeOK
    <2>6. GateAhead'
      BY <1>2, <2>1, <2>2 DEF TypeOK, GateInv, GateAhead
    <2>7. SlotsHeld'
      <3>1. ASSUME NEW d \in Waiting
            PROVE  /\ calls'[d].slot + minInterval <= next'
                   /\ lastSent' + Ceiling <= calls'[d].slot
                   /\ now' <= calls'[d].slot + Jitter
        <4>1. /\ calls[d].slot + minInterval <= next
              /\ lastSent + Ceiling <= calls[d].slot
              /\ now <= calls[d].slot + Jitter
          BY DEF GateInv, SlotsHeld
        <4>2. calls'[d].slot = calls[d].slot /\ calls[d].slot \in Nat
          BY <2>5
        <4>3. next <= next' /\ next \in Nat /\ next' \in Nat
          BY <2>1, <2>2
        <4>4. calls[d].slot + minInterval <= next'
          BY <4>1, <4>2, <4>3
        <4> QED
          BY <2>2, <4>1, <4>2, <4>4
      <3>2. /\ slot + minInterval <= next'
            /\ lastSent' + Ceiling <= slot
            /\ now' <= slot + Jitter
        BY <2>1, <2>2 DEF TypeOK, GateInv, GateAhead
      <3> QED
        BY <2>3, <2>4, <3>1, <3>2 DEF SlotsHeld
    <2>8. SlotsApart'
      <3>1. \A d \in Waiting : calls'[d].slot + minInterval <= calls'[c].slot
        BY <2>1, <2>4, <2>5 DEF GateInv, SlotsHeld
      <3>2. \A d, e \in Waiting : d # e =>
               \/ calls'[d].slot + minInterval <= calls'[e].slot
               \/ calls'[e].slot + minInterval <= calls'[d].slot
        BY <2>5 DEF GateInv, SlotsApart
      <3> QED
        BY <2>3, <3>1, <3>2 DEF SlotsApart
    <2> QED
      BY <2>6, <2>7, <2>8 DEF GateInv
  <1> QED
    BY <1>1, <1>2 DEF TypeOK, slot

(* The departing search's slot is due but not missed by more than Jitter,   *)
(* so every other slot, an interval away, lies Ceiling after now or was     *)
(* missed by more than Jitter, which SlotsHeld excludes.                    *)
LEMMA GateDepart ==
    ASSUME TypeOK, GateInv, NEW c \in Callers, Depart(c)
    PROVE  GateInv'
  <1>1. c \in Waiting /\ calls[c].slot \in Nat /\ calls[c].slot <= now
    BY WaiterType DEF Depart, Waiting
  <1>2. /\ Waiting' = Waiting \ {c}
        /\ \A d \in Waiting' : calls'[d].slot = calls[d].slot /\ calls[d].slot \in Nat
        /\ now' = now /\ next' = next /\ lastSent' = now
    BY WaiterType DEF Depart, TypeOK, Waiting
  <1>3. now <= calls[c].slot + Jitter /\ calls[c].slot + minInterval <= next
    BY <1>1 DEF GateInv, SlotsHeld
  <1>4. GateAhead'
    BY <1>1, <1>2, <1>3, JitterAssumption DEF TypeOK, GateInv, GateAhead
  <1>5. SlotsHeld'
    <2> SUFFICES ASSUME NEW d \in Waiting'
                 PROVE  /\ calls[d].slot + minInterval <= next
                        /\ now + Ceiling <= calls[d].slot
                        /\ now <= calls[d].slot + Jitter
      BY <1>2 DEF SlotsHeld
    <2>1. /\ d \in Waiting /\ d # c /\ calls[d].slot \in Nat
          /\ calls[d].slot + minInterval <= next
          /\ now <= calls[d].slot + Jitter
      BY <1>2 DEF GateInv, SlotsHeld
    <2>2. \/ calls[c].slot + minInterval <= calls[d].slot
          \/ calls[d].slot + minInterval <= calls[c].slot
      BY <1>1, <2>1 DEF GateInv, SlotsApart
    <2>3. now + Ceiling <= calls[d].slot
      <3>1. CASE calls[c].slot + minInterval <= calls[d].slot
        BY <1>1, <1>3, <2>1, <3>1, JitterAssumption DEF TypeOK
      <3>2. CASE calls[d].slot + minInterval <= calls[c].slot
        BY <1>1, <1>3, <2>1, <3>2, JitterAssumption DEF TypeOK
      <3> QED
        BY <2>2, <3>1, <3>2
    <2> QED
      BY <2>1, <2>3
  <1>6. SlotsApart'
    BY <1>2 DEF GateInv, SlotsApart
  <1> QED
    BY <1>4, <1>5, <1>6 DEF GateInv

LEMMA GateStep == TypeOK /\ GateInv /\ [Next]_vars => GateInv'
  <1> SUFFICES ASSUME TypeOK, GateInv, [Next]_vars PROVE GateInv'
    OBVIOUS
  <1>1. ASSUME NEW c \in Callers, NEW k \in Keys, Search(c, k) PROVE GateInv'
    BY <1>1, GateQuiet DEF TypeOK, Search, Waiting
  <1>2. ASSUME NEW c \in Callers, Acquire(c) PROVE GateInv'
    BY <1>2, GateAcquire
  <1>3. ASSUME NEW c \in Callers, Depart(c) PROVE GateInv'
    BY <1>3, GateDepart
  <1>4. ASSUME NEW c \in Callers, Abandon(c) PROVE GateInv'
    BY <1>4, GateQuiet DEF TypeOK, Abandon, Waiting, Idle
  <1>5. ASSUME NEW c \in Callers, Answer(c) PROVE GateInv'
    BY <1>5, GateQuiet DEF TypeOK, Answer, Waiting, Idle
  <1>6. CASE Tick
    <2>1. /\ now' = now + 1 /\ now \in Nat
          /\ next' = next /\ calls' = calls /\ lastSent' = lastSent /\ Waiting' = Waiting
          /\ \A c \in Waiting : now < calls[c].slot + Jitter
      BY <1>6 DEF Tick, TypeOK, Waiting
    <2>2. GateAhead'
      BY <2>1 DEF TypeOK, GateInv, GateAhead
    <2>3. SlotsHeld'
      BY <2>1, WaiterType DEF GateInv, SlotsHeld
    <2>4. SlotsApart'
      BY <2>1 DEF GateInv, SlotsApart
    <2> QED
      BY <2>2, <2>3, <2>4 DEF GateInv
  <1>7. CASE UNCHANGED vars
    BY <1>7, GateQuiet DEF vars, Waiting
  <1> QED
    BY <1>1, <1>2, <1>3, <1>4, <1>5, <1>6, <1>7 DEF Next

LEMMA GateCorrect == Spec => [](TypeOK /\ GateInv)
  <1>1. Init => TypeOK /\ GateInv
    BY TypeInit, GateInit
  <1>2. TypeOK /\ GateInv /\ [Next]_vars => (TypeOK /\ GateInv)'
    BY TypeStep, GateStep
  <1> QED
    BY <1>1, <1>2, PTL DEF Spec

(* Nominatim never sees two requests closer than its limit, whatever        *)
(* number of searches overlap, are abandoned or refused.                    *)
THEOREM RequestsSpaced == Spec => DeparturesSpaced
  <1>1. TypeOK /\ GateInv => \A c \in Callers : Depart(c) => now >= lastSent + Ceiling
    <2> SUFFICES ASSUME TypeOK, GateInv, NEW c \in Callers, Depart(c)
                 PROVE  now >= lastSent + Ceiling
      OBVIOUS
    <2>1. c \in Waiting /\ calls[c].slot \in Nat /\ calls[c].slot <= now
      BY WaiterType DEF Depart, Waiting
    <2> QED
      BY <2>1 DEF TypeOK, GateInv, SlotsHeld
  <1>2. TypeOK /\ GateInv /\ [Next]_vars
            => [\A c \in Callers : Depart(c) => now >= lastSent + Ceiling]_vars
    BY <1>1
  <1> QED
    BY <1>2, GateCorrect, PTL DEF Spec, DeparturesSpaced

(* A refused visitor who waits Retry-After would be let in.                 *)
THEOREM RefusalClears == Spec => []RetryAfterSuffices
  <1>1. TypeOK /\ GateInv => RetryAfterSuffices
    BY RetryAssumption DEF TypeOK, GateInv, GateAhead, RetryAfterSuffices
  <1> QED
    BY <1>1, GateCorrect, PTL

(***************************************************************************)
(* The queue.                                                              *)
(***************************************************************************)

LEMMA DivBounds ==
    ASSUME NEW a \in Nat, NEW m \in Nat \ {0}
    PROVE  /\ a \div m \in Nat
           /\ m * (a \div m) <= a
           /\ a < m * (a \div m) + m
  BY SMT

LEMMA MulMonotone ==
    ASSUME NEW m \in Nat \ {0}, NEW p \in Nat, NEW q \in Nat, p <= q
    PROVE  m * p <= m * q
  BY SMT

LEMMA DivApart ==
    ASSUME NEW a \in Nat, NEW b \in Nat, NEW m \in Nat \ {0}, a + m <= b
    PROVE  a \div m # b \div m
  <1> DEFINE p == a \div m
             q == b \div m
  <1>1. p \in Nat /\ q \in Nat /\ m * p <= a /\ b < m * q + m
    BY DivBounds
  <1>2. m * p \in Int
    BY <1>1
  <1> HIDE DEF p, q
  <1>3. p # q
    BY <1>1, <1>2
  <1> QED
    BY <1>3 DEF p, q

(* Slots an interval apart, none overslept and none beyond the longest      *)
(* accepted wait: numbering them in intervals tells them apart.             *)
LEMMA QueueFits ==
    ASSUME TypeOK, GateInv
    PROVE  QueueBounded
  <1> DEFINE width == maxQueue + Jitter
             most == width \div minInterval
             age(c) == calls[c].slot - (now - Jitter)
             number == [c \in Waiting |-> age(c) \div minInterval]
  <1>1. width \in Nat /\ most \in Nat
    BY DivBounds
  <1>2. \A c \in Waiting : age(c) \in Nat /\ age(c) <= width
    BY WaiterType DEF TypeOK, GateInv, SlotsHeld, GateAhead
  <1>3. \A c \in Waiting : number[c] \in 0..most
    <2>1. ASSUME NEW c \in Waiting PROVE age(c) \div minInterval \in 0..most
      <3> DEFINE a == age(c)
      <3>1. a \in Nat /\ a <= width
        BY <1>2
      <3> HIDE DEF a, width
      <3>2. a \div minInterval \in Nat /\ a \div minInterval <= most
        BY <1>1, <3>1, DivBounds, DivMonotone
      <3> QED
        BY <1>1, <3>2 DEF a
    <2> QED
      BY <2>1
  <1>4. ASSUME NEW c \in Waiting, NEW d \in Waiting, c # d
        PROVE  number[c] # number[d]
    <2> DEFINE a == age(c)
               b == age(d)
    <2>1. a \in Nat /\ b \in Nat
      BY <1>2
    <2>2. a + minInterval <= b \/ b + minInterval <= a
      BY <1>4, WaiterType DEF TypeOK, GateInv, SlotsApart
    <2> HIDE DEF a, b
    <2>3. a \div minInterval # b \div minInterval
      BY <2>1, <2>2, DivApart
    <2> QED
      BY <2>3 DEF a, b
  <1> HIDE DEF age, most, width
  <1>5. number \in Injection(Waiting, 0..most)
    BY <1>3, <1>4 DEF Injection, IsInjective
  <1> HIDE DEF number
  <1>6. IsFiniteSet(0..most) /\ Cardinality(0..most) = most + 1
    BY <1>1, FS_Interval
  <1>7. Cardinality(Waiting) <= most + 1
    BY <1>5, <1>6, FS_Injection
  <1> QED
    BY <1>7 DEF QueueBounded, most, width

(* Whatever searches arrive, give up or are refused, no more of them sleep  *)
(* at the gate than slots fit into the longest accepted wait.               *)
THEOREM QueueNeverLonger == Spec => []QueueBounded
  BY QueueFits, GateCorrect, PTL

(***************************************************************************)
(* Sorting. Sorted picks one of the orders in which no key decreases: there*)
(* is one, and it lists every member.                                      *)
(***************************************************************************)
LEMMA ModOfMultiple ==
    ASSUME NEW q \in Int, NEW r \in Nat \ {0}, NEW c \in 0 .. (r - 1)
    PROVE  (q * r + c) % r = c
<1> DEFINE x == q * r + c
<1>1. x \in Int /\ x \div r = q
    BY DivOfMultiple
<1>2. x = r * (x \div r) + (x % r)
    <2> HIDE DEF x
    <2> QED  BY <1>1
<1>3. q * r \in Int /\ r * q = q * r /\ x % r \in Int
    <2> HIDE DEF x
    <2>1. x % r \in Int
        BY <1>1
    <2> QED  BY <2>1
<1>4. x = q * r + (x % r)
    <2> HIDE DEF x
    <2> QED  BY <1>1, <1>2, <1>3
<1> QED  BY <1>3, <1>4

(* Of finitely many things, some has the largest key.                       *)
LEMMA Topmost ==
    ASSUME NEW S, IsFiniteSet(S), S # {}, NEW key, \A x \in S : key[x] \in Int
    PROVE  \E x \in S : \A y \in S : key[y] <= key[x]
<1> DEFINE n == Cardinality(S)
           Has(T) == T # {} => \E x \in T : \A y \in T : key[y] <= key[x]
           K == {k \in 0 .. n : \A T \in SUBSET S : Cardinality(T) = k => Has(T)}
<1>1. n \in Nat /\ \A T \in SUBSET S : IsFiniteSet(T) /\ Cardinality(T) \in Nat
    BY FS_CardinalityType, FS_Subset
<1>2. 0 \in K
    BY <1>1, FS_EmptySet
<1>3. ASSUME NEW k \in 1 .. n, k - 1 \in K PROVE k \in K
    <2> SUFFICES ASSUME NEW T \in SUBSET S, Cardinality(T) = k, T # {} PROVE Has(T)
        BY <1>1
    <2>1. PICK z \in T : TRUE
        OBVIOUS
    <2> DEFINE U == T \ {z}
    <2>2. U \in SUBSET S /\ Cardinality(U) = k - 1
        BY <1>1, <2>1, FS_RemoveElement
    <2>3. Has(U)
        <3> HIDE DEF Has, U
        <3> QED  BY <1>3, <2>2
    <2>4. CASE U = {}
        <3>1. \A y \in T : y = z
            BY <2>1, <2>4
        <3>2. key[z] \in Int
            BY <2>1
        <3> QED  BY <2>1, <3>1, <3>2
    <2>5. CASE U # {}
        <3>1. PICK x \in U : \A y \in U : key[y] <= key[x]
            BY <2>3, <2>5
        <3>2. key[x] \in Int /\ key[z] \in Int /\ x \in T /\ (key[z] <= key[x] \/ key[x] <= key[z])
            BY <2>1, <3>1
        <3>3. \A y \in T : key[y] \in Int /\ (y = z \/ y \in U)
            OBVIOUS
        <3>4. CASE key[z] <= key[x]
            BY <3>1, <3>2, <3>3, <3>4
        <3>5. CASE key[x] <= key[z]
            <4>1. \A y \in T : key[y] <= key[z]
                BY <3>1, <3>2, <3>3, <3>5
            <4> QED  BY <2>1, <4>1
        <3> QED  BY <3>2, <3>4, <3>5
    <2> QED  BY <2>4, <2>5
<1>4. n \in K
    <2> HIDE DEF K, n
    <2>1. \A k \in 0 .. n : k \in K
        BY <1>1, <1>2, <1>3, UpTo
    <2> QED  BY <1>1, <2>1
<1>5. S \in SUBSET S /\ Cardinality(S) = n
    OBVIOUS
<1> QED  BY <1>4, <1>5

(* No key decreases along l.                                                *)
Ordered(l, key) == \A i, j \in DOMAIN l : i < j => key[l[i]] <= key[l[j]]

LEMMA Sortable ==
    ASSUME NEW S, IsFiniteSet(S), NEW key, \A x \in S : key[x] \in Int
    PROVE  \E l \in SetToSeqs(S) : Ordered(l, key)
<1> DEFINE n == Cardinality(S)
           Has(T) == \E l \in SetToSeqs(T) : Ordered(l, key)
           K == {k \in 0 .. n : \A T \in SUBSET S : Cardinality(T) = k => Has(T)}
<1>1. n \in Nat /\ \A T \in SUBSET S : IsFiniteSet(T) /\ Cardinality(T) \in Nat
    BY FS_CardinalityType, FS_Subset
<1>2. 0 \in K
    <2> SUFFICES Has({})
        BY <1>1, FS_EmptySet
    <2>1. 1 .. 0 = {} /\ Cardinality({}) = 0
        BY FS_EmptySet
    <2>2. <<>> \in SetToSeqs({})
        BY <2>1 DEF SetToSeqs
    <2> QED  BY <2>2 DEF Ordered
<1>3. ASSUME NEW k \in 1 .. n, k - 1 \in K PROVE k \in K
    <2> SUFFICES ASSUME NEW T \in SUBSET S, Cardinality(T) = k PROVE Has(T)
        BY <1>1
    <2>0. k \in Nat /\ k # 0 /\ k - 1 \in Nat
        BY <1>1
    <2>1. T # {}
        BY <2>0, FS_EmptySet
    <2>2. PICK z \in T : \A y \in T : key[y] <= key[z]
        <3>1. IsFiniteSet(T) /\ \A x \in T : key[x] \in Int
            BY <1>1
        <3> QED  BY <2>1, <3>1, Topmost
    <2> DEFINE U == T \ {z}
    <2>3. U \in SUBSET S /\ Cardinality(U) = k - 1
        BY <1>1, <2>2, FS_RemoveElement
    <2>4. PICK l \in SetToSeqs(U) : Ordered(l, key)
        <3>1. Has(U)
            <4> HIDE DEF Has, U
            <4> QED  BY <1>3, <2>3
        <3> QED  BY <3>1
    <2>5. l \in [1 .. (k - 1) -> U] /\ \A i, j \in 1 .. (k - 1) : i # j => l[i] # l[j]
        <3> HIDE DEF U
        <3> QED  BY <2>3, <2>4 DEF SetToSeqs
    <2> DEFINE longer == [i \in 1 .. k |-> IF i = k THEN z ELSE l[i]]
    <2>6. \A i \in 1 .. k : i = k \/ i \in 1 .. (k - 1)
        BY <2>0
    <2>7. \A i \in 1 .. (k - 1) : i \in 1 .. k /\ i # k /\ l[i] \in T /\ l[i] # z
        BY <2>0, <2>5
    <2>8. DOMAIN longer = 1 .. k /\ longer[k] = z /\ k \in 1 .. k /\ \A i \in 1 .. (k - 1) : longer[i] = l[i]
        BY <2>0, <2>7
    <2>9. longer \in [1 .. k -> T]
        BY <2>2, <2>6, <2>7
    <2> HIDE DEF longer
    <2>10. \A i, j \in 1 .. k : i # j => longer[i] # longer[j]
        <3> TAKE i, j \in 1 .. k
        <3>1. CASE i = k /\ j # k
            BY <3>1, <2>6, <2>7, <2>8
        <3>2. CASE j = k /\ i # k
            BY <3>2, <2>6, <2>7, <2>8
        <3>3. CASE i # k /\ j # k
            <4>1. i \in 1 .. (k - 1) /\ j \in 1 .. (k - 1)
                BY <3>3, <2>6
            <4> QED  BY <4>1, <2>5, <2>8
        <3> QED  BY <3>1, <3>2, <3>3
    <2>11. longer \in SetToSeqs(T)
        BY <2>9, <2>10 DEF SetToSeqs
    <2>12. Ordered(longer, key)
        <3> SUFFICES ASSUME NEW i \in 1 .. k, NEW j \in 1 .. k, i < j
                     PROVE  key[longer[i]] <= key[longer[j]]
            BY <2>8 DEF Ordered
        <3>1. i \in 1 .. (k - 1)
            BY <2>0
        <3>2. CASE j = k
            BY <3>1, <3>2, <2>2, <2>7, <2>8
        <3>3. CASE j # k
            <4>1. j \in 1 .. (k - 1)
                BY <3>3, <2>6
            <4>2. DOMAIN l = 1 .. (k - 1)
                BY <2>5
            <4>3. key[l[i]] <= key[l[j]]
                BY <4>1, <4>2, <3>1, <2>4 DEF Ordered
            <4> QED  BY <4>1, <4>3, <3>1, <2>8
        <3> QED  BY <3>2, <3>3
    <2> QED  BY <2>11, <2>12
<1>4. n \in K
    <2> HIDE DEF K, n
    <2>1. \A k \in 0 .. n : k \in K
        BY <1>1, <1>2, <1>3, UpTo
    <2> QED  BY <1>1, <2>1
<1>5. S \in SUBSET S /\ Cardinality(S) = n
    OBVIOUS
<1> QED  BY <1>4, <1>5

(* l lists the members of S, each at a position of its own, by key.         *)
Lists(l, S, key) ==
    /\ \E n \in Nat : l \in [1 .. n -> S]
    /\ \A x \in S : \E i \in DOMAIN l : l[i] = x
    /\ Ordered(l, key)

LEMMA SortedLists ==
    ASSUME NEW S, IsFiniteSet(S), NEW key, \A x \in S : key[x] \in Int
    PROVE  Lists(Sorted(S, key), S, key)
<1> DEFINE n == Cardinality(S)
           l == Sorted(S, key)
<1>1. n \in Nat
    BY FS_CardinalityType
<1>2. l \in SetToSeqs(S) /\ Ordered(l, key)
    <2>1. \E s \in SetToSeqs(S) : \A i, j \in DOMAIN s : i < j => key[s[i]] <= key[s[j]]
        BY Sortable DEF Ordered
    <2> QED  BY <2>1 DEF Sorted, Ordered
<1> HIDE DEF l
<1>3. l \in [1 .. n -> S] /\ \A i, j \in 1 .. n : i # j => l[i] # l[j]
    BY <1>2 DEF SetToSeqs
<1>4. l \in Injection(1 .. n, S)
    BY <1>3 DEF Injection, IsInjective
<1>5. Cardinality(1 .. n) = n
    BY <1>1, FS_Interval
<1>6. l \in Surjection(1 .. n, S)
    BY <1>4, <1>5, FS_Injection
<1>7. \A x \in S : \E i \in DOMAIN l : l[i] = x
    BY <1>3, <1>6 DEF Surjection
<1> QED  BY <1>1, <1>2, <1>3, <1>7 DEF Lists, l

(***************************************************************************)
(* The headline of a series.                                               *)
(***************************************************************************)

(* The readings of some parameters, and what Headline's loop has read so    *)
(* far, one per entry of the series.                                        *)
Readings == UNION {[S -> Int] : S \in SUBSET Parameters}

LEMMA OverwrittenTyped ==
    ASSUME NEW values \in Readings, NEW r, r.values \in Readings
    PROVE  Overwritten(values, r) \in Readings
<1>1. PICK S \in SUBSET Parameters : values \in [S -> Int]
    BY DEF Readings
<1>2. PICK R \in SUBSET Parameters : r.values \in [R -> Int]
    BY DEF Readings
<1>3. Overwritten(values, r) \in [S \cup R -> Int]
    BY <1>1, <1>2 DEF Overwritten
<1>4. S \cup R \in SUBSET Parameters
    OBVIOUS
<1> QED  BY <1>3, <1>4 DEF Readings

LEMMA OverwriteHistory ==
    ASSUME NEW V, NEW base \in V, NEW D, NEW q \in Seq(D),
           \A v \in V, d \in D : Overwritten(v, d) \in V
    PROVE  \E h :
              /\ Walk(h, V, base, Len(q), FoldLeft(Overwritten, base, q))
              /\ \A k \in 1 .. Len(q) : h[k] = Overwritten(h[k - 1], q[k])
<1> DEFINE n == Len(q)
           step == [p \in V \X (1 .. n) |-> Overwritten(p[1], q[p[2]])]
           Solves(it) == it = [S \in SUBSET DOMAIN q |->
                                 IF S = {} THEN base ELSE Overwritten(it[S \ {Max(S)}], q[Max(S)])]
           c == CHOOSE it : Solves(it)
<1>1. n \in Nat /\ DOMAIN q = 1 .. n /\ \A i \in 1 .. n : q[i] \in D
    BY LenProperties
<1>2. step \in [V \X (1 .. n) -> V]
    BY <1>1
<1>3. PICK it \in [SUBSET (1 .. n) -> V] : IsFold(it, base, step, n)
    <2>1. n \in Nat
        BY <1>1
    <2> HIDE DEF step, n
    <2> QED  BY <2>1, <1>2, FoldExists
<1>4. \A S \in SUBSET (1 .. n) : it[S] = IF S = {} THEN base ELSE Overwritten(it[S \ {Max(S)}], q[Max(S)])
    <2> SUFFICES ASSUME NEW S \in SUBSET (1 .. n), S # {}
                 PROVE  step[<<it[S \ {Max(S)}], Max(S)>>] = Overwritten(it[S \ {Max(S)}], q[Max(S)])
        BY <1>3 DEF IsFold
    <2>1. Max(S) \in 1 .. n
        BY <1>1, LastPosition
    <2>2. it[S \ {Max(S)}] \in V
        BY <1>3
    <2> QED  BY <2>1, <2>2
<1>5. Solves(it)
    BY <1>1, <1>3, <1>4
<1>6. Solves(c)
    <2> HIDE DEF Solves
    <2> QED  BY <1>5
<1>7. FoldLeft(Overwritten, base, q) = c[1 .. n] /\ c[{}] = base
    <2>1. FoldLeft(Overwritten, base, q) = c[DOMAIN q]
        BY DEF FoldLeft, MapThenFoldSet
    <2> QED  BY <2>1, <1>1, <1>6
<1>8. \A k \in 1 .. n : c[1 .. k] = Overwritten(c[1 .. (k - 1)], q[k])
    <2> TAKE k \in 1 .. n
    <2>1. (1 .. k) \in SUBSET (1 .. n) /\ (1 .. k) # {} /\ Max(1 .. k) = k /\ (1 .. k) \ {k} = 1 .. (k - 1)
        BY <1>1, PrefixMax
    <2>2. c[1 .. k] = Overwritten(c[(1 .. k) \ {Max(1 .. k)}], q[Max(1 .. k)])
        <3> HIDE DEF c
        <3> QED  BY <2>1, <1>1, <1>6
    <2> QED  BY <2>1, <2>2
<1> HIDE DEF c
<1>9. UnfoldsTo(c, base, step, V, n)
    BY <1>7, <1>8 DEF UnfoldsTo
<1>10. PICK h : IsHistory(h, V, base, step, n, c[1 .. n])
    <2>1. n \in Nat
        BY <1>1
    <2> HIDE DEF step, n
    <2> QED  BY <2>1, <1>2, <1>9, FoldByStep
<1>11. h[0] = base /\ \A k \in 1 .. n : h[k] = Overwritten(h[k - 1], q[k])
    <2> SUFFICES ASSUME NEW k \in 1 .. n PROVE h[k] = Overwritten(h[k - 1], q[k])
        BY <1>10 DEF IsHistory
    <2>1. h[k - 1] \in V
        BY <1>1, <1>10 DEF IsHistory
    <2> QED  BY <2>1, <1>10 DEF IsHistory
<1>12. Walk(h, V, base, n, c[1 .. n])
    BY <1>10 DEF IsHistory, Walk
<1> QED  BY <1>7, <1>11, <1>12

(* The first n readings that hold c.                                        *)
Holding(series, c, n) == {i \in 1 .. n : c \in DOMAIN series[i].values}

(* What values holds for c is the last of them.                             *)
HoldsLatest(values, series, c, n) ==
    /\ c \in DOMAIN values <=> Holding(series, c, n) # {}
    /\ Holding(series, c, n) # {} => values[c] = series[Max(Holding(series, c, n))].values[c]

LEMMA OverwrittenHolds ==
    ASSUME NEW series, NEW c, NEW n \in Nat \ {0}, NEW values, HoldsLatest(values, series, c, n - 1)
    PROVE  HoldsLatest(Overwritten(values, series[n]), series, c, n)
<1> DEFINE out == Overwritten(values, series[n])
<1>1. /\ DOMAIN out = DOMAIN values \cup DOMAIN series[n].values
      /\ c \in DOMAIN series[n].values => out[c] = series[n].values[c]
      /\ c \in DOMAIN values /\ c \notin DOMAIN series[n].values => out[c] = values[c]
    BY DEF Overwritten
<1> HIDE DEF out
<1>2. CASE c \in DOMAIN series[n].values
    <2> DEFINE S == Holding(series, c, n)
    <2>1. n \in Nat /\ S \in SUBSET (1 .. n) /\ n \in S
        BY <1>2 DEF Holding
    <2> HIDE DEF S
    <2>2. Max(S) \in S /\ \A i \in S : i <= Max(S)
        BY <2>1, LastPosition
    <2>3. Max(S) = n
        <3>1. Max(S) \in 1 .. n /\ n <= Max(S)
            BY <2>1, <2>2
        <3> QED  BY <3>1
    <2> QED  BY <1>1, <1>2, <2>1, <2>3 DEF HoldsLatest, S, out
<1>3. CASE c \notin DOMAIN series[n].values
    <2>1. Holding(series, c, n) = Holding(series, c, n - 1)
        BY <1>3 DEF Holding
    <2> QED  BY <1>1, <1>3, <2>1 DEF HoldsLatest, out
<1> QED  BY <1>2, <1>3

(* The headline holds of each parameter the last reading of the series that *)
(* has it, and nothing the series does not have.                            *)
LEMMA HeadlineHolds ==
    ASSUME NEW D, \A d \in D : d.values \in Readings, NEW series \in Seq(D), NEW c
    PROVE  HoldsLatest(Headline(series), series, c, Len(series))
<1> DEFINE n == Len(series)
<1>1. n \in Nat
    BY LenProperties
<1>2. <<>> \in Readings /\ HoldsLatest(<<>>, series, c, 0)
    <2>1. <<>> \in [{} -> Int] /\ DOMAIN <<>> = {}
        OBVIOUS
    <2>2. <<>> \in Readings
        BY <2>1 DEF Readings
    <2>3. Holding(series, c, 0) = {}
        BY DEF Holding
    <2> QED  BY <2>1, <2>2, <2>3 DEF HoldsLatest
<1>3. PICK h : /\ Walk(h, Readings, <<>>, n, Headline(series))
               /\ \A k \in 1 .. n : h[k] = Overwritten(h[k - 1], series[k])
    <2>1. \A v \in Readings, d \in D : Overwritten(v, d) \in Readings
        BY OverwrittenTyped
    <2> QED  BY <1>2, <2>1, OverwriteHistory DEF Headline
<1> DEFINE K == {k \in 0 .. n : HoldsLatest(h[k], series, c, k)}
<1>4. 0 \in K
    BY <1>1, <1>2, <1>3 DEF Walk
<1>5. ASSUME NEW k \in 1 .. n, k - 1 \in K PROVE k \in K
    <2>1. HoldsLatest(h[k - 1], series, c, k - 1) /\ k \in Nat \ {0}
        BY <1>1, <1>5
    <2>2. HoldsLatest(Overwritten(h[k - 1], series[k]), series, c, k)
        BY <2>1, OverwrittenHolds
    <2> QED  BY <1>1, <1>3, <2>2
<1>6. n \in K
    <2> HIDE DEF K, n
    <2>1. \A k \in 0 .. n : k \in K
        BY <1>1, <1>4, <1>5, UpTo
    <2> QED  BY <1>1, <2>1
<1> QED  BY <1>3, <1>6 DEF Walk

(***************************************************************************)
(* What a report becomes: a row per reading, with its place and instant.   *)
(***************************************************************************)

(* What one entry of a report says, placeholders left out.                  *)
Says(report, i) ==
    [c \in {p \in Parameters : Meaning(p, report[i].values[p]) # NaN} |-> Meaning(c, report[i].values[c])]

(* The member sent, half by half.                                           *)
LEMMA SentMember ==
    ASSUME NEW report \in Reports, NEW layout \in Layouts
    PROVE  LET m == Encoded(report, layout).members[1]
               w == Len(layout.fields)
           IN  /\ Encoded(report, layout) = Coverage(<<m>>)
               /\ m.fields = layout.fields
               /\ m.positions = [i \in 1 .. (Len(report) * 3) |->
                        LET r == report[((i - 1) \div 3) + 1]
                        IN  <<layout.place[r.id][1], layout.place[r.id][2], r.time>>[((i - 1) % 3) + 1]]
               /\ m.tuples = [i \in 1 .. (Len(report) * w) |->
                        report[((i - 1) \div w) + 1].values[layout.fields[((i - 1) % w) + 1]]]
               /\ m.points = [k \in DOMAIN layout.points |->
                        [id |-> layout.points[k], pos |-> layout.drawn[layout.points[k]]]]
               /\ m.locations = [k \in DOMAIN layout.locations |->
                        [id |-> layout.locations[k],
                         names |-> << [space |-> "geoid", value |-> 100],
                                      [space |-> "name", value |-> layout.locations[k]] >>]]
    BY DEF Encoded, Coverage

(* Entry i is row i: its position triple.                                   *)
LEMMA SentPosition ==
    ASSUME NEW report \in Reports, NEW layout \in Layouts, NEW i \in DOMAIN report
    PROVE  LET m == Encoded(report, layout).members[1]
           IN  /\ m.positions[3 * i - 2] = layout.place[report[i].id][1]
               /\ m.positions[3 * i - 1] = layout.place[report[i].id][2]
               /\ m.positions[3 * i] = report[i].time
<1> DEFINE m == Encoded(report, layout).members[1]
           n == Len(report)
           f(k) == LET r == report[((k - 1) \div 3) + 1]
                   IN  <<layout.place[r.id][1], layout.place[r.id][2], r.time>>[((k - 1) % 3) + 1]
<1>1. n \in Nat /\ i \in 1 .. n
    BY ReportsAssumption
<1>2. m.positions = [k \in 1 .. (n * 3) |-> f(k)]
    BY SentMember
<1>3. 3 * i - 2 \in 1 .. (n * 3) /\ 3 * i - 1 \in 1 .. (n * 3) /\ 3 * i \in 1 .. (n * 3)
    <2> HIDE DEF n
    <2> QED  BY <1>1
<1>4. /\ ((3 * i - 2 - 1) \div 3) + 1 = i /\ ((3 * i - 2 - 1) % 3) + 1 = 1
      /\ ((3 * i - 1 - 1) \div 3) + 1 = i /\ ((3 * i - 1 - 1) % 3) + 1 = 2
      /\ ((3 * i - 1) \div 3) + 1 = i /\ ((3 * i - 1) % 3) + 1 = 3
    <2> HIDE DEF n
    <2> QED  BY <1>1
<1>5. /\ f(3 * i - 2) = layout.place[report[i].id][1]
      /\ f(3 * i - 1) = layout.place[report[i].id][2]
      /\ f(3 * i) = report[i].time
    <2> HIDE DEF n, m
    <2>1. \A k \in Int : ((k - 1) \div 3) + 1 = i /\ ((k - 1) % 3) + 1 = 1 => f(k) = layout.place[report[i].id][1]
        OBVIOUS
    <2>2. \A k \in Int : ((k - 1) \div 3) + 1 = i /\ ((k - 1) % 3) + 1 = 2 => f(k) = layout.place[report[i].id][2]
        OBVIOUS
    <2>3. \A k \in Int : ((k - 1) \div 3) + 1 = i /\ ((k - 1) % 3) + 1 = 3 => f(k) = report[i].time
        OBVIOUS
    <2>4. 3 * i - 2 \in Int /\ 3 * i - 1 \in Int /\ 3 * i \in Int
        BY <1>1
    <2> HIDE DEF f
    <2> QED  BY <1>4, <2>1, <2>2, <2>3, <2>4
<1> HIDE DEF f, n, m
<1>6. QED
    BY <1>2, <1>3, <1>5 DEF m

LEMMA OneMore == ASSUME NEW a \in Int, NEW w \in Int PROVE (a - 1) * w + w = a * w
    OBVIOUS

LEMMA TimesMonotone ==
    ASSUME NEW a \in Nat, NEW b \in Nat, a <= b, NEW w \in Nat PROVE a * w <= b * w /\ a * w \in Nat
    OBVIOUS

(* Cell j of row i, of n rows of w cells laid end to end.                   *)
IsCell(k, n, w, i, j) == k \in 1 .. (n * w) /\ ((k - 1) \div w) + 1 = i /\ ((k - 1) % w) + 1 = j

LEMMA CellOfRow ==
    ASSUME NEW n \in Nat, NEW i \in 1 .. n, NEW w \in Nat \ {0}, NEW j \in 1 .. w
    PROVE  IsCell((i - 1) * w + j, n, w, i, j)
<1> DEFINE s == (i - 1) * w
<1>1. i - 1 \in Nat /\ i \in Nat /\ i <= n /\ i - 1 <= i /\ j - 1 \in 0 .. (w - 1)
    OBVIOUS
<1>2. s \in Nat /\ i * w <= n * w /\ i * w \in Nat /\ n * w \in Nat
    BY <1>1, TimesMonotone
<1>3. s + w = i * w
    BY <1>1, OneMore
<1>4. (s + (j - 1)) \div w = i - 1 /\ (s + (j - 1)) % w = j - 1
    <2> DEFINE q == i - 1
               c == j - 1
    <2>1. q \in Int /\ c \in 0 .. (w - 1)
        BY <1>1
    <2> HIDE DEF q, c
    <2>2. (q * w + c) \div w = q
        BY <2>1, DivOfMultiple
    <2>3. (q * w + c) % w = c
        BY <2>1, ModOfMultiple
    <2> QED  BY <2>2, <2>3 DEF q, c
<1> HIDE DEF s
<1>5. s + j \in 1 .. (n * w)
    BY <1>2, <1>3
<1>6. s + j - 1 = s + (j - 1)
    BY <1>2
<1>7. ((s + j - 1) \div w) + 1 = i /\ ((s + j - 1) % w) + 1 = j
    BY <1>1, <1>4, <1>6
<1> QED  BY <1>5, <1>7 DEF s, IsCell

(* Entry i is row i: its tuple.                                             *)
LEMMA SentValue ==
    ASSUME NEW report \in Reports, NEW layout \in Layouts, NEW i \in DOMAIN report,
           NEW j \in 1 .. Len(layout.fields)
    PROVE  Encoded(report, layout).members[1].tuples[(i - 1) * Len(layout.fields) + j]
               = report[i].values[layout.fields[j]]
<1> DEFINE m == Encoded(report, layout).members[1]
           n == Len(report)
           w == Len(layout.fields)
           k == (i - 1) * w + j
<1>1. n \in Nat /\ i \in 1 .. n
    BY ReportsAssumption
<1>2. w \in Nat \ {0} /\ j \in 1 .. w
    BY LayoutsAssumption
<1>3. m.tuples = [x \in 1 .. (n * w) |-> report[((x - 1) \div w) + 1].values[layout.fields[((x - 1) % w) + 1]]]
    BY SentMember
<1> HIDE DEF n, w, m
<1>4. IsCell(k, n, w, i, j)
    BY <1>1, <1>2, CellOfRow
<1> HIDE DEF k
<1>5. m.tuples[k] = report[i].values[layout.fields[j]]
    BY <1>3, <1>4 DEF IsCell
<1> QED  BY <1>5 DEF k, w, m

(* The halves are three and as many as there are fields times as long as    *)
(* the report.                                                              *)
LEMMA SentLength ==
    ASSUME NEW report, Len(report) \in Nat, NEW layout, Len(layout.fields) \in Nat \ {0}
    PROVE  LET m == Encoded(report, layout).members[1]
           IN  Len(m.positions) = Len(report) * 3 /\ Len(m.tuples) = Len(report) * Len(layout.fields)
<1> DEFINE ps == Encoded(report, layout).members[1].positions
           ts == Encoded(report, layout).members[1].tuples
           n == Len(report) * 3
           k == Len(report) * Len(layout.fields)
<1>1. ps = [i \in 1 .. n |-> ps[i]]
    BY Sent
<1>2. ts = [i \in 1 .. k |-> ts[i]]
    BY Sent
<1>3. n \in Nat /\ k \in Nat
    OBVIOUS
<1> HIDE DEF ps, ts, n, k
<1>4. Len(ps) = n
    BY <1>1, <1>3, LengthOf
<1>5. Len(ts) = k
    BY <1>2, <1>3, LengthOf
<1> QED  BY <1>4, <1>5 DEF ps, ts, n, k

(* The response is read, and every entry is a readable row of it.           *)
LEMMA SentReads ==
    ASSUME NEW report \in Reports, NEW layout \in Layouts
    PROVE  LET body == Encoded(report, layout)
           IN  /\ Parses(body)
               /\ Parse(body).fields = layout.fields
               /\ Parse(body).samples = [p \in {1} \X DOMAIN report |-> Row(body.members[1], p[2])]
<1> DEFINE body == Encoded(report, layout)
           m == body.members[1]
           n == Len(report)
           w == Len(layout.fields)
<1>1. n \in Nat /\ DOMAIN report = 1 .. n
    BY ReportsAssumption
<1>2. w \in Nat \ {0}
    BY LayoutsAssumption
<1>3. body = Coverage(<<m>>) /\ m.fields = layout.fields
    BY SentMember
<1>4. Len(m.positions) = n * 3 /\ Len(m.tuples) = n * w
    BY <1>1, <1>2, SentLength
<1>5. Count(m) = n /\ Width(m) = w /\ Len(m.positions) % 3 = 0
    <2> HIDE DEF n, w, m
    <2>1. (n * 3) \div 3 = n /\ (n * 3) % 3 = 0
        BY <1>1
    <2> QED  BY <1>3, <1>4, <2>1 DEF Count, Width, w
<1>6. Aligned(m)
    <2> HIDE DEF n, w, m
    <2> QED  BY <1>4, <1>5 DEF Aligned
<1>7. body.kind = "coverage" /\ body.members = <<m>> /\ DOMAIN body.members = {1}
    <2> HIDE DEF m, body
    <2> QED  BY <1>3 DEF Coverage
<1>8. Parses(body)
    <2> HIDE DEF m, body
    <2> QED  BY <1>6, <1>7 DEF Parses, ToSet
<1>9. Rows(m) = DOMAIN report
    <2>1. ASSUME NEW i \in DOMAIN report
          PROVE  /\ m.positions[3 * i - 2] \in Int /\ m.positions[3 * i - 1] \in Int /\ m.positions[3 * i] \in Int
        <3>1. report[i].id \in DOMAIN layout.place /\ report[i].time \in Int
            BY ReportsAssumption
        <3>2. layout.place[report[i].id][1] \in Int /\ layout.place[report[i].id][2] \in Int
            BY <3>1, LayoutsAssumption
        <3> QED  BY <3>1, <3>2, SentPosition
    <2> HIDE DEF m, n
    <2> QED  BY <1>1, <1>5, <2>1, TokensAssumption DEF Rows
<1>10. FieldsOf(body.members) = layout.fields
    <2> HIDE DEF m, body
    <2>1. m.fields # <<>>
        <3>1. DOMAIN layout.fields = 1 .. w
            BY LayoutsAssumption
        <3>2. 1 \in DOMAIN layout.fields
            <4> HIDE DEF w
            <4> QED  BY <1>2, <3>1
        <3> QED  BY <1>3, <3>2
    <2> DEFINE named == {k \in DOMAIN body.members : body.members[k].fields # <<>>}
    <2>2. named = {1} /\ body.members[1] = m
        BY <1>7, <2>1
    <2>3. Min({1}) = 1
        BY DEF Min
    <2> QED  BY <1>3, <2>2, <2>3 DEF FieldsOf
<1>11. Places([k \in DOMAIN body.members |-> Rows(body.members[k])]) = {1} \X DOMAIN report
    <2> HIDE DEF m, body
    <2>1. body.members[1] = m
        BY <1>7
    <2>2. [k \in DOMAIN body.members |-> Rows(body.members[k])] = [k \in {1} |-> DOMAIN report]
        BY <1>7, <1>9, <2>1
    <2>3. Places([k \in {1} |-> DOMAIN report]) = {1} \X DOMAIN report
        BY DEF Places
    <2> QED  BY <2>2, <2>3
<1>12. Parse(body).fields = layout.fields
    <2> HIDE DEF body
    <2> QED  BY <1>10 DEF Parse
<1>13. Parse(body).samples = [p \in {1} \X DOMAIN report |-> Row(m, p[2])]
    <2>1. Parse(body).samples = [p \in {1} \X DOMAIN report |-> Row(body.members[p[1]], p[2])]
        <3> HIDE DEF body, m
        <3> QED  BY <1>11 DEF Parse
    <2>2. \A p \in {1} \X DOMAIN report : p[1] = 1
        OBVIOUS
    <2> HIDE DEF body
    <2> QED  BY <2>1, <2>2 DEF m
<1> QED  BY <1>8, <1>12, <1>13

(* A non-empty set of positions has a first one.                            *)
LEMMA FirstPosition ==
    ASSUME NEW S \in SUBSET Nat, S # {}
    PROVE  Min(S) \in S /\ \A i \in S : Min(S) <= i
<1>1. \E m \in S : \A i \in S : m <= i
    BY Least
<1> QED  BY <1>1 DEF Min

(* A parameter of an entry is found in its row.                             *)
LEMMA SentField ==
    ASSUME NEW report \in Reports, NEW layout \in Layouts, NEW i \in DOMAIN report, NEW c \in Parameters
    PROVE  LET mp == Parse(Encoded(report, layout))
           IN  Field(mp, mp.samples[<<1, i>>], c) = report[i].values[c]
<1> DEFINE body == Encoded(report, layout)
           m == body.members[1]
           mp == Parse(body)
           s == mp.samples[<<1, i>>]
           w == Len(layout.fields)
           I == {j \in 1 .. Len(mp.fields) : mp.fields[j] = c}
           x == Min(I)
<1>1. mp.fields = layout.fields /\ m.fields = layout.fields
    <2>1. mp.fields = layout.fields
        BY SentReads
    <2>2. m.fields = layout.fields
        BY SentMember
    <2> QED  BY <2>1, <2>2
<1>2. s = Row(m, i)
    <2>1. mp.samples = [p \in {1} \X DOMAIN report |-> Row(m, p[2])]
        BY SentReads
    <2>2. <<1, i>> \in {1} \X DOMAIN report /\ <<1, i>>[2] = i
        OBVIOUS
    <2> HIDE DEF mp, m
    <2> QED  BY <2>1, <2>2
<1>3. w \in Nat \ {0} /\ DOMAIN layout.fields = 1 .. w
    BY LayoutsAssumption
<1>4. I # {} /\ I \in SUBSET Nat
    <2>1. c \in ToSet(layout.fields)
        BY LayoutsAssumption
    <2>2. PICK j \in DOMAIN layout.fields : layout.fields[j] = c
        BY <2>1 DEF ToSet
    <2>3. j \in 1 .. Len(mp.fields) /\ mp.fields[j] = c
        BY <2>2, <1>1, <1>3
    <2>4. 1 .. w \subseteq Nat
        BY <1>3
    <2> HIDE DEF mp
    <2> QED  BY <2>3, <2>4, <1>1
<1>5. x \in 1 .. w /\ layout.fields[x] = c
    <2>1. x \in I
        <3> HIDE DEF I
        <3> QED  BY <1>4, FirstPosition
    <2> HIDE DEF x, mp
    <2> QED  BY <2>1, <1>1
<1>6. s.values = [j \in 1 .. w |-> Number(m.tuples[(i - 1) * w + j])]
    <2> HIDE DEF m, s
    <2> QED  BY <1>1, <1>2 DEF Row, Width
<1>7. Len(s.values) = w
    <2> HIDE DEF m, s, w
    <2>1. s.values = [j \in 1 .. w |-> s.values[j]]
        BY <1>6
    <2> QED  BY <1>3, <2>1, LengthOf
<1>8. s.values[x] = report[i].values[c]
    <2>1. m.tuples[(i - 1) * w + x] = report[i].values[layout.fields[x]]
        <3> HIDE DEF x
        <3> QED  BY <1>5, SentValue
    <2>2. report[i].values[c] \in Int \cup {NaN}
        <3>1. c \in ToSet(layout.fields)
            BY LayoutsAssumption
        <3> QED  BY <3>1, ReportsAssumption
    <2>3. Number(report[i].values[c]) = report[i].values[c]
        BY <2>2, TokensAssumption DEF Number
    <2> HIDE DEF s, x, m, w
    <2> QED  BY <1>5, <1>6, <2>1, <2>3
<1>9. x # 0 /\ ~(x > w)
    <2> HIDE DEF x, w
    <2> QED  BY <1>3, <1>5
<1>10. SelectInSeq(mp.fields, LAMBDA f : f = c) = x
    <2> HIDE DEF mp
    <2> QED  BY <1>4 DEF SelectInSeq
<1> HIDE DEF x, s, mp, w
<1>11. Field(mp, s, c) = s.values[x]
    BY <1>7, <1>9, <1>10 DEF Field
<1> QED  BY <1>8, <1>11 DEF s, mp

(* The row of an entry reports what the entry says.                         *)
LEMMA SentSays ==
    ASSUME NEW report \in Reports, NEW layout \in Layouts, NEW i \in DOMAIN report
    PROVE  LET mp == Parse(Encoded(report, layout))
           IN  Reported(mp, mp.samples[<<1, i>>]) = Says(report, i)
<1> DEFINE mp == Parse(Encoded(report, layout))
           s == mp.samples[<<1, i>>]
           value == [c \in Parameters |->
                        IF Field(mp, s, c) = NaN THEN NaN ELSE normalize(c, Field(mp, s, c))]
<1>1. ASSUME NEW c \in Parameters PROVE value[c] = Meaning(c, report[i].values[c])
    <2> DEFINE v == report[i].values[c]
    <2>1. Field(mp, s, c) = v
        BY SentField
    <2>2. v \in Int \cup {NaN}
        BY LayoutsAssumption, ReportsAssumption
    <2>3. value[c] = IF v = NaN THEN NaN ELSE normalize(c, v)
        <3> HIDE DEF mp, s, v
        <3> QED  BY <2>1
    <2> HIDE DEF v, value
    <2> QED  BY <2>2, <2>3, TokensAssumption DEF normalize, Meaning, v
<1>2. Reported(mp, s) = [c \in {p \in Parameters : value[p] # NaN} |-> value[c]]
    <2> HIDE DEF mp, s
    <2> QED  BY DEF Reported
<1> HIDE DEF value, mp, s
<1>3. {p \in Parameters : value[p] # NaN} = {p \in Parameters : Meaning(p, report[i].values[p]) # NaN}
    BY <1>1
<1> QED  BY <1>1, <1>2, <1>3 DEF Says, mp, s

(* The row of an entry has its instant and stands where its station does.   *)
LEMMA SentPlace ==
    ASSUME NEW report \in Reports, NEW layout \in Layouts, NEW i \in DOMAIN report
    PROVE  LET s == Parse(Encoded(report, layout)).samples[<<1, i>>]
           IN  /\ s.time = report[i].time
               /\ s.lat = layout.place[report[i].id][1]
               /\ s.lon = layout.place[report[i].id][2]
<1> DEFINE body == Encoded(report, layout)
           m == body.members[1]
           s == Parse(body).samples[<<1, i>>]
<1>1. s = Row(m, i)
    <2>1. Parse(body).samples = [p \in {1} \X DOMAIN report |-> Row(m, p[2])]
        BY SentReads
    <2>2. <<1, i>> \in {1} \X DOMAIN report /\ <<1, i>>[2] = i
        OBVIOUS
    <2> HIDE DEF body, m
    <2> QED  BY <2>1, <2>2
<1>2. /\ m.positions[3 * i - 2] = layout.place[report[i].id][1]
      /\ m.positions[3 * i - 1] = layout.place[report[i].id][2]
      /\ m.positions[3 * i] = report[i].time
    BY SentPosition
<1> HIDE DEF m, s
<1>3. s.time = m.positions[3 * i] /\ s.lat = m.positions[3 * i - 2] /\ s.lon = m.positions[3 * i - 1]
    BY <1>1 DEF Row
<1> QED  BY <1>2, <1>3 DEF s

(***************************************************************************)
(* The stations: identities and coordinates joined by id.                  *)
(***************************************************************************)

(* Every location has a name and, whatever the order of the points, the     *)
(* coordinates of its own.                                                  *)
LEMMA SentLocation ==
    ASSUME NEW report \in Reports, NEW layout \in Layouts, NEW k \in DOMAIN layout.locations
    PROVE  LET m == Encoded(report, layout).members[1]
               id == layout.locations[k]
           IN  /\ k \in Usable(m)
               /\ Located(m, k) = [id |-> id, name |-> id,
                                   lat |-> layout.drawn[id][1], lon |-> layout.drawn[id][2]]
<1> DEFINE m == Encoded(report, layout).members[1]
           id == layout.locations[k]
           n == Len(layout.points)
           S == PointsOf(m, id)
<1>1. id \in Int /\ id \in ToSet(layout.points) /\ id \in DOMAIN layout.place
    <2>1. layout.locations \in Seq(Int) /\ ToSet(layout.locations) \subseteq ToSet(layout.points)
            /\ ToSet(layout.points) \subseteq DOMAIN layout.place
        BY LayoutsAssumption
    <2>2. id \in ToSet(layout.locations)
        BY DEF ToSet
    <2>3. id \in Int
        BY <2>1, ElementOfSeq, LenProperties
    <2> QED  BY <2>1, <2>2, <2>3
<1>2. n \in Nat /\ DOMAIN layout.points = 1 .. n
    <2>1. layout.points \in Seq(Int)
        BY LayoutsAssumption
    <2> QED  BY <2>1, LenProperties
<1>3. /\ m.points = [j \in DOMAIN layout.points |->
                        [id |-> layout.points[j], pos |-> layout.drawn[layout.points[j]]]]
      /\ m.locations = [j \in DOMAIN layout.locations |->
                        [id |-> layout.locations[j],
                         names |-> << [space |-> "geoid", value |-> 100],
                                      [space |-> "name", value |-> layout.locations[j]] >>]]
    BY SentMember
<1>4. layout.drawn[id][1] \in Int /\ layout.drawn[id][2] \in Int
    BY <1>1, LayoutsAssumption
<1> HIDE DEF m, n, id
<1>5. \A j \in DOMAIN layout.points : layout.points[j] = id => m.points[j].id = id /\ m.points[j].pos = layout.drawn[id]
    BY <1>3
<1>6. \A j \in DOMAIN layout.points : m.points[j].id = layout.points[j]
    BY <1>3
<1>7. Len(layout.drawn[id]) = 2
    BY <1>1, LayoutsAssumption
<1>8. S = {j \in DOMAIN layout.points : layout.points[j] = id}
    <2>1. DOMAIN m.points = DOMAIN layout.points
        BY <1>3
    <2>2. ASSUME NEW j \in DOMAIN layout.points, layout.points[j] = id
          PROVE  /\ m.points[j].id = id /\ Len(m.points[j].pos) >= 2
                 /\ Bad \notin {m.points[j].pos[1], m.points[j].pos[2]}
        <3>1. m.points[j].id = id /\ m.points[j].pos = layout.drawn[id]
            BY <1>5, <2>2
        <3>2. Bad # layout.drawn[id][1] /\ Bad # layout.drawn[id][2]
            BY <1>4, TokensAssumption
        <3>3. Len(m.points[j].pos) = 2
            BY <1>7, <3>1
        <3> QED  BY <3>1, <3>2, <3>3
    <2> QED  BY <1>6, <2>1, <2>2 DEF PointsOf
<1>9. S # {} /\ Max(S) \in DOMAIN layout.points /\ layout.points[Max(S)] = id
    <2>1. PICK j \in DOMAIN layout.points : layout.points[j] = id
        BY <1>1 DEF ToSet
    <2>2. S \in SUBSET (1 .. n) /\ S # {}
        BY <1>2, <1>8, <2>1
    <2>3. Max(S) \in S
        <3> HIDE DEF S
        <3> QED  BY <1>2, <2>2, LastPosition
    <2> QED  BY <1>8, <2>2, <2>3
<1>10. Coords(m, id) = layout.drawn[id]
    BY <1>5, <1>9 DEF Coords
<1>11. m.locations[k].id = id /\ k \in DOMAIN m.locations
    BY <1>3 DEF id
<1>12. NameOf(m.locations[k]) = id
    <2> DEFINE names == << [space |-> "geoid", value |-> 100], [space |-> "name", value |-> id] >>
               I == {j \in 1 .. Len(names) : names[j].space = "name"}
    <2>1. m.locations[k].names = names
        BY <1>3 DEF id
    <2>2. I = {2}
        <3>1. Len(names) = 2 /\ 1 .. 2 = {1, 2}
            OBVIOUS
        <3>2. names[1].space = "geoid" /\ names[2].space = "name"
            OBVIOUS
        <3> HIDE DEF names
        <3> QED  BY <3>1, <3>2
    <2>3. Min({2}) = 2 /\ {2} # {}
        BY DEF Min
    <2>4. SelectInSeq(names, LAMBDA n_1 : n_1.space = "name") = 2
        <3> HIDE DEF names
        <3> QED  BY <2>2, <2>3 DEF SelectInSeq
    <2>5. names[2].value = id
        OBVIOUS
    <2> HIDE DEF names, I
    <2> QED  BY <2>1, <2>4, <2>5 DEF NameOf
<1>13. id # Unnamed
    BY <1>1, TokensAssumption
<1>14. k \in Usable(m)
    BY <1>9, <1>11, <1>12, <1>13 DEF Usable
<1>15. Located(m, k) = [id |-> id, name |-> id, lat |-> layout.drawn[id][1], lon |-> layout.drawn[id][2]]
    BY <1>10, <1>11, <1>12 DEF Located
<1> QED  BY <1>14, <1>15 DEF m, id

(* One place per listed id, that of its first location.                     *)
Registers(locations, layout) ==
    /\ \E D \in SUBSET DOMAIN layout.locations : DOMAIN locations = {1} \X D
    /\ \A p \in DOMAIN locations :
          /\ locations[p].id \in ToSet(layout.locations)
          /\ locations[p].name = locations[p].id
          /\ locations[p].lat = layout.drawn[locations[p].id][1]
          /\ locations[p].lon = layout.drawn[locations[p].id][2]
    /\ \A p, q \in DOMAIN locations : locations[p].id = locations[q].id => p = q
    /\ \A id \in ToSet(layout.locations) : \E p \in DOMAIN locations : locations[p].id = id

LEMMA SentStations ==
    ASSUME NEW report \in Reports, NEW layout \in Layouts
    PROVE  Registers(ParseLocations(Encoded(report, layout)), layout)
<1> DEFINE body == Encoded(report, layout)
           m == body.members[1]
           E == DOMAIN layout.locations
           n == Len(layout.locations)
           id(k) == layout.locations[k]
           D == {k \in E : \A j \in E : j < k => id(j) # id(k)}
           locations == ParseLocations(body)
           one(k) == [id |-> id(k), name |-> id(k), lat |-> layout.drawn[id(k)][1], lon |-> layout.drawn[id(k)][2]]
<1>1. n \in Nat /\ E = 1 .. n
    <2>1. layout.locations \in Seq(Int)
        BY LayoutsAssumption
    <2> QED  BY <2>1, LenProperties
<1>2. body.members = <<m>> /\ DOMAIN body.members = {1}
    <2>1. body = Coverage(<<m>>)
        BY SentMember
    <2> HIDE DEF m, body
    <2> QED  BY <2>1 DEF Coverage
<1>3. \A k \in E : k \in Usable(m) /\ Located(m, k) = one(k)
    BY SentLocation
<1>4. Usable(m) = E
    <2>1. DOMAIN m.locations = E
        <3>1. m.locations = [k \in E |->
                        [id |-> layout.locations[k],
                         names |-> << [space |-> "geoid", value |-> 100],
                                      [space |-> "name", value |-> layout.locations[k]] >>]]
            BY SentMember
        <3> HIDE DEF m, E
        <3> QED  BY <3>1
    <2> HIDE DEF m, E
    <2> QED  BY <2>1, <1>3 DEF Usable
<1> HIDE DEF m, body, E, n
<1>5. Places([k \in DOMAIN body.members |-> Usable(body.members[k])]) = {1} \X E
    <2>1. [k \in DOMAIN body.members |-> Usable(body.members[k])] = [k \in {1} |-> E]
        BY <1>2, <1>4
    <2>2. Places([k \in {1} |-> E]) = {1} \X E
        BY DEF Places
    <2> QED  BY <2>1, <2>2
<1>6. \A p \in {1} \X E : p[1] = 1 /\ p[2] \in E /\ Located(body.members[p[1]], p[2]) = one(p[2])
    <2>1. body.members[1] = m
        BY <1>2
    <2> QED  BY <2>1, <1>3
<1>7. \A p, q \in {1} \X E : Before(p, q) <=> p[2] < q[2]
    BY <1>1 DEF Before
<1> DEFINE first == {q \in {1} \X E : \A o \in {1} \X E : Before(o, q) =>
                        Located(body.members[o[1]], o[2]).id # Located(body.members[q[1]], q[2]).id}
<1>8. locations = [p \in first |-> Located(body.members[p[1]], p[2])]
    BY <1>5 DEF ParseLocations
<1>9. first = {1} \X D
    <2>1. \A p \in {1} \X E : Located(body.members[p[1]], p[2]).id = id(p[2])
        <3>1. \A k : one(k).id = id(k)
            OBVIOUS
        <3> HIDE DEF one, id
        <3> QED  BY <1>6, <3>1
    <2>2. first = {q \in {1} \X E : \A o \in {1} \X E : o[2] < q[2] => id(o[2]) # id(q[2])}
        <3> HIDE DEF id
        <3> QED  BY <2>1, <1>7
    <2>3. ASSUME NEW q \in {1} \X E
          PROVE  (\A o \in {1} \X E : o[2] < q[2] => id(o[2]) # id(q[2])) <=> q[2] \in D
        <3>1. ASSUME NEW j \in E PROVE <<1, j>> \in {1} \X E /\ <<1, j>>[2] = j
            OBVIOUS
        <3>2. \A o \in {1} \X E : o[2] \in E
            OBVIOUS
        <3> HIDE DEF id
        <3> QED  BY <3>1, <3>2
    <2> HIDE DEF first, D
    <2>4. D \subseteq E
        BY DEF D
    <2> QED  BY <2>2, <2>3, <2>4
<1>10. DOMAIN locations = {1} \X D /\ D \in SUBSET E
    BY <1>8, <1>9
<1>11. \A p \in DOMAIN locations : locations[p] = one(p[2]) /\ p[1] = 1 /\ p[2] \in D
    <2>1. {1} \X D \subseteq {1} \X E
        OBVIOUS
    <2> HIDE DEF one, first, D
    <2> QED  BY <1>6, <1>8, <1>9, <2>1
<1> HIDE DEF locations
<1>12. ASSUME NEW p \in DOMAIN locations
       PROVE  /\ locations[p].id \in ToSet(layout.locations)
              /\ locations[p].name = locations[p].id
              /\ locations[p].lat = layout.drawn[locations[p].id][1]
              /\ locations[p].lon = layout.drawn[locations[p].id][2]
    BY <1>11 DEF ToSet, E
<1>13. ASSUME NEW p \in DOMAIN locations, NEW q \in DOMAIN locations, locations[p].id = locations[q].id
       PROVE  p = q
    <2>1. id(p[2]) = id(q[2]) /\ p[2] \in D /\ q[2] \in D
        BY <1>11, <1>13
    <2>2. p[2] \in Int /\ q[2] \in Int
        BY <1>1, <2>1
    <2>3. p[2] = q[2]
        <3>1. ~(p[2] < q[2])
            BY <2>1
        <3>2. ~(q[2] < p[2])
            BY <2>1
        <3> QED  BY <2>2, <3>1, <3>2
    <2>4. p[1] = 1 /\ q[1] = 1 /\ p \in {1} \X D /\ q \in {1} \X D
        BY <1>10, <1>11
    <2> HIDE DEF D
    <2> QED  BY <2>3, <2>4
<1>14. ASSUME NEW d \in ToSet(layout.locations) PROVE \E p \in DOMAIN locations : locations[p].id = d
    <2> DEFINE I == {k \in E : id(k) = d}
    <2>1. I # {} /\ I \in SUBSET Nat
        BY <1>1 DEF ToSet, E
    <2>2. PICK k \in I : \A j \in I : k <= j
        <3> HIDE DEF I
        <3> QED  BY <2>1, Least
    <2>3. k \in D
        BY <1>1, <2>2
    <2>4. <<1, k>> \in DOMAIN locations /\ <<1, k>>[2] = k
        BY <1>10, <2>3
    <2>5. locations[<<1, k>>].id = d
        BY <1>11, <2>2, <2>4
    <2> QED  BY <2>4, <2>5
<1> QED
    <2> HIDE DEF D
    <2> QED  BY <1>10, <1>12, <1>13, <1>14 DEF Registers, locations, body, E

(***************************************************************************)
(* Assembly: the two branches joined by rounded position.                  *)
(***************************************************************************)

(* The entries of a report that are readings of a station.                  *)
Spoken(report, id) == {i \in DOMAIN report : report[i].id = id /\ DOMAIN Says(report, i) # {}}

(* Less than a multiple, rounded down, is less than the factor.             *)
LEMMA DivBelow ==
    ASSUME NEW x \in Int, NEW q \in Int, NEW r \in Nat \ {0}, x < q * r
    PROVE  x \div r < q
<1> DEFINE c == x \div r
<1>1. c \in Int /\ c * r <= x
    OBVIOUS
<1>2. c * r < q * r
    <2>1. c * r \in Int /\ q * r \in Int
        BY <1>1
    <2> HIDE DEF c
    <2> QED  BY <1>1, <2>1
<1> HIDE DEF c
<1>3. c < q
    BY <1>1, <1>2
<1> QED  BY <1>3 DEF c

(* Two coordinates round to the same key unless a halfway mark divides them.*)
LEMMA MarkSplits ==
    ASSUME NEW x \in Int, NEW y \in Int, NEW b \in (x + 1) .. y,
           (2 * b + Quantum) % (2 * Quantum) \in {0, 1}
    PROVE  (2 * x + Quantum) \div (2 * Quantum) # (2 * y + Quantum) \div (2 * Quantum)
<1> DEFINE r == 2 * Quantum
           u(z) == 2 * z + Quantum
           q == u(b) \div r
<1>1. r \in Nat \ {0} /\ u(x) \in Int /\ u(y) \in Int /\ u(b) \in Int
    BY QuantumAssumption
<1>2. u(x) + 2 <= u(b) /\ u(b) <= u(y) /\ u(b) % r \in {0, 1}
    BY QuantumAssumption
<1> HIDE DEF u, r
<1>3. q \in Int /\ u(b) = r * q + (u(b) % r)
    BY <1>1
<1>4. r * q = q * r /\ q * r \in Int
    <2> HIDE DEF q
    <2> QED  BY <1>1, <1>3
<1>5. u(x) < q * r
    <2> HIDE DEF q
    <2> QED  BY <1>1, <1>2, <1>3, <1>4
<1>6. u(x) \div r < q
    <2> HIDE DEF q
    <2> QED  BY <1>1, <1>3, <1>5, DivBelow
<1>7. q <= u(y) \div r
    BY <1>1, <1>2, DivMonotone
<1>8. u(x) \div r \in Int /\ u(y) \div r \in Int
    BY <1>1
<1> HIDE DEF q
<1>9. u(x) \div r # u(y) \div r
    BY <1>3, <1>6, <1>7, <1>8
<1> QED  BY <1>9 DEF u, r

LEMMA SplitsAtMark ==
    ASSUME NEW x \in Int, NEW y \in Int, x < y,
           (2 * x + Quantum) \div (2 * Quantum) # (2 * y + Quantum) \div (2 * Quantum)
    PROVE  \E b \in (x + 1) .. y : (2 * b + Quantum) % (2 * Quantum) \in {0, 1}
<1> DEFINE r == 2 * Quantum
           u(z) == 2 * z + Quantum
           k == u(y) \div r
           h == k * Quantum
           b == (2 * h - Quantum + 1) \div 2
<1>1. r \in Nat \ {0} /\ r >= 2 /\ u(x) \in Int /\ u(y) \in Int /\ u(x) <= u(y)
    BY QuantumAssumption
<1>2. k \in Int /\ k * r <= u(y)
    <2> HIDE DEF u, r
    <2> QED  BY <1>1
<1>3. u(x) < k * r
    <2> DEFINE j == u(x) \div r
    <2> HIDE DEF u, r
    <2>1. j \in Int /\ u(x) < (j + 1) * r
        BY <1>1
    <2>2. j <= k
        BY <1>1, DivMonotone
    <2>3. j # k
        BY DEF u, r
    <2> HIDE DEF j, k
    <2>4. j + 1 <= k
        BY <1>2, <2>1, <2>2, <2>3
    <2>5. (j + 1) * r <= k * r /\ (j + 1) * r \in Int /\ k * r \in Int
        BY <1>1, <1>2, <2>1, <2>4
    <2> QED  BY <1>1, <2>1, <2>5
<1>4. h \in Int /\ k * r = 2 * h
    <2> HIDE DEF k
    <2>1. Quantum \in Int
        BY QuantumAssumption
    <2> QED  BY <1>2, <2>1
<1> HIDE DEF h, k
<1>5. b \in Int /\ \E c \in {0, 1} : u(b) = 2 * h + c
    BY <1>4, QuantumAssumption
<1>6. PICK c \in {0, 1} : u(b) = 2 * h + c
    BY <1>5
<1> HIDE DEF b
<1>7. x < b /\ b <= y
    BY <1>2, <1>3, <1>4, <1>5, <1>6, QuantumAssumption
<1>8. u(b) % r = c
    <2>1. c \in 0 .. (r - 1)
        BY <1>1
    <2> HIDE DEF r, u
    <2>2. (k * r + c) % r = c
        BY <1>1, <1>2, <2>1, ModOfMultiple
    <2> QED  BY <1>4, <1>6, <2>2
<1>9. b \in (x + 1) .. y /\ u(b) % r \in {0, 1}
    BY <1>5, <1>7, <1>8
<1> QED  BY <1>9

LEMMA RoundedAlike ==
    ASSUME NEW x \in Int, NEW y \in Int
    PROVE  (2 * x + Quantum) \div (2 * Quantum) = (2 * y + Quantum) \div (2 * Quantum) <=> ~Divided(x, y)
<1> DEFINE key(z) == (2 * z + Quantum) \div (2 * Quantum)
           mark(b) == (2 * b + Quantum) % (2 * Quantum) \in {0, 1}
<1>1. \A b \in (x + 1) .. y : mark(b) => key(x) # key(y)
    BY MarkSplits
<1>2. \A b \in (y + 1) .. x : mark(b) => key(x) # key(y)
    BY MarkSplits
<1>3. x < y /\ key(x) # key(y) => \E b \in (x + 1) .. y : mark(b)
    BY SplitsAtMark
<1>4. y < x /\ key(x) # key(y) => \E b \in (y + 1) .. x : mark(b)
    BY SplitsAtMark
<1>5. Divided(x, y) <=> \E b \in (x + 1) .. y \cup (y + 1) .. x : mark(b)
    BY DEF Divided
<1> HIDE DEF mark
<1>6. x = y => key(x) = key(y)
    OBVIOUS
<1> HIDE DEF key
<1>7. x < y \/ y < x \/ x = y
    OBVIOUS
<1>8. key(x) = key(y) <=> ~Divided(x, y)
    BY <1>1, <1>2, <1>3, <1>4, <1>5, <1>6, <1>7
<1> QED  BY <1>8 DEF key

(* Coordinates a unit apart round to different keys.                        *)
LEMMA ApartDiffers ==
    ASSUME NEW x \in Nat, NEW y \in Nat, Apart(x, y)
    PROVE  (2 * x + Quantum) \div (2 * Quantum) # (2 * y + Quantum) \div (2 * Quantum)
<1> DEFINE a == 2 * x + Quantum
           b == 2 * y + Quantum
           r == 2 * Quantum
<1>1. a \in Nat /\ b \in Nat /\ r \in Nat \ {0} /\ (a + r <= b \/ b + r <= a)
    BY QuantumAssumption DEF Apart
<1> HIDE DEF a, b, r
<1>2. a \div r # b \div r
    BY <1>1, DivApart
<1> QED  BY <1>2 DEF a, b, r

(* The two places of a station have one key unless they straddle a mark,    *)
(* and no other station's point has the key of its samples.                 *)
LEMMA KeyOfStation ==
    ASSUME NEW layout \in Layouts, NEW s \in DOMAIN layout.place, NEW t \in DOMAIN layout.place
    PROVE  posKey(layout.drawn[s][1], layout.drawn[s][2]) = posKey(layout.place[t][1], layout.place[t][2])
               <=> s = t /\ ~Straddles(layout, s)
<1> DEFINE key(z) == (2 * z + Quantum) \div (2 * Quantum)
<1>1. \A c \in 1 .. 2 : layout.place[t][c] \in Nat /\ layout.drawn[s][c] \in Nat /\ layout.place[s][c] \in Nat
    BY LayoutsAssumption
<1>2. posKey(layout.drawn[s][1], layout.drawn[s][2]) = posKey(layout.place[t][1], layout.place[t][2])
        <=> \A c \in 1 .. 2 : key(layout.drawn[s][c]) = key(layout.place[t][c])
    <2>1. \A z, w : posKey(z, w) = <<key(z), key(w)>>
        BY DEF posKey
    <2>2. 1 .. 2 = {1, 2}
        OBVIOUS
    <2> HIDE DEF key
    <2> QED  BY <2>1, <2>2
<1>3. CASE s # t
    <2>1. PICK c \in 1 .. 2 : Apart(layout.drawn[s][c], layout.place[t][c])
        BY <1>3, LayoutsAssumption
    <2>2. key(layout.drawn[s][c]) # key(layout.place[t][c])
        BY <1>1, <2>1, ApartDiffers
    <2> QED  BY <1>2, <1>3, <2>2
<1>4. CASE s = t
    <2>1. \A c \in 1 .. 2 : layout.place[s][c] \in Int /\ layout.drawn[s][c] \in Int
        BY <1>1
    <2>2. \A c \in 1 .. 2 : key(layout.place[s][c]) = key(layout.drawn[s][c])
                                <=> ~Divided(layout.place[s][c], layout.drawn[s][c])
        BY <2>1, RoundedAlike
    <2>3. Straddles(layout, s) <=> \E c \in 1 .. 2 : Divided(layout.place[s][c], layout.drawn[s][c])
        BY DEF Straddles
    <2> HIDE DEF key
    <2> QED  BY <1>2, <1>4, <2>2, <2>3
<1> QED  BY <1>3, <1>4

(* A row belongs to the station that made it and to no other, and to none   *)
(* when the station's two places straddle a mark.                           *)
LEMMA OwnedByItsStation ==
    ASSUME NEW report \in Reports, NEW layout \in Layouts, NEW i \in DOMAIN report,
           NEW locations, Registers(locations, layout), NEW p \in DOMAIN locations
    PROVE  Owns(locations, p, Parse(Encoded(report, layout)).samples[<<1, i>>])
               <=> report[i].id = locations[p].id /\ ~Straddles(layout, locations[p].id)
<1> DEFINE s == Parse(Encoded(report, layout)).samples[<<1, i>>]
           here == {q \in DOMAIN locations :
                       posKey(locations[q].lat, locations[q].lon) = posKey(s.lat, s.lon)}
<1>1. s.lat = layout.place[report[i].id][1] /\ s.lon = layout.place[report[i].id][2]
    BY SentPlace
<1>2. report[i].id \in DOMAIN layout.place
    BY ReportsAssumption
<1> HIDE DEF s
<1>3. ASSUME NEW q \in DOMAIN locations
      PROVE  posKey(locations[q].lat, locations[q].lon) = posKey(s.lat, s.lon)
                 <=> locations[q].id = report[i].id /\ ~Straddles(layout, locations[q].id)
    <2> DEFINE id == locations[q].id
    <2>1. id \in DOMAIN layout.place
        <3>1. id \in ToSet(layout.locations)
            BY DEF Registers
        <3> HIDE DEF id
        <3> QED  BY <3>1, LayoutsAssumption
    <2>2. locations[q].lat = layout.drawn[id][1] /\ locations[q].lon = layout.drawn[id][2]
        BY DEF Registers
    <2> HIDE DEF id
    <2>3. posKey(layout.drawn[id][1], layout.drawn[id][2])
              = posKey(layout.place[report[i].id][1], layout.place[report[i].id][2])
            <=> id = report[i].id /\ ~Straddles(layout, id)
        BY <1>2, <2>1, KeyOfStation
    <2>4. posKey(locations[q].lat, locations[q].lon) = posKey(s.lat, s.lon)
            <=> id = report[i].id /\ ~Straddles(layout, id)
        BY <1>1, <2>2, <2>3
    <2> QED  BY <2>4 DEF id
<1>4. here = {q \in DOMAIN locations : locations[q].id = report[i].id /\ ~Straddles(layout, locations[q].id)}
    BY <1>3
<1> HIDE DEF here
<1>5. p \in here => \A q \in here : q = p
    <2>1. \A q \in DOMAIN locations : locations[p].id = locations[q].id => p = q
        BY DEF Registers
    <2> QED  BY <1>4, <2>1
<1>6. ~Before(p, p)
    <2>1. PICK D \in SUBSET DOMAIN layout.locations : DOMAIN locations = {1} \X D
        BY DEF Registers
    <2>2. layout.locations \in Seq(Int)
        BY LayoutsAssumption
    <2>3. DOMAIN layout.locations = 1 .. Len(layout.locations) /\ Len(layout.locations) \in Nat
        BY <2>2, LenProperties
    <2>4. p[1] = 1 /\ p[2] \in Int
        BY <2>1, <2>3
    <2> QED  BY <2>4 DEF Before
<1>7. Owns(locations, p, s) <=> (p \in here /\ \A q \in here : ~Before(p, q))
    BY DEF Owns, here
<1> QED  BY <1>4, <1>5, <1>6, <1>7 DEF s

(* Those that reach it: none when its places straddle a mark.               *)
Heard(report, layout, id) == {i \in Spoken(report, id) : ~Straddles(layout, id)}

LEMMA AttributedHeard ==
    ASSUME NEW report \in Reports, NEW layout \in Layouts,
           NEW locations, Registers(locations, layout), NEW p \in DOMAIN locations
    PROVE  Attributed(Parse(Encoded(report, layout)), locations, p)
               = {1} \X Heard(report, layout, locations[p].id)
<1> DEFINE mp == Parse(Encoded(report, layout))
           mine == Attributed(mp, locations, p)
           id == locations[p].id
<1>1. DOMAIN mp.samples = {1} \X DOMAIN report
    <2>1. mp.samples = [q \in {1} \X DOMAIN report |-> Row(Encoded(report, layout).members[1], q[2])]
        BY SentReads
    <2> HIDE DEF mp
    <2> QED  BY <2>1
<1>2. ASSUME NEW i \in DOMAIN report
      PROVE  <<1, i>> \in mine <=> i \in Heard(report, layout, id)
    <2>1. Owns(locations, p, mp.samples[<<1, i>>]) <=> report[i].id = id /\ ~Straddles(layout, id)
        BY OwnedByItsStation
    <2>2. Reported(mp, mp.samples[<<1, i>>]) = Says(report, i)
        BY SentSays
    <2>3. <<1, i>> \in DOMAIN mp.samples
        <3> HIDE DEF mp
        <3> QED  BY <1>1
    <2> HIDE DEF mp, id
    <2> QED  BY <2>1, <2>2, <2>3 DEF Attributed, Spoken, Heard
<1>3. mine \subseteq {1} \X DOMAIN report
    <2> HIDE DEF mp
    <2> QED  BY <1>1 DEF Attributed
<1>4. Heard(report, layout, id) \subseteq DOMAIN report
    BY DEF Spoken, Heard
<1> HIDE DEF mine, id
<1> QED
    <2>1. \A q \in {1} \X DOMAIN report : q = <<1, q[2]>> /\ q[2] \in DOMAIN report
        OBVIOUS
    <2>2. \A q : q \in mine <=> q \in {1} \X Heard(report, layout, id)
        BY <1>2, <1>3, <1>4, <2>1
    <2>3. mine = {1} \X Heard(report, layout, id)
        BY <2>2
    <2> QED  BY <2>3 DEF mine, id

(* The series is the station's readings, each once or more, oldest first.   *)
Tells(series, order, n, report, id) ==
    /\ order \in [1 .. n -> Spoken(report, id)]
    /\ \A i \in Spoken(report, id) : \E k \in 1 .. n : order[k] = i
    /\ \A j, k \in 1 .. n : j < k => report[order[j]].time <= report[order[k]].time
    /\ series = [k \in 1 .. n |-> [time |-> report[order[k]].time, values |-> Says(report, order[k])]]

LEMMA SeriesTells ==
    ASSUME NEW report \in Reports, NEW layout \in Layouts,
           NEW locations, Registers(locations, layout), NEW p \in DOMAIN locations,
           ~Straddles(layout, locations[p].id)
    PROVE  \E n \in Nat : \E order : Tells(SeriesOf(Parse(Encoded(report, layout)), locations, p),
                                           order, n, report, locations[p].id)
<1> DEFINE mp == Parse(Encoded(report, layout))
           id == locations[p].id
           mine == Attributed(mp, locations, p)
           key == [i \in mine |-> mp.samples[i].time]
           o == Sorted(mine, key)
           series == SeriesOf(mp, locations, p)
<1>1. mine = {1} \X Spoken(report, id)
    <2>1. mine = {1} \X Heard(report, layout, id)
        BY AttributedHeard
    <2>2. Heard(report, layout, id) = Spoken(report, id)
        BY DEF Heard
    <2> QED  BY <2>1, <2>2
<1>2. ASSUME NEW i \in Spoken(report, id)
      PROVE  /\ mp.samples[<<1, i>>].time = report[i].time /\ report[i].time \in Int
             /\ Reported(mp, mp.samples[<<1, i>>]) = Says(report, i)
    <2>1. i \in DOMAIN report
        BY DEF Spoken
    <2>2. mp.samples[<<1, i>>].time = report[i].time
        BY <2>1, SentPlace
    <2>3. Reported(mp, mp.samples[<<1, i>>]) = Says(report, i)
        BY <2>1, SentSays
    <2>4. report[i].time \in Int
        BY <2>1, ReportsAssumption
    <2> QED  BY <2>2, <2>3, <2>4
<1>3. IsFiniteSet(mine)
    <2>1. DOMAIN report = 1 .. Len(report) /\ Len(report) \in Nat
        BY ReportsAssumption
    <2>2. IsFiniteSet(1 .. Len(report)) /\ IsFiniteSet({1})
        <3>1. IsFiniteSet(1 .. Len(report))
            BY <2>1, FS_Interval
        <3>2. IsFiniteSet({1})
            BY FS_Singleton
        <3> QED  BY <3>1, <3>2
    <2>3. Spoken(report, id) \in SUBSET (1 .. Len(report))
        BY <2>1 DEF Spoken
    <2>4. IsFiniteSet(Spoken(report, id))
        <3> HIDE DEF id
        <3> QED  BY <2>2, <2>3, FS_Subset
    <2>5. IsFiniteSet({1} \X Spoken(report, id))
        <3> HIDE DEF id
        <3> QED  BY <2>2, <2>4, FS_Product
    <2> QED  BY <1>1, <2>5
<1> HIDE DEF mp, id
<1>4. \A q \in mine : q = <<1, q[2]>> /\ q[2] \in Spoken(report, id)
    <2> HIDE DEF mine
    <2> QED  BY <1>1
<1>5. \A q \in mine : key[q] = report[q[2]].time /\ key[q] \in Int
    <2> HIDE DEF mine
    <2> QED  BY <1>2, <1>4
<1>6. Lists(o, mine, key)
    <2> HIDE DEF mine, key
    <2> QED  BY <1>3, <1>5, SortedLists
<1>7. series = [k \in DOMAIN o |-> [time |-> mp.samples[o[k]].time, values |-> Reported(mp, mp.samples[o[k]])]]
    BY DEF SeriesOf
<1> HIDE DEF mine, key, o, series
<1>8. PICK n \in Nat : o \in [1 .. n -> mine]
    BY <1>6 DEF Lists
<1> DEFINE order == [k \in 1 .. n |-> o[k][2]]
<1>9. \A k \in 1 .. n : o[k] \in mine /\ o[k] = <<1, order[k]>> /\ order[k] \in Spoken(report, id)
    BY <1>4, <1>8
<1>10. order \in [1 .. n -> Spoken(report, id)]
    BY <1>9
<1> HIDE DEF order
<1>11. ASSUME NEW i \in Spoken(report, id) PROVE \E k \in 1 .. n : order[k] = i
    <2>1. <<1, i>> \in mine
        BY <1>1
    <2>2. PICK k \in 1 .. n : o[k] = <<1, i>>
        BY <1>6, <1>8, <2>1 DEF Lists
    <2>3. order[k] = i
        BY <1>9, <2>2
    <2> QED  BY <2>3
<1>12. ASSUME NEW j \in 1 .. n, NEW k \in 1 .. n, j < k
       PROVE  report[order[j]].time <= report[order[k]].time
    <2>1. key[o[j]] <= key[o[k]]
        BY <1>6, <1>8, <1>12 DEF Lists, Ordered
    <2>2. \A x \in 1 .. n : key[o[x]] = report[order[x]].time
        <3> TAKE x \in 1 .. n
        <3>1. o[x][2] = order[x] /\ o[x] \in mine
            BY <1>9
        <3> QED  BY <3>1, <1>5
    <2> QED  BY <2>1, <2>2
<1>13. series = [k \in 1 .. n |-> [time |-> report[order[k]].time, values |-> Says(report, order[k])]]
    <2>1. DOMAIN o = 1 .. n
        BY <1>8
    <2>2. ASSUME NEW k \in 1 .. n
          PROVE  mp.samples[o[k]].time = report[order[k]].time /\ Reported(mp, mp.samples[o[k]]) = Says(report, order[k])
        BY <1>2, <1>9
    <2> QED  BY <1>7, <2>1, <2>2
<1>14. Tells(series, order, n, report, id)
    BY <1>10, <1>11, <1>12, <1>13 DEF Tells
<1> QED  BY <1>14 DEF series, mp, id

(* What an entry says is readings, and holds what the station measured.     *)
LEMMA SaysMeasured ==
    ASSUME NEW report \in Reports, NEW layout \in Layouts, NEW i \in DOMAIN report
    PROVE  /\ Says(report, i) \in Readings
           /\ \A c \in DOMAIN Says(report, i) :
                 c \in Parameters /\ Says(report, i)[c] = Meaning(c, report[i].values[c])
           /\ \A c \in Parameters : c \in DOMAIN Says(report, i) <=> i \in Measured(report, report[i].id, c)
<1> DEFINE S == {p \in Parameters : Meaning(p, report[i].values[p]) # NaN}
<1>1. ASSUME NEW c \in S PROVE Meaning(c, report[i].values[c]) \in Int
    <2> DEFINE v == report[i].values[c]
    <2>1. v \in Int \cup {NaN}
        BY LayoutsAssumption, ReportsAssumption
    <2>2. Meaning(c, v) # NaN
        OBVIOUS
    <2> HIDE DEF v
    <2>3. Meaning(c, v) \in Int
        BY <2>1, <2>2 DEF Meaning
    <2> QED  BY <2>3 DEF v
<1>2. Says(report, i) = [c \in S |-> Meaning(c, report[i].values[c])]
    BY DEF Says
<1>3. Says(report, i) \in [S -> Int] /\ S \in SUBSET Parameters
    <2> HIDE DEF S
    <2>1. Says(report, i) \in [S -> Int]
        BY <1>1, <1>2
    <2> QED  BY <2>1 DEF S
<1>4. Says(report, i) \in Readings
    <2> HIDE DEF S
    <2> QED  BY <1>3 DEF Readings
<1>5. \A c \in DOMAIN Says(report, i) : c \in Parameters /\ Says(report, i)[c] = Meaning(c, report[i].values[c])
    BY <1>2
<1>6. \A c \in Parameters : c \in DOMAIN Says(report, i) <=> i \in Measured(report, report[i].id, c)
    <2> TAKE c \in Parameters
    <2>1. c \in DOMAIN Says(report, i) <=> Meaning(c, report[i].values[c]) # NaN
        BY <1>2
    <2>2. i \in Measured(report, report[i].id, c) <=> Meaning(c, report[i].values[c]) # NaN
        BY DEF Measured
    <2> QED  BY <2>1, <2>2
<1> QED  BY <1>4, <1>5, <1>6

(* The readings of a station are what it measured of some parameter.        *)
LEMMA SpokenMeasured ==
    ASSUME NEW report \in Reports, NEW layout \in Layouts, NEW id
    PROVE  /\ Spoken(report, id) = UNION {Measured(report, id, c) : c \in Parameters}
           /\ \A c \in Parameters :
                 Measured(report, id, c) = {i \in Spoken(report, id) : c \in DOMAIN Says(report, i)}
<1>1. ASSUME NEW i \in DOMAIN report, NEW c
      PROVE  c \in DOMAIN Says(report, i) <=> c \in Parameters /\ Meaning(c, report[i].values[c]) # NaN
    BY DEF Says
<1>2. \A c, i : i \in Measured(report, id, c)
                 <=> i \in DOMAIN report /\ report[i].id = id /\ Meaning(c, report[i].values[c]) # NaN
    BY DEF Measured
<1>3. \A i : i \in Spoken(report, id)
                 <=> i \in DOMAIN report /\ report[i].id = id /\ \E c : c \in DOMAIN Says(report, i)
    BY DEF Spoken
<1>4. \A i : i \in Spoken(report, id) <=> \E c \in Parameters : i \in Measured(report, id, c)
    BY <1>1, <1>2, <1>3
<1>5. Spoken(report, id) = UNION {Measured(report, id, c) : c \in Parameters}
    BY <1>4
<1>6. ASSUME NEW c \in Parameters
      PROVE  Measured(report, id, c) = {i \in Spoken(report, id) : c \in DOMAIN Says(report, i)}
    BY <1>1, <1>2, <1>3
<1> QED  BY <1>5, <1>6

(* The headline of a told series: of c, the most recent reading made.       *)
IsRecent(values, report, id, c) ==
    LET made == Measured(report, id, c)
    IN  IF made = {} THEN c \notin DOMAIN values
        ELSE /\ c \in DOMAIN values
             /\ \E i \in made :
                   /\ \A j \in made : report[j].time <= report[i].time
                   /\ values[c] = Meaning(c, report[i].values[c])

LEMMA HeadlineIsRecent ==
    ASSUME NEW report \in Reports, NEW layout \in Layouts, NEW id, NEW series, NEW n \in Nat, NEW order,
           Tells(series, order, n, report, id), NEW c \in Parameters
    PROVE  IsRecent(Headline(series), report, id, c)
<1> DEFINE made == Measured(report, id, c)
           values == Headline(series)
           H == Holding(series, c, n)
           D == {[time |-> report[i].time, values |-> Says(report, i)] : i \in Spoken(report, id)}
<1>1. order \in [1 .. n -> Spoken(report, id)]
    BY DEF Tells
<1>2. series = [k \in 1 .. n |-> [time |-> report[order[k]].time, values |-> Says(report, order[k])]]
    BY DEF Tells
<1>3. \A i \in Spoken(report, id) : i \in DOMAIN report
    BY DEF Spoken
<1>4. \A k \in 1 .. n : series[k] \in D /\ series[k].values = Says(report, order[k])
    BY <1>1, <1>2
<1>5. \A d \in D : d.values \in Readings
    <2>1. \A i \in Spoken(report, id) : Says(report, i) \in Readings
        BY <1>3, SaysMeasured
    <2> QED  BY <2>1
<1>6. series \in Seq(D) /\ Len(series) = n
    <2> HIDE DEF D
    <2>1. series = [k \in 1 .. n |-> series[k]]
        BY <1>2
    <2>2. series \in [1 .. n -> D]
        BY <1>4, <2>1
    <2>3. series \in Seq(D)
        BY <2>2, SeqDef
    <2> QED  BY <2>1, <2>3, LengthOf
<1>7. HoldsLatest(values, series, c, n)
    <2> HIDE DEF D
    <2>1. HoldsLatest(values, series, c, Len(series))
        BY <1>5, <1>6, HeadlineHolds
    <2> QED  BY <1>6, <2>1
<1> HIDE DEF values, D
<1>8. made = {i \in Spoken(report, id) : c \in DOMAIN Says(report, i)}
    BY SpokenMeasured
<1> HIDE DEF made
<1>9. \A k \in 1 .. n : k \in H <=> order[k] \in made
    BY <1>1, <1>4, <1>8 DEF Holding
<1>10. \A i \in made : \E k \in H : order[k] = i
    BY <1>8, <1>9 DEF Tells
<1>11. H \in SUBSET (1 .. n)
    BY DEF Holding
<1>12. CASE made = {}
    <2>1. H = {}
        BY <1>9, <1>11, <1>12
    <2>2. c \notin DOMAIN values
        BY <1>7, <2>1 DEF HoldsLatest
    <2> QED  BY <1>12, <2>2 DEF IsRecent, made, values
<1>13. CASE made # {}
    <2> DEFINE k == Max(H)
    <2>1. H # {}
        BY <1>10, <1>13
    <2>2. k \in H /\ \A j \in H : j <= k
        <3> HIDE DEF H
        <3> QED  BY <1>11, <2>1, LastPosition
    <2>3. c \in DOMAIN values /\ values[c] = series[k].values[c]
        BY <1>7, <2>1 DEF HoldsLatest
    <2> HIDE DEF k, H
    <2>4. k \in 1 .. n /\ order[k] \in made
        BY <1>9, <1>11, <2>2
    <2>5. values[c] = Meaning(c, report[order[k]].values[c])
        <3>1. order[k] \in Spoken(report, id) /\ c \in DOMAIN Says(report, order[k]) /\ order[k] \in DOMAIN report
            BY <1>3, <1>8, <2>4
        <3>2. Says(report, order[k])[c] = Meaning(c, report[order[k]].values[c])
            BY <3>1, SaysMeasured
        <3> QED  BY <1>4, <2>3, <2>4, <3>2
    <2>6. ASSUME NEW j \in made PROVE report[j].time <= report[order[k]].time
        <3>1. PICK x \in H : order[x] = j
            BY <1>10
        <3>2. x \in 1 .. n /\ x <= k
            BY <1>11, <2>2, <3>1
        <3>3. CASE x < k
            <4>1. \A y, z \in 1 .. n : y < z => report[order[y]].time <= report[order[z]].time
                BY DEF Tells
            <4> QED  BY <2>4, <3>1, <3>2, <3>3, <4>1
        <3>4. CASE x = k
            <4>1. order[k] \in DOMAIN report
                BY <1>1, <1>3, <2>4
            <4>2. report[order[k]].time \in Int
                BY <4>1, ReportsAssumption
            <4> QED  BY <3>1, <3>4, <4>2
        <3>5. x < k \/ x = k
            BY <2>4, <3>2
        <3> QED  BY <3>3, <3>4, <3>5
    <2> QED  BY <1>13, <2>3, <2>4, <2>5, <2>6 DEF IsRecent, made, values
<1> QED  BY <1>12, <1>13

(* What a poll makes of a report: the listed stations that are heard, each  *)
(* with its own readings and their headline.                                *)
IsPoll(out, report, layout) ==
    /\ \A k \in DOMAIN out :
          /\ out[k].id \in ToSet(layout.locations) /\ Heard(report, layout, out[k].id) # {}
          /\ \E n \in Nat : \E order : Tells(out[k].series, order, n, report, out[k].id)
          /\ out[k].values = Headline(out[k].series)
    /\ \A id \in ToSet(layout.locations) :
          Heard(report, layout, id) # {} => \E k \in DOMAIN out : out[k].id = id

LEMMA PollOfReport ==
    ASSUME NEW report \in Reports, NEW layout \in Layouts
    PROVE  IsPoll(fetchObservations(Encoded(report, layout)), report, layout)
<1> DEFINE body == Encoded(report, layout)
           mp == Parse(body)
           locations == ParseLocations(body)
           heard == {p \in DOMAIN locations : Attributed(mp, locations, p) # {}}
           key == [p \in heard |-> locations[p].name]
           o == Sorted(heard, key)
           detail(p) == LET series == SeriesOf(mp, locations, p)
                        IN  [id |-> locations[p].id, name |-> locations[p].name, series |-> series,
                             values |-> Headline(series), timestamp |-> Last(series).time]
           out == fetchObservations(body)
<1>1. Parses(body)
    BY SentReads
<1>2. Registers(locations, layout)
    BY SentStations
<1>3. ASSUME NEW p \in DOMAIN locations
      PROVE  /\ locations[p].id \in ToSet(layout.locations)
             /\ p \in heard <=> Heard(report, layout, locations[p].id) # {}
             /\ p \in heard => \E n \in Nat : \E order : Tells(SeriesOf(mp, locations, p), order, n, report, locations[p].id)
    <2> HIDE DEF locations
    <2>1. locations[p].id \in ToSet(layout.locations)
        BY <1>2 DEF Registers
    <2>2. Attributed(mp, locations, p) = {1} \X Heard(report, layout, locations[p].id)
        BY <1>2, AttributedHeard
    <2>3. Heard(report, layout, locations[p].id) # {} =>
            \E n \in Nat : \E order : Tells(SeriesOf(mp, locations, p), order, n, report, locations[p].id)
        <3>1. Heard(report, layout, locations[p].id) # {} => ~Straddles(layout, locations[p].id)
            BY DEF Heard
        <3>2. ~Straddles(layout, locations[p].id) =>
                \E n \in Nat : \E order : Tells(SeriesOf(mp, locations, p), order, n, report, locations[p].id)
            BY <1>2, SeriesTells
        <3> QED  BY <3>1, <3>2
    <2> HIDE DEF mp
    <2>4. p \in heard <=> Heard(report, layout, locations[p].id) # {}
        <3> DEFINE S == Heard(report, layout, locations[p].id)
        <3>1. p \in heard <=> {1} \X S # {}
            BY <2>2
        <3> HIDE DEF S
        <3>2. S # {} => {1} \X S # {}
            <4> SUFFICES ASSUME NEW x \in S PROVE {1} \X S # {}
                OBVIOUS
            <4>1. <<1, x>> \in {1} \X S
                OBVIOUS
            <4> QED  BY <4>1
        <3>3. S = {} => {1} \X S = {}
            OBVIOUS
        <3> HIDE DEF heard
        <3>4. p \in heard <=> S # {}
            BY <3>1, <3>2, <3>3
        <3> QED  BY <3>4 DEF S
    <2> QED  BY <2>1, <2>3, <2>4
<1>4. out = [k \in DOMAIN o |-> detail(o[k])]
    <2> HIDE DEF body
    <2> QED  BY <1>1 DEF fetchObservations, assemble
<1> HIDE DEF body, mp, locations
<1>5. layout.locations \in Seq(Int)
    BY LayoutsAssumption
<1>6. DOMAIN layout.locations = 1 .. Len(layout.locations) /\ Len(layout.locations) \in Nat
    BY <1>5, LenProperties
<1>7. IsFiniteSet(heard)
    <2>1. PICK D \in SUBSET DOMAIN layout.locations : DOMAIN locations = {1} \X D
        BY <1>2 DEF Registers
    <2>2. IsFiniteSet(1 .. Len(layout.locations))
        <3> DEFINE l == Len(layout.locations)
        <3>1. l \in Int /\ 1 \in Int
            BY <1>6
        <3> HIDE DEF l
        <3>2. IsFiniteSet(1 .. l)
            BY <3>1, FS_Interval
        <3> QED  BY <3>2 DEF l
    <2>3. IsFiniteSet(D)
        BY <1>6, <2>2, FS_Subset
    <2>4. IsFiniteSet({1})
        BY FS_Singleton
    <2>5. IsFiniteSet({1} \X D)
        BY <2>3, <2>4, FS_Product
    <2>6. heard \in SUBSET ({1} \X D)
        BY <2>1
    <2> QED  BY <2>5, <2>6, FS_Subset
<1>8. \A p \in heard : key[p] \in Int
    <2> TAKE p \in heard
    <2>1. key[p] = locations[p].id /\ locations[p].id \in ToSet(layout.locations)
        BY <1>2 DEF Registers
    <2>2. ToSet(layout.locations) \subseteq Int
        BY <1>5, <1>6, ElementOfSeq DEF ToSet
    <2> QED  BY <2>1, <2>2
<1>9. Lists(o, heard, key)
    <2> HIDE DEF heard, key
    <2> QED  BY <1>7, <1>8, SortedLists
<1> DEFINE told(p) == SeriesOf(mp, locations, p)
<1>10. \A p : detail(p).id = locations[p].id /\ detail(p).series = told(p) /\ detail(p).values = Headline(told(p))
    OBVIOUS
<1>11. heard \subseteq DOMAIN locations
    OBVIOUS
<1> HIDE DEF heard, key, o, detail, out
<1>12. PICK n \in Nat : o \in [1 .. n -> heard]
    BY <1>9 DEF Lists
<1>13. ASSUME NEW k \in DOMAIN out
       PROVE  /\ out[k].id \in ToSet(layout.locations) /\ Heard(report, layout, out[k].id) # {}
              /\ \E m \in Nat : \E order : Tells(out[k].series, order, m, report, out[k].id)
              /\ out[k].values = Headline(out[k].series)
    <2> DEFINE p == o[k]
    <2>1. k \in DOMAIN o /\ out[k] = detail(p)
        BY <1>4
    <2>2. p \in heard
        BY <1>12, <2>1
    <2> HIDE DEF p
    <2>3. p \in DOMAIN locations
        BY <1>11, <2>2
    <2>4. out[k].id = locations[p].id /\ out[k].series = told(p) /\ out[k].values = Headline(told(p))
        <3> HIDE DEF told
        <3> QED  BY <1>10, <2>1
    <2>5. \E m \in Nat : \E order : Tells(told(p), order, m, report, locations[p].id)
        BY <1>3, <2>2, <2>3
    <2>6. locations[p].id \in ToSet(layout.locations) /\ Heard(report, layout, locations[p].id) # {}
        BY <1>3, <2>2, <2>3
    <2> HIDE DEF told
    <2> QED  BY <2>4, <2>5, <2>6
<1>14. ASSUME NEW id \in ToSet(layout.locations), Heard(report, layout, id) # {}
       PROVE  \E k \in DOMAIN out : out[k].id = id
    <2>1. PICK p \in DOMAIN locations : locations[p].id = id
        BY <1>2 DEF Registers
    <2>2. p \in heard
        BY <1>3, <1>14, <2>1
    <2>3. PICK k \in DOMAIN o : o[k] = p
        BY <1>9, <2>2 DEF Lists
    <2>4. k \in DOMAIN out /\ out[k] = detail(p)
        BY <1>4, <2>3
    <2>5. out[k].id = id
        BY <1>10, <2>1, <2>4
    <2> QED  BY <2>4, <2>5
<1> QED  BY <1>13, <1>14 DEF IsPoll, out, body

(* The headlines of a poll are the most recent readings of the report.      *)
LEMMA PollIsRecent ==
    ASSUME NEW report \in Reports, NEW layout \in Layouts, NEW out, IsPoll(out, report, layout)
    PROVE  \A k \in DOMAIN out : \A c \in Parameters : IsRecent(out[k].values, report, out[k].id, c)
<1> TAKE k \in DOMAIN out
<1> TAKE c \in Parameters
<1>0. PICK n \in Nat : \E order : Tells(out[k].series, order, n, report, out[k].id)
    BY DEF IsPoll
<1>1. PICK order : Tells(out[k].series, order, n, report, out[k].id)
    BY <1>0
<1>2. out[k].values = Headline(out[k].series)
    BY DEF IsPoll
<1>3. IsRecent(Headline(out[k].series), report, out[k].id, c)
    BY <1>1, HeadlineIsRecent
<1> QED  BY <1>2, <1>3

(* A station's headline holds, of every parameter, the most recent reading  *)
(* it really made: for any report of any length, whatever order and places  *)
(* the station branch has (multipoint.go, havainnot/fmi.go).                *)
THEOREM HeadlineAlwaysMostRecent == CallSpec => []HeadlineMostRecent
<1> DEFINE Inv == CallTyped /\ HeadlineMostRecent
<1>1. CallInit => Inv
    BY CallInitTyped DEF CallInit, HeadlineMostRecent, Done
<1>2. ASSUME Inv, [CallNext]_callVars PROVE Inv'
    <2>1. CallTyped' /\ call' = call
        BY <1>2, CallStep DEF CallTyped
    <2>2. CASE result' = result
        BY <1>2, <2>1, <2>2 DEF HeadlineMostRecent, Done, Measured
    <2>3. CASE call.fn # "observe"
        <3>1. ~Done("observe")'
            BY <2>1, <2>3 DEF Done
        <3> QED  BY <2>1, <3>1 DEF HeadlineMostRecent
    <2>4. CASE call.fn = "observe" /\ Observe
        <3>1. result' = fetchObservations(Encoded(call.report, call.layout))
            BY <2>4 DEF Observe, Evaluate
        <3>2. call.report \in Reports /\ call.layout \in Layouts
            BY <1>2, <2>4 DEF CallTyped
        <3>3. IsPoll(result', call.report, call.layout)
            BY <3>1, <3>2, PollOfReport
        <3>4. \A k \in DOMAIN result' : \A c \in Parameters : IsRecent(result'[k].values, call.report, result'[k].id, c)
            BY <3>2, <3>3, PollIsRecent
        <3>5. HeadlineMostRecent'
            BY <2>1, <3>4 DEF HeadlineMostRecent, IsRecent
        <3> QED  BY <2>1, <3>5
    <2> QED  BY <1>2, <2>1, <2>2, <2>3, <2>4, CallStep
<1>3. Inv => HeadlineMostRecent
    OBVIOUS
<1> QED  BY <1>1, <1>2, <1>3, PTL DEF CallSpec

(* The stations of a poll and their instants are those of the report.       *)
KeepsReadings(out, report, layout) ==
    LET instants(id) == {report[i].time : i \in UNION {Measured(report, id, c) : c \in Parameters}}
    IN  /\ {out[k].id : k \in DOMAIN out}
             = {id \in ToSet(layout.locations) : instants(id) # {} /\ ~Straddles(layout, id)}
        /\ \A k \in DOMAIN out :
              {out[k].series[i].time : i \in DOMAIN out[k].series} = instants(out[k].id)

(* A poll draws every entry heard at its own station.                       *)
LEMMA PollKeepsReadings ==
    ASSUME NEW report \in Reports, NEW layout \in Layouts, NEW out, IsPoll(out, report, layout)
    PROVE  KeepsReadings(out, report, layout)
<1> DEFINE made(id) == UNION {Measured(report, id, c) : c \in Parameters}
           instants(id) == {report[i].time : i \in made(id)}
<1>1. \A id : made(id) = Spoken(report, id)
    BY SpokenMeasured
<1> HIDE DEF made
<1>2. \A id : instants(id) = {report[i].time : i \in Spoken(report, id)}
    BY <1>1
<1> HIDE DEF instants
<1>3. \A id : instants(id) # {} /\ ~Straddles(layout, id) <=> Heard(report, layout, id) # {}
    BY <1>2 DEF Heard
<1>4. {out[k].id : k \in DOMAIN out} = {id \in ToSet(layout.locations) : instants(id) # {} /\ ~Straddles(layout, id)}
    <2>1. \A k \in DOMAIN out : out[k].id \in ToSet(layout.locations) /\ Heard(report, layout, out[k].id) # {}
        BY DEF IsPoll
    <2>2. \A id \in ToSet(layout.locations) :
              Heard(report, layout, id) # {} => \E k \in DOMAIN out : out[k].id = id
        BY DEF IsPoll
    <2> QED  BY <1>3, <2>1, <2>2
<1>5. ASSUME NEW k \in DOMAIN out
      PROVE  {out[k].series[i].time : i \in DOMAIN out[k].series} = instants(out[k].id)
    <2> DEFINE series == out[k].series
               id == out[k].id
    <2>0. PICK n \in Nat : \E order : Tells(series, order, n, report, id)
        BY DEF IsPoll
    <2>1. PICK order : Tells(series, order, n, report, id)
        BY <2>0
    <2> HIDE DEF series, id
    <2>2. /\ order \in [1 .. n -> Spoken(report, id)]
          /\ \A i \in Spoken(report, id) : \E j \in 1 .. n : order[j] = i
          /\ series = [j \in 1 .. n |-> [time |-> report[order[j]].time, values |-> Says(report, order[j])]]
        BY <2>1 DEF Tells
    <2>3. DOMAIN series = 1 .. n /\ \A j \in 1 .. n : series[j].time = report[order[j]].time
        BY <2>2
    <2>4. {series[j].time : j \in DOMAIN series} = {report[i].time : i \in Spoken(report, id)}
        <3>1. \A j \in DOMAIN series : \E i \in Spoken(report, id) : series[j].time = report[i].time
            BY <2>2, <2>3
        <3>2. \A i \in Spoken(report, id) : \E j \in DOMAIN series : series[j].time = report[i].time
            BY <2>2, <2>3
        <3> QED  BY <3>1, <3>2
    <2> QED  BY <1>2, <2>4 DEF series, id
<1> QED  BY <1>4, <1>5 DEF KeepsReadings, instants, made

(* Every reading is drawn at the station that made it and at no other, and  *)
(* the stations not listed are the silent ones and those whose places in    *)
(* the two branches straddle a rounding mark, for reports of any length,    *)
(* any order of the branches and any places of a station in them.           *)
THEOREM StationsAlwaysKeepTheirs == CallSpec => []StationsKeepTheirReadings
<1> DEFINE Inv == CallTyped /\ StationsKeepTheirReadings
<1>1. CallInit => Inv
    BY CallInitTyped DEF CallInit, StationsKeepTheirReadings, Done
<1>2. ASSUME Inv, [CallNext]_callVars PROVE Inv'
    <2>1. CallTyped' /\ call' = call
        BY <1>2, CallStep DEF CallTyped
    <2>2. CASE result' = result
        <3>1. Done("observe") => KeepsReadings(result, call.report, call.layout)
            BY <1>2 DEF StationsKeepTheirReadings, KeepsReadings
        <3>2. Done("observe")' => KeepsReadings(result', call'.report, call'.layout)
            BY <2>1, <2>2, <3>1 DEF Done
        <3>3. StationsKeepTheirReadings'
            BY <3>2 DEF StationsKeepTheirReadings, KeepsReadings, Measured
        <3> QED  BY <2>1, <3>3
    <2>3. CASE call.fn # "observe"
        <3>1. ~Done("observe")'
            BY <2>1, <2>3 DEF Done
        <3> QED  BY <2>1, <3>1 DEF StationsKeepTheirReadings
    <2>4. CASE call.fn = "observe" /\ Observe
        <3>1. result' = fetchObservations(Encoded(call.report, call.layout))
            BY <2>4 DEF Observe, Evaluate
        <3>2. call.report \in Reports /\ call.layout \in Layouts
            BY <1>2, <2>4 DEF CallTyped
        <3>3. IsPoll(result', call.report, call.layout)
            BY <3>1, <3>2, PollOfReport
        <3>4. KeepsReadings(result', call'.report, call'.layout)
            BY <2>1, <3>2, <3>3, PollKeepsReadings
        <3>5. StationsKeepTheirReadings'
            BY <3>4 DEF StationsKeepTheirReadings, KeepsReadings, Measured
        <3> QED  BY <2>1, <3>5
    <2> QED  BY <1>2, <2>1, <2>2, <2>3, <2>4, CallStep
<1>3. Inv => StationsKeepTheirReadings
    OBVIOUS
<1> QED  BY <1>1, <1>2, <1>3, PTL DEF CallSpec

(***************************************************************************)
(* Sums. A sum over a finite set adds its terms up in whatever order.      *)
(***************************************************************************)

(* One element of a set, as the library's folds pick it.                    *)
Picked(T) == CHOOSE x \in T : TRUE

(* it adds up f over every subset of S, by the picked element.              *)
AddsPicked(it, f, S) ==
    \A T \in S : it[T] = IF T = {} THEN 0 ELSE f[Picked(T)] + it[T \ {Picked(T)}]

LEMMA PickedSum ==
    ASSUME NEW S, IsFiniteSet(S), NEW f, \A x \in S : f[x] \in Nat
    PROVE  \E it \in [SUBSET S -> Nat] : AddsPicked(it, f, SUBSET S)
<1> DEFINE n == Cardinality(S)
           Upto(k) == {T \in SUBSET S : Cardinality(T) <= k}
           K == {k \in 0 .. n : \E it \in [Upto(k) -> Nat] : AddsPicked(it, f, Upto(k))}
<1>1. n \in Nat /\ \A T \in SUBSET S : IsFiniteSet(T) /\ Cardinality(T) \in 0 .. n
    BY FS_CardinalityType, FS_Subset
<1>2. 0 \in K
    <2>1. \A T \in Upto(0) : T = {}
        BY <1>1, FS_EmptySet
    <2> DEFINE it == [T \in Upto(0) |-> 0]
    <2>2. it \in [Upto(0) -> Nat] /\ AddsPicked(it, f, Upto(0))
        BY <2>1 DEF AddsPicked
    <2>3. 0 \in 0 .. n
        BY <1>1
    <2> HIDE DEF Upto, it, n
    <2> QED  BY <2>2, <2>3
<1>3. ASSUME NEW k \in 1 .. n, k - 1 \in K PROVE k \in K
    <2> DEFINE j == k - 1
    <2>1. j \in Int /\ k \in Int /\ j <= k
        BY <1>1
    <2>2. PICK it \in [Upto(j) -> Nat] : AddsPicked(it, f, Upto(j))
        BY <1>3
    <2> DEFINE more == [T \in Upto(k) |-> IF T = {} THEN 0 ELSE f[Picked(T)] + it[T \ {Picked(T)}]]
    <2>3. ASSUME NEW T \in Upto(k), T # {}
          PROVE  Picked(T) \in S /\ T \ {Picked(T)} \in Upto(j) /\ T \ {Picked(T)} \in Upto(k)
        <3>1. Picked(T) \in T
            BY <2>3 DEF Picked
        <3>2. IsFiniteSet(T) /\ Cardinality(T) \in Nat /\ Cardinality(T) <= k
            BY <1>1
        <3>3. Cardinality(T \ {Picked(T)}) = Cardinality(T) - 1
            BY <3>1, <3>2, FS_RemoveElement
        <3> QED  BY <2>1, <3>1, <3>2, <3>3
    <2> HIDE DEF Upto
    <2>4. more \in [Upto(k) -> Nat]
        <3> SUFFICES ASSUME NEW T \in Upto(k), T # {} PROVE f[Picked(T)] + it[T \ {Picked(T)}] \in Nat
            OBVIOUS
        <3>1. f[Picked(T)] \in Nat /\ it[T \ {Picked(T)}] \in Nat
            BY <2>2, <2>3
        <3> QED  BY <3>1
    <2>5. \A T \in Upto(j) : T \in Upto(k)
        BY <1>1, <2>1 DEF Upto
    <2>6. \A T \in Upto(j) : more[T] = it[T]
        BY <2>2, <2>5 DEF AddsPicked
    <2>7. \A T \in Upto(k) : more[T] = IF T = {} THEN 0 ELSE f[Picked(T)] + more[T \ {Picked(T)}]
        BY <2>3, <2>6
    <2> HIDE DEF more
    <2>8. AddsPicked(more, f, Upto(k))
        BY <2>7 DEF AddsPicked
    <2>9. k \in 0 .. n
        BY <1>1
    <2> QED  BY <2>4, <2>8, <2>9
<1>4. n \in K
    <2> HIDE DEF K, n
    <2>1. \A k \in 0 .. n : k \in K
        BY <1>1, <1>2, <1>3, UpTo
    <2> QED  BY <1>1, <2>1
<1>5. Upto(n) = SUBSET S
    <2>1. \A T \in SUBSET S : Cardinality(T) <= n
        BY <1>1
    <2> QED  BY <2>1
<1> QED  BY <1>4, <1>5

(* it adds up f over every subset of S, any element first.                  *)
AddsUp(it, f, S) ==
    /\ it \in [SUBSET S -> Nat] /\ it[{}] = 0
    /\ \A T \in SUBSET S : \A x \in T : it[T] = f[x] + it[T \ {x}]

LEMMA AnyOrder ==
    ASSUME NEW S, IsFiniteSet(S), NEW f, \A x \in S : f[x] \in Nat,
           NEW it \in [SUBSET S -> Nat], AddsPicked(it, f, SUBSET S)
    PROVE  AddsUp(it, f, S)
<1> DEFINE n == Cardinality(S)
           EachWay(T) == \A x \in T : it[T] = f[x] + it[T \ {x}]
           K == {k \in 0 .. n : \A T \in SUBSET S : Cardinality(T) = k => EachWay(T)}
<1>1. n \in Nat /\ \A T \in SUBSET S : IsFiniteSet(T) /\ Cardinality(T) \in 0 .. n
    BY FS_CardinalityType, FS_Subset
<1>2. 0 \in K
    BY <1>1, FS_EmptySet
<1>3. ASSUME NEW k \in 1 .. n, k - 1 \in K PROVE k \in K
    <2> SUFFICES ASSUME NEW T \in SUBSET S, Cardinality(T) = k, NEW x \in T
                 PROVE  it[T] = f[x] + it[T \ {x}]
        BY <1>1
    <2> DEFINE y == Picked(T)
               U == T \ {y}
               W == T \ {x}
               R == (T \ {y}) \ {x}
    <2>1. y \in T
        BY DEF Picked
    <2>2. it[T] = f[y] + it[U]
        BY DEF AddsPicked
    <2>3. CASE x = y
        BY <2>2, <2>3
    <2>4. CASE x # y
        <3>1. Cardinality(U) = k - 1 /\ Cardinality(W) = k - 1
            BY <1>1, <2>1, FS_RemoveElement
        <3>2. EachWay(U) /\ EachWay(W)
            <4> HIDE DEF EachWay, U, W
            <4>1. U \in SUBSET S /\ W \in SUBSET S
                BY DEF U, W
            <4> QED  BY <1>3, <3>1, <4>1
        <3>3. x \in U /\ y \in W /\ W \ {y} = R
            BY <2>1, <2>4
        <3>4. it[U] = f[x] + it[R] /\ it[W] = f[y] + it[R]
            BY <3>2, <3>3
        <3>5. f[x] \in Nat /\ f[y] \in Nat /\ it[R] \in Nat
            BY <2>1
        <3> HIDE DEF y, U, W, R
        <3>6. it[T] = f[x] + it[W]
            BY <2>2, <3>4, <3>5
        <3> QED  BY <3>6 DEF W
    <2> QED  BY <2>3, <2>4
<1>4. \A k \in 0 .. n : k \in K
    <2> HIDE DEF K, n
    <2> QED  BY <1>1, <1>2, <1>3, UpTo
<1>5. ASSUME NEW T \in SUBSET S PROVE EachWay(T)
    BY <1>1, <1>4
<1>6. it[{}] = 0
    BY DEF AddsPicked
<1> QED  BY <1>5, <1>6 DEF AddsUp

LEMMA PickedTyped ==
    ASSUME NEW S, IsFiniteSet(S), NEW f, \A x \in S : f[x] \in Nat,
           NEW it, DOMAIN it = SUBSET S, it = [T \in DOMAIN it |-> it[T]], AddsPicked(it, f, SUBSET S)
    PROVE  it \in [SUBSET S -> Nat]
<1> DEFINE n == Cardinality(S)
           K == {k \in 0 .. n : \A T \in SUBSET S : Cardinality(T) = k => it[T] \in Nat}
<1>1. n \in Nat /\ \A T \in SUBSET S : IsFiniteSet(T) /\ Cardinality(T) \in 0 .. n
    BY FS_CardinalityType, FS_Subset
<1>2. 0 \in K
    <2>1. it[{}] = 0
        BY DEF AddsPicked
    <2>2. \A T \in SUBSET S : Cardinality(T) = 0 => T = {}
        BY <1>1, FS_EmptySet
    <2>3. ASSUME NEW T \in SUBSET S, Cardinality(T) = 0 PROVE it[T] \in Nat
        <3>1. T = {}
            BY <2>2, <2>3
        <3>2. it[T] = 0
            BY <2>1, <3>1, Zenon
        <3> QED  BY <3>2
    <2>4. 0 \in 0 .. n
        BY <1>1
    <2> HIDE DEF n
    <2> QED  BY <2>3, <2>4
<1>3. ASSUME NEW k \in 1 .. n, k - 1 \in K PROVE k \in K
    <2> SUFFICES ASSUME NEW T \in SUBSET S, Cardinality(T) = k PROVE it[T] \in Nat
        BY <1>1
    <2>1. T # {}
        BY <1>1, FS_EmptySet
    <2>2. Picked(T) \in T
        BY <2>1 DEF Picked
    <2>3. Cardinality(T \ {Picked(T)}) = k - 1
        BY <1>1, <2>2, FS_RemoveElement
    <2>4. f[Picked(T)] \in Nat /\ it[T \ {Picked(T)}] \in Nat
        BY <1>3, <2>2, <2>3
    <2>5. it[T] = f[Picked(T)] + it[T \ {Picked(T)}]
        BY <2>1 DEF AddsPicked
    <2> QED  BY <2>4, <2>5
<1>4. \A k \in 0 .. n : k \in K
    <2> HIDE DEF K, n
    <2> QED  BY <1>1, <1>2, <1>3, UpTo
<1>5. \A T \in SUBSET S : it[T] \in Nat
    BY <1>1, <1>4
<1> QED  BY <1>5

(* The library's sum is the one that adds up.                               *)
LEMMA SumAddsUp ==
    ASSUME NEW S, IsFiniteSet(S), NEW f, \A x \in S : f[x] \in Nat
    PROVE  \E it : AddsUp(it, f, S) /\ SumFunctionOnSet(f, S) = it[S]
<1> DEFINE Solves(it) == it = [T \in SUBSET S |-> IF T = {} THEN 0 ELSE f[CHOOSE x \in T : TRUE] + it[T \ {CHOOSE x \in T : TRUE}]]
           c == CHOOSE it : Solves(it)
<1>1. PICK it \in [SUBSET S -> Nat] : AddsPicked(it, f, SUBSET S)
    BY PickedSum
<1>2. Solves(it)
    BY <1>1 DEF AddsPicked, Picked
<1>3. Solves(c)
    <2> HIDE DEF Solves
    <2> QED  BY <1>2
<1>4. SumFunctionOnSet(f, S) = c[S]
    BY DEF SumFunctionOnSet, FoldFunctionOnSet, MapThenFoldSet
<1> HIDE DEF c
<1>5. DOMAIN c = SUBSET S /\ c = [T \in DOMAIN c |-> c[T]] /\ AddsPicked(c, f, SUBSET S)
    BY <1>3 DEF AddsPicked, Picked
<1>6. c \in [SUBSET S -> Nat]
    BY <1>5, PickedTyped
<1>7. AddsUp(c, f, S)
    BY <1>5, <1>6, AnyOrder
<1> QED  BY <1>4, <1>7

(* A sum is no less than any of its terms.                                  *)
LEMMA SumBounds ==
    ASSUME NEW S, IsFiniteSet(S), NEW f, \A x \in S : f[x] \in Nat
    PROVE  SumFunctionOnSet(f, S) \in Nat /\ \A x \in S : f[x] <= SumFunctionOnSet(f, S)
<1>1. PICK it : AddsUp(it, f, S) /\ SumFunctionOnSet(f, S) = it[S]
    BY SumAddsUp
<1>2. it[S] \in Nat
    BY <1>1 DEF AddsUp
<1>3. ASSUME NEW x \in S PROVE f[x] <= it[S]
    <2>1. it[S] = f[x] + it[S \ {x}] /\ it[S \ {x}] \in Nat /\ f[x] \in Nat
        BY <1>1 DEF AddsUp
    <2> QED  BY <2>1
<1> QED  BY <1>1, <1>2, <1>3

(* h carries S onto R one to one, and f to g.                               *)
Carries(h, S, R, f, g) ==
    /\ h \in Bijection(S, R)
    /\ \A x \in S : g[h[x]] = f[x]

(* Sums of the same terms, in other places, are equal.                      *)
LEMMA SumCarried ==
    ASSUME NEW S, IsFiniteSet(S), NEW f, \A x \in S : f[x] \in Nat,
           NEW R, NEW g, NEW h, Carries(h, S, R, f, g)
    PROVE  SumFunctionOnSet(f, S) = SumFunctionOnSet(g, R)
<1> DEFINE n == Cardinality(S)
           Img(T) == {h[x] : x \in T}
<1>0. h \in [S -> R] /\ (\A x, y \in S : h[x] = h[y] => x = y) /\ \A z \in R : \E x \in S : h[x] = z
    BY DEF Carries, Bijection, Injection, Surjection, IsInjective
<1>1. n \in Nat /\ \A T \in SUBSET S : IsFiniteSet(T) /\ Cardinality(T) \in 0 .. n
    BY FS_CardinalityType, FS_Subset
<1>2. IsFiniteSet(R) /\ \A z \in R : g[z] \in Nat
    <2>1. h \in Surjection(S, R)
        BY DEF Carries, Bijection
    <2>2. IsFiniteSet(R)
        BY <2>1, FS_Surjection
    <2> QED  BY <1>0, <2>2 DEF Carries
<1>3. PICK i : AddsUp(i, f, S) /\ SumFunctionOnSet(f, S) = i[S]
    BY SumAddsUp
<1>4. PICK j : AddsUp(j, g, R) /\ SumFunctionOnSet(g, R) = j[R]
    BY <1>2, SumAddsUp
<1> DEFINE K == {k \in 0 .. n : \A T \in SUBSET S : Cardinality(T) = k => i[T] = j[Img(T)]}
<1>5. 0 \in K
    <2>1. Img({}) = {}
        OBVIOUS
    <2>2. i[{}] = j[Img({})]
        BY <1>3, <1>4, <2>1 DEF AddsUp
    <2> HIDE DEF Img
    <2> QED  BY <1>1, <2>2, FS_EmptySet
<1>6. ASSUME NEW k \in 1 .. n, k - 1 \in K PROVE k \in K
    <2> SUFFICES ASSUME NEW T \in SUBSET S, Cardinality(T) = k PROVE i[T] = j[Img(T)]
        BY <1>1
    <2>1. T # {}
        BY <1>1, FS_EmptySet
    <2>2. PICK x \in T : TRUE
        BY <2>1
    <2> DEFINE U == T \ {x}
    <2>3. U \in SUBSET S /\ Cardinality(U) = k - 1
        BY <1>1, <2>2, FS_RemoveElement
    <2>4. i[U] = j[Img(U)]
        <3> HIDE DEF U, Img
        <3> QED  BY <1>6, <2>3
    <2>5. h[x] \in Img(T) /\ Img(T) \in SUBSET R
        BY <1>0
    <2>6. Img(U) = Img(T) \ {h[x]}
        BY <1>0
    <2> HIDE DEF Img, U
    <2>7. i[T] = f[x] + i[U]
        BY <1>3 DEF AddsUp, U
    <2>8. j[Img(T)] = g[h[x]] + j[Img(U)]
        BY <1>4, <2>5, <2>6 DEF AddsUp
    <2>9. g[h[x]] = f[x]
        BY DEF Carries
    <2> QED  BY <2>4, <2>7, <2>8, <2>9
<1>7. \A k \in 0 .. n : k \in K
    <2> HIDE DEF K, n
    <2> QED  BY <1>1, <1>5, <1>6, UpTo
<1>8. i[S] = j[Img(S)]
    <2> HIDE DEF Img
    <2> QED  BY <1>1, <1>7
<1>9. Img(S) = R
    BY <1>0
<1> QED  BY <1>3, <1>4, <1>8, <1>9

(* A linear relation between the terms of four sums is one between the sums. *)
Balanced(f, g, m, h, x, y, z) ==
    h + z * m = x * g + y * f

LEMMA BalanceAdds ==
    ASSUME NEW f \in Nat, NEW g \in Nat, NEW m \in Nat, NEW h \in Nat,
           NEW F \in Nat, NEW G \in Nat, NEW M \in Nat, NEW H \in Nat,
           NEW x \in Nat, NEW y \in Nat, NEW z \in Nat,
           Balanced(f, g, m, h, x, y, z), Balanced(F, G, M, H, x, y, z)
    PROVE  Balanced(f + F, g + G, m + M, h + H, x, y, z)
<1>1. /\ z * (m + M) = z * m + z * M
      /\ x * (g + G) = x * g + x * G
      /\ y * (f + F) = y * f + y * F
    OBVIOUS
<1>2. /\ z * m \in Nat /\ z * M \in Nat /\ x * g \in Nat /\ x * G \in Nat /\ y * f \in Nat /\ y * F \in Nat
    OBVIOUS
<1>3. h + z * m = x * g + y * f /\ H + z * M = x * G + y * F
    BY DEF Balanced
<1> DEFINE zm == z * m  zM == z * M  xg == x * g  xG == x * G  yf == y * f  yF == y * F
           zz == z * (m + M)  xx == x * (g + G)  yy == y * (f + F)
<1>4. /\ zz = zm + zM /\ xx = xg + xG /\ yy = yf + yF
      /\ zm \in Nat /\ zM \in Nat /\ xg \in Nat /\ xG \in Nat /\ yf \in Nat /\ yF \in Nat
      /\ h + zm = xg + yf /\ H + zM = xG + yF
    BY <1>1, <1>2, <1>3
<1> HIDE DEF zm, zM, xg, xG, yf, yF, zz, xx, yy
<1>5. (h + H) + zz = xx + yy
    BY <1>4
<1> QED  BY <1>5 DEF zz, xx, yy, Balanced

LEMMA SumBalanced ==
    ASSUME NEW S, IsFiniteSet(S), NEW f, NEW g, NEW m, NEW h,
           \A c \in S : f[c] \in Nat /\ g[c] \in Nat /\ m[c] \in Nat /\ h[c] \in Nat,
           NEW x \in Nat, NEW y \in Nat, NEW z \in Nat,
           \A c \in S : Balanced(f[c], g[c], m[c], h[c], x, y, z)
    PROVE  Balanced(SumFunctionOnSet(f, S), SumFunctionOnSet(g, S), SumFunctionOnSet(m, S), SumFunctionOnSet(h, S),
                    x, y, z)
<1> DEFINE n == Cardinality(S)
<1>1. n \in Nat /\ \A T \in SUBSET S : IsFiniteSet(T) /\ Cardinality(T) \in 0 .. n
    BY FS_CardinalityType, FS_Subset
<1>2. PICK F : AddsUp(F, f, S) /\ SumFunctionOnSet(f, S) = F[S]
    BY SumAddsUp
<1>3. PICK G : AddsUp(G, g, S) /\ SumFunctionOnSet(g, S) = G[S]
    BY SumAddsUp
<1>4. PICK M : AddsUp(M, m, S) /\ SumFunctionOnSet(m, S) = M[S]
    BY SumAddsUp
<1>5. PICK H : AddsUp(H, h, S) /\ SumFunctionOnSet(h, S) = H[S]
    BY SumAddsUp
<1> DEFINE Holds(T) == Balanced(F[T], G[T], M[T], H[T], x, y, z)
           K == {k \in 0 .. n : \A T \in SUBSET S : Cardinality(T) = k => Holds(T)}
<1>6. 0 \in K
    <2>1. F[{}] = 0 /\ G[{}] = 0 /\ M[{}] = 0 /\ H[{}] = 0
        BY <1>2, <1>3, <1>4, <1>5 DEF AddsUp
    <2>2. Balanced(0, 0, 0, 0, x, y, z)
        BY DEF Balanced
    <2>3. Holds({})
        BY <2>1, <2>2
    <2> HIDE DEF Holds
    <2> QED  BY <1>1, <2>3, FS_EmptySet
<1>7. ASSUME NEW k \in 1 .. n, k - 1 \in K PROVE k \in K
    <2> SUFFICES ASSUME NEW T \in SUBSET S, Cardinality(T) = k PROVE Holds(T)
        BY <1>1
    <2>1. T # {}
        BY <1>1, FS_EmptySet
    <2>2. PICK c \in T : TRUE
        BY <2>1
    <2> DEFINE U == T \ {c}
    <2>3. U \in SUBSET S /\ Cardinality(U) = k - 1
        BY <1>1, <2>2, FS_RemoveElement
    <2>4. Holds(U)
        <3> HIDE DEF U, Holds
        <3> QED  BY <1>7, <2>3
    <2>5. F[T] = f[c] + F[U] /\ F[U] \in Nat
        BY <1>2 DEF AddsUp
    <2>6. G[T] = g[c] + G[U] /\ G[U] \in Nat
        BY <1>3 DEF AddsUp
    <2>7. M[T] = m[c] + M[U] /\ M[U] \in Nat
        BY <1>4 DEF AddsUp
    <2>8. H[T] = h[c] + H[U] /\ H[U] \in Nat
        BY <1>5 DEF AddsUp
    <2> HIDE DEF U
    <2>9. Balanced(f[c] + F[U], g[c] + G[U], m[c] + M[U], h[c] + H[U], x, y, z)
        <3> DEFINE a1 == f[c]  a2 == g[c]  a3 == m[c]  a4 == h[c]
                   b1 == F[U]  b2 == G[U]  b3 == M[U]  b4 == H[U]
        <3>1. a1 \in Nat /\ a2 \in Nat /\ a3 \in Nat /\ a4 \in Nat /\ Balanced(a1, a2, a3, a4, x, y, z)
            OBVIOUS
        <3>2. b1 \in Nat /\ b2 \in Nat /\ b3 \in Nat /\ b4 \in Nat /\ Balanced(b1, b2, b3, b4, x, y, z)
            BY <2>4, <2>5, <2>6, <2>7, <2>8
        <3> HIDE DEF a1, a2, a3, a4, b1, b2, b3, b4
        <3>3. Balanced(a1 + b1, a2 + b2, a3 + b3, a4 + b4, x, y, z)
            BY <3>1, <3>2, BalanceAdds
        <3> QED  BY <3>3 DEF a1, a2, a3, a4, b1, b2, b3, b4
    <2> QED  BY <2>5, <2>6, <2>7, <2>8, <2>9
<1>8. \A k \in 0 .. n : k \in K
    <2> HIDE DEF K, n
    <2> QED  BY <1>1, <1>6, <1>7, UpTo
<1>9. Holds(S)
    <2> HIDE DEF Holds
    <2> QED  BY <1>1, <1>8
<1> QED  BY <1>2, <1>3, <1>4, <1>5, <1>9

LEMMA SumZero ==
    ASSUME NEW S, IsFiniteSet(S), NEW f, \A c \in S : f[c] = 0
    PROVE  SumFunctionOnSet(f, S) = 0
<1>1. \A c \in S : Balanced(f[c], f[c], f[c], f[c], 0, 0, 1)
    BY DEF Balanced
<1>2. SumFunctionOnSet(f, S) \in Nat
    BY SumBounds
<1> DEFINE s == SumFunctionOnSet(f, S)
<1>3. Balanced(s, s, s, s, 0, 0, 1)
    <2>1. \A c \in S : f[c] \in Nat
        OBVIOUS
    <2>2. 0 \in Nat /\ 1 \in Nat
        OBVIOUS
    <2> QED  BY <1>1, <2>1, <2>2, SumBalanced
<1> HIDE DEF s
<1>4. s \in Nat
    BY <1>2 DEF s
<1>5. s = 0
    BY <1>3, <1>4 DEF Balanced
<1> QED  BY <1>5 DEF s

(***************************************************************************)
(* Cauchy and Schwarz: the cosine of two lists of numbers is below one     *)
(* unless the one is a multiple of the other.                              *)
(***************************************************************************)
LEMMA MulPositive == ASSUME NEW a \in Int, NEW b \in Int, a > 0, b > 0 PROVE a * b > 0
    OBVIOUS

LEMMA SquarePositive == ASSUME NEW a \in Int, a # 0 PROVE a * a > 0
    OBVIOUS

LEMMA SquareOfDifference ==
    ASSUME NEW a \in Int, NEW d \in Int, NEW p \in Int, NEW q \in Int
    PROVE  (a * q - d * p) * (a * q - d * p) + (2 * a * d) * (p * q) = (a * a) * (q * q) + (d * d) * (p * p)
    OBVIOUS

LEMMA BalanceTips ==
    ASSUME NEW a \in Nat, NEW b \in Nat, NEW d \in Nat, NEW h \in Nat, a > 0, h > 0,
           Balanced(a, b, d, h, a * a, d * d, 2 * a * d)
    PROVE  d * d < a * b
<1> DEFINE u == a * b
           v == d * d
<1>1. u \in Nat /\ v \in Nat
    OBVIOUS
<1>2. (2 * a * d) * d = 2 * (a * v) /\ (a * a) * b = a * u /\ (d * d) * a = a * v
    OBVIOUS
<1>3. h + 2 * (a * v) = a * u + a * v
    BY <1>2 DEF Balanced
<1> HIDE DEF u, v
<1>4. a * u \in Nat /\ a * v \in Nat
    BY <1>1
<1>5. a * v < a * u
    <2> DEFINE x == a * u
               y == a * v
    <2>1. x \in Nat /\ y \in Nat /\ h + 2 * y = x + y
        BY <1>3, <1>4
    <2> HIDE DEF x, y
    <2>2. y < x
        BY <2>1
    <2> QED  BY <2>2 DEF x, y
<1>6. v < u
    <2> SUFFICES ASSUME u <= v PROVE FALSE
        BY <1>1
    <2>1. a * u <= a * v
        BY <1>1, MulMonotone
    <2> QED  BY <1>4, <1>5, <2>1
<1> QED  BY <1>6 DEF u, v

(* p and q stand to each other as a and d.                                  *)
InRatio(a, d, p, q) == a * q = d * p

LEMMA SameRatio ==
    ASSUME NEW a \in Int, a # 0, NEW d \in Int, NEW p \in Int, NEW q \in Int, NEW r \in Int, NEW s \in Int,
           InRatio(a, d, p, q), InRatio(a, d, r, s)
    PROVE  InRatio(p, q, r, s)
<1>0. a * q = d * p /\ a * s = d * r
    BY DEF InRatio
<1>1. a * (p * s) = p * (a * s) /\ a * (r * q) = r * (a * q)
    OBVIOUS
<1>2. p * (d * r) = r * (d * p)
    OBVIOUS
<1>3. a * (p * s) = a * (r * q)
    BY <1>0, <1>1, <1>2
<1> DEFINE x == p * s
           y == r * q
<1>4. x \in Int /\ y \in Int
    OBVIOUS
<1>5. a * x = a * y
    BY <1>3
<1> HIDE DEF x, y
<1>6. a * (x - y) = a * x - a * y
    BY <1>4
<1>7. a * (x - y) = 0
    BY <1>4, <1>5, <1>6
<1>8. x - y = 0
    <2> DEFINE z == x - y
    <2>1. z \in Int /\ a * z = 0
        BY <1>4, <1>7
    <2> HIDE DEF z
    <2>2. z = 0
        BY <2>1
    <2> QED  BY <2>2 DEF z
<1>9. p * s = r * q
    BY <1>4, <1>8 DEF x, y
<1>10. r * q = q * r
    OBVIOUS
<1> QED  BY <1>9, <1>10 DEF InRatio

BelowOne(f, g, S) ==
    LET A == SumFunctionOnSet([x \in S |-> f[x] * f[x]], S)
        B == SumFunctionOnSet([x \in S |-> g[x] * g[x]], S)
        D == SumFunctionOnSet([x \in S |-> f[x] * g[x]], S)
    IN  D * D < A * B

LEMMA CosineBelowOne ==
    ASSUME NEW S, IsFiniteSet(S), NEW f, NEW g, \A x \in S : f[x] \in Nat /\ g[x] \in Nat,
           NEW c \in S, NEW e \in S, f[c] * g[e] # f[e] * g[c]
    PROVE  BelowOne(f, g, S)
<1> DEFINE ff == [x \in S |-> f[x] * f[x]]
           gg == [x \in S |-> g[x] * g[x]]
           fg == [x \in S |-> f[x] * g[x]]
           A == SumFunctionOnSet(ff, S)
           B == SumFunctionOnSet(gg, S)
           D == SumFunctionOnSet(fg, S)
           h == [x \in S |-> (A * g[x] - D * f[x]) * (A * g[x] - D * f[x])]
           H == SumFunctionOnSet(h, S)
<1>0. \A x, y \in Nat : x * y \in Nat
    OBVIOUS
<1>1. \A x \in S : ff[x] = f[x] * f[x] /\ gg[x] = g[x] * g[x] /\ fg[x] = f[x] * g[x]
    OBVIOUS
<1>2. \A x \in S : ff[x] \in Nat /\ gg[x] \in Nat /\ fg[x] \in Nat
    <2> HIDE DEF ff, gg, fg
    <2> QED  BY <1>0, <1>1
<1> HIDE DEF ff, gg, fg
<1>3. A \in Nat /\ B \in Nat /\ D \in Nat /\ \A x \in S : ff[x] <= A
    BY <1>2, SumBounds
<1> HIDE DEF A, B, D
<1>4. A > 0
    <2>1. f[c] # 0 \/ f[e] # 0
        <3>1. g[c] \in Nat /\ g[e] \in Nat
            OBVIOUS
        <3> QED  BY <3>1
    <2>2. PICK x \in S : f[x] # 0
        BY <2>1
    <2>3. f[x] \in Int /\ f[x] * f[x] > 0
        BY <2>2, SquarePositive
    <2>4. ff[x] <= A /\ ff[x] > 0 /\ ff[x] \in Nat
        BY <1>1, <1>2, <1>3, <2>3
    <2> QED  BY <1>3, <2>4
<1>5. \A x \in S : h[x] = (A * g[x] - D * f[x]) * (A * g[x] - D * f[x])
    OBVIOUS
<1> HIDE DEF h
<1>6. ASSUME NEW x \in S
      PROVE  /\ h[x] \in Nat
             /\ Balanced(ff[x], gg[x], fg[x], h[x], A * A, D * D, 2 * A * D)
             /\ A * g[x] # D * f[x] => h[x] > 0
    <2>1. f[x] \in Int /\ g[x] \in Int /\ A \in Int /\ D \in Int
        BY <1>3
    <2> DEFINE t == A * g[x] - D * f[x]
    <2>2. h[x] = t * t
        BY <1>5
    <2>3. t \in Int /\ (A * g[x] # D * f[x] => t # 0)
        <3> DEFINE u == A * g[x]
                   v == D * f[x]
        <3>1. u \in Int /\ v \in Int
            BY <2>1
        <3>2. t = u - v
            OBVIOUS
        <3> HIDE DEF u, v, t
        <3>3. t \in Int /\ (u # v => t # 0)
            BY <3>1, <3>2
        <3> QED  BY <3>3 DEF u, v
    <2>4. t * t + (2 * A * D) * (f[x] * g[x]) = (A * A) * (g[x] * g[x]) + (D * D) * (f[x] * f[x])
        BY <2>1, SquareOfDifference
    <2>5. Balanced(ff[x], gg[x], fg[x], h[x], A * A, D * D, 2 * A * D)
        BY <1>1, <2>2, <2>4 DEF Balanced
    <2> HIDE DEF t
    <2>6. t * t \in Nat /\ (t # 0 => t * t > 0)
        <3>1. \A z \in Int : z * z \in Nat /\ (z # 0 => z * z > 0)
            OBVIOUS
        <3> QED  BY <2>3, <3>1
    <2> QED  BY <2>2, <2>3, <2>5, <2>6
<1>7. \E x \in S : h[x] > 0
    <2> SUFFICES ASSUME \A x \in S : ~(h[x] > 0) PROVE FALSE
        OBVIOUS
    <2>1. A * g[c] = D * f[c] /\ A * g[e] = D * f[e]
        BY <1>6
    <2>2. A \in Int /\ A # 0 /\ D \in Int
        BY <1>3, <1>4
    <2>3. f[c] \in Int /\ g[c] \in Int /\ f[e] \in Int /\ g[e] \in Int
        OBVIOUS
    <2>4. f[c] * g[e] = f[e] * g[c]
        <3>1. InRatio(A, D, f[c], g[c]) /\ InRatio(A, D, f[e], g[e])
            BY <2>1 DEF InRatio
        <3>2. InRatio(f[c], g[c], f[e], g[e])
            BY <2>2, <2>3, <3>1, SameRatio
        <3>3. f[c] * g[e] = g[c] * f[e] /\ g[c] * f[e] = f[e] * g[c]
            BY <2>3, <3>2 DEF InRatio
        <3> QED  BY <3>3
    <2> QED  BY <2>4
<1>8. H \in Nat /\ H > 0
    <2>1. H \in Nat /\ \A x \in S : h[x] <= H
        BY <1>6, SumBounds
    <2>2. PICK x \in S : h[x] > 0
        BY <1>7
    <2> HIDE DEF H
    <2>3. h[x] \in Nat /\ h[x] <= H
        BY <1>6, <2>1
    <2> QED  BY <2>1, <2>2, <2>3
<1>9. Balanced(A, B, D, H, A * A, D * D, 2 * A * D)
    <2>1. A * A \in Nat /\ D * D \in Nat /\ 2 * A * D \in Nat
        <3>1. A * A \in Nat
            BY <1>0, <1>3
        <3>2. D * D \in Nat
            BY <1>0, <1>3
        <3>3. 2 * A \in Nat
            BY <1>0, <1>3
        <3>4. (2 * A) * D \in Nat
            BY <1>0, <1>3, <3>3
        <3> QED  BY <3>1, <3>2, <3>4
    <2> DEFINE x == A * A
               y == D * D
               z == 2 * A * D
    <2>2. x \in Nat /\ y \in Nat /\ z \in Nat
        BY <2>1
    <2>3. \A w \in S : Balanced(ff[w], gg[w], fg[w], h[w], x, y, z)
        BY <1>6
    <2>4. \A w \in S : ff[w] \in Nat /\ gg[w] \in Nat /\ fg[w] \in Nat /\ h[w] \in Nat
        BY <1>2, <1>6
    <2> HIDE DEF x, y, z
    <2>5. Balanced(SumFunctionOnSet(ff, S), SumFunctionOnSet(gg, S), SumFunctionOnSet(fg, S), SumFunctionOnSet(h, S), x, y, z)
        BY <2>2, <2>3, <2>4, SumBalanced
    <2> QED  BY <2>5 DEF x, y, z, A, B, D, H
<1> HIDE DEF H
<1>10. D * D < A * B
    BY <1>3, <1>4, <1>8, <1>9, BalanceTips
<1> QED  BY <1>10 DEF A, B, D, ff, gg, fg, BelowOne

(***************************************************************************)
(* A moved storm: the same rain, so many pixels further.                   *)
(***************************************************************************)

IsShift(o, shift) ==
    /\ o[1] \in Int /\ o[2] \in Int
    /\ shift = <<o[1] * nowcastCoarsen, o[2] * nowcastCoarsen>>

IsRain(cells) == DOMAIN cells \subseteq Pixels /\ \A p \in DOMAIN cells : cells[p] \in Nat

LEMMA PixelPairs == \A p \in Pixels : p = <<p[1], p[2]>> /\ p[1] \in Int /\ p[2] \in Int
    BY RasterAssumption DEF Pixels

(* The moved storm holds at q what the storm holds where q came from.       *)
LEMMA MovedCells ==
    ASSUME NEW cells, IsRain(cells), NEW sx \in Int, NEW sy \in Int
    PROVE  /\ \A p \in Int \X Int : p \in DOMAIN Moved(cells, <<sx, sy>>) <=> <<p[1] - sx, p[2] - sy>> \in DOMAIN cells
           /\ \A p \in DOMAIN Moved(cells, <<sx, sy>>) :
                 /\ p \in Int \X Int
                 /\ Moved(cells, <<sx, sy>>)[p] = cells[<<p[1] - sx, p[2] - sy>>]
                 /\ <<p[1] - sx, p[2] - sy>> \in DOMAIN cells
<1> DEFINE D == {<<q[1] + sx, q[2] + sy>> : q \in DOMAIN cells}
           moved == Moved(cells, <<sx, sy>>)
<1>1. moved = [p \in D |-> cells[<<p[1] - sx, p[2] - sy>>]]
    BY DEF Moved
<1>2. \A q \in DOMAIN cells : q = <<q[1], q[2]>> /\ q[1] \in Int /\ q[2] \in Int
    BY PixelPairs DEF IsRain
<1>3. ASSUME NEW p \in D
      PROVE  p \in Int \X Int /\ <<p[1] - sx, p[2] - sy>> \in DOMAIN cells
    <2>1. PICK q \in DOMAIN cells : p = <<q[1] + sx, q[2] + sy>>
        OBVIOUS
    <2>2. q = <<q[1], q[2]>> /\ q[1] \in Int /\ q[2] \in Int
        BY <1>2
    <2>3. p[1] = q[1] + sx /\ p[2] = q[2] + sy
        BY <2>1
    <2>4. p[1] - sx = q[1] /\ p[2] - sy = q[2]
        BY <2>2, <2>3
    <2>5. p \in Int \X Int
        BY <2>1, <2>2
    <2>6. <<p[1] - sx, p[2] - sy>> = q
        BY <2>2, <2>4
    <2> QED  BY <2>5, <2>6
<1>4. ASSUME NEW p \in Int \X Int, <<p[1] - sx, p[2] - sy>> \in DOMAIN cells PROVE p \in D
    <2> DEFINE q == <<p[1] - sx, p[2] - sy>>
    <2>1. p[1] \in Int /\ p[2] \in Int /\ p = <<p[1], p[2]>>
        OBVIOUS
    <2>2. q[1] + sx = p[1] /\ q[2] + sy = p[2]
        BY <2>1
    <2>3. p = <<q[1] + sx, q[2] + sy>>
        BY <2>1, <2>2
    <2>4. q \in DOMAIN cells
        BY <1>4
    <2> HIDE DEF q
    <2> QED  BY <2>3, <2>4
<1>5. DOMAIN moved = D
    BY <1>1
<1>6. \A p \in D : moved[p] = cells[<<p[1] - sx, p[2] - sy>>]
    BY <1>1
<1> HIDE DEF moved, D
<1> QED  BY <1>3, <1>4, <1>5, <1>6 DEF moved

LEMMA MovedRain ==
    ASSUME NEW cells, IsRain(cells), NEW sx \in Int, NEW sy \in Int, DOMAIN Moved(cells, <<sx, sy>>) \subseteq Pixels
    PROVE  IsRain(Moved(cells, <<sx, sy>>))
<1>1. \A p \in DOMAIN Moved(cells, <<sx, sy>>) :
          /\ Moved(cells, <<sx, sy>>)[p] = cells[<<p[1] - sx, p[2] - sy>>]
          /\ <<p[1] - sx, p[2] - sy>> \in DOMAIN cells
    BY MovedCells
<1> QED  BY <1>1 DEF IsRain

LEMMA FieldTyped ==
    ASSUME NEW cells, IsRain(cells)
    PROVE  Field2(cells) \in [Pixels -> Nat]
    BY DEF Field2, IsRain

LEMMA FieldMoved ==
    ASSUME NEW cells, IsRain(cells), NEW sx \in Int, NEW sy \in Int, NEW p \in Pixels,
           <<p[1] + sx, p[2] + sy>> \in Pixels
    PROVE  Field2(Moved(cells, <<sx, sy>>))[<<p[1] + sx, p[2] + sy>>] = Field2(cells)[p]
<1> DEFINE q == <<p[1] + sx, p[2] + sy>>
           moved == Moved(cells, <<sx, sy>>)
<1>1. p = <<p[1], p[2]>> /\ p[1] \in Int /\ p[2] \in Int
    BY PixelPairs
<1>2. q \in Int \X Int /\ <<q[1] - sx, q[2] - sy>> = p
    <2>1. q[1] - sx = p[1] /\ q[2] - sy = p[2]
        BY <1>1
    <2> QED  BY <1>1, <2>1
<1> HIDE DEF q
<1>3. q \in DOMAIN moved <=> p \in DOMAIN cells
    BY <1>2, MovedCells
<1>4. q \in DOMAIN moved => moved[q] = cells[p]
    BY <1>2, MovedCells
<1> HIDE DEF moved
<1>5. q \in Pixels
    BY DEF q
<1>6. Field2(moved)[q] = IF q \in DOMAIN moved THEN moved[q] ELSE 0
    BY <1>5 DEF Field2
<1>7. Field2(cells)[p] = IF p \in DOMAIN cells THEN cells[p] ELSE 0
    BY DEF Field2
<1>8. Field2(moved)[q] = Field2(cells)[p]
    BY <1>3, <1>4, <1>6, <1>7
<1> QED  BY <1>8 DEF q, moved

(***************************************************************************)
(* Blocks.                                                                 *)
(***************************************************************************)
LEMMA Distributes == ASSUME NEW i \in Int, NEW o \in Int, NEW c \in Int PROVE (i + o) * c = i * c + o * c
    OBVIOUS

(* A row of blocks, and of pixels, one block after another.                 *)
LEMMA FromShifted ==
    ASSUME NEW i \in Int, NEW o \in Int
    PROVE  \A x \in Int : x \in From(i) <=> x + o * nowcastCoarsen \in From(i + o)
<1> DEFINE C == nowcastCoarsen
<1>1. C \in Int
    BY RasterAssumption
<1> HIDE DEF C
<1>2. (i + o) * C = i * C + o * C /\ (i + o + 1) * C = (i + 1) * C + o * C
    <2>1. (i + o) * C = i * C + o * C
        BY <1>1, Distributes
    <2>2. i + 1 \in Int /\ i + o + 1 = (i + 1) + o
        OBVIOUS
    <2>3. ((i + 1) + o) * C = (i + 1) * C + o * C
        BY <1>1, <2>2, Distributes
    <2> QED  BY <2>1, <2>2, <2>3
<1>3. i * C \in Int /\ o * C \in Int /\ (i + 1) * C \in Int
    BY <1>1
<1> DEFINE l == i * C
           s == o * C
           u == (i + 1) * C
<1> DEFINE m == (i + o) * C
           n == (i + o + 1) * C
<1>4. From(i) = l .. (u - 1) /\ From(i + o) = m .. (n - 1)
    BY DEF From, C
<1>5. l \in Int /\ s \in Int /\ u \in Int /\ m = l + s /\ n = u + s
    BY <1>2, <1>3
<1> HIDE DEF l, s, u, m, n
<1>6. \A x \in Int : x \in l .. (u - 1) <=> x + s \in m .. (n - 1)
    BY <1>5
<1> QED  BY <1>4, <1>6 DEF s, C

LEMMA FromInside ==
    ASSUME NEW width \in Nat, NEW i \in 0 .. (width \div nowcastCoarsen - 1)
    PROVE  From(i) \subseteq 0 .. (width - 1)
<1> DEFINE C == nowcastCoarsen
           q == width \div C
<1>1. C \in Nat \ {0}
    BY RasterAssumption
<1> HIDE DEF C
<1>2. q \in Nat /\ C * q <= width
    BY <1>1, DivBounds
<1> HIDE DEF q
<1>3. i \in Nat /\ i + 1 \in Nat /\ i + 1 <= q
    BY <1>2 DEF q, C
<1>4. C * (i + 1) <= C * q
    BY <1>1, <1>2, <1>3, MulMonotone
<1>5. i * C \in Nat /\ (i + 1) * C = C * (i + 1) /\ C * (i + 1) \in Nat /\ C * q \in Nat
    <2>1. i * C \in Nat
        BY <1>1, <1>3
    <2>2. (i + 1) * C = C * (i + 1)
        BY <1>1, <1>3
    <2>3. C * (i + 1) \in Nat
        BY <1>1, <1>3
    <2>4. C * q \in Nat
        BY <1>1, <1>2
    <2> QED  BY <2>1, <2>2, <2>3, <2>4
<1> DEFINE l == i * C
           u == (i + 1) * C
<1>6. From(i) = l .. (u - 1)
    BY DEF From, C
<1>7. l \in Nat /\ u \in Nat /\ u <= width
    BY <1>2, <1>4, <1>5
<1> HIDE DEF l, u
<1> QED  BY <1>6, <1>7

LEMMA BlockInside ==
    ASSUME NEW c \in CoarseCells
    PROVE  Block(c) \subseteq Pixels /\ IsFiniteSet(Block(c))
<1>1. /\ c[1] \in 0 .. (RasterWidth \div nowcastCoarsen - 1)
      /\ c[2] \in 0 .. (RasterHeight \div nowcastCoarsen - 1)
    BY DEF CoarseCells
<1>2. From(c[1]) \subseteq 0 .. (RasterWidth - 1) /\ From(c[2]) \subseteq 0 .. (RasterHeight - 1)
    BY <1>1, FromInside, RasterAssumption
<1>3. IsFiniteSet(0 .. (RasterWidth - 1)) /\ IsFiniteSet(0 .. (RasterHeight - 1))
    BY FS_Interval, RasterAssumption
<1>4. IsFiniteSet(From(c[1])) /\ IsFiniteSet(From(c[2]))
    BY <1>2, <1>3, FS_Subset
<1>5. IsFiniteSet(From(c[1]) \X From(c[2]))
    BY <1>4, FS_Product
<1> QED  BY <1>2, <1>5 DEF Block, Pixels

LEMMA CoarseFinite == IsFiniteSet(CoarseCells) /\ \A c \in CoarseCells : c = <<c[1], c[2]>> /\ c[1] \in Int /\ c[2] \in Int
<1> DEFINE w == RasterWidth \div nowcastCoarsen
           h == RasterHeight \div nowcastCoarsen
<1>1. w \in Int /\ h \in Int
    BY RasterAssumption
<1>2. CoarseCells = (0 .. (w - 1)) \X (0 .. (h - 1))
    BY DEF CoarseCells
<1> HIDE DEF w, h
<1>3. IsFiniteSet(0 .. (w - 1)) /\ IsFiniteSet(0 .. (h - 1))
    <2>1. w - 1 \in Int /\ h - 1 \in Int
        BY <1>1
    <2> QED  BY <2>1, FS_Interval
<1>4. IsFiniteSet(CoarseCells)
    BY <1>2, <1>3, FS_Product
<1> QED  BY <1>1, <1>2, <1>4

LEMMA CoarsenTyped ==
    ASSUME NEW field \in [Pixels -> Nat]
    PROVE  coarsen(field) \in [CoarseCells -> Nat]
<1>1. ASSUME NEW c \in CoarseCells PROVE SumFunctionOnSet(field, Block(c)) \in Nat
    <2>1. IsFiniteSet(Block(c)) /\ \A p \in Block(c) : field[p] \in Nat
        BY BlockInside
    <2> QED  BY <2>1, SumBounds
<1> QED  BY <1>1 DEF coarsen

(* A block and the one the storm carries it to hold as much rain.           *)
LEMMA CoarsenMoved ==
    ASSUME NEW cells, IsRain(cells), NEW o, NEW shift, IsShift(o, shift),
           NEW c \in CoarseCells, <<c[1] + o[1], c[2] + o[2]>> \in CoarseCells
    PROVE  coarsen(Field2(Moved(cells, shift)))[<<c[1] + o[1], c[2] + o[2]>>] = coarsen(Field2(cells))[c]
<1> DEFINE e == <<c[1] + o[1], c[2] + o[2]>>
           sx == o[1] * nowcastCoarsen
           sy == o[2] * nowcastCoarsen
           f == Field2(cells)
           g == Field2(Moved(cells, shift))
           h == [p \in Block(c) |-> <<p[1] + sx, p[2] + sy>>]
<1>1. sx \in Int /\ sy \in Int /\ shift = <<sx, sy>> /\ o[1] \in Int /\ o[2] \in Int
    BY RasterAssumption DEF IsShift
<1>2. c[1] \in Int /\ c[2] \in Int /\ e[1] = c[1] + o[1] /\ e[2] = c[2] + o[2]
    BY CoarseFinite
<1>3. \A x \in Int : x \in From(c[1]) <=> x + sx \in From(e[1])
    <2>1. \A x \in Int : x \in From(c[1]) <=> x + o[1] * nowcastCoarsen \in From(c[1] + o[1])
        BY <1>1, <1>2, FromShifted
    <2> QED  BY <2>1
<1>4. \A x \in Int : x \in From(c[2]) <=> x + sy \in From(e[2])
    <2>1. \A x \in Int : x \in From(c[2]) <=> x + o[2] * nowcastCoarsen \in From(c[2] + o[2])
        BY <1>1, <1>2, FromShifted
    <2> QED  BY <2>1
<1> HIDE DEF sx, sy, e
<1>5. Block(c) \subseteq Pixels /\ Block(e) \subseteq Pixels /\ IsFiniteSet(Block(c)) /\ e \in CoarseCells
    BY BlockInside DEF e
<1>6. \A p \in Block(c) : p = <<p[1], p[2]>> /\ p[1] \in Int /\ p[2] \in Int /\ p[1] \in From(c[1]) /\ p[2] \in From(c[2])
    BY <1>5, PixelPairs DEF Block
<1>7. \A p \in Block(e) : p = <<p[1], p[2]>> /\ p[1] \in Int /\ p[2] \in Int /\ p[1] \in From(e[1]) /\ p[2] \in From(e[2])
    BY <1>5, PixelPairs DEF Block
<1>8. \A p \in Block(c) : h[p] = <<p[1] + sx, p[2] + sy>> /\ h[p] \in Block(e)
    BY <1>3, <1>4, <1>6 DEF Block
<1>9. h \in Bijection(Block(c), Block(e))
    <2>1. h \in [Block(c) -> Block(e)]
        BY <1>8
    <2> HIDE DEF h
    <2>2. ASSUME NEW p \in Block(c), NEW q \in Block(c), h[p] = h[q] PROVE p = q
        <3>1. p[1] + sx = q[1] + sx /\ p[2] + sy = q[2] + sy
            BY <1>8, <2>2
        <3>2. p[1] = q[1] /\ p[2] = q[2]
            <4>1. \A x, y, t \in Int : x + t = y + t => x = y
                OBVIOUS
            <4>2. p[1] \in Int /\ p[2] \in Int /\ q[1] \in Int /\ q[2] \in Int
                BY <1>6
            <4>3. sx \in Int /\ sy \in Int
                BY <1>1
            <4> QED  BY <3>1, <4>1, <4>2, <4>3
        <3> QED  BY <1>6, <3>2
    <2>3. ASSUME NEW q \in Block(e) PROVE \E p \in Block(c) : h[p] = q
        <3> DEFINE x == q[1] - sx
                   y == q[2] - sy
        <3>1. x \in Int /\ y \in Int /\ x + sx = q[1] /\ y + sy = q[2]
            BY <1>1, <1>7
        <3> HIDE DEF x, y
        <3>2. x \in From(c[1]) /\ y \in From(c[2])
            BY <1>3, <1>4, <1>7, <3>1
        <3>3. <<x, y>> \in Block(c)
            BY <3>2 DEF Block
        <3>4. h[<<x, y>>] = q
            BY <1>7, <1>8, <3>1, <3>3
        <3> QED  BY <3>3, <3>4
    <2> QED  BY <2>1, <2>2, <2>3 DEF Bijection, Injection, Surjection, IsInjective
<1>10. \A p \in Block(c) : g[h[p]] = f[p]
    <2> TAKE p \in Block(c)
    <2>1. p \in Pixels /\ <<p[1] + sx, p[2] + sy>> \in Pixels
        BY <1>5, <1>8
    <2>2. Field2(Moved(cells, <<sx, sy>>))[<<p[1] + sx, p[2] + sy>>] = Field2(cells)[p]
        BY <1>1, <2>1, FieldMoved
    <2> HIDE DEF h
    <2> QED  BY <1>1, <1>8, <2>2
<1>11. f \in [Pixels -> Nat]
    BY FieldTyped
<1>12. \A p \in Block(c) : f[p] \in Nat
    <2> HIDE DEF f
    <2> QED  BY <1>5, <1>11
<1> HIDE DEF f, g, h
<1>13. SumFunctionOnSet(f, Block(c)) = SumFunctionOnSet(g, Block(e))
    <2>1. Carries(h, Block(c), Block(e), f, g)
        BY <1>9, <1>10 DEF Carries
    <2> QED  BY <1>5, <1>12, <2>1, SumCarried
<1>14. coarsen(g)[e] = coarsen(f)[c]
    BY <1>5, <1>13 DEF coarsen
<1> QED  BY <1>14 DEF f, g, e

(***************************************************************************)
(* Correlation.                                                            *)
(***************************************************************************)
Overlap(d) == {c \in CoarseCells : <<c[1] + d[1], c[2] + d[2]>> \in CoarseCells}

LEMMA SumOfFunction ==
    ASSUME NEW S \in SUBSET CoarseCells, NEW f, DOMAIN f = S, \A c \in S : f[c] \in Nat
    PROVE  SumFunction(f) \in Nat /\ \A c \in S : f[c] <= SumFunction(f)
<1>1. IsFiniteSet(S)
    BY CoarseFinite, FS_Subset
<1>2. SumFunction(f) = SumFunctionOnSet(f, S)
    BY DEF SumFunction
<1> QED  BY <1>1, <1>2, SumBounds

(* What the score of an offset is made of.                                  *)
IsScore(score, a, b, d) ==
    \E dot, na, nb \in Nat :
        /\ dot = SumFunction([c \in Overlap(d) |-> a[c] * b[<<c[1] + d[1], c[2] + d[2]>>]])
        /\ na = SumFunction([c \in Overlap(d) |-> a[c] * a[c]])
        /\ nb = SumFunction([c \in Overlap(d) |->
                                b[<<c[1] + d[1], c[2] + d[2]>>] * b[<<c[1] + d[1], c[2] + d[2]>>]])
        /\ score = IF na = 0 \/ nb = 0 THEN <<0, 1>> ELSE <<dot * dot, na * nb>>

LEMMA Scored ==
    ASSUME NEW a \in [CoarseCells -> Nat], NEW b \in [CoarseCells -> Nat], NEW d
    PROVE  IsScore(correlate(a, b, d[1], d[2]), a, b, d)
<1> DEFINE O == Overlap(d)
           B(c) == b[<<c[1] + d[1], c[2] + d[2]>>]
           fd == [c \in O |-> a[c] * B(c)]
           fa == [c \in O |-> a[c] * a[c]]
           fb == [c \in O |-> B(c) * B(c)]
           dot == SumFunction(fd)
           na == SumFunction(fa)
           nb == SumFunction(fb)
<1>1. O \in SUBSET CoarseCells
    BY DEF Overlap
<1>2. \A c \in O : a[c] \in Nat /\ B(c) \in Nat
    BY DEF Overlap
<1>3. correlate(a, b, d[1], d[2]) = IF na = 0 \/ nb = 0 THEN <<0, 1>> ELSE <<dot * dot, na * nb>>
    BY DEF correlate, Overlap
<1>4. dot \in Nat /\ na \in Nat /\ nb \in Nat
    <2> HIDE DEF O, B
    <2>0. \A x, y \in Nat : x * y \in Nat
        OBVIOUS
    <2>1. DOMAIN fd = O /\ \A c \in O : fd[c] \in Nat
        BY <1>2, <2>0
    <2>2. DOMAIN fa = O /\ \A c \in O : fa[c] \in Nat
        BY <1>2, <2>0
    <2>3. DOMAIN fb = O /\ \A c \in O : fb[c] \in Nat
        BY <1>2, <2>0
    <2> HIDE DEF fd, fa, fb
    <2> QED  BY <1>1, <2>1, <2>2, <2>3, SumOfFunction
<1>5. dot = SumFunction([c \in Overlap(d) |-> a[c] * b[<<c[1] + d[1], c[2] + d[2]>>]])
    OBVIOUS
<1>6. na = SumFunction([c \in Overlap(d) |-> a[c] * a[c]])
    OBVIOUS
<1>7. nb = SumFunction([c \in Overlap(d) |->
                    b[<<c[1] + d[1], c[2] + d[2]>>] * b[<<c[1] + d[1], c[2] + d[2]>>]])
    OBVIOUS
<1> HIDE DEF dot, na, nb, O, B, fd, fa, fb
<1> QED  BY <1>3, <1>4, <1>5, <1>6, <1>7 DEF IsScore

LEMMA ScoreTyped ==
    ASSUME NEW score, NEW a, NEW b, NEW d, IsScore(score, a, b, d)
    PROVE  score[1] \in Nat /\ score[2] \in Nat \ {0}
<1>1. PICK dot \in Nat, na \in Nat, nb \in Nat :
            score = IF na = 0 \/ nb = 0 THEN <<0, 1>> ELSE <<dot * dot, na * nb>>
    BY DEF IsScore
<1>2. CASE na = 0 \/ nb = 0
    BY <1>1, <1>2
<1>3. CASE na # 0 /\ nb # 0
    <2>1. dot * dot \in Nat /\ na * nb \in Nat \ {0}
        BY <1>3
    <2>2. score[1] = dot * dot /\ score[2] = na * nb
        BY <1>1, <1>3
    <2> QED  BY <2>1, <2>2
<1> QED  BY <1>2, <1>3

(* Where the second field is the first, moved, the match is perfect.        *)
LEMMA PerfectMatch ==
    ASSUME NEW a \in [CoarseCells -> Nat], NEW b \in [CoarseCells -> Nat], NEW d,
           \A c \in Overlap(d) : b[<<c[1] + d[1], c[2] + d[2]>>] = a[c],
           NEW w \in Overlap(d), a[w] > 0
    PROVE  LET score == correlate(a, b, d[1], d[2])
           IN  score[1] \in Nat \ {0} /\ score[2] = score[1]
<1> DEFINE score == correlate(a, b, d[1], d[2])
           O == Overlap(d)
           B(c) == b[<<c[1] + d[1], c[2] + d[2]>>]
           fa == [c \in O |-> a[c] * a[c]]
           na == SumFunction(fa)
<1>1. [c \in O |-> a[c] * B(c)] = fa /\ [c \in O |-> B(c) * B(c)] = fa
    <2>1. \A c \in O : B(c) = a[c]
        OBVIOUS
    <2> HIDE DEF B, O
    <2> QED  BY <2>1
<1>2. score = IF na = 0 \/ na = 0 THEN <<0, 1>> ELSE <<na * na, na * na>>
    <2>1. IsScore(score, a, b, d)
        BY Scored
    <2>2. PICK dot \in Nat, ma \in Nat, mb \in Nat :
              /\ dot = SumFunction([c \in O |-> a[c] * B(c)])
              /\ ma = SumFunction([c \in O |-> a[c] * a[c]])
              /\ mb = SumFunction([c \in O |-> B(c) * B(c)])
              /\ score = IF ma = 0 \/ mb = 0 THEN <<0, 1>> ELSE <<dot * dot, ma * mb>>
        <3> HIDE DEF score
        <3> QED  BY <2>1 DEF IsScore
    <2>3. dot = na /\ ma = na /\ mb = na
        <3> HIDE DEF B, O
        <3> QED  BY <1>1, <2>2
    <2> HIDE DEF score, na
    <2> QED  BY <2>2, <2>3
<1>3. na \in Nat /\ na > 0
    <2>1. O \in SUBSET CoarseCells
        BY DEF Overlap
    <2>2. \A x \in Nat : x * x \in Nat
        OBVIOUS
    <2> HIDE DEF O
    <2>3. DOMAIN fa = O /\ \A c \in O : fa[c] \in Nat
        BY <2>1, <2>2
    <2>4. fa[w] > 0 /\ fa[w] \in Nat /\ w \in O
        <3>1. \A x \in Nat : x > 0 => x * x > 0 /\ x * x \in Nat
            OBVIOUS
        <3>2. w \in O
            BY DEF O
        <3>3. fa[w] = a[w] * a[w] /\ a[w] \in Nat
            BY <2>1, <3>2
        <3> HIDE DEF fa
        <3> QED  BY <3>1, <3>2, <3>3
    <2> HIDE DEF fa
    <2>5. na \in Nat /\ fa[w] <= na
        BY <2>1, <2>3, <2>4, SumOfFunction
    <2> HIDE DEF na
    <2> QED  BY <2>4, <2>5
<1> HIDE DEF na, score
<1>4. score = <<na * na, na * na>>
    BY <1>2, <1>3
<1>5. na * na \in Nat \ {0}
    BY <1>3
<1>6. score[1] = na * na /\ score[2] = na * na
    BY <1>4
<1>7. score[1] \in Nat \ {0} /\ score[2] = score[1]
    BY <1>5, <1>6
<1> QED  BY <1>7 DEF score

(* Where it does not repeat the first, the match is not perfect.            *)
LEMMA NoPerfectMatch ==
    ASSUME NEW a \in [CoarseCells -> Nat], NEW b \in [CoarseCells -> Nat], NEW d, ~Repeats(a, b, d)
    PROVE  correlate(a, b, d[1], d[2])[1] < correlate(a, b, d[1], d[2])[2]
<1> DEFINE O == Overlap(d)
           B == [c \in O |-> b[<<c[1] + d[1], c[2] + d[2]>>]]
           fd == [c \in O |-> a[c] * B[c]]
           fa == [c \in O |-> a[c] * a[c]]
           fb == [c \in O |-> B[c] * B[c]]
           dot == SumFunctionOnSet(fd, O)
           na == SumFunctionOnSet(fa, O)
           nb == SumFunctionOnSet(fb, O)
           score == correlate(a, b, d[1], d[2])
<1>1. \A c \in O : a[c] \in Nat /\ B[c] \in Nat
    BY DEF Overlap
<1>2. IsFiniteSet(O)
    <2>1. O \in SUBSET CoarseCells
        BY DEF Overlap
    <2> QED  BY <2>1, CoarseFinite, FS_Subset
<1>3. score = IF na = 0 \/ nb = 0 THEN <<0, 1>> ELSE <<dot * dot, na * nb>>
    <2>1. PICK x \in Nat, y \in Nat, z \in Nat :
              /\ x = SumFunction([c \in Overlap(d) |-> a[c] * b[<<c[1] + d[1], c[2] + d[2]>>]])
              /\ y = SumFunction([c \in Overlap(d) |-> a[c] * a[c]])
              /\ z = SumFunction([c \in Overlap(d) |->
                                b[<<c[1] + d[1], c[2] + d[2]>>] * b[<<c[1] + d[1], c[2] + d[2]>>]])
              /\ score = IF y = 0 \/ z = 0 THEN <<0, 1>> ELSE <<x * x, y * z>>
        <3>1. IsScore(score, a, b, d)
            BY Scored
        <3> HIDE DEF score
        <3> QED  BY <3>1 DEF IsScore
    <2>2. \A f : DOMAIN f = O => SumFunction(f) = SumFunctionOnSet(f, O)
        BY DEF SumFunction
    <2>3. fd = [c \in Overlap(d) |-> a[c] * b[<<c[1] + d[1], c[2] + d[2]>>]]
        OBVIOUS
    <2>4. fa = [c \in Overlap(d) |-> a[c] * a[c]]
        OBVIOUS
    <2>5. fb = [c \in Overlap(d) |-> b[<<c[1] + d[1], c[2] + d[2]>>] * b[<<c[1] + d[1], c[2] + d[2]>>]]
        OBVIOUS
    <2>6. DOMAIN fd = O /\ DOMAIN fa = O /\ DOMAIN fb = O
        OBVIOUS
    <2> HIDE DEF fd, fa, fb, O, score
    <2>7. x = dot /\ y = na /\ z = nb
        BY <2>1, <2>2, <2>3, <2>4, <2>5, <2>6
    <2> HIDE DEF dot, na, nb
    <2> QED  BY <2>1, <2>7
<1>4. \/ \A c \in O : ~(a[c] > 0)
      \/ \A c \in O : ~(B[c] > 0)
      \/ \E c, e \in O : a[c] * B[e] # a[e] * B[c]
    BY DEF Repeats, Overlap
<1> HIDE DEF O, B, score
<1>5. CASE \A c \in O : ~(a[c] > 0)
    <2>1. \A c \in O : a[c] = 0
        BY <1>1, <1>5
    <2>2. \A c \in O : fa[c] = 0
        BY <2>1
    <2>3. na = 0
        BY <1>2, <2>2, SumZero
    <2>4. score = <<0, 1>>
        BY <1>3, <2>3
    <2> QED  BY <2>4 DEF score
<1>6. CASE \A c \in O : ~(B[c] > 0)
    <2>1. \A c \in O : B[c] = 0
        BY <1>1, <1>6
    <2>2. \A c \in O : fb[c] = 0
        BY <2>1
    <2>3. nb = 0
        BY <1>2, <2>2, SumZero
    <2>4. score = <<0, 1>>
        BY <1>3, <2>3
    <2> QED  BY <2>4 DEF score
<1>7. CASE \E c, e \in O : a[c] * B[e] # a[e] * B[c]
    <2>0. PICK c \in O, e \in O : a[c] * B[e] # a[e] * B[c]
        BY <1>7
    <2>1. dot * dot < na * nb
        <3>1. BelowOne(a, B, O)
            <4> HIDE DEF dot, na, nb, fd, fa, fb
            <4> QED  BY <1>1, <1>2, <2>0, CosineBelowOne
        <3> QED  BY <3>1 DEF BelowOne
    <2> HIDE DEF dot, na, nb
    <2>2. score = <<0, 1>> \/ score = <<dot * dot, na * nb>>
        BY <1>3
    <2>3. score[1] < score[2]
        BY <2>1, <2>2
    <2> QED  BY <2>3 DEF score
<1> QED  BY <1>4, <1>5, <1>6, <1>7

(* The one offset at which the rain repeats is the motion found.              *)
LEMMA MotionFound ==
    ASSUME NEW from \in [Pixels -> Nat], NEW to \in [Pixels -> Nat],
           NEW o \in Offsets,
           Cardinality(Raining(coarsen(from))) >= MinRaining, Cardinality(Raining(coarsen(to))) >= MinRaining,
           \A c \in Overlap(o) : coarsen(to)[<<c[1] + o[1], c[2] + o[2]>>] = coarsen(from)[c],
           Raining(coarsen(from)) \cap Overlap(o) # {},
           \A d \in Offsets \ {o} : ~Repeats(coarsen(from), coarsen(to), d)
    PROVE  EstimateMotion(from, to, 1) = [valid |-> TRUE, dx |-> o[1] * nowcastCoarsen, dy |-> o[2] * nowcastCoarsen, dt |-> 1]
<1> DEFINE a == coarsen(from)
           b == coarsen(to)
           Score(d) == correlate(a, b, d[1], d[2])
           Candidate(d) == [dx |-> d[1], dy |-> d[2], score |-> Score(d)]
           tried == {Candidate(d) : d \in Offsets}
           own == Candidate(o)
           Best(s) == \A t \in tried \ {s} : Beats(s, t) \/ (~Beats(t, s) /\ Earlier(s, t))
           best == CHOOSE s \in tried : Best(s)
<1>1. a \in [CoarseCells -> Nat] /\ b \in [CoarseCells -> Nat]
    BY CoarsenTyped
<1>2. Score(o)[1] \in Nat \ {0} /\ Score(o)[2] = Score(o)[1]
    <2>1. PICK w \in Raining(a) \cap Overlap(o) : TRUE
        OBVIOUS
    <2>2. w \in Overlap(o) /\ a[w] > 0
        BY <2>1 DEF Raining
    <2>3. \A c \in Overlap(o) : b[<<c[1] + o[1], c[2] + o[2]>>] = a[c]
        OBVIOUS
    <2> HIDE DEF a, b
    <2> QED  BY <1>1, <2>2, <2>3, PerfectMatch
<1>3. ASSUME NEW d \in Offsets, d # o
      PROVE  Score(d)[1] \in Nat /\ Score(d)[2] \in Nat \ {0} /\ Score(d)[1] < Score(d)[2]
    <2>0. ~Repeats(a, b, d)
        BY <1>3
    <2> HIDE DEF a, b
    <2>1. Score(d)[1] < Score(d)[2]
        BY <1>1, <2>0, NoPerfectMatch
    <2>2. Score(d)[1] \in Nat /\ Score(d)[2] \in Nat \ {0}
        BY <1>1, Scored, ScoreTyped
    <2> QED  BY <2>1, <2>2
<1> HIDE DEF Score
<1>4. own \in tried
    OBVIOUS
<1>5. ASSUME NEW t \in tried, t # own PROVE Beats(own, t) /\ ~Beats(t, own)
    <2>1. PICK d \in Offsets : t = Candidate(d)
        OBVIOUS
    <2>2. d # o
        BY <1>5, <2>1
    <2> DEFINE n == Score(o)[1]
               x == Score(d)[1]
               y == Score(d)[2]
    <2>3. n \in Nat \ {0} /\ x \in Nat /\ y \in Nat \ {0} /\ x < y
        BY <1>2, <1>3, <2>2
    <2>4. own.score[1] = n /\ own.score[2] = n /\ t.score[1] = x /\ t.score[2] = y
        BY <1>2, <2>1
    <2> HIDE DEF n, x, y, own, Candidate, tried
    <2>5. n * y > x * n /\ ~(x * n > n * y)
        <3>1. \A m \in Nat \ {0} : m * y > x * m
            <4> TAKE m \in Nat \ {0}
            <4>1. y - x \in Nat \ {0}
                BY <2>3
            <4>2. m * (y - x) \in Nat \ {0}
                BY <4>1
            <4>3. m * (y - x) = m * y - x * m
                BY <2>3
            <4>4. m * y \in Int /\ x * m \in Int
                BY <2>3
            <4> QED  BY <4>2, <4>3, <4>4
        <3>2. n * y \in Int /\ x * n \in Int
            BY <2>3
        <3>3. n * y > x * n
            BY <2>3, <3>1
        <3> QED  BY <3>2, <3>3
    <2> QED  BY <2>4, <2>5 DEF Beats
<1> HIDE DEF own
<1>6. Best(own)
    BY <1>5
<1>7. ASSUME NEW s \in tried, Best(s) PROVE s = own
    <2> SUFFICES ASSUME s # own PROVE FALSE
        OBVIOUS
    <2>1. Beats(s, own) \/ ~Beats(own, s)
        BY <1>4, <1>7
    <2> QED  BY <1>5, <2>1
<1>8. best = own
    <2> HIDE DEF Best, tried
    <2>1. best \in tried /\ Best(best)
        BY <1>4, <1>6
    <2> HIDE DEF best
    <2> QED  BY <1>7, <2>1
<1>9. best.score[1] # 0 /\ best.dx = o[1] /\ best.dy = o[2]
    <2> HIDE DEF best
    <2>1. own.score = Score(o) /\ own.dx = o[1] /\ own.dy = o[2]
        BY DEF own
    <2> QED  BY <1>2, <1>8, <2>1
<1>10. ~(Cardinality(Raining(a)) < MinRaining) /\ ~(Cardinality(Raining(b)) < MinRaining)
    <2>1. IsFiniteSet(Raining(a)) /\ IsFiniteSet(Raining(b))
        <3>1. Raining(a) \in SUBSET CoarseCells /\ Raining(b) \in SUBSET CoarseCells
            BY DEF Raining
        <3> HIDE DEF a, b
        <3> QED  BY <3>1, CoarseFinite, FS_Subset
    <2>2. Cardinality(Raining(a)) \in Nat /\ Cardinality(Raining(b)) \in Nat
        <3> HIDE DEF a, b
        <3> QED  BY <2>1, FS_CardinalityType
    <2>3. Cardinality(Raining(a)) >= MinRaining /\ Cardinality(Raining(b)) >= MinRaining /\ MinRaining \in Nat
        BY RasterAssumption
    <2> HIDE DEF a, b
    <2> QED  BY <2>2, <2>3
<1>11. EstimateMotion(from, to, 1) =
          IF \/ 1 <= 0
             \/ Cardinality(Raining(a)) < MinRaining \/ Cardinality(Raining(b)) < MinRaining
             \/ best.score[1] = 0
          THEN NoMotion
          ELSE [valid |-> TRUE, dx |-> best.dx * nowcastCoarsen, dy |-> best.dy * nowcastCoarsen, dt |-> 1]
    BY DEF EstimateMotion, Score
<1> HIDE DEF best, a, b
<1> QED  BY <1>9, <1>10, <1>11

(***************************************************************************)
(* A tracked storm, carried on.                                            *)
(***************************************************************************)
MotionOf(sx, sy) == [valid |-> TRUE, dx |-> sx, dy |-> sy, dt |-> 1]

Tracked(s, sx, sy) ==
    /\ sx \in Int /\ sy \in Int /\ s.shift = <<sx, sy>>
    /\ IsRain(s.cells) /\ IsRain(Moved(s.cells, s.shift))
    /\ EstimateMotion(Field2(s.cells), Field2(Moved(s.cells, s.shift)), 1) = MotionOf(sx, sy)

LEMMA StormTracked ==
    ASSUME NEW s, Trackable(s)
    PROVE  \E sx, sy \in Int : Tracked(s, sx, sy)
<1> DEFINE from == Field2(s.cells)
           to == Field2(Moved(s.cells, s.shift))
           a == coarsen(from)
           b == coarsen(to)
<1>1. PICK o \in Offsets :
          /\ s.shift = <<o[1] * nowcastCoarsen, o[2] * nowcastCoarsen>>
          /\ \E c \in Raining(a) : <<c[1] + o[1], c[2] + o[2]>> \in CoarseCells
          /\ \A d \in Offsets \ {o} : ~Repeats(a, b, d)
    BY DEF Trackable
<1>2. /\ DOMAIN s.cells \subseteq Pixels /\ DOMAIN Moved(s.cells, s.shift) \subseteq Pixels
      /\ \A p \in DOMAIN s.cells : s.cells[p] \in Nat
    BY DEF Trackable
<1>3. Cardinality(Raining(a)) >= MinRaining /\ Cardinality(Raining(b)) >= MinRaining
    BY DEF Trackable
<1> DEFINE sx == o[1] * nowcastCoarsen
           sy == o[2] * nowcastCoarsen
<1>4. o[1] \in Int /\ o[2] \in Int
    BY RasterAssumption DEF Offsets
<1>5. sx \in Int /\ sy \in Int /\ s.shift = <<sx, sy>>
    BY <1>1, <1>4, RasterAssumption
<1>6. IsShift(o, s.shift)
    BY <1>1, <1>4 DEF IsShift
<1>7. IsRain(s.cells)
    BY <1>2 DEF IsRain
<1>8. IsRain(Moved(s.cells, s.shift))
    <2> HIDE DEF sx, sy
    <2> QED  BY <1>2, <1>5, <1>7, MovedRain
<1>9. from \in [Pixels -> Nat] /\ to \in [Pixels -> Nat]
    BY <1>7, <1>8, FieldTyped
<1>10. \A c \in Overlap(o) : coarsen(to)[<<c[1] + o[1], c[2] + o[2]>>] = coarsen(from)[c]
    BY <1>6, <1>7, CoarsenMoved DEF Overlap
<1>11. Raining(coarsen(from)) \cap Overlap(o) # {}
    BY <1>1 DEF Raining, Overlap
<1>12. EstimateMotion(from, to, 1) = [valid |-> TRUE, dx |-> sx, dy |-> sy, dt |-> 1]
    <2>1. \A d \in Offsets \ {o} : ~Repeats(coarsen(from), coarsen(to), d)
        BY <1>1
    <2>2. Cardinality(Raining(coarsen(from))) >= MinRaining /\ Cardinality(Raining(coarsen(to))) >= MinRaining
        BY <1>3
    <2> HIDE DEF from, to
    <2> QED  BY <1>9, <1>10, <1>11, <2>1, <2>2, MotionFound
<1>13. Tracked(s, sx, sy)
    <2> HIDE DEF sx, sy
    <2> QED  BY <1>5, <1>7, <1>8, <1>12 DEF Tracked, MotionOf
<1> QED  BY <1>5, <1>13

LEMMA TruncatedMiddle == ASSUME NEW q \in Int PROVE Truncated(10 * q + 5) = IF q >= 0 THEN q ELSE q + 1
<1>1. CASE q >= 0
    <2>1. (10 * q + 5) \div 10 = q
        BY <1>1
    <2> QED  BY <1>1, <2>1 DEF Truncated
<1>2. CASE q < 0
    <2>1. (-(10 * q + 5)) \div 10 = -q - 1
        BY <1>2
    <2>2. ~(10 * q + 5 >= 0)
        BY <1>2
    <2>3. Truncated(10 * q + 5) = -((-(10 * q + 5)) \div 10)
        BY <2>2 DEF Truncated
    <2>4. -(-q - 1) = q + 1
        OBVIOUS
    <2> QED  BY <1>2, <2>1, <2>3, <2>4
<1> QED  BY <1>1, <1>2

LEMMA TenthsBack ==
    ASSUME NEW x \in Int, NEW m \in Int, NEW k \in Int
    PROVE  /\ x - k * m \in Int
           /\ (10 * x + 5) - (10 * m * k) \div 1 = 10 * (x - k * m) + 5
<1> DEFINE t == k * m
<1>1. t \in Int
    OBVIOUS
<1>2. 10 * m * k = 10 * t
    OBVIOUS
<1> HIDE DEF t
<1>3. (10 * t) \div 1 = 10 * t
    BY <1>1
<1>4. (10 * x + 5) - 10 * t = 10 * (x - t) + 5 /\ x - t \in Int
    BY <1>1
<1>5. (10 * x + 5) - (10 * m * k) \div 1 = 10 * (x - t) + 5
    BY <1>2, <1>3, <1>4
<1> QED  BY <1>4, <1>5 DEF t

(* Where a point's rain comes from: the cell it is read from is that cell,  *)
(* and is on the raster exactly when that cell is.                          *)
Back(p, k, sx, sy) == <<p[1] - k * sx, p[2] - k * sy>>

LEMMA UpwindOf ==
    ASSUME NEW p \in Pixels, NEW k \in Nat, NEW sx \in Int, NEW sy \in Int,
           p[1] - k * sx # -1, p[2] - k * sy # -1
    PROVE  /\ Upwind(Middle(p), MotionOf(sx, sy), k) \in Pixels <=> Back(p, k, sx, sy) \in Pixels
           /\ Back(p, k, sx, sy) \in Pixels => Upwind(Middle(p), MotionOf(sx, sy), k) = Back(p, k, sx, sy)
<1> DEFINE q1 == p[1] - k * sx
           q2 == p[2] - k * sy
           t1 == IF q1 >= 0 THEN q1 ELSE q1 + 1
           t2 == IF q2 >= 0 THEN q2 ELSE q2 + 1
<1>1. p[1] \in Int /\ p[2] \in Int
    BY PixelPairs
<1>2. q1 \in Int /\ (10 * p[1] + 5) - (10 * sx * k) \div 1 = 10 * q1 + 5
    BY <1>1, TenthsBack
<1>3. q2 \in Int /\ (10 * p[2] + 5) - (10 * sy * k) \div 1 = 10 * q2 + 5
    BY <1>1, TenthsBack
<1>4. Upwind(Middle(p), MotionOf(sx, sy), k)
        = <<Truncated((10 * p[1] + 5) - (10 * sx * k) \div 1), Truncated((10 * p[2] + 5) - (10 * sy * k) \div 1)>>
    BY DEF Upwind, Middle, MotionOf
<1>5. Back(p, k, sx, sy) = <<q1, q2>> /\ q1 # -1 /\ q2 # -1
    BY DEF Back
<1> HIDE DEF q1, q2
<1>6. Truncated(10 * q1 + 5) = t1 /\ Truncated(10 * q2 + 5) = t2
    BY <1>2, <1>3, TruncatedMiddle
<1>7. Upwind(Middle(p), MotionOf(sx, sy), k) = <<t1, t2>>
    BY <1>2, <1>3, <1>4, <1>6
<1>8. t1 = (IF q1 >= 0 THEN q1 ELSE q1 + 1) /\ t2 = (IF q2 >= 0 THEN q2 ELSE q2 + 1)
    OBVIOUS
<1> HIDE DEF t1, t2
<1>9. \A w \in Nat \ {0} : (t1 \in 0 .. (w - 1) <=> q1 \in 0 .. (w - 1)) /\ (q1 \in 0 .. (w - 1) => t1 = q1)
    BY <1>2, <1>5, <1>8
<1>10. \A w \in Nat \ {0} : (t2 \in 0 .. (w - 1) <=> q2 \in 0 .. (w - 1)) /\ (q2 \in 0 .. (w - 1) => t2 = q2)
    BY <1>3, <1>5, <1>8
<1>11. \A a, b : <<a, b>> \in Pixels <=> a \in 0 .. (RasterWidth - 1) /\ b \in 0 .. (RasterHeight - 1)
    BY DEF Pixels
<1>12. (<<t1, t2>> \in Pixels <=> <<q1, q2>> \in Pixels) /\ (<<q1, q2>> \in Pixels => t1 = q1 /\ t2 = q2)
    BY <1>9, <1>10, <1>11, RasterAssumption
<1> QED  BY <1>5, <1>7, <1>12

(* A step's rain over a point, as the storm carried on has it and as the    *)
(* nowcast reads it.                                                        *)
LEMMA RainOver ==
    ASSUME NEW seen, IsRain(seen), NEW p \in Pixels, NEW k \in Nat, NEW sx \in Int, NEW sy \in Int,
           p[1] - k * sx # -1, p[2] - k * sy # -1
    PROVE  LET later == Moved(seen, <<k * sx, k * sy>>)
               u == Upwind(Middle(p), MotionOf(sx, sy), k)
           IN  (u \in Pixels /\ Field2(seen)[u] >= ArrivalThreshold)
                  <=> (p \in DOMAIN later /\ later[p] >= ArrivalThreshold)
<1> DEFINE later == Moved(seen, <<k * sx, k * sy>>)
           u == Upwind(Middle(p), MotionOf(sx, sy), k)
           q == Back(p, k, sx, sy)
           mx == k * sx
           my == k * sy
<1>1. mx \in Int /\ my \in Int /\ p \in Int \X Int
    BY PixelPairs
<1>2. later = Moved(seen, <<mx, my>>) /\ q = <<p[1] - mx, p[2] - my>>
    BY DEF Back
<1>3. (u \in Pixels <=> q \in Pixels) /\ (q \in Pixels => u = q)
    BY UpwindOf
<1> HIDE DEF mx, my, later, u, q
<1>4. p \in DOMAIN later <=> q \in DOMAIN seen
    BY <1>1, <1>2, MovedCells
<1>5. p \in DOMAIN later => later[p] = seen[q]
    BY <1>1, <1>2, MovedCells
<1>6. DOMAIN seen \subseteq Pixels
    BY DEF IsRain
<1>7. q \in Pixels => Field2(seen)[q] = IF q \in DOMAIN seen THEN seen[q] ELSE 0
    BY DEF Field2
<1>8. ~(0 >= ArrivalThreshold)
    BY RasterAssumption
<1>9. (u \in Pixels /\ Field2(seen)[u] >= ArrivalThreshold) <=> (q \in DOMAIN seen /\ seen[q] >= ArrivalThreshold)
    BY <1>3, <1>6, <1>7, <1>8
<1>10. (p \in DOMAIN later /\ later[p] >= ArrivalThreshold) <=> (q \in DOMAIN seen /\ seen[q] >= ArrivalThreshold)
    BY <1>4, <1>5
<1> QED  BY <1>9, <1>10 DEF later, u

(* SteadyRainArrives of one nowcast.                                        *)
Arrives(arrival, storm) ==
    \A p \in {q \in Pixels : \A k \in 1..HorizonSteps, c \in 1..2 :
                    q[c] - k * storm.shift[c] # -1} :
        LET seen == Moved(storm.cells, storm.shift)
            later(k) == Moved(seen, <<k * storm.shift[1], k * storm.shift[2]>>)
            covered == {k \in 1..HorizonSteps :
                           p \in DOMAIN later(k) /\ later(k)[p] >= ArrivalThreshold}
        IN  arrival[p] = IF covered = {} THEN -1 ELSE Min(covered)

(* A nowcast drawn from a tracked storm says when each point gets wet.      *)
LEMMA NowcastArrives ==
    ASSUME NEW s, Trackable(s), NEW arrival,
           \A p \in Pixels :
              LET latest == Field2(Moved(s.cells, s.shift))
                  motion == EstimateMotion(Field2(s.cells), latest, 1)
              IN  arrival[p] = IF motion.valid THEN Arrival(latest, motion, Middle(p)) ELSE -1
    PROVE  Arrives(arrival, s)
<1> DEFINE seen == Moved(s.cells, s.shift)
           latest == Field2(seen)
           motion == EstimateMotion(Field2(s.cells), latest, 1)
           later(k) == Moved(seen, <<k * s.shift[1], k * s.shift[2]>>)
<1>1. PICK sx \in Int, sy \in Int : Tracked(s, sx, sy)
    BY StormTracked
<1>2. s.shift = <<sx, sy>> /\ IsRain(seen) /\ motion = MotionOf(sx, sy)
    BY <1>1 DEF Tracked
<1>3. motion.valid
    BY <1>2 DEF MotionOf
<1>4. \A p \in Pixels : arrival[p] = Arrival(latest, motion, Middle(p))
    BY <1>3
<1> HIDE DEF seen, motion
<1>5. ASSUME NEW p \in Pixels, \A k \in 1..HorizonSteps, c \in 1..2 : p[c] - k * s.shift[c] # -1
      PROVE  LET covered == {k \in 1..HorizonSteps : p \in DOMAIN later(k) /\ later(k)[p] >= ArrivalThreshold}
             IN  arrival[p] = IF covered = {} THEN -1 ELSE Min(covered)
    <2> DEFINE covered == {k \in 1..HorizonSteps : p \in DOMAIN later(k) /\ later(k)[p] >= ArrivalThreshold}
               u(k) == Upwind(Middle(p), motion, k)
               wet == {k \in 1..HorizonSteps : u(k) \in Pixels /\ latest[u(k)] >= ArrivalThreshold}
    <2>1. ASSUME NEW k \in 1..HorizonSteps
          PROVE  (u(k) \in Pixels /\ latest[u(k)] >= ArrivalThreshold)
                    <=> (p \in DOMAIN later(k) /\ later(k)[p] >= ArrivalThreshold)
        <3>1. k \in Nat
            BY RasterAssumption
        <3>2. p[1] - k * sx # -1 /\ p[2] - k * sy # -1
            <4>1. p[1] - k * s.shift[1] # -1 /\ p[2] - k * s.shift[2] # -1
                BY <1>5
            <4>2. s.shift[1] = sx /\ s.shift[2] = sy
                BY <1>2
            <4> QED  BY <4>1, <4>2
        <3>3. later(k) = Moved(seen, <<k * sx, k * sy>>)
            BY <1>2
        <3> HIDE DEF later
        <3> QED  BY <1>2, <3>1, <3>2, <3>3, RainOver
    <2>2. wet = covered
        <3> HIDE DEF later, u, latest
        <3> QED  BY <2>1
    <2>3. Arrival(latest, motion, Middle(p)) = IF wet = {} THEN -1 ELSE Min(wet)
        BY DEF Arrival
    <2> HIDE DEF wet, covered
    <2>4. arrival[p] = IF covered = {} THEN -1 ELSE Min(covered)
        BY <1>4, <2>2, <2>3
    <2> QED  BY <2>4 DEF covered
<1> QED  BY <1>5 DEF Arrives, seen

(* Rain that moves steadily arrives when the nowcast says, and nowhere      *)
(* else: for any raster, search radius and horizon, and any storm that does *)
(* not repeat itself at another offset (tutka/nowcast.go).                  *)
THEOREM SteadyRainAlwaysArrives == CallSpec => []SteadyRainArrives
<1> DEFINE Inv == CallTyped /\ SteadyRainArrives
<1>1. CallInit => Inv
    BY CallInitTyped DEF CallInit, SteadyRainArrives, Done
<1>2. ASSUME Inv, [CallNext]_callVars PROVE Inv'
    <2>1. CallTyped' /\ call' = call
        BY <1>2, CallStep DEF CallTyped
    <2>2. CASE result' = result
        <3>1. Done("nowcast") => Arrives(result.arrival, call.storm)
            BY <1>2 DEF SteadyRainArrives, Arrives
        <3>2. Done("nowcast")' => Arrives(result'.arrival, call'.storm)
            BY <2>1, <2>2, <3>1 DEF Done
        <3>3. SteadyRainArrives'
            BY <3>2 DEF SteadyRainArrives, Arrives
        <3> QED  BY <2>1, <3>3
    <2>3. CASE call.fn # "nowcast"
        <3>1. ~Done("nowcast")'
            BY <2>1, <2>3 DEF Done
        <3> QED  BY <2>1, <3>1 DEF SteadyRainArrives
    <2>4. CASE call.fn = "nowcast" /\ Nowcast
        <3> DEFINE s == call.storm
        <3>1. Trackable(s)
            BY <1>2, <2>4, StormsAssumption DEF CallTyped
        <3>2. \A p \in Pixels :
                 LET latest == Field2(Moved(s.cells, s.shift))
                     motion == EstimateMotion(Field2(s.cells), latest, 1)
                 IN  result'.arrival[p] = IF motion.valid THEN Arrival(latest, motion, Middle(p)) ELSE -1
            BY <2>4 DEF Nowcast, Evaluate
        <3> HIDE DEF s
        <3>3. Arrives(result'.arrival, s)
            BY <3>1, <3>2, NowcastArrives
        <3>4. Arrives(result'.arrival, call'.storm)
            BY <2>1, <3>3 DEF s
        <3>5. SteadyRainArrives'
            BY <3>4 DEF SteadyRainArrives, Arrives
        <3> QED  BY <2>1, <3>5
    <2> QED  BY <1>2, <2>1, <2>2, <2>3, <2>4, CallStep
<1>3. Inv => SteadyRainArrives
    OBVIOUS
<1> QED  BY <1>1, <1>2, <1>3, PTL DEF CallSpec
=============================================================================
