---------------------------- MODULE RenderCacheProofs ----------------------------
(***************************************************************************)
(* Theorems about frame images on request, for any visitors, frames,       *)
(* palettes and cache sizes.                                               *)
(***************************************************************************)
EXTENDS RenderCache, SequenceTheorems, TLAPS

USE SizeAssumption

(***************************************************************************)
(* The LRU.                                                                *)
(***************************************************************************)

(* A cache as the LRU keeps it: every entry once, and no more than max.     *)
IsLRU(cache, S, max) == cache \in Seq(S) /\ IsInjective(cache) /\ Len(cache) <= max

LEMMA MinOfTwo ==
    ASSUME NEW a \in Nat, NEW b \in Nat
    PROVE  Min({a, b}) = IF a <= b THEN a ELSE b
<1>1. \E x \in {a, b} : \A y \in {a, b} : x =< y
    OBVIOUS
<1>2. Min({a, b}) \in {a, b} /\ \A y \in {a, b} : Min({a, b}) =< y
    BY <1>1 DEF Min
<1> QED  BY <1>2

LEMMA RemovedEntry ==
    ASSUME NEW S, NEW cache \in Seq(S), NEW i \in 1..Len(cache)
    PROVE  /\ Unlinked(cache, i) \in Seq(S)
           /\ Len(Unlinked(cache, i)) = Len(cache) - 1
           /\ \A j \in 1..Len(cache) - 1 :
                 Unlinked(cache, i)[j] = IF j < i THEN cache[j] ELSE cache[j + 1]
<1> DEFINE l == SubSeq(cache, 1, i - 1)
           r == SubSeq(cache, i + 1, Len(cache))
<1>0. Len(cache) \in Nat /\ i \in Int /\ \A j \in 1..Len(cache) : cache[j] \in S
    BY LenProperties, ElementOfSeq
<1>1. /\ l \in Seq(S) /\ Len(l) = i - 1
      /\ \A j \in 1..i - 1 : l[j] = cache[j]
    <2>1. \A j \in 1..i - 1 : cache[j] \in S
        BY <1>0
    <2>2. /\ SubSeq(cache, 1, i - 1) \in Seq(S)
          /\ Len(SubSeq(cache, 1, i - 1)) = IF 1 <= i - 1 THEN i - 1 - 1 + 1 ELSE 0
          /\ \A j \in 1..i - 1 - 1 + 1 : SubSeq(cache, 1, i - 1)[j] = cache[1 + j - 1]
        BY <1>0, <2>1, SubSeqProperties
    <2> QED  BY <1>0, <2>2
<1>2. /\ r \in Seq(S) /\ Len(r) = Len(cache) - i
      /\ \A j \in 1..Len(cache) - i : r[j] = cache[i + j]
    <2>1. \A j \in i + 1..Len(cache) : cache[j] \in S
        BY <1>0
    <2>2. /\ r \in Seq(S)
          /\ Len(r) = IF i + 1 <= Len(cache) THEN Len(cache) - (i + 1) + 1 ELSE 0
          /\ \A j \in 1..Len(cache) - (i + 1) + 1 : r[j] = cache[i + 1 + j - 1]
        BY <1>0, <2>1, SubSeqProperties
    <2> QED  BY <1>0, <2>2
<1>3. /\ l \o r \in Seq(S) /\ Len(l \o r) = Len(l) + Len(r)
      /\ \A j \in 1..Len(l) + Len(r) : (l \o r)[j] = IF j <= Len(l) THEN l[j] ELSE r[j - Len(l)]
    BY <1>1, <1>2, ConcatProperties
<1>4. Unlinked(cache, i) = l \o r
    BY DEF Unlinked
<1> HIDE DEF l, r
<1>5. ASSUME NEW j \in 1..Len(cache) - 1
      PROVE  (l \o r)[j] = IF j < i THEN cache[j] ELSE cache[j + 1]
    <2>1. CASE j < i
        BY <1>0, <1>1, <1>2, <1>3, <2>1
    <2>2. CASE ~(j < i)
        <3>1. j - Len(l) \in 1..Len(cache) - i /\ i + (j - Len(l)) = j + 1
            BY <1>0, <1>1, <2>2
        <3>2. j \in 1..Len(l) + Len(r) /\ ~(j <= Len(l))
            BY <1>0, <1>1, <1>2, <2>2
        <3>3. (l \o r)[j] = r[j - Len(l)]
            BY <1>3, <3>2
        <3>4. r[j - Len(l)] = cache[j + 1]
            BY <1>2, <3>1
        <3> QED  BY <2>2, <3>3, <3>4
    <2> QED  BY <2>1, <2>2
<1>6. Len(l) + Len(r) = Len(cache) - 1
    BY <1>0, <1>1, <1>2
<1> QED  BY <1>3, <1>4, <1>5, <1>6

LEMMA WithoutEntry ==
    ASSUME NEW S, NEW max \in Nat, NEW cache, IsLRU(cache, S, max), NEW k
    PROVE  /\ IsLRU(Without(cache, k), S, max)
           /\ Range(Without(cache, k)) = Range(cache) \ {k}
           /\ Len(Without(cache, k)) = IF k \in Range(cache) THEN Len(cache) - 1 ELSE Len(cache)
<1>0. cache \in Seq(S) /\ IsInjective(cache) /\ Len(cache) <= max
    BY DEF IsLRU
<1>d. Len(cache) \in Nat /\ DOMAIN cache = 1..Len(cache)
    BY <1>0, LenProperties
<1>1. CASE k \notin Range(cache)
    BY <1>0, <1>1 DEF Without, IsLRU
<1>2. CASE k \in Range(cache)
    <2>1. PICK i \in 1..Len(cache) :
              /\ cache[i] = k
              /\ Without(cache, k) = Unlinked(cache, i)
        BY <1>2, <1>d DEF Without, Range
    <2>0. PICK rest : rest = Without(cache, k)
        OBVIOUS
    <2>2. /\ rest \in Seq(S) /\ Len(rest) = Len(cache) - 1
          /\ \A j \in 1..Len(cache) - 1 : rest[j] = IF j < i THEN cache[j] ELSE cache[j + 1]
        BY <1>0, <2>0, <2>1, RemovedEntry
    <2> DEFINE from(j) == IF j < i THEN j ELSE j + 1
    <2>10. ASSUME NEW j \in 1..Len(cache) - 1
           PROVE  from(j) \in 1..Len(cache) /\ from(j) # i /\ rest[j] = cache[from(j)]
        <3>1. CASE j < i
            BY <1>d, <2>2, <3>1
        <3>2. CASE ~(j < i)
            <4>1. j + 1 \in 1..Len(cache) /\ j + 1 # i
                BY <1>d, <3>2
            <4> QED  BY <2>2, <3>2, <4>1
        <3> QED  BY <3>1, <3>2
    <2>11. \A a, b \in 1..Len(cache) - 1 : from(a) = from(b) => a = b
        BY <1>d
    <2> HIDE DEF from
    <2>3. DOMAIN rest = 1..Len(cache) - 1
        BY <2>2, LenProperties
    <2>4. \A a, b \in 1..Len(cache) : cache[a] = cache[b] => a = b
        BY <1>0, <1>d DEF IsInjective
    <2>5. IsInjective(rest)
        <3> SUFFICES ASSUME NEW a \in 1..Len(cache) - 1, NEW b \in 1..Len(cache) - 1,
                            rest[a] = rest[b]
                     PROVE  a = b
            BY <2>3 DEF IsInjective
        <3>1. from(a) = from(b)
            BY <2>4, <2>10
        <3> QED  BY <2>11, <3>1
    <2>6. ASSUME NEW j \in 1..Len(cache) - 1
          PROVE  rest[j] \in Range(cache) \ {k}
        BY <1>d, <2>1, <2>4, <2>10 DEF Range
    <2>7. ASSUME NEW e \in Range(cache) \ {k}
          PROVE  \E j \in 1..Len(cache) - 1 : rest[j] = e
        <3>1. PICK c \in 1..Len(cache) : cache[c] = e
            BY <1>d DEF Range
        <3>2. c # i
            BY <2>1, <3>1
        <3>3. CASE c < i
            <4>1. c \in 1..Len(cache) - 1
                BY <1>d, <3>3
            <4> QED  BY <2>2, <3>1, <3>3, <4>1
        <3>4. CASE c > i
            <4>1. c - 1 \in 1..Len(cache) - 1 /\ ~(c - 1 < i) /\ (c - 1) + 1 = c
                BY <1>d, <3>4
            <4> QED  BY <2>2, <3>1, <4>1
        <3> QED  BY <3>2, <3>3, <3>4
    <2>8. Range(rest) = Range(cache) \ {k}
        BY <2>3, <2>6, <2>7 DEF Range
    <2> QED  BY <1>0, <1>2, <1>d, <2>0, <2>2, <2>5, <2>8 DEF IsLRU
<1> QED  BY <1>1, <1>2

LEMMA TouchedEntry ==
    ASSUME NEW S, NEW max \in Nat, NEW cache, IsLRU(cache, S, max), NEW k \in S
    PROVE  /\ Touched(cache, k) \in Seq(S) /\ IsInjective(Touched(cache, k))
           /\ Range(Touched(cache, k)) = Range(cache) \cup {k}
           /\ Len(Touched(cache, k)) =
                 IF k \in Range(cache) THEN Len(cache) ELSE Len(cache) + 1
           /\ Len(Touched(cache, k)) >= 1 /\ Touched(cache, k)[1] = k
<1> DEFINE rest == Without(cache, k)
           all == <<k>> \o rest
<1>1. /\ rest \in Seq(S) /\ IsInjective(rest) /\ Range(rest) = Range(cache) \ {k}
      /\ Len(rest) = IF k \in Range(cache) THEN Len(cache) - 1 ELSE Len(cache)
    BY WithoutEntry DEF IsLRU
<1>2. <<k>> \in Seq(S) /\ Len(<<k>>) = 1 /\ <<k>>[1] = k
    OBVIOUS
<1> HIDE DEF rest
<1>3. /\ all \in Seq(S) /\ Len(all) = 1 + Len(rest)
      /\ \A j \in 1..1 + Len(rest) : all[j] = IF j <= 1 THEN <<k>>[j] ELSE rest[j - 1]
    BY <1>1, <1>2, ConcatProperties
<1> HIDE DEF all
<1>n. Len(rest) \in Nat /\ Len(cache) \in Nat /\ DOMAIN rest = 1..Len(rest)
      /\ DOMAIN all = 1..Len(rest) + 1
    <2>1. Len(rest) \in Nat /\ DOMAIN rest = 1..Len(rest)
        BY <1>1, LenProperties
    <2>2. DOMAIN all = 1..Len(all)
        BY <1>3, LenProperties
    <2>3. Len(cache) \in Nat
        BY LenProperties DEF IsLRU
    <2> QED  BY <1>3, <2>1, <2>2, <2>3
<1>4. all[1] = k /\ \A j \in 1..Len(rest) : all[j + 1] = rest[j]
    <2>1. all[1] = k
        BY <1>2, <1>3, <1>n
    <2>2. ASSUME NEW j \in 1..Len(rest) PROVE all[j + 1] = rest[j]
        <3>1. j + 1 \in 1..1 + Len(rest) /\ ~(j + 1 <= 1) /\ (j + 1) - 1 = j
            BY <1>n
        <3> QED  BY <1>3, <3>1
    <2> QED  BY <2>1, <2>2
<1>5. \A j \in 1..Len(rest) : rest[j] # k
    BY <1>1, <1>n DEF Range
<1>6. IsInjective(all)
    <2> SUFFICES ASSUME NEW a \in 1..Len(rest) + 1, NEW b \in 1..Len(rest) + 1, all[a] = all[b]
                 PROVE  a = b
        BY <1>n DEF IsInjective
    <2>0. \A a1, b1 \in 1..Len(rest) : rest[a1] = rest[b1] => a1 = b1
        BY <1>1, <1>n DEF IsInjective
    <2>1. a = 1 \/ (a - 1 \in 1..Len(rest) /\ all[a] = rest[a - 1])
        <3>1. CASE a # 1
            <4>1. a - 1 \in 1..Len(rest) /\ a \in 1..1 + Len(rest) /\ ~(a <= 1)
                BY <1>n, <3>1
            <4> QED  BY <1>3, <4>1
        <3> QED  BY <3>1
    <2>2. b = 1 \/ (b - 1 \in 1..Len(rest) /\ all[b] = rest[b - 1])
        <3>1. CASE b # 1
            <4>1. b - 1 \in 1..Len(rest) /\ b \in 1..1 + Len(rest) /\ ~(b <= 1)
                BY <1>n, <3>1
            <4> QED  BY <1>3, <4>1
        <3> QED  BY <3>1
    <2>3. CASE a = 1 \/ b = 1
        <3>1. a # 1 => all[a] # k
            BY <1>5, <2>1
        <3>2. b # 1 => all[b] # k
            BY <1>5, <2>2
        <3> QED  BY <1>4, <2>3, <3>1, <3>2
    <2>4. CASE a # 1 /\ b # 1
        <3>1. a - 1 = b - 1
            BY <2>0, <2>1, <2>2, <2>4
        <3> QED  BY <3>1
    <2> QED  BY <2>3, <2>4
<1>7. Range(all) = Range(cache) \cup {k}
    <2>1. ASSUME NEW j \in 1..Len(rest) + 1 PROVE all[j] \in Range(rest) \cup {k}
        <3>1. CASE j = 1
            BY <1>4, <3>1
        <3>2. CASE j # 1
            <4>1. j - 1 \in 1..Len(rest) /\ (j - 1) + 1 = j
                BY <1>n, <3>2
            <4>2. all[j] = rest[j - 1]
                <5>1. j \in 1..1 + Len(rest) /\ ~(j <= 1)
                    BY <1>n, <3>2
                <5> QED  BY <1>3, <5>1
            <4> QED  BY <1>n, <4>1, <4>2 DEF Range
        <3> QED  BY <3>1, <3>2
    <2>2. ASSUME NEW e \in Range(rest) PROVE \E j \in 1..Len(rest) + 1 : all[j] = e
        <3>1. PICK j \in 1..Len(rest) : rest[j] = e
            BY <1>n, <2>2 DEF Range
        <3>2. j + 1 \in 1..Len(rest) + 1
            BY <1>n
        <3> QED  BY <1>4, <3>1, <3>2
    <2>3. 1 \in 1..Len(rest) + 1
        BY <1>n
    <2>4. Range(all) = Range(rest) \cup {k}
        <3>1. Range(all) \subseteq Range(rest) \cup {k}
            BY <1>n, <2>1 DEF Range
        <3>2. Range(rest) \subseteq Range(all)
            BY <1>n, <2>2 DEF Range
        <3>3. k \in Range(all)
            BY <1>4, <1>n, <2>3 DEF Range
        <3> QED  BY <3>1, <3>2, <3>3
    <2> QED  BY <1>1, <2>4
<1>8. Len(all) = IF k \in Range(cache) THEN Len(cache) ELSE Len(cache) + 1
    BY <1>1, <1>3, <1>n
<1>9. Len(all) >= 1
    BY <1>3, <1>n
<1> QED  BY <1>3, <1>4, <1>6, <1>7, <1>8, <1>9 DEF Touched, all, rest

LEMMA KeptEntry ==
    ASSUME NEW S, NEW max \in Nat \ {0}, NEW cache, IsLRU(cache, S, max), NEW k \in S
    PROVE  /\ IsLRU(Kept(cache, k, max), S, max)
           /\ Range(Kept(cache, k, max)) \subseteq Range(cache) \cup {k}
           /\ k \in Range(Kept(cache, k, max))
<1>1. PICK all : all = Touched(cache, k)
    OBVIOUS
<1>2. /\ all \in Seq(S) /\ IsInjective(all) /\ Range(all) = Range(cache) \cup {k}
      /\ Len(all) >= 1 /\ all[1] = k
    BY <1>1, TouchedEntry
<1>3. Len(all) \in Nat /\ DOMAIN all = 1..Len(all)
    BY <1>2, LenProperties
<1>4. PICK n \in Nat : n = Min({max, Len(all)})
    BY <1>3, MinOfTwo
<1>5. n <= max /\ n <= Len(all) /\ 1 <= n
    BY <1>2, <1>3, <1>4, MinOfTwo
<1>6. PICK kept : kept = SubSeq(all, 1, n)
    OBVIOUS
<1>7. kept = Kept(cache, k, max)
    BY <1>1, <1>4, <1>6 DEF Kept
<1>8. kept \in Seq(S) /\ Len(kept) = n /\ \A i \in 1..n : kept[i] = all[i]
    <2>1. \A i \in 1..n : all[i] \in S
        BY <1>2, <1>3, <1>5, ElementOfSeq
    <2>2. /\ SubSeq(all, 1, n) \in Seq(S)
          /\ Len(SubSeq(all, 1, n)) = IF 1 <= n THEN n - 1 + 1 ELSE 0
          /\ \A i \in 1..n - 1 + 1 : SubSeq(all, 1, n)[i] = all[1 + i - 1]
        BY <2>1, SubSeqProperties
    <2> QED  BY <1>6, <2>2
<1>9. DOMAIN kept = 1..n
    BY <1>8, LenProperties
<1>10. IsInjective(kept)
    BY <1>2, <1>3, <1>5, <1>8, <1>9 DEF IsInjective
<1>11. Range(kept) \subseteq Range(all)
    BY <1>3, <1>5, <1>8, <1>9 DEF Range
<1>12. k \in Range(kept)
    <2>1. 1 \in 1..n /\ kept[1] = k
        BY <1>2, <1>5, <1>8
    <2> QED  BY <1>9, <2>1 DEF Range
<1> QED  BY <1>2, <1>5, <1>7, <1>8, <1>10, <1>11, <1>12 DEF IsLRU

(***************************************************************************)
(* The invariants.                                                         *)
(***************************************************************************)

ReqState == [pc : {"idle", "missed", "waiting"}, key : Keys \cup {None},
             status : {None, "ok", "not found", "failed"}]

(* Visitors only ask about frames that have been listed, so that a frame    *)
(* being archived is no business of theirs yet.                             *)
Known(t) == file[t] # "future"

OnlyKnown ==
    /\ put # None /\ meta => ~Known(put)
    /\ prune # None => file[prune] = "gone"
    /\ \A t \in listed : Known(t)
    /\ \A c \in Clients : \A t \in page[c] : Known(t)
    /\ \A c \in Clients :
          /\ req[c].pc # "idle" \/ req[c].status # None => req[c].key # None
          /\ req[c].key # None => Known(req[c].key[1])
    /\ \A k \in Keys : flight[k] # None => Known(k[1])

(* A flight that has looked again leads its key's only render.              *)
NoneCached ==
    \A k \in Keys : flight[k] \in {"get", "read", "keep", "render"} => k \notin Range(rendered)

(* Until the meta is known the decoded cache answers for the only frame     *)
(* there is, and no flight gets further than looking for a pruned one.      *)
Covered ==
    ~meta =>
        /\ \A t \in Frames : file[t] \in {"whole", "torn"} => put = t
        /\ put # None => put \in Range(decoded) \/ file[put] = "gone"
        /\ \A k \in Keys : flight[k] = "read" => file[k[1]] = "gone"
        /\ \A k \in Keys : flight[k] # "keep"

ImagesInv == TypeOK /\ OnlyKnown /\ NotFoundMeansGone /\ NoneCached /\ Covered

LEMMA KeyParts == \A k \in Keys : k[1] \in Frames
BY DEF Keys

LEMMA CachesTyped ==
    TypeOK <=>
        /\ file \in [Frames -> {"future", "whole", "torn", "gone"}]
        /\ listed \subseteq Frames /\ meta \in BOOLEAN
        /\ IsLRU(decoded, Frames, DecodedSize) /\ IsLRU(rendered, Keys, RenderedSize)
        /\ put \in Frames \cup {None} /\ prune \in Frames \cup {None}
        /\ page \in [Clients -> SUBSET Frames]
        /\ req \in [Clients -> ReqState]
        /\ flight \in [Keys -> {None, "recheck", "get", "read", "keep", "render"}]
BY DEF TypeOK, IsLRU, ReqState

LEMMA ImagesInit == Init => ImagesInv
<1> SUFFICES ASSUME Init PROVE ImagesInv
    OBVIOUS
<1>1. ASSUME NEW S, NEW max \in Nat PROVE IsLRU(<<>>, S, max)
    <2>1. <<>> \in Seq(S) /\ Len(<<>>) = 0
        BY EmptySeq
    <2>2. DOMAIN <<>> = 1..0
        BY <2>1, LenProperties
    <2> QED  BY <2>1, <2>2 DEF IsLRU, IsInjective
<1>2. Idle \in ReqState /\ Idle.pc = "idle" /\ Idle.status = None /\ Idle.key = None
    BY DEF Idle, ReqState
<1>3. TypeOK
    BY <1>1, <1>2, CachesTyped DEF Init
<1>4. \A c \in Clients : req[c] = Idle /\ page[c] = {}
    BY DEF Init
<1>5. \A k \in Keys : flight[k] = None
    BY DEF Init
<1>6. OnlyKnown
    BY <1>2, <1>4, <1>5 DEF Init, OnlyKnown, Known
<1>9. Covered
    BY <1>5, NoneAssumption DEF Init, Covered
<1>7. NotFoundMeansGone
    BY <1>2, <1>4, NoneAssumption DEF NotFoundMeansGone
<1>8. NoneCached
    BY <1>5, NoneAssumption DEF NoneCached
<1> QED  BY <1>3, <1>6, <1>7, <1>8, <1>9 DEF ImagesInv

(***************************************************************************)
(* The archive's steps.                                                    *)
(***************************************************************************)

(* They leave the visitors, the flights and the images alone, and a frame   *)
(* goes from future to known to gone.                                       *)
LEMMA ArchiveGoesOn ==
    ASSUME OnlyKnown, NotFoundMeansGone, NoneCached, TypeOK, TypeOK',
           page' = page, req' = req, flight' = flight, rendered' = rendered,
           \A t \in Frames : /\ Known(t) => Known(t)'
                             /\ file[t] = "gone" => file'[t] = "gone",
           put' # None /\ meta' => file'[put'] = "future",
           prune' # None => file'[prune'] = "gone",
           Covered',
           \A t \in listed' : Known(t)'
    PROVE  ImagesInv'
<1>1. /\ \A c \in Clients : page[c] \subseteq Frames /\ req[c].key \in Keys \cup {None}
    BY CachesTyped DEF ReqState
<1>2. \A c \in Clients : req[c].key # None => req[c].key[1] \in Frames
    BY <1>1, KeyParts
<1>3. OnlyKnown'
    <2>1. \A c \in Clients : \A t \in page'[c] : Known(t)'
        BY <1>1 DEF OnlyKnown
    <2>2. \A c \in Clients :
             /\ req[c].pc # "idle" \/ req[c].status # None => req[c].key # None
             /\ req[c].key # None => file'[req[c].key[1]] # "future"
        BY <1>2 DEF OnlyKnown, Known
    <2>3. \A k \in Keys : flight'[k] # None => Known(k[1])'
        BY KeyParts DEF OnlyKnown
    <2> QED  BY <2>1, <2>2, <2>3 DEF OnlyKnown, Known
<1>4. NotFoundMeansGone'
    <2>1. ASSUME NEW c \in Clients, req[c].status = "not found"
          PROVE  file'[req[c].key[1]] = "gone"
        <3>1. req[c].key # None
            BY <2>1, NoneAssumption DEF OnlyKnown
        <3> QED  BY <1>2, <2>1, <3>1 DEF NotFoundMeansGone
    <2> QED  BY <2>1 DEF NotFoundMeansGone
<1>5. NoneCached'
    BY DEF NoneCached
<1> QED  BY <1>3, <1>4, <1>5 DEF ImagesInv

LEMMA ArchiveStep ==
    ASSUME ImagesInv, PutDecode \/ PutArchive \/ PutMeta \/ PruneRemove \/ PruneForget
    PROVE  ImagesInv'
<1>t. TypeOK /\ OnlyKnown /\ NotFoundMeansGone /\ NoneCached /\ Covered
    BY DEF ImagesInv
<1>T. /\ file \in [Frames -> {"future", "whole", "torn", "gone"}]
      /\ listed \subseteq Frames /\ meta \in BOOLEAN
      /\ IsLRU(decoded, Frames, DecodedSize) /\ IsLRU(rendered, Keys, RenderedSize)
      /\ put \in Frames \cup {None} /\ prune \in Frames \cup {None}
      /\ page \in [Clients -> SUBSET Frames]
      /\ req \in [Clients -> ReqState]
      /\ flight \in [Keys -> {None, "recheck", "get", "read", "keep", "render"}]
    BY <1>t, CachesTyped
<1>1. CASE PutDecode
    <2>1. PICK t \in Frames : file[t] = "future" /\ put' = t
                              /\ decoded' = Kept(decoded, t, DecodedSize)
        BY <1>1 DEF PutDecode
    <2>2. IsLRU(decoded', Frames, DecodedSize) /\ t \in Range(decoded')
        BY <1>T, <2>1, KeptEntry, SizeAssumption
    <2>3. put = None /\ meta' = meta
          /\ file' = file /\ listed' = listed /\ prune' = prune /\ rendered' = rendered
          /\ page' = page /\ req' = req /\ flight' = flight
        BY <1>1 DEF PutDecode
    <2>4. TypeOK'
        BY <1>T, <2>1, <2>2, <2>3, CachesTyped DEF IsLRU, TypeOK, ReqState
    <2>5. Covered'
        BY <1>t, <2>1, <2>2, <2>3, NoneAssumption DEF Covered
    <2> QED  BY <1>t, <2>1, <2>3, <2>4, <2>5, ArchiveGoesOn DEF Known, OnlyKnown
<1>2. CASE PutArchive
    <2>1. /\ file' = [file EXCEPT ![put] = "whole"] /\ listed' = listed \cup {put}
          /\ put \in Frames /\ put' = (IF meta THEN None ELSE put) /\ file[put] = "future"
          /\ meta' = meta /\ prune' = prune /\ rendered' = rendered /\ decoded' = decoded
          /\ page' = page /\ req' = req /\ flight' = flight
        BY <1>2, <1>T DEF PutArchive
    <2>2. TypeOK'
        BY <1>T, <2>1 DEF IsLRU, TypeOK, ReqState
    <2>4. \A t \in Frames : file'[t] = IF t = put THEN "whole" ELSE file[t]
        BY <1>T, <2>1
    <2>5. \A t \in listed' : Known(t)'
        BY <1>t, <1>T, <2>1, <2>4 DEF Known, OnlyKnown
    <2>6. prune' # None => file'[prune'] = "gone"
        BY <1>t, <1>T, <2>1, <2>4 DEF OnlyKnown
    <2>7. Covered'
        <3> SUFFICES ASSUME ~meta PROVE Covered'
            BY <2>1 DEF Covered
        <3>1. \A t \in Frames : file'[t] \in {"whole", "torn"} => put' = t
            BY <1>t, <2>1, <2>4 DEF Covered
        <3>2. put \in Range(decoded)
            BY <1>t, <2>1, NoneAssumption DEF Covered
        <3>3. \A k \in Keys : flight[k] = "read" => file'[k[1]] = "gone"
            BY <1>t, <2>1, <2>4, KeyParts DEF Covered
        <3> QED  BY <1>t, <2>1, <3>1, <3>2, <3>3 DEF Covered
    <2> QED  BY <1>t, <2>1, <2>2, <2>4, <2>5, <2>6, <2>7, ArchiveGoesOn DEF Known
<1>5. CASE PutMeta
    <2>1. /\ meta' = TRUE /\ put' = None
          /\ file' = file /\ listed' = listed /\ prune' = prune
          /\ rendered' = rendered /\ decoded' = decoded
          /\ page' = page /\ req' = req /\ flight' = flight
        BY <1>5 DEF PutMeta
    <2>2. TypeOK'
        BY <1>T, <2>1 DEF IsLRU, TypeOK, ReqState
    <2>3. Covered'
        BY <2>1 DEF Covered
    <2> QED  BY <1>t, <2>1, <2>2, <2>3, ArchiveGoesOn DEF Known, OnlyKnown
<1>3. CASE PruneRemove
    <2>1. PICK t \in listed : file' = [file EXCEPT ![t] = "gone"] /\ prune' = t
        BY <1>3 DEF PruneRemove
    <2>2. /\ listed' = listed /\ meta' = meta /\ put' = put
          /\ rendered' = rendered /\ decoded' = decoded
          /\ page' = page /\ req' = req /\ flight' = flight
        BY <1>3 DEF PruneRemove
    <2>3. TypeOK'
        BY <1>T, <2>1, <2>2 DEF IsLRU, TypeOK, ReqState
    <2>4. \A u \in Frames : file'[u] = IF u = t THEN "gone" ELSE file[u]
        BY <1>T, <2>1
    <2>5. Known(t) /\ (put # None /\ meta => put # t /\ put \in Frames)
        BY <1>t, <1>T, <2>1 DEF OnlyKnown
    <2>6. put' # None /\ meta' => file'[put'] = "future"
        BY <1>t, <2>2, <2>4, <2>5 DEF OnlyKnown, Known
    <2>7. \A u \in listed' : Known(u)'
        BY <1>t, <1>T, <2>2, <2>4 DEF OnlyKnown, Known
    <2>8. prune' # None => file'[prune'] = "gone"
        BY <1>T, <2>1, <2>4
    <2>9. Covered'
        <3> SUFFICES ASSUME ~meta PROVE Covered'
            BY <2>2 DEF Covered
        <3>1. \A u \in Frames : file'[u] \in {"whole", "torn"} => put = u
            BY <1>t, <2>4 DEF Covered
        <3>2. put # None => put \in Range(decoded) \/ file'[put] = "gone"
            BY <1>t, <1>T, <2>4 DEF Covered
        <3>3. \A k \in Keys : flight[k] = "read" => file'[k[1]] = "gone"
            BY <1>t, <2>4, KeyParts DEF Covered
        <3> QED  BY <1>t, <2>2, <3>1, <3>2, <3>3 DEF Covered
    <2> QED  BY <1>t, <2>2, <2>3, <2>4, <2>6, <2>7, <2>8, <2>9, ArchiveGoesOn DEF Known
<1>4. CASE PruneForget
    <2>1. /\ listed' = listed \ {prune} /\ decoded' = Without(decoded, prune) /\ prune' = None
          /\ prune # None /\ file' = file /\ meta' = meta /\ put' = put /\ rendered' = rendered
          /\ page' = page /\ req' = req /\ flight' = flight
        BY <1>4 DEF PruneForget
    <2>2. IsLRU(decoded', Frames, DecodedSize) /\ Range(decoded') = Range(decoded) \ {prune}
        <3>1. /\ IsLRU(Without(decoded, prune), Frames, DecodedSize)
              /\ Range(Without(decoded, prune)) = Range(decoded) \ {prune}
            BY <1>T, WithoutEntry, SizeAssumption
        <3> QED  BY <2>1, <3>1
    <2>3. TypeOK'
        BY <1>T, <2>1, <2>2 DEF IsLRU, TypeOK, ReqState
    <2>4. file[prune] = "gone"
        BY <1>t, <2>1 DEF OnlyKnown
    <2>5. Covered'
        <3> SUFFICES ASSUME ~meta PROVE Covered'
            BY <2>1 DEF Covered
        <3>1. put # None => put \in Range(decoded') \/ file[put] = "gone"
            BY <1>t, <2>2, <2>4 DEF Covered
        <3> QED  BY <1>t, <2>1, <3>1 DEF Covered
    <2> QED  BY <1>t, <2>1, <2>3, <2>5, ArchiveGoesOn DEF Known, OnlyKnown
<1> QED  BY <1>1, <1>2, <1>3, <1>4, <1>5

(***************************************************************************)
(* The visitors' steps.                                                    *)
(***************************************************************************)

LEMMA VisitorStep ==
    ASSUME ImagesInv, NEW c \in Clients, ListFrames(c) \/ FrameImage(c) \/ Do(c)
    PROVE  ImagesInv'
<1>t. TypeOK /\ OnlyKnown /\ NotFoundMeansGone /\ NoneCached /\ Covered
    BY DEF ImagesInv
<1>T. /\ file \in [Frames -> {"future", "whole", "torn", "gone"}]
      /\ listed \subseteq Frames /\ meta \in BOOLEAN
      /\ IsLRU(decoded, Frames, DecodedSize) /\ IsLRU(rendered, Keys, RenderedSize)
      /\ put \in Frames \cup {None} /\ prune \in Frames \cup {None}
      /\ page \in [Clients -> SUBSET Frames]
      /\ req \in [Clients -> ReqState]
      /\ flight \in [Keys -> {None, "recheck", "get", "read", "keep", "render"}]
    BY <1>t, CachesTyped
<1>a. file' = file /\ listed' = listed /\ meta' = meta /\ put' = put /\ prune' = prune
      /\ decoded' = decoded
    BY DEF ListFrames, FrameImage, Do, archive
<1>1. CASE ListFrames(c)
    <2>1. page' = [page EXCEPT ![c] = IF listed = {} THEN page[c] ELSE listed]
          /\ req' = req /\ flight' = flight /\ rendered' = rendered
        BY <1>1 DEF ListFrames
    <2>2. page' \in [Clients -> SUBSET Frames]
        BY <1>T, <2>1
    <2>3. \A d \in Clients : \A t \in page'[d] : Known(t)
        BY <1>t, <1>T, <2>1 DEF OnlyKnown
    <2>4. TypeOK'
        BY <1>T, <1>a, <2>1, <2>2 DEF IsLRU, TypeOK, ReqState
    <2>5. OnlyKnown'
        BY <1>t, <1>a, <2>1, <2>3 DEF OnlyKnown, Known
    <2> QED  BY <1>t, <1>a, <2>1, <2>4, <2>5 DEF ImagesInv, NotFoundMeansGone, NoneCached, Covered
<1>2. CASE FrameImage(c)
    <2>1. PICK t \in page[c], p \in Palettes :
              \/ /\ <<t, p>> \in Range(rendered) /\ rendered' = Touched(rendered, <<t, p>>)
                 /\ req' = [req EXCEPT ![c] = [pc |-> "idle", key |-> <<t, p>>, status |-> "ok"]]
              \/ /\ rendered' = rendered
                 /\ req' = [req EXCEPT ![c] = [pc |-> "missed", key |-> <<t, p>>, status |-> None]]
        BY <1>2 DEF FrameImage
    <2>2. PICK k \in Keys : k = <<t, p>> /\ k[1] = t /\ Known(t)
        <3>1. t \in Frames /\ Known(t)
            BY <1>t, <1>T DEF OnlyKnown
        <3>2. <<t, p>> \in Keys
            BY <3>1 DEF Keys
        <3> QED  BY <3>1, <3>2
    <2>3. page' = page /\ flight' = flight
        BY <1>2 DEF FrameImage
    <2>4. IsLRU(rendered', Keys, RenderedSize) /\ Range(rendered') = Range(rendered)
        <3>1. CASE rendered' = rendered
            BY <1>T, <3>1
        <3>2. CASE k \in Range(rendered) /\ rendered' = Touched(rendered, k)
            <4>1. /\ Touched(rendered, k) \in Seq(Keys) /\ IsInjective(Touched(rendered, k))
                  /\ Range(Touched(rendered, k)) = Range(rendered) \cup {k}
                  /\ Len(Touched(rendered, k)) =
                        IF k \in Range(rendered) THEN Len(rendered) ELSE Len(rendered) + 1
                BY <1>T, TouchedEntry, SizeAssumption
            <4>2. Len(Touched(rendered, k)) <= RenderedSize
                BY <1>T, <3>2, <4>1 DEF IsLRU
            <4> QED  BY <3>2, <4>1, <4>2 DEF IsLRU
        <3> QED  BY <2>1, <2>2, <3>1, <3>2
    <2>5. PICK r \in ReqState : /\ req' = [req EXCEPT ![c] = r]
                                /\ r.key = k /\ r.status # "not found"
        <3>1. /\ [pc |-> "idle", key |-> k, status |-> "ok"] \in ReqState
              /\ [pc |-> "missed", key |-> k, status |-> None] \in ReqState
            BY DEF ReqState
        <3>2. CASE req' = [req EXCEPT ![c] = [pc |-> "idle", key |-> k, status |-> "ok"]]
            BY <3>1, <3>2
        <3>3. CASE req' = [req EXCEPT ![c] = [pc |-> "missed", key |-> k, status |-> None]]
            BY <3>1, <3>3, NoneAssumption
        <3> QED  BY <2>1, <2>2, <3>2, <3>3
    <2>6. req' \in [Clients -> ReqState] /\ \A d \in Clients : req'[d] = IF d = c THEN r ELSE req[d]
        BY <1>T, <2>5
    <2>7. TypeOK'
        BY <1>T, <1>a, <2>3, <2>4, <2>6 DEF IsLRU, TypeOK, ReqState
    <2>8. OnlyKnown'
        <3>1. \A d \in Clients :
                 /\ req'[d].pc # "idle" \/ req'[d].status # None => req'[d].key # None
                 /\ req'[d].key # None => Known(req'[d].key[1])
            BY <1>t, <2>2, <2>5, <2>6, NoneAssumption DEF OnlyKnown
        <3> QED  BY <1>t, <1>a, <2>3, <3>1 DEF OnlyKnown, Known
    <2>9. NotFoundMeansGone'
        BY <1>t, <1>a, <2>5, <2>6 DEF NotFoundMeansGone
    <2>10. Covered'
        BY <1>t, <1>a, <2>3 DEF Covered
    <2> QED  BY <1>t, <2>3, <2>4, <2>7, <2>8, <2>9, <2>10 DEF ImagesInv, NoneCached
<1>3. CASE Do(c)
    <2>1. /\ req[c].pc = "missed" /\ req' = [req EXCEPT ![c].pc = "waiting"]
          /\ flight' = [flight EXCEPT ![req[c].key] =
                           IF flight[req[c].key] = None THEN "recheck" ELSE flight[req[c].key]]
          /\ rendered' = rendered /\ page' = page
        BY <1>3 DEF Do
    <2>2. req[c].key # None
        BY <1>t, <2>1 DEF OnlyKnown
    <2>3. PICK k \in Keys : k = req[c].key
        BY <1>T, <2>2 DEF ReqState
    <2>4. Known(k[1])
        BY <1>t, <2>2, <2>3 DEF OnlyKnown
    <2>5. /\ flight' \in [Keys -> {None, "recheck", "get", "read", "keep", "render"}]
          /\ \A l \in Keys : flight'[l] = IF l = k /\ flight[l] = None THEN "recheck" ELSE flight[l]
        BY <1>T, <2>1, <2>3
    <2>6. /\ req' \in [Clients -> ReqState]
          /\ \A d \in Clients : req'[d].key = req[d].key /\ req'[d].status = req[d].status
          /\ \A d \in Clients : d # c => req'[d] = req[d]
        BY <1>T, <2>1 DEF ReqState
    <2>7. TypeOK'
        BY <1>T, <1>a, <2>1, <2>5, <2>6 DEF IsLRU, TypeOK, ReqState
    <2>8. OnlyKnown'
        <3>1. \A d \in Clients :
                 /\ req'[d].pc # "idle" \/ req'[d].status # None => req'[d].key # None
                 /\ req'[d].key # None => Known(req'[d].key[1])
            BY <1>t, <2>2, <2>6 DEF OnlyKnown
        <3>2. \A l \in Keys : flight'[l] # None => Known(l[1])
            BY <1>t, <2>4, <2>5 DEF OnlyKnown
        <3> QED  BY <1>t, <1>a, <2>1, <3>1, <3>2 DEF OnlyKnown, Known
    <2>9. NotFoundMeansGone'
        BY <1>t, <1>a, <2>6 DEF NotFoundMeansGone
    <2>10. NoneCached'
        BY <1>t, <2>1, <2>5 DEF NoneCached
    <2>11. Covered'
        BY <1>t, <1>a, <2>5, NoneAssumption DEF Covered
    <2> QED  BY <2>7, <2>8, <2>9, <2>10, <2>11 DEF ImagesInv
<1> QED  BY <1>1, <1>2, <1>3

(***************************************************************************)
(* The flights' steps.                                                     *)
(***************************************************************************)

LEMMA FlightLands ==
    ASSUME ImagesInv, NEW k \in Keys, flight[k] # None,
           NEW outcome \in {"done", "missing", "failed"}, Land(k, outcome),
           outcome = "missing" => file[k[1]] = "gone",
           archive' = archive, page' = page, decoded' = decoded,
           IsLRU(rendered', Keys, RenderedSize), Range(rendered') \subseteq Range(rendered) \cup {k}
    PROVE  ImagesInv'
<1>t. TypeOK /\ OnlyKnown /\ NotFoundMeansGone /\ NoneCached /\ Covered
    BY DEF ImagesInv
<1>T. /\ IsLRU(decoded, Frames, DecodedSize)
      /\ req \in [Clients -> ReqState]
      /\ flight \in [Keys -> {None, "recheck", "get", "read", "keep", "render"}]
    BY <1>t, CachesTyped
<1>a. file' = file /\ listed' = listed /\ meta' = meta /\ put' = put /\ prune' = prune
    BY DEF archive
<1>1. Known(k[1])
    BY <1>t DEF OnlyKnown
<1>2. /\ flight' \in [Keys -> {None, "recheck", "get", "read", "keep", "render"}]
      /\ \A l \in Keys : flight'[l] = IF l = k THEN None ELSE flight[l]
    BY <1>T DEF Land
<1>3. PICK r : r = [pc |-> "idle", key |-> k, status |-> StatusOf(outcome)]
    OBVIOUS
<1>4. /\ r \in ReqState /\ r.key = k /\ r.pc = "idle"
      /\ r.status = "not found" => outcome = "missing"
    <2>1. /\ StatusOf(outcome) \in {"ok", "not found", "failed"}
          /\ StatusOf(outcome) = "not found" => outcome = "missing"
        BY DEF StatusOf
    <2> QED  BY <1>3, <2>1 DEF ReqState
<1>5. req' = [c \in Clients |-> IF req[c].pc = "waiting" /\ req[c].key = k THEN r ELSE req[c]]
    BY <1>3 DEF Land
<1>6. \A c \in Clients : req'[c] = r \/ req'[c] = req[c]
    BY <1>5
<1>7. req' \in [Clients -> ReqState]
    BY <1>T, <1>4, <1>5
<1>8. TypeOK'
    BY <1>t, <1>T, <1>a, <1>2, <1>7 DEF IsLRU, TypeOK, ReqState
<1>9. OnlyKnown'
    <2>1. \A c \in Clients :
             /\ req'[c].pc # "idle" \/ req'[c].status # None => req'[c].key # None
             /\ req'[c].key # None => Known(req'[c].key[1])
        BY <1>t, <1>1, <1>4, <1>6, NoneAssumption DEF OnlyKnown
    <2>2. \A l \in Keys : flight'[l] # None => Known(l[1])
        BY <1>t, <1>2 DEF OnlyKnown
    <2> QED  BY <1>t, <1>a, <2>1, <2>2 DEF OnlyKnown, Known
<1>10. NotFoundMeansGone'
    <2>1. ASSUME NEW c \in Clients, req'[c].status = "not found"
          PROVE  file[req'[c].key[1]] = "gone"
        <3>1. CASE req'[c] = r
            BY <1>4, <2>1, <3>1
        <3>2. CASE req'[c] = req[c]
            BY <1>t, <2>1, <3>2 DEF NotFoundMeansGone
        <3> QED  BY <1>6, <3>1, <3>2
    <2> QED  BY <1>a, <2>1 DEF NotFoundMeansGone
<1>11. NoneCached'
    <2> SUFFICES ASSUME NEW l \in Keys, flight'[l] \in {"get", "read", "keep", "render"}
                 PROVE  l \notin Range(rendered')
        BY DEF NoneCached
    <2>1. l # k /\ flight'[l] = flight[l]
        BY <1>2, NoneAssumption
    <2>2. l \notin Range(rendered)
        BY <1>t, <2>1 DEF NoneCached
    <2> QED  BY <2>1, <2>2
<1>12. Covered'
    BY <1>t, <1>a, <1>2, NoneAssumption DEF Covered
<1> QED  BY <1>8, <1>9, <1>10, <1>11, <1>12 DEF ImagesInv

LEMMA FlightProceeds ==
    ASSUME ImagesInv, NEW k \in Keys, flight[k] # None, k \notin Range(rendered),
           NEW step \in {"get", "read", "keep", "render"}, Proceed(k, step),
           archive' = archive, page' = page, rendered' = rendered,
           IsLRU(decoded', Frames, DecodedSize),
           ~meta => /\ Range(decoded) \subseteq Range(decoded')
                    /\ step = "read" => file[k[1]] = "gone"
                    /\ step # "keep"
    PROVE  ImagesInv'
<1>t. TypeOK /\ OnlyKnown /\ NotFoundMeansGone /\ NoneCached /\ Covered
    BY DEF ImagesInv
<1>a. file' = file /\ listed' = listed /\ meta' = meta /\ put' = put /\ prune' = prune /\ req' = req
    BY DEF archive, Proceed
<1>1. /\ flight' \in [Keys -> {None, "recheck", "get", "read", "keep", "render"}]
      /\ \A l \in Keys : flight'[l] = IF l = k THEN step ELSE flight[l]
    <2>1. flight \in [Keys -> {None, "recheck", "get", "read", "keep", "render"}]
        BY <1>t, CachesTyped
    <2> QED  BY <2>1 DEF Proceed
<1>2. TypeOK'
    BY <1>t, <1>a, <1>1 DEF IsLRU, TypeOK
<1>3. OnlyKnown'
    <2>1. \A l \in Keys : flight'[l] # None => Known(l[1])
        BY <1>t, <1>1 DEF OnlyKnown
    <2> QED  BY <1>t, <1>a, <2>1 DEF OnlyKnown, Known
<1>4. NotFoundMeansGone'
    BY <1>t, <1>a DEF NotFoundMeansGone
<1>5. NoneCached'
    BY <1>t, <1>1 DEF NoneCached
<1>6. Covered'
    BY <1>t, <1>a, <1>1 DEF Covered
<1> QED  BY <1>2, <1>3, <1>4, <1>5, <1>6 DEF ImagesInv

LEMMA FlightStep ==
    ASSUME ImagesInv, NEW k \in Keys, Fly(k)
    PROVE  ImagesInv'
<1>T. /\ file \in [Frames -> {"future", "whole", "torn", "gone"}]
      /\ IsLRU(decoded, Frames, DecodedSize) /\ IsLRU(rendered, Keys, RenderedSize)
      /\ k[1] \in Frames
    BY CachesTyped, KeyParts DEF ImagesInv
<1>f. flight[k] # None /\ Known(k[1])
    <2>1. flight[k] # None
        BY NoneAssumption DEF Fly, Recheck, Get, Read, Keep, Rendered
    <2> QED  BY <2>1 DEF ImagesInv, OnlyKnown
<1>c. flight[k] # "recheck" => k \notin Range(rendered)
    BY DEF Fly, Recheck, Get, Read, Keep, Rendered, ImagesInv, NoneCached
<1>1. CASE Recheck(k)
    <2>1. CASE k \in Range(rendered)
        <3>1. Land(k, "done") /\ rendered' = Touched(rendered, k)
            BY <1>1, <2>1 DEF Recheck
        <3>2. /\ Touched(rendered, k) \in Seq(Keys) /\ IsInjective(Touched(rendered, k))
              /\ Range(Touched(rendered, k)) = Range(rendered) \cup {k}
              /\ Len(Touched(rendered, k)) =
                    IF k \in Range(rendered) THEN Len(rendered) ELSE Len(rendered) + 1
            BY <1>T, TouchedEntry, SizeAssumption
        <3>3. IsLRU(rendered', Keys, RenderedSize)
            BY <1>T, <2>1, <3>1, <3>2 DEF IsLRU
        <3> QED  BY <1>1, <1>f, <3>1, <3>2, <3>3, FlightLands DEF Recheck
    <2>2. CASE k \notin Range(rendered)
        <3>1. Proceed(k, "get") /\ rendered' = rendered
            BY <1>1, <2>2 DEF Recheck
        <3> QED  BY <1>1, <1>T, <1>f, <2>2, <3>1, FlightProceeds DEF Recheck
    <2> QED  BY <2>1, <2>2
<1>2. CASE Get(k)
    <2>1. k \notin Range(rendered)
        BY <1>2, <1>c DEF Get
    <2>2. CASE k[1] \in Range(decoded)
        <3>1. Proceed(k, "render") /\ decoded' = Touched(decoded, k[1])
            BY <1>2, <2>2 DEF Get
        <3>2. /\ Touched(decoded, k[1]) \in Seq(Frames) /\ IsInjective(Touched(decoded, k[1]))
              /\ Range(Touched(decoded, k[1])) = Range(decoded) \cup {k[1]}
              /\ Len(Touched(decoded, k[1])) =
                    IF k[1] \in Range(decoded) THEN Len(decoded) ELSE Len(decoded) + 1
            <4>1. PICK t \in Frames : t = k[1]
                BY <1>T
            <4>2. /\ Touched(decoded, t) \in Seq(Frames) /\ IsInjective(Touched(decoded, t))
                  /\ Range(Touched(decoded, t)) = Range(decoded) \cup {t}
                  /\ Len(Touched(decoded, t)) =
                        IF t \in Range(decoded) THEN Len(decoded) ELSE Len(decoded) + 1
                <5>1. IsLRU(decoded, Frames, DecodedSize) /\ DecodedSize \in Nat
                    BY <1>T, SizeAssumption
                <5>2. /\ Touched(decoded, t) \in Seq(Frames) /\ IsInjective(Touched(decoded, t))
                      /\ Range(Touched(decoded, t)) = Range(decoded) \cup {t}
                    BY <5>1, TouchedEntry
                <5>3. Len(Touched(decoded, t)) =
                        IF t \in Range(decoded) THEN Len(decoded) ELSE Len(decoded) + 1
                    BY <5>1, TouchedEntry
                <5> QED  BY <5>2, <5>3
            <4> QED  BY <4>1, <4>2
        <3>3. IsLRU(decoded', Frames, DecodedSize)
            BY <1>T, <2>2, <3>1, <3>2 DEF IsLRU
        <3>4. Range(decoded) \subseteq Range(decoded')
            BY <3>1, <3>2
        <3> QED  BY <1>2, <1>f, <2>1, <3>1, <3>3, <3>4, FlightProceeds DEF Get
    <2>3. CASE k[1] \notin Range(decoded)
        <3>1. Proceed(k, "read") /\ decoded' = decoded
            BY <1>2, <2>3 DEF Get
        <3>2. ~meta => file[k[1]] = "gone"
            BY <1>T, <1>f, <2>3, NoneAssumption DEF ImagesInv, Covered, Known
        <3> QED  BY <1>2, <1>T, <1>f, <2>1, <3>1, <3>2, FlightProceeds DEF Get
    <2> QED  BY <2>2, <2>3
<1>3. CASE Read(k)
    <2>1. k \notin Range(rendered) /\ rendered' = rendered /\ decoded' = decoded
          /\ archive' = archive /\ page' = page
        BY <1>3, <1>c DEF Read
    <2>2. CASE meta /\ file[k[1]] = "whole"
        <3>1. Proceed(k, "keep")
            BY <1>3, <2>2 DEF Read
        <3> QED  BY <1>T, <1>f, <2>1, <2>2, <3>1, FlightProceeds
    <2>3. CASE meta /\ file[k[1]] = "torn"
        <3>1. Land(k, "failed")
            BY <1>3, <2>3 DEF Read
        <3> QED  BY <1>T, <1>f, <2>1, <3>1, FlightLands
    <2>4. CASE file[k[1]] = "gone"
        <3>1. Land(k, "missing")
            BY <1>3, <2>4 DEF Read
        <3> QED  BY <1>T, <1>f, <2>1, <2>4, <3>1, FlightLands
    <2>5. ~meta => file[k[1]] = "gone"
        BY <1>3 DEF Read, ImagesInv, Covered
    <2> QED  BY <1>T, <1>f, <2>2, <2>3, <2>4, <2>5 DEF Known
<1>4. CASE Keep(k)
    <2>1. k \notin Range(rendered)
        BY <1>4, <1>c DEF Keep
    <2>2. IsLRU(decoded', Frames, DecodedSize)
        BY <1>4, <1>T, KeptEntry, SizeAssumption DEF Keep
    <2>3. meta
        BY <1>4 DEF Keep, ImagesInv, Covered
    <2> QED  BY <1>4, <1>f, <2>1, <2>2, <2>3, FlightProceeds DEF Keep
<1>5. CASE Rendered(k)
    <2>1. rendered' = Kept(rendered, k, RenderedSize) /\ Land(k, "done")
        BY <1>5 DEF Rendered
    <2>2. /\ IsLRU(rendered', Keys, RenderedSize)
          /\ Range(rendered') \subseteq Range(rendered) \cup {k}
        BY <1>T, <2>1, KeptEntry, SizeAssumption
    <2> QED  BY <1>5, <1>f, <2>1, <2>2, FlightLands DEF Rendered
<1> QED  BY <1>1, <1>2, <1>3, <1>4, <1>5 DEF Fly

LEMMA ImagesStep == ImagesInv /\ [Next]_vars => ImagesInv'
<1> SUFFICES ASSUME ImagesInv, [Next]_vars PROVE ImagesInv'
    OBVIOUS
<1>1. CASE UNCHANGED vars
    BY <1>1 DEF vars, archive, ImagesInv, TypeOK, OnlyKnown, Known, NotFoundMeansGone, NoneCached,
       Covered
<1> QED  BY <1>1, ArchiveStep, VisitorStep, FlightStep DEF Next

(***************************************************************************)
(* The theorems.                                                           *)
(***************************************************************************)

(* Requests and flights keep their types, and each LRU holds an entry once  *)
(* and keeps to its limit, under any interleaving of lookups and evictions. *)
THEOREM TypeCorrect == Spec => []TypeOK
<1>1. ImagesInv => TypeOK
    BY DEF ImagesInv
<1> QED  BY <1>1, ImagesInit, ImagesStep, PTL DEF Spec

(* The second lookup, inside the flight, is what keeps a request that       *)
(* missed the cache just before a render ended from repeating it            *)
(* (render.go): for any number of visitors and any cache size.              *)
THEOREM RendersOnce == Spec => []NoDoubleRender
<1>1. ImagesInv => NoDoubleRender
    BY DEF ImagesInv, NoneCached, NoDoubleRender
<1> QED  BY <1>1, ImagesInit, ImagesStep, PTL DEF Spec

(* FrameImage's 404 is only ever about a frame pruned after it was listed.  *)
THEOREM NotFoundOnlyIfPruned == Spec => []NotFoundMeansGone
<1>1. ImagesInv => NotFoundMeansGone
    BY DEF ImagesInv
<1> QED  BY <1>1, ImagesInit, ImagesStep, PTL DEF Spec
=================================================================================
