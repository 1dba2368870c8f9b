------------------------------ MODULE MC_Decoders ------------------------------
(* Inputs for Decoders: two stations and two instants, a 12 x 4 raster, and *)
(* boundary values of every setting.                                        *)
EXTENDS Decoders, TLC

CONSTANTS T

MCParameters == {T, SnowDepth}
MCRadarProducts == {"dbz", "rr"}

Row2(id, time, t, snow) == [id |-> id, time |-> time, values |-> (T :> t @@ SnowDepth :> snow)]

MCReports ==
    {<<Row2(1, 1, a, b), Row2(1, 2, c, d), Row2(2, 1, e, f), Row2(2, 2, 9, g)>> :
        a \in {NaN, 5}, b \in {NaN, -3, -1, 4}, c \in {NaN, 7}, d \in {NaN, -3, -1, 6},
        e \in {NaN, 3}, f \in {NaN, -3, -1}, g \in {NaN, 8}}
    \cup {<<Row2(2, 2, a, b), Row2(1, 1, c, d)>> :
        a \in {NaN, 5}, b \in {NaN, -3, -1, 4}, c \in {NaN, 7}, d \in {NaN, -3, -1, 6}}

(* Station 3 never reports. Halfway marks are at 2 modulo 4: the branches   *)
(* agree, differ without a mark between, or put station 1 across a mark in  *)
(* latitude, or station 2 in longitude. Stations are close as they may be.  *)
MCLayouts ==
    {[fields |-> <<T, SnowDepth>>, points |-> <<1, 2, 3>>, locations |-> <<1, 2, 3>>,
      place |-> <<<<6000, 2500>>, <<6004, 2500>>, <<6000, 2504>>>>,
      drawn |-> <<<<6000, 2500>>, <<6004, 2500>>, <<6000, 2504>>>>],
     [fields |-> <<SnowDepth, T>>, points |-> <<2, 3, 1>>, locations |-> <<3, 2, 1>>,
      place |-> <<<<6000, 2500>>, <<6012, 2500>>, <<6000, 2512>>>>,
      drawn |-> <<<<6001, 2499>>, <<6013, 2499>>, <<6001, 2511>>>>],
     [fields |-> <<T, SnowDepth>>, points |-> <<3, 2, 1>>, locations |-> <<1, 2, 3>>,
      place |-> <<<<6001, 2500>>, <<6006, 2500>>, <<6000, 2512>>>>,
      drawn |-> <<<<6002, 2500>>, <<6006, 2500>>, <<6000, 2512>>>>],
     [fields |-> <<T, SnowDepth>>, points |-> <<1, 3, 2>>, locations |-> <<2, 1, 3>>,
      place |-> <<<<6000, 2497>>, <<6000, 2502>>, <<6000, 2512>>>>,
      drawn |-> <<<<6000, 2497>>, <<6000, 2501>>, <<6000, 2513>>>>]}

MCLosses ==
    LET sent == <<Row2(2, 2, 5, -1), Row2(1, 1, 7, 4)>>
    IN  [report : {sent}, half : {"positions"}, kept : {SetToSortSeq(S, <) : S \in SUBSET (1..6)}]
        \cup [report : {sent}, half : {"tuples"}, kept : {SetToSortSeq(S, <) : S \in SUBSET (1..4)}]

Member(t, ps) == [time |-> t, params |-> ps]
MCMembers ==
    {Member(t, ps) : t \in {1, 2, 3, Unreadable},
        ps \in {<<>>, <<[name |-> "gain", measure |-> 7]>>,
                <<[name |-> "gain", measure |-> 7], [name |-> "offset", measure |-> 3],
                  [name |-> "gain", measure |-> Unreadable]>>}}
MCFrameLists ==
    [kind : {"collection"}, members : UNION {[1..n -> MCMembers] : n \in 0..3}]
    \cup {[kind |-> "exception", members |-> <<>>]}

Requested == DOMAIN Palettes \cup {"", "sepia"}
MCRasters ==
    [product : {"dbz"}, requested : Requested, pixel : {"gray"}, raw : 0..255]
    \cup [product : {"rr", "rr1h"}, requested : Requested, pixel : {"gray16"},
          raw : 0..60 \cup {90, 100, 101, 599, 600, 601, 4999, 5000, 10000, 65534, 65535}]
MCLegends == [product : DOMAIN Products, requested : Requested]

(* Rain over one or two blocks, the pixels of each of different strength.   *)
Blob(cs) == [p \in UNION {Block(c) : c \in cs} |-> 1 + (p[1] % 2) + 2 * (p[2] % 2)]
MCStorms ==
    {s \in [cells : {Blob({c, e}) : c, e \in CoarseCells}, shift : {-4, -2, 0, 2, 4} \X {-2, 0, 2}] :
        Trackable(s)}

MCArchives ==
    {[times |-> SetToSortSeq(S, <), readable |-> R] : S \in SUBSET (1..5), R \in SUBSET (1..5)}

MCEnvironments ==
    [bbox : {<<>>, <<1, 2, 3>>, <<1, 1, Malformed, 9>>, <<5, 1, 5, 9>>, <<1, 9, 8, 2>>} \cup
            {<<1, 2, x, y>> : x \in 2..9, y \in 3..9},
     resolution : {<<>>, <<Malformed>>, <<0>>, <<-2>>, <<2>>, <<4>>, <<6>>},
     retention : {<<>>}]
    \cup [bbox : {<<>>}, resolution : {<<>>},
          retention : {<<a, b>> : a, b \in [name : {"dbz", "rr", "typo"}, hours : {Malformed, -1, 0, 9}]}]
MCDefaultHours == "dbz" :> 168 @@ "rr" :> 48
=============================================================================
