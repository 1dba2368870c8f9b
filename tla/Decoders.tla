-------------------------------- MODULE Decoders --------------------------------
(***************************************************************************)
(* The program's pure functions, one call at a time: what a poll makes of  *)
(* an observation response, what discovery makes of a frame list, what a   *)
(* cell and a legend look like, what the nowcast says and what grid a      *)
(* configuration gives. A behaviour picks a call with its inputs, then     *)
(* evaluates it; the properties compare the result with what was sent.     *)
(***************************************************************************)
EXTENDS Observations, Discovery, Palette, Nowcast, Configuration

CONSTANTS
    Reports,     \* what stations reported: sequences of [id, time, values]
    Layouts,     \* how FMI lays the station branch out
    Losses,      \* tokens lost in transit: [report, half, kept], kept the positions left
    FrameLists,  \* discovery answers
    Rasters,     \* cells painted: [product, requested, pixel, raw]
    Legends,     \* legend requests: [product, requested]
    Storms,      \* rain seen twice: [from, shift, cells]
    Archives,    \* what Times lists and what can be read: [times, readable]
    Environments,\* settings: [bbox, resolution, retention]
    Pending      \* a call not evaluated yet

ASSUME TokensAssumption == Bad \notin Int /\ NaN \notin Int /\ Unnamed \notin Int /\ Bad # NaN

(* Two coordinates at least one unit of the join key apart.                 *)
Apart(x, y) == x - y >= Quantum \/ y - x >= Quantum

(* Different stations stand apart, in one coordinate at least, whichever    *)
(* branch places them. Nothing relates the two places of one station.       *)
ASSUME LayoutsAssumption ==
    \A l \in Layouts :
        /\ Len(l.fields) \in Nat \ {0} /\ DOMAIN l.fields = 1..Len(l.fields)
        /\ Parameters \subseteq ToSet(l.fields)
        /\ l.locations \in Seq(Int) /\ l.points \in Seq(Int)
        /\ ToSet(l.locations) \subseteq ToSet(l.points) /\ ToSet(l.points) \subseteq DOMAIN l.place
        /\ DOMAIN l.drawn = DOMAIN l.place /\ \A s \in DOMAIN l.place : Len(l.drawn[s]) = 2
        /\ \A s \in DOMAIN l.place, c \in 1..2 : l.place[s][c] \in Nat /\ l.drawn[s][c] \in Nat
        /\ \A s, t \in DOMAIN l.place : s # t =>
              \E c \in 1..2 : Apart(l.drawn[s][c], l.place[t][c])
ASSUME ReportsAssumption ==
    \A r \in Reports, l \in Layouts :
        /\ Len(r) \in Nat /\ DOMAIN r = 1..Len(r)
        /\ \A i \in DOMAIN r :
              /\ r[i].id \in DOMAIN l.place /\ r[i].time \in Int
              /\ \A f \in ToSet(l.fields) : r[i].values[f] \in Int \cup {NaN}
ASSUME LossesAssumption ==
    \A s \in Losses, l \in Layouts :
        /\ Len(s.report) \in Nat /\ DOMAIN s.report = 1..Len(s.report)
        /\ s.half \in {"positions", "tuples"} /\ s.kept \in Seq(Nat)
        /\ \A i, j \in DOMAIN s.kept : i < j => s.kept[i] < s.kept[j]
        /\ \A i \in DOMAIN s.kept :
              s.kept[i] \in 1..(Len(s.report) * (IF s.half = "positions" THEN 3 ELSE Len(l.fields)))
ASSUME FrameListAssumption ==
    \A l \in FrameLists : l.kind = "collection" =>
        l.members \in Seq([time : Int \cup {Unreadable},
                           params : Seq([name : STRING, measure : Int \cup {Unreadable}])])
ASSUME RastersAssumption ==
    \A c \in Rasters :
        /\ c.product \in DOMAIN Products /\ c.pixel \in {"gray", "gray16"}
        /\ c.raw \in 0..(IF c.pixel = "gray" THEN 255 ELSE 65535)
ASSUME LegendsAssumption == \A r \in Legends : r.product \in DOMAIN Products
ASSUME ArchivesAssumption ==
    \A a \in Archives :
        /\ a.times \in Seq(Int)
        /\ \A i, j \in DOMAIN a.times : i < j => a.times[i] < a.times[j]
ASSUME EnvironmentsAssumption ==
    \A e \in Environments :
        /\ e.bbox \in Seq(Int \cup {Malformed}) /\ e.resolution \in Seq(Int \cup {Malformed})
        /\ e.retention \in Seq([name : STRING, hours : Int \cup {Malformed}])

VARIABLES call, result
callVars == <<call, result>>

(* What FMI sends for a report under a layout: the samples put station k at *)
(* layout.place[k], its point at layout.drawn[k], in another precision.     *)
Encoded(report, layout) ==
    Coverage(<<[
        fields |-> layout.fields,
        positions |-> [i \in 1..(Len(report) * 3) |->
            LET r == report[((i - 1) \div 3) + 1]
            IN  <<layout.place[r.id][1], layout.place[r.id][2], r.time>>[((i - 1) % 3) + 1]],
        tuples |-> LET width == Len(layout.fields)
                   IN  [i \in 1..(Len(report) * width) |->
                           report[((i - 1) \div width) + 1].values[layout.fields[((i - 1) % width) + 1]]],
        points |-> [k \in DOMAIN layout.points |->
            [id |-> layout.points[k], pos |-> layout.drawn[layout.points[k]]]],
        locations |-> [k \in DOMAIN layout.locations |->
            [id |-> layout.locations[k],
             names |-> << [space |-> "geoid", value |-> 100], [space |-> "name", value |-> layout.locations[k]] >>]]
        ]>>)

(* A response of one half of which some tokens only are left.               *)
Left(s, kept) == [k \in DOMAIN kept |-> s[kept[k]]]

Damaged(body, loss) ==
    LET m == body.members[1]
    IN  Coverage(<<IF loss.half = "positions"
                   THEN [m EXCEPT !.positions = Left(@, loss.kept)]
                   ELSE [m EXCEPT !.tuples = Left(@, loss.kept)]>>)

CallInit ==
    /\ call \in
        [fn : {"observe"}, report : Reports, layout : Layouts] \cup
        [fn : {"observe-damaged"}, layout : Layouts, loss : Losses] \cup
        [fn : {"discover"}, list : FrameLists] \cup
        [fn : {"paint"}, cell : Rasters] \cup
        [fn : {"legend"}, request : Legends] \cup
        [fn : {"nowcast"}, storm : Storms] \cup
        [fn : {"point"}, archive : Archives] \cup
        [fn : {"grid"}, env : Environments]
    /\ result = Pending

Evaluate(fn, value) ==
    /\ result = Pending
    /\ call.fn = fn
    /\ result' = value
    /\ UNCHANGED call

Observe == Evaluate("observe", fetchObservations(Encoded(call.report, call.layout)))

ObserveDamaged ==
    Evaluate("observe-damaged",
             fetchObservations(Damaged(Encoded(call.loss.report, call.layout), call.loss)))

Discover == Evaluate("discover", parseWFSFrames(call.list, [gain |-> 1, offset |-> 0]))

(* A frame as fetchFrame delivers it, then one of its cells painted, with   *)
(* its neighbour in raw value, and read out.                                *)
Paint ==
    LET c == call.cell
        p == Products[c.product]
        f == fetchFrame([kind |-> "geotiff", size |-> <<1, 1>>, pixel |-> c.pixel], <<1, 1>>,
                        [time |-> 0, gain |-> p.gain, offset |-> p.offset])
        pal == ResolvePalette(c.product, c.requested)
    IN  Evaluate("paint",
            [noData |-> f.noData, colour |-> Painted(pal, f, c.raw),
             next |-> IF c.raw + 1 < f.noData THEN Painted(pal, f, c.raw + 1) ELSE <<>>,
             read |-> ValueAtPixel(f, <<1, 1>>, [at \in {<<0, 0>>} |-> c.raw], 0, 0)])

LegendOf ==
    LET pal == ResolvePalette(call.request.product, call.request.requested)
    IN  Evaluate("legend", [unit |-> pal.unit, stops |-> Legend(pal),
                            map |-> [v \in {pal.stops[i].value : i \in DOMAIN pal.stops} |->
                                        ColourAt(pal.stops, v)]])

(* A storm is a set of raining pixels; one step later it is shifted.        *)
Field2(cells) == [p \in Pixels |-> IF p \in DOMAIN cells THEN cells[p] ELSE 0]

Moved(cells, shift) ==
    [p \in {<<q[1] + shift[1], q[2] + shift[2]>> : q \in DOMAIN cells} |->
        cells[<<p[1] - shift[1], p[2] - shift[2]>>]]

(* Seen d away, b shows what a does, stronger or weaker by one factor.      *)
Repeats(a, b, d) ==
    LET over == {c \in CoarseCells : <<c[1] + d[1], c[2] + d[2]>> \in CoarseCells}
        B(c) == b[<<c[1] + d[1], c[2] + d[2]>>]
    IN  /\ \E c \in over : a[c] > 0
        /\ \E c \in over : B(c) > 0
        /\ \A c, e \in over : a[c] * B(e) = a[e] * B(c)

(* A storm that can be told: it stays on the raster and moves whole blocks  *)
(* within the search, enough of it rains in both frames, and it repeats     *)
(* itself at no offset but its own.                                         *)
Trackable(s) ==
    LET a == coarsen(Field2(s.cells))
        b == coarsen(Field2(Moved(s.cells, s.shift)))
    IN  /\ DOMAIN s.cells \subseteq Pixels /\ DOMAIN Moved(s.cells, s.shift) \subseteq Pixels
        /\ \A p \in DOMAIN s.cells : s.cells[p] \in Nat
        /\ Cardinality(Raining(a)) >= MinRaining /\ Cardinality(Raining(b)) >= MinRaining
        /\ \E o \in Offsets :
              /\ s.shift = <<o[1] * nowcastCoarsen, o[2] * nowcastCoarsen>>
              /\ \E c \in Raining(a) : <<c[1] + o[1], c[2] + o[2]>> \in CoarseCells
              /\ \A d \in Offsets \ {o} : ~Repeats(a, b, d)

ASSUME StormsAssumption == \A s \in Storms : Trackable(s)

(* The middle of a pixel, in tenths.                                        *)
Middle(p) == <<10 * p[1] + 5, 10 * p[2] + 5>>

Nowcast ==
    LET latest == Field2(Moved(call.storm.cells, call.storm.shift))
        motion == EstimateMotion(Field2(call.storm.cells), latest, 1)
    IN  Evaluate("nowcast",
            [motion |-> motion,
             arrival |-> [p \in Pixels |-> IF motion.valid THEN Arrival(latest, motion, Middle(p)) ELSE -1]])

PointOf == Evaluate("point", Point(call.archive.times, call.archive.readable))

Grid ==
    Evaluate("grid", [raster |-> NewGrid(envBBox(call.env.bbox), GridResolution(call.env.resolution)),
                      retain |-> RetainHours(call.env.retention)])

CallNext ==
    \/ Observe \/ ObserveDamaged \/ Discover \/ Paint \/ LegendOf \/ Nowcast \/ PointOf \/ Grid

CallSpec == CallInit /\ [][CallNext]_callVars

-----------------------------------------------------------------------------
Done(fn) == call.fn = fn /\ result # Pending

(* What a report says of a station: its readings that report anything, and  *)
(* the value of a parameter in one, snow sentinels understood.              *)
Meaning(code, v) ==
    IF code # SnowDepth \/ v = NaN \/ v >= 0 THEN v ELSE IF v = -1 THEN 0 ELSE NaN

Measured(report, id, code) ==
    {i \in DOMAIN report : report[i].id = id /\ Meaning(code, report[i].values[code]) # NaN}

(* A damaged response never puts a reading where it does not belong: with   *)
(* any tokens of either half lost, a poll fails or sees what was sent.      *)
TruncationCaught ==
    Done("observe-damaged") =>
        result \in {Error, fetchObservations(Encoded(call.loss.report, call.layout))}

(* A listed station's headline holds, of every parameter, the most recent   *)
(* reading the station really made: slower parameters are not blanked, missing      *)
(* values and sentinels never show.                                         *)
HeadlineMostRecent ==
    Done("observe") => \A k \in DOMAIN result :
        \A c \in Parameters :
            LET made == Measured(call.report, result[k].id, c)
            IN  IF made = {} THEN c \notin DOMAIN result[k].values
                ELSE /\ c \in DOMAIN result[k].values
                     /\ \E i \in made :
                           /\ \A j \in made : call.report[j].time <= call.report[i].time
                           /\ result[k].values[c] = Meaning(c, call.report[i].values[c])

(* A halfway mark of the rounding lies between two coordinates.             *)
Divided(x, y) ==
    \E b \in (x + 1)..y \cup (y + 1)..x : (2 * b + Quantum) % (2 * Quantum) \in {0, 1}

(* The two branches put a station on different sides of such a mark.        *)
Straddles(layout, id) == \E c \in 1..2 : Divided(layout.place[id][c], layout.drawn[id][c])

(* Every reading is drawn at the station that made it and at no other,      *)
(* whatever order the two branches of the response use, and wherever they   *)
(* put a station: a listed station's series is its own reporting instants,  *)
(* and the stations not listed are the silent ones and those whose two      *)
(* places straddle a rounding mark, whose readings match no station and are *)
(* dropped (fmi.go:83-88) although the rounding is there to join them.      *)
StationsKeepTheirReadings ==
    Done("observe") =>
        LET instants(id) == {call.report[i].time : i \in UNION {Measured(call.report, id, c) : c \in Parameters}}
        IN  /\ {result[k].id : k \in DOMAIN result}
                 = {id \in ToSet(call.layout.locations) : instants(id) # {} /\ ~Straddles(call.layout, id)}
            /\ \A k \in DOMAIN result :
                  {result[k].series[i].time : i \in DOMAIN result[k].series} = instants(result[k].id)

(* Discovery neither loses nor doubles a frame: every instant FMI dated is  *)
(* listed once, oldest first, with the scaling of its first member.         *)
DiscoveryFaithful ==
    Done("discover") /\ call.list.kind = "collection" =>
        LET dated == {k \in DOMAIN call.list.members : call.list.members[k].time # Unreadable}
        IN  /\ \A i, j \in DOMAIN result : i < j => result[i].time < result[j].time
            /\ \A k \in dated : \E i \in DOMAIN result :
                  /\ result[i].time = call.list.members[k].time
                  /\ (\A j \in dated : call.list.members[j].time = result[i].time => k <= j)
                        => result[i] = Meta(call.list.members[k], [gain |-> 1, offset |-> 0])

(* The map and the readout agree, at either depth: what is not measured is  *)
(* never painted, the unseen is not read as dry, and more rain is never     *)
(* painted fainter.                                                         *)
MapAgreesWithReadout ==
    Done("paint") =>
        /\ result.read.state # "measured" => result.colour = Transparent
        /\ (result.read.state = "no_coverage") = (call.cell.raw = result.noData)
        /\ result.next # <<>> => result.colour[4] <= result.next[4]

(* The legend cannot drift from the map: it is in the product's unit, each  *)
(* stop has the colour a cell of that value is painted with, and none of    *)
(* them is invisible there.                                                 *)
LegendMatchesMap ==
    Done("legend") =>
        /\ result.unit = Products[call.request.product].unit
        /\ \A i \in DOMAIN result.stops :
              LET painted == result.map[result.stops[i].value]
              IN  result.stops[i].color = SubSeq(painted, 1, 3) /\ painted[4] > 0

(* Rain that moves steadily arrives when the nowcast says, and nowhere      *)
(* else: the motion is found from the two frames, and a point gets the      *)
(* first step at which the storm, carried on, covers it. (Less than a pixel *)
(* outside the west or north edge is read as inside: points with such an    *)
(* upwind position are left out.)                                           *)
SteadyRainArrives ==
    Done("nowcast") =>
        \A p \in {q \in Pixels : \A k \in 1..HorizonSteps, c \in 1..2 :
                        q[c] - k * call.storm.shift[c] # -1} :
            LET seen == Moved(call.storm.cells, call.storm.shift)
                later(k) == Moved(seen, <<k * call.storm.shift[1], k * call.storm.shift[2]>>)
                covered == {k \in 1..HorizonSteps :
                               p \in DOMAIN later(k) /\ later(k)[p] >= ArrivalThreshold}
            IN  result.arrival[p] = IF covered = {} THEN -1 ELSE Min(covered)

(* A nowcast is never drawn from a stale frame: whichever frames can be     *)
(* read, it starts from the newest listed one; and when all of them can,    *)
(* the motion is timed over the interval between its own two frames.        *)
NowcastIsFresh ==
    Done("point") /\ result.dt # 0 =>
        /\ Last(result.frames) = Last(call.archive.times)
        /\ ToSet(call.archive.times) \subseteq call.archive.readable =>
              result.dt = result.frames[2] - result.frames[1]

(* The corners the map is handed are the raster's: a whole number of square *)
(* pixels, at least one, every one of which is read back at its own centre. *)
RasterMatchesCorners ==
    Done("grid") =>
        LET g == result.raster
        IN  /\ g.maxX - g.minX = g.width * g.resolution
            /\ g.maxY - g.minY = g.height * g.resolution
            /\ \A px \in 0..(g.width - 1), py \in 0..(g.height - 1) :
                  PixelIndex(g, g.minX + px * g.resolution + g.resolution \div 2,
                                g.maxY - py * g.resolution - g.resolution \div 2) = <<px, py>>

(* A typo costs only itself: each product is kept for the hours its last    *)
(* well-formed override gives, or the default.                              *)
TyposCostThemselves ==
    Done("grid") => \A p \in RadarProducts :
        LET good == {k \in DOMAIN call.env.retention :
                        /\ call.env.retention[k].name = p
                        /\ call.env.retention[k].hours \in Nat}
        IN  result.retain[p] = IF good = {} THEN defaultRetainHours[p]
                               ELSE call.env.retention[Max(good)].hours
=================================================================================
