----------------------------- MODULE Configuration -----------------------------
(***************************************************************************)
(* Settings that shape the radar archive (core/config/config.go) and the   *)
(* grid made of them (tutka/grid.go, service.go NewService). Every setting *)
(* falls back rather than failing, so the server always starts.            *)
(*                                                                         *)
(* A setting is the list of its comma-separated parts, <<>> when unset; a  *)
(* part is a number or Malformed, and a retention entry a record.          *)
(***************************************************************************)
EXTENDS Integers, Sequences, SequencesExt, FiniteSetsExt

CONSTANTS
    Malformed,         \* text that is no number
    RadarProducts,     \* product ids
    defaultRetainHours \* per product

ASSUME MalformedAssumption == Malformed \notin Int

DefaultGridBBox == <<0, 0, 8, 14>>
DefaultGridResolution == 2

(* Four numbers whose maxima exceed their minima, or the default.           *)
envBBox(v) ==
    IF Len(v) # 4 \/ Malformed \in ToSet(v) THEN DefaultGridBBox
    ELSE IF v[3] <= v[1] \/ v[4] <= v[2] THEN DefaultGridBBox ELSE v

envFloat(v, default) == IF Len(v) # 1 \/ Malformed \in ToSet(v) THEN default ELSE v[1]

(* LoadConfig's own check on top of envFloat.                               *)
GridResolution(v) ==
    LET r == envFloat(v, DefaultGridResolution) IN IF r <= 0 THEN DefaultGridResolution ELSE r

(* math.Round of a positive quotient.                                       *)
Rounded(a, b) == (2 * a + b) \div (2 * b)

(* Mutant of NewGrid: the north and east edges stay where they were asked. *)
NewGridUnsnapped(bbox, resolution) ==
    [minX |-> bbox[1], minY |-> bbox[2], maxX |-> bbox[3], maxY |-> bbox[4],
     width |-> Max({1, Rounded(bbox[3] - bbox[1], resolution)}),
     height |-> Max({1, Rounded(bbox[4] - bbox[2], resolution)}),
     resolution |-> resolution]

(* NewGrid: whole pixels, at least one, and the north and east edges        *)
(* snapped to them.                                                         *)
NewGrid(bbox, resolution) ==
    LET w == Max({1, Rounded(bbox[3] - bbox[1], resolution)})
        h == Max({1, Rounded(bbox[4] - bbox[2], resolution)})
    IN  [minX |-> bbox[1], minY |-> bbox[2],
         maxX |-> bbox[1] + w * resolution, maxY |-> bbox[2] + h * resolution,
         width |-> w, height |-> h, resolution |-> resolution]

(* PixelIndex in mercator metres: row 0 is the northern edge; <<>> outside. *)
PixelIndex(g, x, y) ==
    LET px == (x - g.minX) \div g.resolution
        py == (g.maxY - y) \div g.resolution
    IN  IF x < g.minX \/ y > g.maxY \/ px >= g.width \/ py >= g.height THEN <<>> ELSE <<px, py>>

(* One entry: a bad or negative one is skipped, a later one for a product   *)
(* replaces an earlier one.                                                 *)
Overridden(out, e) ==
    IF e.hours = Malformed \/ e.hours < 0 THEN out
    ELSE [p \in DOMAIN out \cup {e.name} |-> IF p = e.name THEN e.hours ELSE out[p]]

(* Mutant of envRetention: the first bad entry ends the list.               *)
envRetentionStrict(v) ==
    LET bad == {k \in DOMAIN v : v[k].hours = Malformed}
        good == IF bad = {} THEN v ELSE SubSeq(v, 1, Min(bad) - 1)
    IN  FoldLeft(Overridden, <<>>, good)

(* envRetention: what the entries leave, one after the other.               *)
envRetention(v) == FoldLeft(Overridden, <<>>, v)

(* NewService: an override where there is one, else the table's hours.      *)
RetainHours(v) ==
    [p \in RadarProducts |-> IF p \in DOMAIN envRetention(v) THEN envRetention(v)[p]
                                                            ELSE defaultRetainHours[p]]
=============================================================================
