-------------------------------- MODULE Palette --------------------------------
(***************************************************************************)
(* What a radar cell looks like and what the readout says of it            *)
(* (tutka/palette.go, tutka/models.go): raw values, the four sample states,*)
(* colour stops, the lookup table a frame is painted with and the legend.  *)
(*                                                                         *)
(* A physical value is counted in hundredths of its unit, a colour is      *)
(* <<r, g, b, a>>. The arithmetic is exact where Go's is float64.          *)
(***************************************************************************)
EXTENDS Integers, Sequences, SequencesExt, FiniteSetsExt, TLC

(* The products differ, here, in unit, depth, scaling and default palette.  *)
Products == [
    dbz  |-> [unit |-> "dBZ",  noData |-> 255,  gain |-> 50, offset |-> -3200, palette |-> "dbz"],
    rr   |-> [unit |-> "mm/h", noData |-> 65535, gain |-> 1,  offset |-> 0,     palette |-> "rate"],
    rr1h |-> [unit |-> "mm",   noData |-> 65535, gain |-> 1,  offset |-> 0,     palette |-> "accum"]]

Rainbow == << <<90, 190, 255>>, <<90, 190, 255>>, <<46, 216, 182>>, <<92, 226, 100>>,
    <<240, 219, 78>>, <<249, 152, 54>>, <<238, 74, 62>>, <<199, 44, 141>>, <<233, 205, 255>> >>

Accessible == << <<70, 110, 220>>, <<70, 110, 220>>, <<66, 176, 226>>, <<140, 214, 226>>,
    <<233, 226, 170>>, <<240, 178, 90>>, <<224, 118, 46>>, <<168, 54, 32>>, <<92, 20, 24>> >>

DbzScale == <<400, 800, 1500, 2200, 3000, 3800, 4600, 5400, 6400>>
RateScale == <<10, 20, 50, 100, 250, 600, 1500, 3000, 5000>>
AccumScale == <<20, 50, 200, 500, 1000, 2000, 4000, 7000, 10000>>

(* One palette: its unit and its stops, the first of them transparent.      *)
Stops(unit, scale, hues, alpha) ==
    [unit |-> unit,
     stops |-> [i \in 1..9 |->
        [value |-> scale[i], colour |-> <<hues[i][1], hues[i][2], hues[i][3], alpha[i]>>]]]

PaletteIds == {"dbz", "rate", "accum", "dbz-cvd", "rate-cvd", "accum-cvd"}

Palettes == [id \in PaletteIds |->
    CASE id = "dbz" -> Stops("dBZ", DbzScale, Rainbow, <<0, 150, 205, 228, 242, 250, 255, 255, 255>>)
      [] id = "rate" -> Stops("mm/h", RateScale, Rainbow, <<0, 145, 205, 228, 242, 250, 255, 255, 255>>)
      [] id = "accum" -> Stops("mm", AccumScale, Rainbow, <<0, 150, 208, 230, 243, 250, 255, 255, 255>>)
      [] id = "dbz-cvd" -> Stops("dBZ", DbzScale, Accessible, <<0, 155, 208, 228, 242, 250, 255, 255, 255>>)
      [] id = "rate-cvd" -> Stops("mm/h", RateScale, Accessible, <<0, 150, 208, 228, 242, 250, 255, 255, 255>>)
      [] id = "accum-cvd" -> Stops("mm", AccumScale, Accessible, <<0, 155, 208, 230, 243, 250, 255, 255, 255>>)]

Transparent == <<0, 0, 0, 0>>

(* A palette of another unit, or of no table, falls back to the product's.  *)
ResolvePalette(p, requested) ==
    IF requested \in DOMAIN Palettes /\ Palettes[requested].unit = Products[p].unit
    THEN Palettes[requested]
    ELSE Palettes[Products[p].palette]

(* a + (b - a) * n/d + 0.5, truncated to a byte.                            *)
lerp8(a, b, n, d) == ((2 * (a * d + (b - a) * n) + d) \div (2 * d)) % 256

(* The colour of a value: clamped at both ends, interpolated in between.    *)
ColourAt(stops, v) ==
    LET above == {i \in DOMAIN stops : v <= stops[i].value}
        i == Min(above)
        lo == stops[i - 1]
        hi == stops[i]
    IN  IF above = {} THEN Last(stops).colour
        ELSE IF i = 1 THEN hi.colour
        ELSE [c \in 1..4 |-> lerp8(lo.colour[c], hi.colour[c], v - lo.value, hi.value - lo.value)]

(* Mutant of LUTAt: the no-coverage sentinel is painted like a value.       *)
LUTAtSentinel(pal, f, raw) ==
    IF raw = 0 THEN Transparent ELSE ColourAt(pal.stops, raw * f.gain + f.offset)

(* One entry of the table RenderPNG paints with: the two in-band sentinels  *)
(* stay transparent.                                                        *)
LUTAt(pal, f, raw) ==
    IF raw \in {0, f.noData} THEN Transparent ELSE ColourAt(pal.stops, raw * f.gain + f.offset)

(* RenderPNG's pixel: a colour with no alpha leaves it fully transparent.   *)
Painted(pal, f, raw) ==
    IF LUTAt(pal, f, raw)[4] = 0 THEN Transparent ELSE LUTAt(pal, f, raw)

(* Mutant of Legend: the fade-in anchor is listed as well.                  *)
LegendWhole(pal) ==
    [i \in DOMAIN pal.stops |->
        [value |-> pal.stops[i].value, color |-> SubSeq(pal.stops[i].colour, 1, 3)]]

(* The legend: every stop but a transparent first one, without its alpha.   *)
Legend(pal) ==
    LET shown == IF pal.stops[1].colour[4] = 0 THEN Tail(pal.stops) ELSE pal.stops
    IN  [i \in DOMAIN shown |->
            [value |-> shown[i].value, color |-> SubSeq(shown[i].colour, 1, 3)]]

-----------------------------------------------------------------------------
(* The readout of one cell.                                                 *)

(* ValueAtPixel on a raster of `size' = <<width, height>>: its state, and   *)
(* its value when that is "measured".                                       *)
ValueAtPixel(f, size, raster, px, py) ==
    IF ~(px \in 0..(size[1] - 1) /\ py \in 0..(size[2] - 1))
    THEN [state |-> "outside_grid", value |-> 0]
    ELSE LET raw == raster[<<px, py>>]
         IN  CASE raw = f.noData -> [state |-> "no_coverage", value |-> 0]
               [] raw = 0        -> [state |-> "no_echo", value |-> 0]
               [] OTHER          -> [state |-> "measured", value |-> raw * f.gain + f.offset]
=============================================================================
