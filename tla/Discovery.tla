------------------------------- MODULE Discovery -------------------------------
(***************************************************************************)
(* What the radar pollers learn from FMI before they download              *)
(* (tutka/fmiwfs.go): the frames a window holds and the transformation of  *)
(* each, the order the backfill takes them in, and the checks a raster has *)
(* to pass before it becomes a frame.                                      *)
(***************************************************************************)
EXTENDS Integers, Sequences, SequencesExt, FiniteSetsExt

CONSTANTS
    Unreadable, \* a time or a measure that is missing or does not parse
    Failed      \* an error return

(* One member of the collection: a time, and named parameter measures.      *)
(* The last gain that parses wins, else the product's own.                  *)
Measure(member, name, default) ==
    LET given == SelectSeq(member.params, LAMBDA p : p.name = name /\ p.measure # Unreadable)
    IN  IF given = <<>> THEN default ELSE Last(given).measure

Meta(member, product) ==
    [time |-> member.time,
     gain |-> Measure(member, "gain", product.gain),
     offset |-> Measure(member, "offset", product.offset)]

(* Mutant of Collected: repeated timestamps stay.                           *)
CollectedTwice(out, member, product) ==
    IF member.time = Unreadable THEN out ELSE Append(out, Meta(member, product))

(* One member: skipped when it is undated, or (FMI occasionally repeats a   *)
(* timestamp) when its instant has been seen.                               *)
Collected(out, member, product) ==
    IF member.time = Unreadable \/ \E f \in ToSet(out) : f.time = member.time
    THEN out ELSE Append(out, Meta(member, product))

(* One round of the insertion sort: f moves left past every later frame.    *)
InsertedAfter(out, f, k) == SubSeq(out, 1, k) \o <<f>> \o SubSeq(out, k + 1, Len(out))
Inserted(out, f) == InsertedAfter(out, f, Max({0} \cup {i \in DOMAIN out : out[i].time <= f.time}))

(* sortFrameMetas: oldest first.                                            *)
sortFrameMetas(metas) == FoldLeft(Inserted, <<>>, metas)

Discovered(members, product) ==
    FoldLeft(LAMBDA out, m : Collected(out, m, product), <<>>, members)

parseWFSFrames(body, product) ==
    IF body.kind # "collection" THEN Failed ELSE sortFrameMetas(Discovered(body.members, product))

(* backfillOrder: newest first.                                             *)
backfillOrder(metas) == Reverse(metas)

(* fetchFrame and decodeRaster: a WMS error is XML with a 200, a raster has *)
(* the grid's dimensions and is single-band grey of one of two depths.      *)
fetchFrame(response, grid, meta) ==
    IF response.kind # "geotiff" \/ response.size # grid \/ response.pixel \notin {"gray", "gray16"}
    THEN Failed
    ELSE [time |-> meta.time, gain |-> meta.gain, offset |-> meta.offset, grid |-> grid,
          noData |-> IF response.pixel = "gray" THEN 255 ELSE 65535]
=============================================================================
