-------------------------------- MODULE Nowcast --------------------------------
(***************************************************************************)
(* The point readout and its extrapolation (tutka/handlers.go Point and    *)
(* nowcast, tutka/nowcast.go): a series over the listed frames, the motion *)
(* of the rain between the last two, and what it carries over a point.     *)
(*                                                                         *)
(* A field is the raster's values, [0..W-1 \X 0..H-1 -> Nat]: 0 where a    *)
(* cell is dry, unseen or below nowcastMinDBZ, else its excess over it.    *)
(* A point is at tenths of a pixel; time is counted in frame steps.        *)
(***************************************************************************)
EXTENDS Integers, Sequences, SequencesExt, FiniteSetsExt

CONSTANTS
    RasterWidth, RasterHeight, \* the raster, in pixels
    nowcastCoarsen,        \* pixels per coarse cell
    nowcastSearch,         \* search radius, in coarse cells
    MinRaining,            \* coarse cells that must rain: nowcastMinCoverage of them
    HorizonSteps,          \* nowcastHorizonMinutes, in nowcastStepMinutes
    ArrivalThreshold       \* arrivalThresholdDBZ, as an excess over nowcastMinDBZ

ASSUME RasterAssumption ==
    /\ RasterWidth \in Nat \ {0} /\ RasterHeight \in Nat \ {0} /\ nowcastCoarsen \in Nat \ {0}
    /\ nowcastSearch \in Nat /\ MinRaining \in Nat /\ HorizonSteps \in Nat
    /\ ArrivalThreshold \in Nat \ {0}

Pixels == (0..(RasterWidth - 1)) \X (0..(RasterHeight - 1))
CoarseCells == (0..(RasterWidth \div nowcastCoarsen - 1)) \X (0..(RasterHeight \div nowcastCoarsen - 1))
NoMotion == [valid |-> FALSE, dx |-> 0, dy |-> 0, dt |-> 0]

From(i) == (i * nowcastCoarsen)..((i + 1) * nowcastCoarsen - 1)
Block(c) == From(c[1]) \X From(c[2])

(* The sums of the raining pixels of each block.                            *)
coarsen(field) ==
    [c \in CoarseCells |-> SumFunctionOnSet(field, Block(c))]

(* The squared cosine similarity of the overlap at an offset, as a fraction *)
(* <<n, d>>: values are not negative, so squaring keeps the order.          *)
correlate(a, b, dx, dy) ==
    LET over == {c \in CoarseCells : <<c[1] + dx, c[2] + dy>> \in CoarseCells}
        B(c) == b[<<c[1] + dx, c[2] + dy>>]
        dot == SumFunction([c \in over |-> a[c] * B(c)])
        na == SumFunction([c \in over |-> a[c] * a[c]])
        nb == SumFunction([c \in over |-> B(c) * B(c)])
    IN  IF na = 0 \/ nb = 0 THEN <<0, 1>> ELSE <<dot * dot, na * nb>>

Offsets == ((-nowcastSearch)..nowcastSearch) \X ((-nowcastSearch)..nowcastSearch)

Raining(coarse) == {c \in CoarseCells : coarse[c] > 0}

(* A candidate replaces the best so far when it scores higher; rows are     *)
(* tried before columns, each from the negative end.                        *)
Beats(s, t) == s.score[1] * t.score[2] > t.score[1] * s.score[2]
Earlier(s, t) == s.dy < t.dy \/ (s.dy = t.dy /\ s.dx < t.dx)

(* The offset that best carries `from' onto `to', in pixels per dt.         *)
EstimateMotion(from, to, dt) ==
    LET a == coarsen(from)
        b == coarsen(to)
        tried == {[dx |-> o[1], dy |-> o[2], score |-> correlate(a, b, o[1], o[2])] : o \in Offsets}
        best == CHOOSE s \in tried :
                    \A t \in tried \ {s} : Beats(s, t) \/ (~Beats(t, s) /\ Earlier(s, t))
    IN  IF \/ dt <= 0
           \/ Cardinality(Raining(a)) < MinRaining \/ Cardinality(Raining(b)) < MinRaining
           \/ best.score[1] = 0
        THEN NoMotion
        ELSE [valid |-> TRUE, dx |-> best.dx * nowcastCoarsen, dy |-> best.dy * nowcastCoarsen,
              dt |-> dt]

-----------------------------------------------------------------------------
(* int() of tenths: towards zero.                                           *)
Truncated(tenths) == IF tenths >= 0 THEN tenths \div 10 ELSE -((-tenths) \div 10)

(* Mutant of Upwind: forwards along the motion rather than back.            *)
UpwindForward(at, motion, steps) ==
    <<Truncated(at[1] + (10 * motion.dx * steps) \div motion.dt),
      Truncated(at[2] + (10 * motion.dy * steps) \div motion.dt)>>

(* The cell whose rain will be over the point `steps' from now.             *)
Upwind(at, motion, steps) ==
    <<Truncated(at[1] - (10 * motion.dx * steps) \div motion.dt),
      Truncated(at[2] - (10 * motion.dy * steps) \div motion.dt)>>

(* ExtrapolatePoint and ArrivalMinutes: the first step whose upwind cell is *)
(* measured and rains, -1 if none is within the horizon.                    *)
Arrival(latest, motion, at) ==
    LET wet == {k \in 1..HorizonSteps :
                   /\ Upwind(at, motion, k) \in Pixels
                   /\ latest[Upwind(at, motion, k)] >= ArrivalThreshold}
    IN  IF wet = {} THEN -1 ELSE Min(wet)

-----------------------------------------------------------------------------
(* Point's loop over the listed times: frames Get fails on are skipped.     *)
Got(readable, got, t) == IF t \in readable THEN Append(got, t) ELSE got

ReadableTimes(times, readable) ==
    FoldLeft(LAMBDA got, t : Got(readable, got, t), <<>>, times)

(* Mutant of NowcastDt: the interval is counted from the frame before the   *)
(* latest readable one.                                                     *)
NowcastDtReadable(times, readable) ==
    LET got == ReadableTimes(times, readable)
    IN  IF Len(got) < 2 THEN 0 ELSE got[Len(got)] - got[Len(got) - 1]

(* nowcast's dt: from the last listed time but one to the latest readable   *)
(* frame. 0 stands for the early returns before and after it (2 * dt > 3 is *)
(* 1.5 nominal steps).                                                      *)
NowcastDt(times, readable) ==
    LET got == ReadableTimes(times, readable)
        dt == Last(got) - times[Len(times) - 1]
    IN  IF Len(got) < 2 \/ Len(times) < 2 THEN 0
        ELSE IF dt <= 0 \/ 2 * dt > 3 THEN 0 ELSE dt

(* The answer to a point request: none (503), or the series' times, and the *)
(* two frames the motion is measured between when a nowcast is given.       *)
Point(times, readable) ==
    LET got == ReadableTimes(times, readable)
    IN  IF got = <<>> THEN [ok |-> FALSE, series |-> <<>>, dt |-> 0, frames |-> <<>>]
        ELSE [ok |-> TRUE, series |-> got, dt |-> NowcastDt(times, readable),
              frames |-> IF NowcastDt(times, readable) = 0 THEN <<>>
                         ELSE SubSeq(got, Len(got) - 1, Len(got))]
=============================================================================
