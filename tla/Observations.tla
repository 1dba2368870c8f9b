----------------------------- MODULE Observations -----------------------------
(***************************************************************************)
(* How a poll of the observation mode turns a response into stations       *)
(* (havainnot/fmi.go): samples carry coordinates and no id, stations carry *)
(* ids and no readings, so position, rounded to Quantum, is the join key.  *)
(*                                                                         *)
(* A reading maps the parameters reported at one instant to their values.  *)
(***************************************************************************)
EXTENDS Multipoint

CONSTANTS
    Parameters, \* the parameter codes polled
    SnowDepth,  \* snow_aws, whose negative values are sentinels
    Quantum     \* the coordinate unit of the join key, in units of a coordinate

ASSUME QuantumAssumption == Quantum \in Nat \ {0}

(* math.Round: to the nearest, halves away from zero. Finland's coordinates *)
(* are positive.                                                            *)
posKey(lat, lon) == <<(2 * lat + Quantum) \div (2 * Quantum), (2 * lon + Quantum) \div (2 * Quantum)>>

(* "No snow" is sent as -1; any other negative depth is dropped.            *)
normalize(code, v) ==
    IF code = SnowDepth /\ v < 0 THEN (IF v = -1 THEN 0 ELSE NaN) ELSE v

(* What a sample reports: only the parameters that hold a value.            *)
Reported(mp, s) ==
    LET value == [c \in Parameters |->
                     IF Field(mp, s, c) = NaN THEN NaN ELSE normalize(c, Field(mp, s, c))]
    IN  [c \in {p \in Parameters : value[p] # NaN} |-> value[c]]

(* byPos: of two stations at one key the later takes the readings.          *)
Owns(locations, p, s) ==
    LET here == {q \in DOMAIN locations :
                    posKey(locations[q].lat, locations[q].lon) = posKey(s.lat, s.lon)}
    IN  p \in here /\ \A q \in here : ~Before(p, q)

(* The readings attributed to the station at p; a sample that reports       *)
(* nothing is FMI's placeholder and is no reading.                          *)
Attributed(mp, locations, p) ==
    {i \in DOMAIN mp.samples :
        Owns(locations, p, mp.samples[i]) /\ DOMAIN Reported(mp, mp.samples[i]) # {}}

(* sort.Slice: some order in which no key decreases.                        *)
Sorted(S, key) ==
    CHOOSE l \in SetToSeqs(S) : \A i, j \in DOMAIN l : i < j => key[l[i]] <= key[l[j]]

(* Oldest first.                                                            *)
SeriesOf(mp, locations, p) ==
    LET mine == Attributed(mp, locations, p)
        order == Sorted(mine, [i \in mine |-> mp.samples[i].time])
    IN  [i \in DOMAIN order |->
            [time |-> mp.samples[order[i]].time, values |-> Reported(mp, mp.samples[order[i]])]]

(* Mutant of Headline: the newest row alone.                                *)
HeadlineLastRow(series) == Last(series).values

(* Each parameter's most recent reading: later readings overwrite.          *)
Overwritten(values, r) ==
    [c \in DOMAIN values \cup DOMAIN r.values |->
        IF c \in DOMAIN r.values THEN r.values[c] ELSE values[c]]

Headline(series) == FoldLeft(Overwritten, <<>>, series)

(* Stations with at least one reading, by name.                             *)
assemble(mp, locations) ==
    LET heard == {p \in DOMAIN locations : Attributed(mp, locations, p) # {}}
        order == Sorted(heard, [p \in heard |-> locations[p].name])
        detail(p) == LET series == SeriesOf(mp, locations, p)
                     IN  [id |-> locations[p].id, name |-> locations[p].name, series |-> series,
                          values |-> Headline(series), timestamp |-> Last(series).time]
    IN  [i \in DOMAIN order |-> detail(order[i])]

(* fetchObservations on a body that arrived.                                *)
fetchObservations(body) ==
    IF Parses(body) THEN assemble(Parse(body), ParseLocations(body)) ELSE Error
=============================================================================
