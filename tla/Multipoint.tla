------------------------------ MODULE Multipoint ------------------------------
(***************************************************************************)
(* The multipointcoverage decoder both point feeds share                   *)
(* (core/fmiwfs/multipoint.go). A response is two flat lists, positions    *)
(* and value tuples, that have to be zipped, and a separate branch of      *)
(* station identities that has to be joined to coordinates by id.          *)
(*                                                                         *)
(* A token is a number, NaN (FMI's missing reading, which ParseFloat       *)
(* accepts) or Bad, text that does not parse. XML itself is external: a    *)
(* document is the lists the decoder is handed.                            *)
(***************************************************************************)
EXTENDS Integers, Sequences, SequencesExt, FiniteSetsExt

CONSTANTS
    Bad,     \* a token that is no number
    NaN,     \* a missing reading
    Error,   \* an error return
    Unnamed  \* an empty identifier or name

(* A response body: FMI's exception envelope (which may arrive with HTTP    *)
(* 200), XML that does not parse, or a collection of observation members.   *)
Exception == [kind |-> "exception", members |-> <<>>]
Broken == [kind |-> "broken", members |-> <<>>]
Coverage(members) == [kind |-> "coverage", members |-> members]

-----------------------------------------------------------------------------
(* Parse.                                                                   *)

Width(m) == Len(m.fields)
Count(m) == Len(m.positions) \div 3

(* Mutant of Aligned: a tuple list that is long enough will do.             *)
LongEnough(m) ==
    /\ Len(m.positions) % 3 = 0
    /\ Width(m) > 0 => Len(m.tuples) >= Count(m) * Width(m)

(* The halves line up: triples, and one row of values per triple. With no   *)
(* rangeType there are no rows, and positions alone are meaningful.         *)
Aligned(m) ==
    /\ Len(m.positions) % 3 = 0
    /\ Width(m) > 0 => Len(m.tuples) = Count(m) * Width(m)

Number(token) == IF token = Bad THEN NaN ELSE token

Row(m, i) ==
    [lat |-> m.positions[3 * i - 2], lon |-> m.positions[3 * i - 1], time |-> m.positions[3 * i],
     values |-> [j \in 1..Width(m) |-> Number(m.tuples[(i - 1) * Width(m) + j])]]

(* Rows whose position does not parse are skipped, with their values; a     *)
(* time has to be an integer.                                               *)
Rows(m) ==
    {i \in 1..Count(m) :
        /\ Bad \notin {m.positions[3 * i - 2], m.positions[3 * i - 1], m.positions[3 * i]}
        /\ m.positions[3 * i] # NaN}

(* The field names of the first member that has any.                        *)
FieldsOf(members) ==
    LET named == {k \in DOMAIN members : members[k].fields # <<>>}
    IN  IF named = {} THEN <<>> ELSE members[Min(named)].fields

(* An entry is known by its place <<member, index>>, in document order.     *)
Places(chosen) == UNION {{k} \X chosen[k] : k \in DOMAIN chosen}
Before(p, q) == p[1] < q[1] \/ (p[1] = q[1] /\ p[2] < q[2])

Parses(body) == body.kind = "coverage" /\ \A m \in ToSet(body.members) : Aligned(m)

Parse(body) ==
    LET read == Places([k \in DOMAIN body.members |-> Rows(body.members[k])])
    IN  [fields  |-> FieldsOf(body.members),
         samples |-> [p \in read |-> Row(body.members[p[1]], p[2])]]

(* Field: the value of a parameter, NaN when the field is absent or the     *)
(* reading is missing. Only the first field of that name is looked at.      *)
Field(mp, s, code) ==
    LET i == SelectInSeq(mp.fields, LAMBDA f : f = code)
    IN  IF i = 0 \/ i > Len(s.values) THEN NaN ELSE s.values[i]

-----------------------------------------------------------------------------
(* ParseLocations: identities and coordinates live in different branches.   *)

(* The points that give a station coordinates; of several the last wins.    *)
PointsOf(m, id) ==
    {k \in DOMAIN m.points :
        /\ m.points[k].id = id
        /\ Len(m.points[k].pos) >= 2
        /\ Bad \notin {m.points[k].pos[1], m.points[k].pos[2]}}

Coords(m, id) == m.points[Max(PointsOf(m, id))].pos

(* The human-readable name, among entries told apart only by codeSpace.     *)
NameOf(loc) ==
    LET i == SelectInSeq(loc.names, LAMBDA n : n.space = "name")
    IN  IF i = 0 THEN Unnamed ELSE loc.names[i].value

(* The locations of one member that have an id, a name and coordinates.     *)
Usable(m) ==
    {k \in DOMAIN m.locations :
        /\ m.locations[k].id # Unnamed /\ NameOf(m.locations[k]) # Unnamed
        /\ PointsOf(m, m.locations[k].id) # {}}

(* Mutant of Located: the two lists taken to be in the same order.          *)
LocatedByOrder(m, k) ==
    [id |-> m.locations[k].id, name |-> NameOf(m.locations[k]),
     lat |-> m.points[k].pos[1], lon |-> m.points[k].pos[2]]

Located(m, k) ==
    LET pos == Coords(m, m.locations[k].id)
    IN  [id |-> m.locations[k].id, name |-> NameOf(m.locations[k]), lat |-> pos[1], lon |-> pos[2]]

(* One entry per id, the first usable one.                                  *)
ParseLocations(body) ==
    LET usable == Places([k \in DOMAIN body.members |-> Usable(body.members[k])])
        at(p) == Located(body.members[p[1]], p[2])
    IN  [p \in {q \in usable : \A o \in usable : Before(o, q) => at(o).id # at(q).id} |-> at(p)]
=============================================================================
