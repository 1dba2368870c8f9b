SPECIFICATION Spec
CONSTANTS
    Frames = {0, 1}
    Days = {d1}
    DayOf <- MCDayOf
    Metas = {a1, a2, b1}
    GridOf <- MCGridOf
    Writers = {live}
    Readers = {r1}
    ArchiveEnabled = TRUE
    DecodedSize = 1
    CanFail = {"frame", "rename", "unlink", "meta", "clear"}
    MaxCutoff = 1
    MaxCrashes = 2
    Absent = Absent
    Torn = Torn
    None = None
    d1 = d1
    d2 = d2
    a1 = a1
    a2 = a2
    b1 = b1
    gridA = gridA
    gridB = gridB
SYMMETRY Symmetry
CHECK_DEADLOCK FALSE
INVARIANTS
    NoTornFrame
    AckedIsListed
    GridFaithful
PROPERTY
    ImplementsArchive
