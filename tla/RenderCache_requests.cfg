SPECIFICATION Spec
CONSTANTS
    Clients = {c1, c2}
    Frames = {f1, f2}
    Palettes = {plain, cvd}
    DecodedSize = 1
    RenderedSize = 2
    None = None
INVARIANTS
    NoDoubleRender
    NotFoundMeansGone
PROPERTIES
    EveryRequestAnswered
