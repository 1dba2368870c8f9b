SPECIFICATION Spec
CONSTANTS
    Places = {p1, p2}
    StationIds = {s1}
    ProductIds = {dbz, rr}
    None = None
    Overlays <- MCOverlays
    LayersOf <- MCLayersOf
    DRAW_ORDER <- MCDrawOrder
    RADAR_LAYER = "radar"
    PROBE_LAYER = "probe"
    Frames = {f1}
    MaxSwaps = 1
    MaxClicks = 3
INVARIANT
    OnePanelAtATime
