------------------------------- MODULE WeatherMap -------------------------------
(***************************************************************************)
(* The one map under everything (frontend/src/map/Map.tsx, layers.ts) and  *)
(* the overlays that mount layers on it (SalamaLayer, HavainnotLayer),     *)
(* composed with the detail panels its clicks open. A theme swap throws    *)
(* every custom layer away when the new style arrives, and each owner puts *)
(* its own back.                                                           *)
(*                                                                         *)
(* MapLibre is external: the live style keeps accepting layers until the   *)
(* next one replaces it, a later setStyle supersedes the one in flight,    *)
(* and style.load fires once for each style that becomes live.             *)
(***************************************************************************)
EXTENDS DetailPanels, Sequences, SequencesExt, FiniteSetsExt

CONSTANTS
    Overlays,     \* in the order the shell mounts them: sequence of names
    LayersOf,     \* the layers of each, in the order it adds them
    DRAW_ORDER,   \* bottom to top
    RADAR_LAYER, PROBE_LAYER,
    Frames,       \* frames of a product
    MaxSwaps,     \* bound: theme toggles
    MaxClicks     \* bound: the viewer's other actions

ASSUME OrderAssumption ==
    /\ DRAW_ORDER \in Seq(ToSet(DRAW_ORDER)) /\ IsInjective(DRAW_ORDER)
    /\ {RADAR_LAYER, PROBE_LAYER} \subseteq ToSet(DRAW_ORDER) /\ RADAR_LAYER # PROBE_LAYER
    /\ Last(DRAW_ORDER) = PROBE_LAYER
ASSUME OverlayAssumption ==
    /\ Overlays \in Seq(ToSet(Overlays)) /\ IsInjective(Overlays)
    /\ \A o \in ToSet(Overlays) :
          /\ LayersOf[o] \in Seq(ToSet(DRAW_ORDER) \ {RADAR_LAYER, PROBE_LAYER})
          /\ IsInjective(LayersOf[o])
    /\ \A o, p \in ToSet(Overlays) : o # p => ToSet(LayersOf[o]) \cap ToSet(LayersOf[p]) = {}
ASSUME BoundAssumption == MaxSwaps \in Nat /\ MaxClicks \in Nat

VARIABLES
    url,         \* the current frame: [product, frame], or None
    grid,        \* whether the products answer has brought the grid
    live,        \* whether any style has become live
    loading,     \* whether a style is on its way
    waiting,     \* whether the theme effect's style.load handler is registered
    loaded,      \* whether the map's load event has fired
    styleReady,  \* styleReadyRef
    style,       \* what the live style holds: layers bottom to top, image, pin
    pending,     \* setMapState called and not committed
    mounted,     \* whether the overlays have been handed the map
    enabled,     \* the overlays switched on
    swaps, clicks

mapping == <<live, loading, waiting, loaded, styleReady, style, pending, mounted>>
vars == <<panels, url, grid, mapping, enabled, swaps, clicks>>

Bare == [layers |-> <<>>, image |-> None, pin |-> None]

Init ==
    /\ PanelsInit
    /\ url = None /\ grid = FALSE
    /\ live = FALSE /\ loading = TRUE /\ waiting = FALSE /\ loaded = FALSE
    /\ styleReady = FALSE
    /\ style = Bare
    /\ pending = FALSE /\ mounted = FALSE
    /\ enabled \in SUBSET ToSet(Overlays)
    /\ swaps = 0 /\ clicks = 0

-----------------------------------------------------------------------------
(* Layers.                                                                  *)

Rank(id) == SelectInSeq(DRAW_ORDER, LAMBDA e : e = id)

(* Mutant of AddLayer: added on top.                                        *)
AddLayerOnTop(layers, id) == Append(layers, id)

(* addLayer at beforeLayer: under the nearest successor that is mounted.    *)
AddLayer(layers, id) ==
    LET above == {k \in DOMAIN layers : Rank(layers[k]) > Rank(id)}
    IN  IF above = {} THEN Append(layers, id)
        ELSE LET next == CHOOSE k \in above : \A j \in above : Rank(layers[k]) <= Rank(layers[j])
             IN  InsertAt(layers, next, id)

(* An overlay's install effect, and its cleanup, which tolerates layers     *)
(* already being gone.                                                      *)
InstallOverlay(layers, o) == FoldLeft(AddLayer, layers, LayersOf[o])
RemoveOverlay(layers, o) == FoldLeft(RemoveFirst, layers, LayersOf[o])

(* The install effect runs, and installs only an overlay that is on.        *)
InstallEnabled(layers, o) == IF o \in enabled THEN InstallOverlay(layers, o) ELSE layers

(* Mutant of Rebuilt: an overlay already switched on is left to itself.     *)
RebuiltNot(layers) == layers

(* Both overlays' effects re-run: React runs every cleanup before any       *)
(* install, and installs in the order the overlays are mounted.             *)
Rebuilt(layers) ==
    FoldLeft(InstallEnabled, FoldLeft(RemoveOverlay, layers, Overlays), Overlays)

(* install: what is missing of the radar and the probe. The frame and the   *)
(* point are those of the latest commit.                                    *)
Installed(s, frame, hasGrid) ==
    LET radar == IF hasGrid /\ frame # None /\ RADAR_LAYER \notin ToSet(s.layers)
                 THEN [s EXCEPT !.layers = AddLayer(@, RADAR_LAYER), !.image = frame] ELSE s
    IN  IF PROBE_LAYER \in ToSet(s.layers) THEN radar
        ELSE [radar EXCEPT !.layers = Append(@, PROBE_LAYER), !.pin = probe]

-----------------------------------------------------------------------------
(* The map's own events.                                                    *)

(* A style becomes live with nothing of ours in it; if the theme effect     *)
(* asked for it, everything is put back.                                    *)
StyleLoad ==
    /\ loading
    /\ loading' = FALSE
    /\ live' = TRUE
    /\ waiting' = FALSE
    /\ IF waiting
       THEN /\ styleReady' = TRUE
            /\ style' = Installed(Bare, url, grid)
            /\ pending' = TRUE
       ELSE /\ style' = Bare
            /\ UNCHANGED <<styleReady, pending>>
    /\ UNCHANGED <<panels, url, grid, loaded, mounted, enabled, swaps, clicks>>

(* The load event, once, some time after the first style is live.           *)
MapLoad ==
    /\ live /\ ~loaded
    /\ loaded' = TRUE
    /\ styleReady' = TRUE
    /\ style' = Installed(style, url, grid)
    /\ pending' = TRUE
    /\ UNCHANGED <<panels, url, grid, live, loading, waiting, mounted, enabled, swaps, clicks>>

(* React commits the new map state: the epoch has stepped.                  *)
Commit ==
    /\ pending
    /\ pending' = FALSE
    /\ mounted' = TRUE
    /\ style' = [style EXCEPT !.layers = Rebuilt(@)]
    /\ UNCHANGED <<panels, url, grid, live, loading, waiting, loaded, styleReady, enabled, swaps, clicks>>

-----------------------------------------------------------------------------
(* Props.                                                                   *)

(* The effect that shows the current frame: it swaps the image, or installs *)
(* the layer where there is none.                                           *)
FrameEffect(frame, hasGrid) ==
    IF ~styleReady \/ ~hasGrid \/ frame = None THEN UNCHANGED <<style, pending>>
    ELSE IF RADAR_LAYER \in ToSet(style.layers)
    THEN style' = [style EXCEPT !.image = frame] /\ UNCHANGED pending
    ELSE style' = Installed(style, frame, hasGrid) /\ pending' = TRUE

(* The radar loop moves to a frame of the product.                          *)
ShowFrame ==
    /\ url' \in [product : {product}, frame : Frames]
    /\ FrameEffect(url', grid)
    /\ UNCHANGED <<panels, grid, live, loading, waiting, loaded, styleReady, mounted,
                   enabled, swaps, clicks>>

(* fetchProducts answers.                                                   *)
GridArrives ==
    /\ ~grid
    /\ grid' = TRUE
    /\ FrameEffect(url, TRUE)
    /\ UNCHANGED <<panels, url, live, loading, waiting, loaded, styleReady, mounted,
                   enabled, swaps, clicks>>

(* Another theme: the overlays' cleanups, setStyle, then the overlays'      *)
(* installs, in one commit.                                                 *)
ToggleTheme ==
    /\ swaps < MaxSwaps
    /\ swaps' = swaps + 1
    /\ loading' = TRUE
    /\ waiting' = TRUE
    /\ styleReady' = FALSE
    /\ style' = IF mounted THEN [style EXCEPT !.layers = Rebuilt(@)] ELSE style
    /\ UNCHANGED <<panels, url, grid, live, loaded, pending, mounted, enabled, clicks>>

Click == clicks < MaxClicks /\ clicks' = clicks + 1

ToggleOverlay ==
    /\ Click
    /\ \E o \in ToSet(Overlays) :
          IF o \in enabled
          THEN /\ enabled' = enabled \ {o}
               /\ style' = IF mounted THEN [style EXCEPT !.layers = RemoveOverlay(@, o)] ELSE style
          ELSE /\ enabled' = enabled \cup {o}
               /\ style' = IF mounted THEN [style EXCEPT !.layers = InstallOverlay(@, o)] ELSE style
    /\ UNCHANGED <<panels, url, grid, live, loading, waiting, loaded, styleReady, pending, mounted, swaps>>

(* The probe effect: the pin follows the point where there is a layer for   *)
(* it.                                                                      *)
PinFollows ==
    style' = IF PROBE_LAYER \in ToSet(style.layers) THEN [style EXCEPT !.pin = probe'] ELSE style

unclicked == <<url, grid, live, loading, waiting, loaded, styleReady, pending, mounted, enabled, swaps>>

(* A tap on the map: on a station's circle when the layer is drawn it opens *)
(* the station, and elsewhere it picks the point.                           *)
TapStation ==
    /\ Click
    /\ "havainnot" \in enabled
    /\ ToSet(LayersOf["havainnot"]) \subseteq ToSet(style.layers)
    /\ \E id \in StationIds : selectStation(id)
    /\ PinFollows
    /\ UNCHANGED unclicked

TapMap ==
    /\ Click
    /\ live
    /\ \E at \in Places : pickPoint(at)
    /\ PinFollows
    /\ UNCHANGED unclicked

(* Another product: the loop's list is dropped, so there is no frame until  *)
(* the new list arrives, and the frame effect leaves the old image up.      *)
PickProduct ==
    /\ Click
    /\ \E p \in ProductIds \ {product} : setProduct(p)
    /\ url' = None
    /\ UNCHANGED <<grid, mapping, enabled, swaps>>

(* The panels' own steps; closing the readout takes the pin away.           *)
Panel ==
    /\ PanelsNext
    /\ PinFollows
    /\ UNCHANGED <<unclicked, clicks>>

Next == StyleLoad \/ MapLoad \/ Commit \/ ShowFrame \/ GridArrives \/ ToggleTheme
        \/ ToggleOverlay \/ TapStation \/ TapMap \/ PickProduct \/ Panel

Spec == Init /\ [][Next]_vars

-----------------------------------------------------------------------------
(* The stack is in its declared order, each layer once, however the toggles *)
(* were reached, mid-swap included.                                         *)
DrawOrderKept ==
    \A i, j \in DOMAIN style.layers : i < j => Rank(style.layers[i]) < Rank(style.layers[j])

Settled == loaded /\ ~loading /\ ~pending

(* Whatever the order of swaps, toggles, frames and late answers, once the  *)
(* map has settled it carries every enabled layer and no other, the current *)
(* frame and the pin of the picked point.                                   *)
StackRestored ==
    Settled =>
        /\ ToSet(style.layers) \ {RADAR_LAYER}
             = {PROBE_LAYER} \cup UNION {ToSet(LayersOf[o]) : o \in enabled}
        /\ grid /\ url # None => RADAR_LAYER \in ToSet(style.layers) /\ style.image = url
        /\ style.pin = probe
=============================================================================
