------------------------------ MODULE DetailPanels ------------------------------
(***************************************************************************)
(* The two detail panels of the app shell (frontend/src/WeatherMap.tsx):   *)
(* the readout of a picked point, re-read whenever the point or the        *)
(* product changes, and a weather station fetched when it is picked.       *)
(*                                                                         *)
(* A request that the effect's cleanup disowned has no effect when it is   *)
(* answered, so only the ones that still count are kept.                   *)
(***************************************************************************)
EXTENDS Integers, FiniteSets

CONSTANTS
    Places,
    StationIds,
    ProductIds,
    None

ASSUME NoneAssumption == None \notin Places /\ None \notin [at : Places, product : ProductIds]

VARIABLES
    product,
    probe,      \* the point being read out, or None
    point,      \* the readout shown: the request it answers, or None
    pointError,
    reads,      \* point requests in flight that still count
    station,    \* the station shown, or None
    asked       \* station requests in flight: nothing disowns them

readout == <<probe, point, pointError, reads>>
stations == <<station, asked>>
panels == <<product, readout, stations>>

PanelsInit ==
    /\ product \in ProductIds
    /\ probe = None /\ point = None /\ pointError = FALSE /\ reads = {}
    /\ station = None /\ asked = {}

(* The effect keyed on the point and the product: one request, and the      *)
(* previous one disowned.                                                   *)
Read(at, prod) == reads' = IF at = None THEN {} ELSE {[at |-> at, product |-> prod]}

(* closePoint.                                                              *)
closePoint ==
    /\ probe' = None
    /\ point' = None
    /\ pointError' = FALSE
    /\ Read(None, product)

(* Mutant of pickPoint: the previous request is not disowned.               *)
pickPointOwned(at) ==
    /\ station' = None
    /\ probe' = at
    /\ point' = None
    /\ pointError' = FALSE
    /\ reads' = reads \cup {[at |-> at, product |-> product]}
    /\ UNCHANGED <<product, asked>>

pickPoint(at) ==
    /\ station' = None
    /\ probe' = at
    /\ point' = None
    /\ pointError' = FALSE
    /\ Read(at, product)
    /\ UNCHANGED <<product, asked>>

(* selectStation, up to its await.                                          *)
selectStation(id) ==
    /\ closePoint
    /\ asked' = asked \cup {id}
    /\ UNCHANGED <<product, station>>

ClosePoint == probe # None /\ closePoint /\ UNCHANGED <<product, stations>>

CloseStation ==
    /\ station # None
    /\ station' = None
    /\ UNCHANGED <<product, readout, asked>>

(* Mutant of setProduct: the old request is disowned and none replaces it.  *)
setProductUnread(p) ==
    /\ product' = p
    /\ reads' = {}
    /\ UNCHANGED <<probe, point, pointError, stations>>

(* Another product: the old readout stays up until the new one arrives.     *)
setProduct(p) ==
    /\ product' = p
    /\ Read(probe, p)
    /\ UNCHANGED <<probe, point, pointError, stations>>

PointArrives ==
    /\ \E r \in reads : point' = r /\ reads' = reads \ {r}
    /\ pointError' = FALSE
    /\ UNCHANGED <<product, probe, stations>>

PointFails ==
    /\ \E r \in reads : reads' = reads \ {r}
    /\ point' = None
    /\ pointError' = TRUE
    /\ UNCHANGED <<product, probe, stations>>

StationArrives ==
    /\ \E id \in asked : station' = id /\ asked' = asked \ {id}
    /\ UNCHANGED <<product, readout>>

(* A failed detail fetch leaves the previous selection alone.               *)
StationFails ==
    /\ \E id \in asked : asked' = asked \ {id}
    /\ UNCHANGED <<product, readout, station>>

PanelsNext ==
    \/ ClosePoint \/ CloseStation \/ PointArrives \/ PointFails
    \/ StationArrives \/ StationFails

-----------------------------------------------------------------------------
pointLoading == probe # None /\ point = None /\ ~pointError

(* The numbers shown are those of the point that is picked: a slow answer   *)
(* for an earlier point never lands on a later one, nor on none.            *)
ReadoutBelongsToProbe ==
    point # None => probe # None /\ point.at = probe

(* The spinner is honest: while the readout says it is loading, the request *)
(* for this point and this product is on its way.                           *)
LoadingIsHonest ==
    pointLoading => [at |-> probe, product |-> product] \in reads

(* "One detail panel at a time" (WeatherMap.tsx:222).                       *)
OnePanelAtATime == ~(probe # None /\ station # None)
=============================================================================
