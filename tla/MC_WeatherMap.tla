----------------------------- MODULE MC_WeatherMap -----------------------------
(* A small instance of WeatherMap for TLC: the real layers, two points,     *)
(* one station, two products and, for the invariants, two frames of each.   *)
EXTENDS WeatherMap, TLC

MCOverlays == <<"salama", "havainnot">>
MCLayersOf == "salama" :> <<"glow", "strikes">> @@ "havainnot" :> <<"stations", "labels">>
MCDrawOrder == <<"radar", "stations", "labels", "glow", "strikes", "probe">>
=============================================================================
