-------------------------------- MODULE Archive --------------------------------
(***************************************************************************)
(* What the archive of one product promises, with Put, Prune, Open and     *)
(* process exits as single steps: frames appear whole and at once, nothing *)
(* but retention takes one away, and a restart lists all of them or none.  *)
(* FrameStore implements it where one goroutine archives.                  *)
(***************************************************************************)
EXTENDS Naturals

CONSTANTS Frames, Metas, GridOf, Absent

VARIABLES
    held,     \* the productMeta each frame held was stored under
    listed,   \* the frames a client is offered
    sidecar,  \* what the frames are known to mean
    source,   \* what FMI sends now
    up,       \* whether the process runs
    horizon   \* frames before it have expired

vars == <<held, listed, sidecar, source, up, horizon>>

Nothing == [t \in Frames |-> Absent]

Init ==
    /\ held = Nothing /\ listed = {} /\ sidecar = Absent
    /\ source \in Metas
    /\ up = TRUE /\ horizon = 0

Store(t) ==
    /\ up
    /\ \E m \in Metas : held' = [held EXCEPT ![t] = m]
    /\ UNCHANGED <<listed, sidecar, source, up, horizon>>

List(t) ==
    /\ up
    /\ held[t] # Absent \/ t < horizon
    /\ listed' = listed \cup {t}
    /\ UNCHANGED <<held, sidecar, source, up, horizon>>

Describe ==
    /\ up
    /\ sidecar' \in Metas \cup {Absent}
    /\ UNCHANGED <<held, listed, source, up, horizon>>

Retain ==
    /\ up
    /\ horizon' \in Nat /\ horizon' > horizon
    /\ UNCHANGED <<held, listed, sidecar, source, up>>

Expire(t) ==
    /\ up
    /\ t < horizon
    /\ held' = [held EXCEPT ![t] = Absent]
    /\ UNCHANGED <<listed, sidecar, source, up, horizon>>

Unlist(t) ==
    /\ up
    /\ t < horizon
    /\ listed' = listed \ {t}
    /\ UNCHANGED <<held, sidecar, source, up, horizon>>

Rescale ==
    /\ up
    /\ source' \in Metas /\ GridOf[source'] = GridOf[source]
    /\ UNCHANGED <<held, listed, sidecar, up, horizon>>

Stop ==
    /\ up
    /\ up' = FALSE
    /\ listed' = {}
    /\ UNCHANGED <<held, sidecar, source, horizon>>

(* A restart on the grid the frames are known to be on lists all it holds;  *)
(* on another one, or on frames of unknown meaning, it lists none, and      *)
(* removes of them and of what they mean as much as it can.                 *)
Restart ==
    /\ ~up
    /\ up' = TRUE
    /\ source' \in Metas
    /\ IF sidecar \in Metas /\ GridOf[sidecar] = GridOf[source']
       THEN listed' = {t \in Frames : held[t] # Absent} /\ UNCHANGED <<held, sidecar>>
       ELSE /\ \E kept \in SUBSET Frames :
                  held' = [t \in Frames |-> IF t \in kept THEN held[t] ELSE Absent]
            /\ listed' = {}
            /\ sidecar' \in {Absent, sidecar}
    /\ UNCHANGED horizon

Next ==
    \/ Describe \/ Retain \/ Rescale \/ Stop \/ Restart
    \/ \E t \in Frames : Store(t) \/ List(t) \/ Expire(t) \/ Unlist(t)

Spec == Init /\ [][Next]_vars
=============================================================================
