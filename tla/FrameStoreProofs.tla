-------------------------- MODULE FrameStoreProofs --------------------------
(***************************************************************************)
(* Theorems about the frame archive, for any frames, directories,          *)
(* productMetas, writers, readers and bounds: the file is what the index   *)
(* and the sidecar say, and, where one goroutine archives the product, the *)
(* store implements Archive and a frame whose Put returned over a readable *)
(* sidecar survives the process.                                           *)
(***************************************************************************)
EXTENDS FrameStore, TLAPS

(***************************************************************************)
(* Type correctness.                                                       *)
(***************************************************************************)
USE FramesAssumption, DayAssumption, GridAssumption, BoundAssumption, SentinelAssumption
USE DEF history

LEMMA DecodedAfterType ==
    ASSUME TypeOK, NEW t \in Frames, NEW f \in DecodedFrame, decoded' \in DecodedAfter(t, f)
    PROVE  decoded' \in [Frames -> DecodedFrame \cup {None}]
  <1> DEFINE d == [decoded EXCEPT ![t] = f]
  <1>1. d \in [Frames -> DecodedFrame \cup {None}]
    BY DEF TypeOK
  <1>2. \A e \in Frames : [d EXCEPT ![e] = None] \in [Frames -> DecodedFrame \cup {None}]
    BY <1>1
  <1> QED
    BY <1>1, <1>2 DEF DecodedAfter, Cached

LEMMA FdsType ==
    ASSUME TypeOK, NEW t \in Frames, NEW entry
    PROVE  /\ FdsAfterRename(t) \in [Writers -> PutState]
           /\ FdsAfterUnlink(t, entry) \in [Writers -> PutState]
  BY DEF TypeOK, FdsAfterRename, FdsAfterUnlink, PutState, PutIdle

LEMMA TypePutting ==
    ASSUME TypeOK, NEW w \in Writers, Putting(w)
    PROVE  TypeOK'
  <1>1. ASSUME NEW t \in Frames, Claim(w, t) PROVE TypeOK'
    BY <1>1 DEF TypeOK, Claim, PutState, disk, memory, env
  <1>2. CASE PutDecoded(w)
    <2>1. put[w].t \in Frames /\ put[w].meta \in Metas
      BY <1>2 DEF TypeOK, PutDecoded, PutState, PutIdle
    <2>2. decoded' \in [Frames -> DecodedFrame \cup {None}]
      BY <1>2, <2>1, DecodedAfterType DEF PutDecoded, DecodedFrame
    <2> QED
      BY <1>2, <2>1, <2>2 DEF TypeOK, PutDecoded, PutState, PutIdle, env
  <1>3. CASE PutOpenTmp(w)
    BY <1>3 DEF TypeOK, PutOpenTmp, PutState, PutIdle, Content, memory, env
  <1>4. CASE PutWriteTmp(w)
    BY <1>4 DEF TypeOK, PutWriteTmp, PutState, PutIdle, Content, memory, env
  <1>5. CASE PutRename(w)
    <2>1. put[w].t \in Frames
      BY <1>5 DEF TypeOK, PutRename, PutState, PutIdle
    <2>2. FdsAfterRename(put[w].t) \in [Writers -> PutState]
          /\ FdsAfterUnlink(put[w].t, "tmp") \in [Writers -> PutState]
      BY <2>1, FdsType
    <2>3. FdsAfterRename(put[w].t)[w] # PutIdle
      BY <1>5, <2>1 DEF TypeOK, PutRename, PutState, PutIdle, FdsAfterRename
    <2>4. put' \in [Writers -> PutState]
      BY <1>5, <2>2, <2>3 DEF PutRename, PutState, PutIdle
    <2> QED
      BY <1>5, <2>1, <2>4 DEF TypeOK, PutRename, Content, memory, env
  <1>6. CASE PutIndex(w)
    <2>1. disputed' \in BOOLEAN
      BY <1>6, Zenon DEF TypeOK, PutIndex, DisputedBy
    <2>2. strayMeta' \in BOOLEAN
      BY <1>6 DEF TypeOK, PutIndex
    <2>3. put' \in [Writers -> PutState] /\ index' \subseteq Frames /\ acked' \subseteq Frames
      BY <1>6 DEF TypeOK, PutIndex, AckedAfter, PutState, PutIdle
    <2> QED
      BY <1>6, <2>1, <2>2, <2>3 DEF TypeOK, PutIndex, disk, env
  <1>7. CASE WriteMetaOpen(w)
    <2>1. disputed' \in BOOLEAN /\ strayMeta' \in BOOLEAN
      BY <1>7, Zenon DEF TypeOK, WriteMetaOpen
    <2>2. put' \in [Writers -> PutState] /\ metaFile' \in Content /\ acked' \subseteq Frames
      BY <1>7 DEF TypeOK, WriteMetaOpen, PutState, PutIdle, Content
    <2> QED
      BY <1>7, <2>1, <2>2 DEF TypeOK, WriteMetaOpen, memory, env
  <1>8. CASE WriteMetaBytes(w)
    <2>1. disputed' \in BOOLEAN /\ strayMeta' \in BOOLEAN
      BY <1>8, Zenon DEF TypeOK, WriteMetaBytes
    <2>2. put' \in [Writers -> PutState] /\ metaFile' \in Content
      BY <1>8 DEF TypeOK, WriteMetaBytes, PutState, PutIdle, Content
    <2> QED
      BY <1>8, <2>1, <2>2 DEF TypeOK, WriteMetaBytes, memory, env
  <1>9. CASE PutSetMeta(w)
    <2>1. put[w].t \in Frames /\ put[w].meta \in Metas
      BY <1>9 DEF TypeOK, PutSetMeta, PutState, PutIdle
    <2>2. put' \in [Writers -> PutState]
      BY <1>9 DEF TypeOK, PutSetMeta, PutState
    <2> QED
      BY <1>9, <2>1, <2>2 DEF TypeOK, PutSetMeta, AckedAfter, disk, env
  <1> QED
    BY <1>1, <1>2, <1>3, <1>4, <1>5, <1>6, <1>7, <1>8, <1>9 DEF Putting

LEMMA TypeGetting ==
    ASSUME TypeOK, NEW r \in Readers, Getting(r)
    PROVE  TypeOK'
  <1>1. ASSUME NEW t \in Frames, GetReadMeta(r, t) PROVE TypeOK'
    BY <1>1 DEF TypeOK, GetReadMeta, GetState, disk, memory, env
  <1>2. CASE GetReadFile(r)
    BY <1>2 DEF TypeOK, GetReadFile, GetState, GetIdle, disk, memory, env
  <1>3. CASE GetCache(r)
    <2>1. get[r].t \in Frames /\ get[r].meta \in Metas /\ get[r].body \in Metas
      BY <1>3 DEF TypeOK, GetCache, GetState, GetIdle
    <2>2. decoded' \in [Frames -> DecodedFrame \cup {None}]
      <3>1. <<get[r].body, get[r].meta>> \in DecodedFrame
        BY <2>1 DEF DecodedFrame
      <3>2. decoded' \in DecodedAfter(get[r].t, <<get[r].body, get[r].meta>>)
        BY <1>3 DEF GetCache
      <3> QED
        BY <2>1, <3>1, <3>2, DecodedAfterType
    <2>3. get' \in [Readers -> GetState]
      BY <1>3 DEF TypeOK, GetCache, GetState
    <2>4. UNCHANGED <<disk, index, meta, put, prune, env, history>>
      BY <1>3 DEF GetCache
    <2> QED
      BY <2>2, <2>3, <2>4 DEF TypeOK, disk, env
  <1> QED
    BY <1>1, <1>2, <1>3 DEF Getting

LEMMA TypePruning ==
    ASSUME TypeOK, Pruning
    PROVE  TypeOK'
  <1>1. CASE PruneStart
    <2>1. PICK c \in (cutoff + 1)..MaxCutoff :
             /\ cutoff' = c
             /\ prune' = [PruneIdle EXCEPT !.pc = "remove", !.todo = {t \in index : t < c}]
      BY <1>1 DEF PruneStart
    <2>2. cutoff' \in 0..MaxCutoff
      BY <2>1 DEF TypeOK
    <2>3. prune' \in PruneState
      BY <2>1 DEF TypeOK, PruneState, PruneIdle
    <2> QED
      BY <1>1, <2>2, <2>3 DEF TypeOK, PruneStart, disk, memory
  <1>2. CASE PruneRemove
    <2>1. PICK t \in prune.todo : t \in Frames /\
              \/ /\ file' = [file EXCEPT ![t] = Absent]
                 /\ put' = FdsAfterUnlink(t, "path")
                 /\ prune' = [prune EXCEPT !.pc = "unlist", !.t = t]
              \/ /\ prune' = [prune EXCEPT !.todo = @ \ {t}]
                 /\ UNCHANGED <<file, put>>
      BY <1>2 DEF PruneRemove, TypeOK, PruneState
    <2>2. put' \in [Writers -> PutState]
      BY <2>1, FdsType DEF TypeOK
    <2>3. prune' \in PruneState
      <3>1. prune \in PruneState
        BY DEF TypeOK
      <3>2. prune' = [prune EXCEPT !.pc = "unlist", !.t = t] \/ prune' = [prune EXCEPT !.todo = @ \ {t}]
        BY <2>1
      <3>3. t \in Frames /\ prune.todo \ {t} \in SUBSET Frames
        BY <2>1, <3>1 DEF PruneState
      <3>4. CASE prune' = [prune EXCEPT !.pc = "unlist", !.t = t]
        BY <3>1, <3>3, <3>4 DEF PruneState
      <3>5. CASE prune' = [prune EXCEPT !.todo = @ \ {t}]
        BY <3>1, <3>3, <3>5 DEF PruneState
      <3> QED
        BY <3>2, <3>4, <3>5
    <2>4. file' \in [Frames -> Content]
      BY <2>1 DEF TypeOK, Content
    <2> QED
      BY <1>2, <2>2, <2>3, <2>4 DEF TypeOK, PruneRemove, memory, env
  <1>3. CASE PruneUnlist
    BY <1>3 DEF TypeOK, PruneUnlist, PruneState, disk, env
  <1>4. CASE PruneForget
    BY <1>4 DEF TypeOK, PruneForget, PruneState, disk, env
  <1>5. CASE PruneReadDir
    BY <1>5 DEF TypeOK, PruneReadDir, PruneState, disk, memory, env
  <1>6. CASE PruneSweep
    BY <1>6 DEF TypeOK, PruneSweep, PruneState, PruneIdle, memory, env
  <1> QED
    BY <1>1, <1>2, <1>3, <1>4, <1>5, <1>6 DEF Pruning

(* RemoveAll leaves of every entry what was there or nothing.               *)
LEMMA RemovedKept ==
    ASSUME RemoveAll
    PROVE  \E files, tmps \in SUBSET Frames :
              /\ file' = [t \in Frames |-> IF t \in files THEN file[t] ELSE Absent]
              /\ tmp' = [t \in Frames |-> IF t \in tmps THEN tmp[t] ELSE Absent]
              /\ days' \subseteq days
              /\ metaFile' \in {Absent, metaFile}
  BY DEF RemoveAll

LEMMA TypeWorld ==
    ASSUME TypeOK, Rescale \/ Crash \/ Open
    PROVE  TypeOK'
  <1>1. CASE Rescale
    BY <1>1 DEF TypeOK, Rescale, disk, memory
  <1>2. CASE Crash
    <2>1. put' \in [Writers -> PutState] /\ get' \in [Readers -> GetState]
      BY <1>2 DEF Crash, PutState, GetState
    <2>2. prune' \in PruneState
      BY <1>2 DEF Crash, PruneState, PruneIdle
    <2>3. crashes' \in 0..MaxCrashes
      BY <1>2 DEF TypeOK, Crash
    <2> QED
      BY <1>2, <2>1, <2>2, <2>3 DEF TypeOK, Crash, disk
  <1>3. CASE Open
    <2>1. acked' \subseteq Frames
      <3>1. acked \subseteq Frames
        BY DEF TypeOK
      <3>2. acked' \in {{}, acked}
        BY <1>3 DEF Open, OpenScan, OpenClear
      <3> QED
        BY <3>1, <3>2
    <2>2. CASE ~ArchiveEnabled
      BY <1>3, <2>1, <2>2 DEF TypeOK, Open, disk
    <2>3. CASE ArchiveEnabled /\ OpenScan
      BY <1>3, <2>1, <2>3 DEF TypeOK, Open, OpenScan, OnDisk, disk
    <2>4. CASE ArchiveEnabled /\ OpenClear
      <3>1. file' \in [Frames -> Content] /\ tmp' \in [Frames -> Content]
        BY <2>4, RemovedKept DEF TypeOK, OpenClear, Content
      <3>2. days' \subseteq Days /\ metaFile' \in Content
        BY <2>4, RemovedKept DEF TypeOK, OpenClear, Content
      <3>3. strays' \subseteq Frames /\ strayMeta' \in BOOLEAN
        BY <2>4 DEF OpenClear, OnDisk
      <3>4. /\ index' = {} /\ meta' = None /\ source' \in Metas /\ running' \in BOOLEAN
            /\ UNCHANGED <<decoded, put, get, prune, cutoff, crashes, disputed>>
        BY <1>3, <2>4 DEF Open, OpenClear
      <3> QED
        BY <2>1, <3>1, <3>2, <3>3, <3>4 DEF TypeOK
    <2> QED
      BY <1>3, <2>2, <2>3, <2>4 DEF Open
  <1> QED
    BY <1>1, <1>2, <1>3

LEMMA TypeInit == Init => TypeOK
  <1> SUFFICES ASSUME Init PROVE TypeOK
    OBVIOUS
  <1>1. strayMeta \in BOOLEAN /\ disputed \in BOOLEAN /\ running \in BOOLEAN
    BY Zenon DEF Init
  <1> QED
    BY <1>1 DEF Init, TypeOK, Content, PutState, GetState, PruneState, PruneIdle

LEMMA TypeStep == TypeOK /\ [Next]_vars => TypeOK'
  <1>1. ASSUME TypeOK, Next PROVE TypeOK'
    BY <1>1, TypePutting, TypeGetting, TypePruning, TypeWorld DEF Next
  <1>2. ASSUME TypeOK, UNCHANGED vars PROVE TypeOK'
    BY <1>2 DEF TypeOK, vars, disk, memory, env
  <1> QED
    BY <1>1, <1>2

(* Every variable of the archive keeps its type in every behaviour.         *)
THEOREM TypeCorrect == Spec => []TypeOK
  BY TypeInit, TypeStep, PTL DEF Spec

(***************************************************************************)
(* What Times lists can be read back. IndexedIsArchived is not inductive:  *)
(* a Put about to list its frame must still find the PNG it renamed, the   *)
(* prune loop must only be removing frames its own cutoff has expired, and *)
(* a process that is down must have no Put left to resume.                 *)
(***************************************************************************)
PutsHavePng == \A w \in Writers : put[w].pc = "index" => put[w].t < cutoff \/ file[put[w].t] # Absent

PruneOnlyExpired ==
    /\ \A t \in prune.todo : t < cutoff
    /\ prune.pc = "unlist" => prune.t \in prune.todo

DownIsEmpty == ~running => index = {} /\ \A w \in Writers : put[w] = PutIdle

ListingInv == IndexedIsArchived /\ PutsHavePng /\ PruneOnlyExpired /\ DownIsEmpty

(* Renaming or unlinking an entry moves descriptors and nothing else.       *)
LEMMA FdsKeepCalls ==
    ASSUME TypeOK, NEW t, NEW entry, NEW v \in Writers
    PROVE  /\ FdsAfterRename(t)[v].pc = put[v].pc /\ FdsAfterRename(t)[v].t = put[v].t
           /\ FdsAfterUnlink(t, entry)[v].pc = put[v].pc
           /\ FdsAfterUnlink(t, entry)[v].t = put[v].t
  BY DEF TypeOK, FdsAfterRename, FdsAfterUnlink, PutState, PutIdle

LEMMA BusyHasFrame ==
    ASSUME TypeOK, NEW w \in Writers, put[w].pc # "idle"
    PROVE  put[w].t \in Frames /\ put[w].meta \in Metas
  BY DEF TypeOK, PutState, PutIdle

LEMMA ListingPutting ==
    ASSUME TypeOK, ListingInv, NEW w \in Writers, Putting(w)
    PROVE  ListingInv'
  <1> USE DEF ListingInv, IndexedIsArchived, PutsHavePng, PruneOnlyExpired, DownIsEmpty
  <1>0. /\ put[w].pc # "idle" => running
        /\ put[w].pc # "idle" => put[w].t \in Frames /\ put[w].meta \in Metas
        /\ put \in [Writers -> PutState] /\ file \in [Frames -> Content]
    BY BusyHasFrame DEF TypeOK, PutIdle
  <1>1. ASSUME NEW t \in Frames, Claim(w, t) PROVE ListingInv'
    BY <1>0, <1>1 DEF Claim, disk, memory, env
  <1>2. CASE PutDecoded(w)
    BY <1>0, <1>2 DEF PutDecoded, PutIdle, PutState, env
  <1>3. CASE PutOpenTmp(w)
    BY <1>0, <1>3 DEF PutOpenTmp, PutIdle, PutState, memory, env
  <1>4. CASE PutWriteTmp(w)
    BY <1>0, <1>4 DEF PutWriteTmp, PutIdle, PutState, memory, env
  <1>5. CASE PutRename(w)
    <2>1. UNCHANGED <<index, prune, running, cutoff>> /\ running /\ put[w].t \in Frames
      BY <1>0, <1>5 DEF PutRename, memory, env
    <2>2. \A t \in Frames : file'[t] = Absent => file[t] = Absent
      BY <1>0, <1>5, <2>1 DEF PutRename
    <2>3. \A v \in Writers \ {w} : put'[v].pc = put[v].pc /\ put'[v].t = put[v].t
      BY <1>0, <1>5, <2>1, FdsKeepCalls, FdsType DEF PutRename
    <2>4. put'[w].pc = "index" => put'[w].t = put[w].t /\ file'[put[w].t] # Absent
      BY <1>0, <1>5, <2>1, FdsKeepCalls, FdsType DEF PutRename, PutState, PutIdle
    <2>5. PutsHavePng'
      BY <2>1, <2>2, <2>3, <2>4, BusyHasFrame
    <2> QED
      BY <2>1, <2>2, <2>5 DEF TypeOK
  <1>6. CASE PutIndex(w)
    BY <1>0, <1>6 DEF PutIndex, PutIdle, PutState, disk, env
  <1>7. CASE WriteMetaOpen(w)
    BY <1>0, <1>7 DEF WriteMetaOpen, PutIdle, PutState, memory, env
  <1>8. CASE WriteMetaBytes(w)
    BY <1>0, <1>8 DEF WriteMetaBytes, PutIdle, PutState, memory, env
  <1>9. CASE PutSetMeta(w)
    BY <1>0, <1>9 DEF PutSetMeta, PutIdle, PutState, disk, env
  <1> QED
    BY <1>1, <1>2, <1>3, <1>4, <1>5, <1>6, <1>7, <1>8, <1>9 DEF Putting

LEMMA ListingPruning ==
    ASSUME TypeOK, ListingInv, Pruning
    PROVE  ListingInv'
  <1> USE DEF ListingInv, IndexedIsArchived, PutsHavePng, PruneOnlyExpired, DownIsEmpty
  <1>0. cutoff \in Nat /\ index \subseteq Nat /\ put \in [Writers -> PutState]
        /\ \A w \in Writers : put[w].pc = "index" => put[w].t \in Nat
    <2>1. cutoff \in Nat /\ index \subseteq Nat /\ put \in [Writers -> PutState]
      BY DEF TypeOK
    <2>2. ASSUME NEW w \in Writers, put[w].pc = "index" PROVE put[w].t \in Nat
      BY <2>2, BusyHasFrame
    <2> QED
      BY <2>1, <2>2
  <1>1. CASE PruneStart
    <2>1. PICK c \in (cutoff + 1)..MaxCutoff :
             /\ cutoff' = c
             /\ prune' = [PruneIdle EXCEPT !.pc = "remove", !.todo = {t \in index : t < c}]
      BY <1>1 DEF PruneStart
    <2>2. UNCHANGED <<file, index, put, running>> /\ cutoff < cutoff'
      BY <1>0, <1>1, <2>1 DEF PruneStart, disk, memory
    <2>3. PruneOnlyExpired'
      BY <2>1 DEF PruneIdle
    <2> QED
      BY <1>0, <2>1, <2>2, <2>3
  <1>2. CASE PruneRemove
    <2>1. PICK t \in prune.todo :
              \/ /\ file' = [file EXCEPT ![t] = Absent]
                 /\ put' = FdsAfterUnlink(t, "path")
                 /\ prune' = [prune EXCEPT !.pc = "unlist", !.t = t]
              \/ /\ prune' = [prune EXCEPT !.todo = @ \ {t}]
                 /\ UNCHANGED <<file, put>>
      BY <1>2 DEF PruneRemove
    <2>2. t < cutoff /\ t \in Frames /\ prune.pc = "remove" /\ file \in [Frames -> Content]
          /\ prune \in PruneState
      BY <1>2 DEF PruneRemove, TypeOK, PruneState
    <2>3. UNCHANGED <<index, cutoff, running>>
      BY <1>2 DEF PruneRemove, memory, env
    <2>4. CASE /\ file' = [file EXCEPT ![t] = Absent]
               /\ put' = FdsAfterUnlink(t, "path")
               /\ prune' = [prune EXCEPT !.pc = "unlist", !.t = t]
      <3>1. \A u : file'[u] = Absent /\ u \in Frames => u = t \/ file[u] = Absent
        BY <2>2, <2>4
      <3>2. \A w \in Writers : put'[w].pc = put[w].pc /\ put'[w].t = put[w].t
        BY <2>4, FdsKeepCalls
      <3>3. IndexedIsArchived' /\ PutsHavePng'
        BY <2>2, <2>3, <3>1, <3>2, BusyHasFrame DEF TypeOK
      <3>4. PruneOnlyExpired'
        BY <2>2, <2>3, <2>4 DEF PruneState
      <3>5. DownIsEmpty'
        BY <2>3, <2>4 DEF FdsAfterUnlink, PutIdle
      <3> QED
        BY <3>3, <3>4, <3>5
    <2>5. CASE prune' = [prune EXCEPT !.todo = @ \ {t}] /\ UNCHANGED <<file, put>>
      BY <2>2, <2>3, <2>5 DEF PruneState
    <2> QED
      BY <2>1, <2>4, <2>5
  <1>3. CASE PruneUnlist
    BY <1>3 DEF PruneUnlist, disk, env, TypeOK, PruneState
  <1>4. CASE PruneForget
    BY <1>4 DEF PruneForget, disk, env, TypeOK, PruneState
  <1>5. CASE PruneReadDir
    BY <1>5 DEF PruneReadDir, disk, memory, env, TypeOK, PruneState
  <1>6. CASE PruneSweep
    <2>1. UNCHANGED <<file, index, put, running, cutoff>>
      BY <1>6 DEF PruneSweep, memory, env
    <2>2. prune \in PruneState
      BY DEF TypeOK
    <2>3. \/ prune' = PruneIdle
          \/ prune'.pc = prune.pc /\ prune'.todo = prune.todo /\ prune.pc = "sweep"
      BY <1>6, <2>2 DEF PruneSweep, PruneState
    <2>4. PruneOnlyExpired'
      BY <2>1, <2>3 DEF PruneIdle
    <2> QED
      BY <2>1, <2>4
  <1> QED
    BY <1>1, <1>2, <1>3, <1>4, <1>5, <1>6 DEF Pruning

LEMMA ListingOther ==
    ASSUME TypeOK, ListingInv, \/ \E r \in Readers : Getting(r)
                               \/ Rescale \/ Crash \/ Open
    PROVE  ListingInv'
  <1> USE DEF ListingInv, IndexedIsArchived, PutsHavePng, PruneOnlyExpired, DownIsEmpty
  <1>1. ASSUME NEW r \in Readers, Getting(r) PROVE ListingInv'
    BY <1>1 DEF Getting, GetReadMeta, GetReadFile, GetCache, disk, memory, env
  <1>2. CASE Rescale
    BY <1>2 DEF Rescale, disk, memory
  <1>3. CASE Crash
    BY <1>3 DEF Crash, PutIdle, PruneIdle, disk
  <1>4. CASE Open
    BY <1>4 DEF Open, OpenScan, OpenClear, OnDisk, PutIdle, disk
  <1> QED
    BY <1>1, <1>2, <1>3, <1>4

LEMMA ListingInit == Init => ListingInv
  BY DEF Init, ListingInv, IndexedIsArchived, PutsHavePng, PruneOnlyExpired, DownIsEmpty,
         PutIdle, PruneIdle

LEMMA ListingStep == TypeOK /\ ListingInv /\ [Next]_vars => ListingInv'
  <1>1. ASSUME TypeOK, ListingInv, Next PROVE ListingInv'
    BY <1>1, ListingPutting, ListingPruning, ListingOther DEF Next
  <1>2. ASSUME ListingInv, UNCHANGED vars PROVE ListingInv'
    BY <1>2 DEF ListingInv, IndexedIsArchived, PutsHavePng, PruneOnlyExpired, DownIsEmpty,
                vars, disk, memory, env
  <1> QED
    BY <1>1, <1>2

(* A listed frame that retention has not expired has a PNG under its name,  *)
(* for any number of concurrent Puts, prune passes, restarts and failed     *)
(* disk operations.                                                         *)
THEOREM IndexedArchived == Spec => []IndexedIsArchived
  <1>1. ListingInv => IndexedIsArchived
    BY DEF ListingInv
  <1> QED
    BY <1>1, TypeInit, TypeStep, ListingInit, ListingStep, PTL DEF Spec

(***************************************************************************)
(* With one Put at a time, <path> never names an unfinished file: the only *)
(* descriptor open for writing is behind <path>.tmp, and what a rename     *)
(* publishes has been written. (Two writers break the first half: see the  *)
(* run FrameStore_torn.)                                                   *)
(***************************************************************************)
SoleWriter == \A v, w \in Writers : v = w

WholeInv ==
    /\ NoTornFrame
    /\ \A w \in Writers : /\ put[w].pc = "write" => put[w].fd = "tmp"
                          /\ put[w].pc = "rename" => tmp[put[w].t] # Torn

LEMMA WholePutting ==
    ASSUME SoleWriter, TypeOK, WholeInv, NEW w \in Writers, Putting(w)
    PROVE  WholeInv'
  <1> USE DEF SoleWriter, WholeInv, NoTornFrame
  <1>0. /\ put[w].pc # "idle" => put[w].t \in Frames /\ put[w].meta \in Metas
        /\ put \in [Writers -> PutState]
        /\ file \in [Frames -> Content] /\ tmp \in [Frames -> Content]
    BY BusyHasFrame DEF TypeOK
  <1>1. ASSUME NEW t \in Frames, Claim(w, t) PROVE WholeInv'
    BY <1>0, <1>1 DEF Claim, disk
  <1>2. CASE PutDecoded(w)
    BY <1>0, <1>2 DEF PutDecoded, PutIdle, PutState
  <1>3. CASE PutOpenTmp(w)
    BY <1>0, <1>3 DEF PutOpenTmp, PutIdle, PutState
  <1>4. CASE PutWriteTmp(w)
    BY <1>0, <1>4 DEF PutWriteTmp, PutIdle, PutState
  <1>5. CASE PutRename(w)
    <2>1. put[w].t \in Frames /\ tmp[put[w].t] # Torn
      BY <1>0, <1>5 DEF PutRename
    <2>2. NoTornFrame'
      BY <1>0, <1>5, <2>1 DEF PutRename
    <2>3. put'[w].pc \in {"index", "idle"}
      BY <1>0, <1>5, <2>1, FdsType DEF PutRename, PutIdle, PutState
    <2> QED
      BY <2>2, <2>3
  <1>6. CASE PutIndex(w)
    BY <1>0, <1>6 DEF PutIndex, PutIdle, PutState, disk
  <1>7. CASE WriteMetaOpen(w)
    BY <1>0, <1>7 DEF WriteMetaOpen, PutIdle, PutState
  <1>8. CASE WriteMetaBytes(w)
    BY <1>0, <1>8 DEF WriteMetaBytes, PutIdle, PutState
  <1>9. CASE PutSetMeta(w)
    BY <1>0, <1>9 DEF PutSetMeta, PutIdle, PutState, disk
  <1> QED
    BY <1>1, <1>2, <1>3, <1>4, <1>5, <1>6, <1>7, <1>8, <1>9 DEF Putting

LEMMA WholeOther ==
    ASSUME TypeOK, WholeInv,
           \/ \E r \in Readers : Getting(r)
           \/ Pruning \/ Rescale \/ Crash \/ Open
    PROVE  WholeInv'
  <1> USE DEF WholeInv, NoTornFrame
  <1>1. ASSUME NEW r \in Readers, Getting(r) PROVE WholeInv'
    BY <1>1 DEF Getting, GetReadMeta, GetReadFile, GetCache, disk
  <1>2. CASE PruneRemove
    <2>1. PICK t \in prune.todo :
              \/ file' = [file EXCEPT ![t] = Absent] /\ put' = FdsAfterUnlink(t, "path")
              \/ UNCHANGED <<file, put>>
      BY <1>2 DEF PruneRemove
    <2>2. UNCHANGED tmp /\ t \in Frames /\ file \in [Frames -> Content]
      BY <1>2, <2>1 DEF PruneRemove, TypeOK, PruneState
    <2>3. CASE file' = [file EXCEPT ![t] = Absent] /\ put' = FdsAfterUnlink(t, "path")
      <3>1. NoTornFrame'
        BY <2>2, <2>3
      <3>2. ASSUME NEW v \in Writers
            PROVE  /\ put'[v].pc = put[v].pc /\ put'[v].t = put[v].t
                   /\ put[v].fd = "tmp" => put'[v].fd = "tmp"
        BY <2>3, FdsKeepCalls DEF FdsAfterUnlink
      <3> QED
        BY <2>2, <3>1, <3>2
    <2> QED
      BY <2>1, <2>2, <2>3
  <1>3. CASE PruneStart \/ PruneUnlist \/ PruneForget \/ PruneReadDir \/ PruneSweep
    BY <1>3 DEF PruneStart, PruneUnlist, PruneForget, PruneReadDir, PruneSweep, disk
  <1>4. CASE Rescale
    BY <1>4 DEF Rescale, disk
  <1>5. CASE Crash
    BY <1>5 DEF Crash, PutIdle, disk
  <1>6. CASE Open
    <2>1. UNCHANGED put
      BY <1>6 DEF Open
    <2>2. \A t \in Frames : file'[t] \in {file[t], Absent} /\ tmp'[t] \in {tmp[t], Absent}
      BY <1>6, RemovedKept DEF Open, OpenScan, OpenClear, disk
    <2>3. \A w \in Writers : put[w].pc = "rename" => put[w].t \in Frames
      BY BusyHasFrame
    <2> QED
      BY <2>1, <2>2, <2>3
  <1> QED
    BY <1>1, <1>2, <1>3, <1>4, <1>5, <1>6 DEF Pruning

LEMMA WholeInit == Init => WholeInv
  BY DEF Init, WholeInv, NoTornFrame, PutIdle

LEMMA WholeStep == SoleWriter /\ TypeOK /\ WholeInv /\ [Next]_vars => WholeInv'
  <1>1. ASSUME SoleWriter, TypeOK, WholeInv, Next PROVE WholeInv'
    BY <1>1, WholePutting, WholeOther DEF Next
  <1>2. ASSUME WholeInv, UNCHANGED vars PROVE WholeInv'
    BY <1>2 DEF WholeInv, NoTornFrame, vars, disk
  <1> QED
    BY <1>1, <1>2

(* When a single goroutine archives the product, no archived PNG is ever    *)
(* truncated, whatever disk operation fails and wherever the process exits. *)
THEOREM SoleWriterNeverTorn ==
    ASSUME SoleWriter
    PROVE  Spec => []NoTornFrame
  <1>1. WholeInv => NoTornFrame
    BY DEF WholeInv
  <1>2. TypeOK /\ WholeInv /\ [Next]_vars => WholeInv'
    BY WholeStep
  <1> QED
    BY <1>1, <1>2, TypeInit, TypeStep, WholeInit, PTL DEF Spec

(***************************************************************************)
(* One grid at a time. What is on disk and in memory was produced on the   *)
(* grid the process is configured for; while it is down, what is on disk   *)
(* shares one grid, the one meta.json names when it is readable. That is   *)
(* why comparing meta.json alone lets Open keep or clear an archive. What  *)
(* a failed clear left behind is outside of all that, and what a <path>.tmp *)
(* holds is whatever it may be until a writer has truncated it.            *)
(***************************************************************************)
FilesOn(m) ==
    /\ \A t \in Frames \ strays : file[t] \in Metas => sameGrid(file[t], m)
    /\ \A w \in Writers :
          put[w].pc \in {"write", "rename"} /\ tmp[put[w].t] \in Metas => sameGrid(tmp[put[w].t], m)
    /\ metaFile \in Metas => sameGrid(metaFile, m) \/ strayMeta

DecodedOn(m) ==
    \A t \in Frames : decoded[t] # None =>
        (sameGrid(decoded[t][1], m) \/ t \in strays) /\ sameGrid(decoded[t][2], m)

CallsOn(m) ==
    /\ meta # None => sameGrid(meta, m)
    /\ \A w \in Writers : put[w].pc # "idle" => sameGrid(put[w].meta, m)
    /\ \A r \in Readers :
          /\ get[r].pc # "idle" => sameGrid(get[r].meta, m)
          /\ get[r].pc = "cache" => sameGrid(get[r].body, m) \/ get[r].t \in strays

DownIsBlank ==
    /\ decoded = [t \in Frames |-> None]
    /\ put = [w \in Writers |-> PutIdle]
    /\ get = [r \in Readers |-> GetIdle]

GridInv ==
    /\ running => FilesOn(source) /\ DecodedOn(source) /\ CallsOn(source)
    /\ ~running => DownIsBlank /\ \E m \in Metas : FilesOn(m)

LEMMA DecodedAfterEach ==
    ASSUME TypeOK, NEW t \in Frames, NEW f \in DecodedFrame, decoded' \in DecodedAfter(t, f)
    PROVE  \A e \in Frames :
              decoded'[e] = None \/ decoded'[e] = decoded[e] \/ (e = t /\ decoded'[e] = f)
  BY DEF TypeOK, DecodedAfter, Cached

LEMMA DecodedOnAfter ==
    ASSUME TypeOK, NEW t \in Frames, NEW a \in Metas, NEW b \in Metas,
           decoded' \in DecodedAfter(t, <<a, b>>), UNCHANGED <<source, strays>>,
           DecodedOn(source), sameGrid(a, source) \/ t \in strays, sameGrid(b, source)
    PROVE  DecodedOn(source)'
  <1>1. <<a, b>> \in DecodedFrame
    BY DEF DecodedFrame
  <1>2. \A e \in Frames :
            decoded'[e] = None \/ decoded'[e] = decoded[e] \/ (e = t /\ decoded'[e] = <<a, b>>)
    BY <1>1, DecodedAfterEach
  <1> QED
    BY <1>2 DEF DecodedOn, sameGrid

LEMMA GridPutting ==
    ASSUME TypeOK, GridInv, ArchiveEnabled, NEW w \in Writers, Putting(w)
    PROVE  GridInv'
  <1>0. /\ running /\ source \in Metas
        /\ put[w].pc # "idle" => /\ put[w].t \in Frames /\ put[w].meta \in Metas
                                 /\ sameGrid(put[w].meta, source)
        /\ put \in [Writers -> PutState]
        /\ file \in [Frames -> Content] /\ tmp \in [Frames -> Content]
        /\ FilesOn(source) /\ DecodedOn(source) /\ CallsOn(source)
    BY BusyHasFrame DEF TypeOK, GridInv, DownIsBlank, CallsOn, PutIdle,
       Putting, Claim, PutDecoded, PutOpenTmp, PutWriteTmp, PutRename, PutIndex,
       WriteMetaOpen, WriteMetaBytes, PutSetMeta
  <1>1. ASSUME NEW t \in Frames, Claim(w, t) PROVE GridInv'
    BY <1>0, <1>1 DEF Claim, GridInv, FilesOn, DecodedOn, CallsOn, sameGrid, PutIdle, disk, memory, env
  <1>2. CASE PutDecoded(w)
    <2>1. DecodedOn(source)'
      BY <1>0, <1>2, DecodedOnAfter DEF PutDecoded, env
    <2>2. CallsOn(source)'
      BY <1>0, <1>2 DEF PutDecoded, CallsOn, sameGrid, PutIdle, PutState, env
    <2> QED
      BY <1>0, <1>2, <2>1, <2>2 DEF PutDecoded, GridInv, FilesOn, sameGrid, PutIdle, PutState, env
  <1>3. CASE PutOpenTmp(w)
    BY <1>0, <1>3 DEF PutOpenTmp, GridInv, FilesOn, DecodedOn, CallsOn, sameGrid, PutIdle, PutState,
       memory, env, SentinelAssumption
  <1>4. CASE PutWriteTmp(w)
    <2>1. FilesOn(source)'
      <3>1. \A v \in Writers : put'[v].pc \in {"write", "rename"} =>
                put[v].pc \in {"write", "rename"} /\ put'[v].t = put[v].t
        BY <1>0, <1>4 DEF PutWriteTmp, PutIdle, PutState
      <3>2. \A t \in Frames : file'[t] \in {file[t], put[w].meta} /\ tmp'[t] \in {tmp[t], put[w].meta}
        BY <1>0, <1>4 DEF PutWriteTmp
      <3>3. UNCHANGED <<metaFile, source, strays, strayMeta>> /\ put[w].pc = "write"
        BY <1>4 DEF PutWriteTmp, env
      <3> QED
        <4>0. /\ \A u \in Frames \ strays : file[u] \in Metas => GridOf[file[u]] = GridOf[source]
              /\ \A v \in Writers :
                    put[v].pc \in {"write", "rename"} /\ tmp[put[v].t] \in Metas =>
                        GridOf[tmp[put[v].t]] = GridOf[source]
          BY <1>0, Zenon DEF FilesOn, sameGrid
        <4>1. \A t \in Frames \ strays : file'[t] \in Metas => GridOf[file'[t]] = GridOf[source]
          BY <1>0, <3>2, <3>3 DEF FilesOn, sameGrid
        <4>2. \A v \in Writers :
                  put'[v].pc \in {"write", "rename"} /\ tmp'[put'[v].t] \in Metas =>
                      GridOf[tmp'[put'[v].t]] = GridOf[source]
          <5> SUFFICES ASSUME NEW v \in Writers, put'[v].pc \in {"write", "rename"},
                              tmp'[put'[v].t] \in Metas
                       PROVE  GridOf[tmp'[put'[v].t]] = GridOf[source]
            OBVIOUS
          <5>1. put[v].pc \in {"write", "rename"} /\ put'[v].t = put[v].t /\ put[v].t \in Frames
            BY <3>1, BusyHasFrame
          <5>2. tmp'[put[v].t] \in {tmp[put[v].t], put[w].meta}
            BY <3>2, <5>1
          <5>3. GridOf[put[w].meta] = GridOf[source]
            BY <1>0, <3>3 DEF sameGrid
          <5> QED
            BY <4>0, <5>1, <5>2, <5>3
        <4>3. metaFile' \in Metas => GridOf[metaFile'] = GridOf[source'] \/ strayMeta'
          BY <1>0, <3>3 DEF FilesOn, sameGrid
        <4> QED
          BY <3>3, <4>1, <4>2, <4>3 DEF FilesOn, sameGrid
    <2>2. CallsOn(source)'
      BY <1>0, <1>4 DEF PutWriteTmp, CallsOn, sameGrid, PutIdle, PutState, memory, env
    <2> QED
      BY <1>0, <1>4, <2>1, <2>2 DEF PutWriteTmp, GridInv, DecodedOn, sameGrid, memory, env
  <1>5. CASE PutRename(w)
    <2>2. ASSUME NEW v \in Writers, put'[v].pc # "idle"
          PROVE  /\ put[v].pc # "idle" /\ put'[v].meta = put[v].meta
                 /\ put'[v].pc \in {"write", "rename"} =>
                       put'[v].pc = put[v].pc /\ put'[v].t = put[v].t
      <3> DEFINE t == put[w].t
      <3>1. /\ FdsAfterRename(t)[v].pc = put[v].pc /\ FdsAfterRename(t)[v].meta = put[v].meta
            /\ FdsAfterRename(t)[v].t = put[v].t
            /\ FdsAfterUnlink(t, "tmp")[v].pc = put[v].pc
            /\ FdsAfterUnlink(t, "tmp")[v].meta = put[v].meta
            /\ FdsAfterUnlink(t, "tmp")[v].t = put[v].t
        BY <1>0 DEF FdsAfterRename, FdsAfterUnlink, PutIdle, PutState
      <3>2. put[w].pc = "rename"
        BY <1>5 DEF PutRename
      <3>3. CASE put' = [FdsAfterRename(t) EXCEPT ![w].pc = "index"]
        BY <2>2, <3>1, <3>2, <3>3, FdsType, <1>0 DEF PutState, PutIdle
      <3>4. CASE put' = [FdsAfterUnlink(t, "tmp") EXCEPT ![w] = PutIdle]
        BY <2>2, <3>1, <3>2, <3>4, FdsType, <1>0 DEF PutIdle
      <3> QED
        BY <1>5, <3>3, <3>4 DEF PutRename
    <2>1. FilesOn(source)'
      <3>1. put[w].pc = "rename" /\ UNCHANGED <<metaFile, source, strays, strayMeta>>
        BY <1>5 DEF PutRename, env
      <3>2. \A u \in Frames : /\ tmp'[u] \in {tmp[u], Absent}
                              /\ file'[u] # file[u] => u = put[w].t /\ file'[u] = tmp[u]
        BY <1>0, <1>5 DEF PutRename
      <3>3. \A v \in Writers : put'[v].pc \in {"write", "rename"} =>
                put'[v].pc = put[v].pc /\ put'[v].t = put[v].t /\ put[v].t \in Frames
        BY <2>2, BusyHasFrame
      <3> QED
        <4>0. /\ \A u \in Frames \ strays : file[u] \in Metas => GridOf[file[u]] = GridOf[source]
              /\ \A v \in Writers :
                    put[v].pc \in {"write", "rename"} /\ tmp[put[v].t] \in Metas =>
                        GridOf[tmp[put[v].t]] = GridOf[source]
          BY <1>0, Zenon DEF FilesOn, sameGrid
        <4>1. \A u \in Frames \ strays : file'[u] \in Metas => GridOf[file'[u]] = GridOf[source]
          <5> SUFFICES ASSUME NEW u \in Frames \ strays, file'[u] \in Metas
                       PROVE  GridOf[file'[u]] = GridOf[source]
            OBVIOUS
          <5>1. CASE file'[u] = file[u]
            BY <4>0, <5>1
          <5>2. CASE u = put[w].t /\ file'[u] = tmp[put[w].t]
            BY <3>1, <4>0, <5>2
          <5> QED
            BY <3>2, <5>1, <5>2
        <4>2. \A v \in Writers :
                  put'[v].pc \in {"write", "rename"} /\ tmp'[put'[v].t] \in Metas =>
                      GridOf[tmp'[put'[v].t]] = GridOf[source]
          <5> SUFFICES ASSUME NEW v \in Writers, put'[v].pc \in {"write", "rename"},
                              tmp'[put'[v].t] \in Metas
                       PROVE  GridOf[tmp'[put'[v].t]] = GridOf[source]
            OBVIOUS
          <5>1. tmp'[put'[v].t] = tmp[put[v].t]
            BY <3>2, <3>3
          <5> QED
            BY <3>3, <4>0, <5>1
        <4>3. metaFile' \in Metas => GridOf[metaFile'] = GridOf[source'] \/ strayMeta'
          BY <1>0, <3>1 DEF FilesOn, sameGrid
        <4> QED
          BY <3>1, <4>1, <4>2, <4>3 DEF FilesOn, sameGrid
    <2>3. CallsOn(source)'
      BY <1>0, <1>5, <2>2 DEF PutRename, CallsOn, sameGrid, memory, env
    <2> QED
      BY <1>0, <1>5, <2>1, <2>3 DEF PutRename, GridInv, DecodedOn, sameGrid, memory, env
  <1>6. CASE PutIndex(w)
    BY <1>0, <1>6 DEF PutIndex, GridInv, FilesOn, DecodedOn, CallsOn, sameGrid, PutIdle, PutState, disk, env
  <1>7. CASE WriteMetaOpen(w)
    <2>1. FilesOn(source)'
      BY <1>0, <1>7 DEF WriteMetaOpen, FilesOn, sameGrid, PutState, PutIdle, env
    <2>2. ASSUME NEW v \in Writers, put'[v].pc # "idle"
          PROVE  put[v].pc # "idle" /\ put'[v].meta = put[v].meta
      BY <1>0, <1>7, <2>2 DEF WriteMetaOpen, PutState, PutIdle
    <2>3. CallsOn(source)'
      BY <1>0, <1>7, <2>2 DEF WriteMetaOpen, CallsOn, sameGrid, memory, env
    <2> QED
      BY <1>0, <1>7, <2>1, <2>3 DEF WriteMetaOpen, GridInv, DecodedOn, sameGrid, memory, env
  <1>8. CASE WriteMetaBytes(w)
    BY <1>0, <1>8 DEF WriteMetaBytes, GridInv, FilesOn, DecodedOn, CallsOn, sameGrid, PutState, memory, env
  <1>9. CASE PutSetMeta(w)
    BY <1>0, <1>9 DEF PutSetMeta, GridInv, FilesOn, DecodedOn, CallsOn, sameGrid, PutIdle, PutState, disk, env
  <1> QED
    BY <1>1, <1>2, <1>3, <1>4, <1>5, <1>6, <1>7, <1>8, <1>9 DEF Putting

LEMMA GridGetting ==
    ASSUME TypeOK, GridInv, NEW r \in Readers, Getting(r)
    PROVE  GridInv'
  <1>0. /\ running /\ source \in Metas
        /\ get[r].pc # "idle" => get[r].t \in Frames /\ get[r].meta \in Metas
        /\ get[r].pc = "cache" => get[r].body \in Metas
        /\ get \in [Readers -> GetState]
        /\ FilesOn(source) /\ DecodedOn(source) /\ CallsOn(source)
    BY DEF TypeOK, GridInv, DownIsBlank, GetState, GetIdle,
       Getting, GetReadMeta, GetReadFile, GetCache
  <1>1. ASSUME NEW t \in Frames, GetReadMeta(r, t) PROVE GridInv'
    BY <1>0, <1>1 DEF GetReadMeta, GridInv, FilesOn, DecodedOn, CallsOn, sameGrid, GetState,
       disk, memory, env
  <1>2. CASE GetReadFile(r)
    BY <1>0, <1>2 DEF GetReadFile, GridInv, FilesOn, DecodedOn, CallsOn, sameGrid, GetState, GetIdle,
       disk, memory, env
  <1>3. CASE GetCache(r)
    <2>1. DecodedOn(source)'
      BY <1>0, <1>3, DecodedOnAfter DEF GetCache, CallsOn, env
    <2>2. CallsOn(source)'
      BY <1>0, <1>3 DEF GetCache, CallsOn, sameGrid, GetIdle, GetState, env
    <2> QED
      BY <1>0, <1>3, <2>1, <2>2 DEF GetCache, GridInv, FilesOn, sameGrid, disk, env
  <1> QED
    BY <1>1, <1>2, <1>3 DEF Getting

LEMMA GridPruning ==
    ASSUME TypeOK, GridInv, Pruning
    PROVE  GridInv'
  <1>1. CASE PruneRemove
    <2>1. PICK t \in prune.todo :
              \/ file' = [file EXCEPT ![t] = Absent] /\ put' = FdsAfterUnlink(t, "path")
              \/ UNCHANGED <<file, put>>
      BY <1>1 DEF PruneRemove
    <2>2. \A v \in Writers :
              put'[v].pc = put[v].pc /\ put'[v].meta = put[v].meta /\ put'[v].t = put[v].t
      BY <2>1 DEF FdsAfterUnlink, TypeOK, PutState, PutIdle
    <2>3. \A u \in Frames : file'[u] \in Metas => file'[u] = file[u]
      BY <2>1 DEF TypeOK
    <2>4. UNCHANGED <<tmp, metaFile, meta, decoded, get, source, running, strays, strayMeta>>
      BY <1>1 DEF PruneRemove, memory, env
    <2>5. ~running => UNCHANGED put
      BY <2>1 DEF FdsAfterUnlink, GridInv, DownIsBlank, PutIdle
    <2> QED
      BY <2>2, <2>3, <2>4, <2>5 DEF GridInv, FilesOn, DecodedOn, CallsOn, DownIsBlank, sameGrid
  <1>2. CASE PruneForget
    <2>1. \A u \in Frames : decoded'[u] # None => decoded'[u] = decoded[u]
      BY <1>2 DEF PruneForget, TypeOK
    <2>2. ~running => UNCHANGED decoded
      BY <1>2 DEF PruneForget, GridInv, DownIsBlank
    <2>3. UNCHANGED <<file, tmp, metaFile, meta, put, get, source, running, strays, strayMeta>>
      BY <1>2 DEF PruneForget, disk, env
    <2> QED
      BY <2>1, <2>2, <2>3 DEF GridInv, FilesOn, DecodedOn, CallsOn, DownIsBlank, sameGrid
  <1>3. CASE PruneStart \/ PruneUnlist \/ PruneReadDir \/ PruneSweep
    <2>1. /\ UNCHANGED <<file, tmp, metaFile, strays, strayMeta>>
          /\ UNCHANGED <<meta, decoded, put, get, source, running>>
      BY <1>3 DEF PruneStart, PruneUnlist, PruneReadDir, PruneSweep, disk, memory, env
    <2> QED
      BY <2>1 DEF GridInv, FilesOn, DecodedOn, CallsOn, DownIsBlank, sameGrid
  <1> QED
    BY <1>1, <1>2, <1>3 DEF Pruning

LEMMA GridWorld ==
    ASSUME TypeOK, GridInv, ArchiveEnabled, Rescale \/ Crash \/ Open
    PROVE  GridInv'
  <1>1. CASE Rescale
    BY <1>1 DEF Rescale, GridInv, FilesOn, DecodedOn, CallsOn, sameGrid, disk, memory
  <1>2. CASE Crash
    BY <1>2 DEF Crash, TypeOK, GridInv, FilesOn, DownIsBlank, PutIdle, sameGrid, disk
  <1>3. CASE Open
    <2>1. /\ source' \in Metas /\ running' /\ ~running
          /\ UNCHANGED <<decoded, put, get>> /\ DownIsBlank
          /\ OpenScan \/ OpenClear
      BY <1>3 DEF Open, GridInv
    <2>2. DecodedOn(source)'
      BY <2>1 DEF DecodedOn, DownIsBlank
    <2>3. CallsOn(source)' <=> (meta' # None => sameGrid(meta', source'))
      BY <2>1 DEF CallsOn, DownIsBlank, PutIdle, GetIdle, sameGrid
    <2>4. CASE OpenScan
      <3>1. FilesOn(source)'
        BY <2>1, <2>4 DEF OpenScan, GridInv, FilesOn, OnDisk, DownIsBlank, PutIdle, sameGrid, disk
      <3> QED
        BY <2>1, <2>2, <2>3, <2>4, <3>1 DEF OpenScan, GridInv, sameGrid, disk
    <2>5. CASE OpenClear
      <3>1. FilesOn(source)'
        BY <2>1, <2>5 DEF OpenClear, FilesOn, OnDisk, DownIsBlank, PutIdle
      <3> QED
        BY <2>1, <2>2, <2>3, <2>5, <3>1 DEF OpenClear, GridInv
    <2> QED
      BY <2>1, <2>4, <2>5
  <1> QED
    BY <1>1, <1>2, <1>3

LEMMA GridInit == Init => GridInv
  BY DEF Init, GridInv, FilesOn, DecodedOn, CallsOn, PutIdle, GetIdle

LEMMA GridStep == ArchiveEnabled /\ TypeOK /\ GridInv /\ [Next]_vars => GridInv'
  <1>1. ASSUME ArchiveEnabled, TypeOK, GridInv, Next PROVE GridInv'
    BY <1>1, GridPutting, GridGetting, GridPruning, GridWorld DEF Next
  <1>2. ASSUME GridInv, UNCHANGED vars PROVE GridInv'
    BY <1>2 DEF GridInv, FilesOn, DecodedOn, CallsOn, DownIsBlank, sameGrid, vars, disk, memory, env
  <1> QED
    BY <1>1, <1>2

(* No raster is ever interpreted on a grid it was not fetched on, across    *)
(* any number of restarts with other configured grids, any crash point and  *)
(* any failed write, rename or removal, but for the frames whose files      *)
(* outlived a clear that failed.                                            *)
THEOREM GridNeverMixed ==
    ASSUME ArchiveEnabled
    PROVE  Spec => []GridFaithful
  <1>1. TypeOK /\ GridInv => GridFaithful
    BY DEF TypeOK, GridInv, DecodedOn, DownIsBlank, GridFaithful, sameGrid
  <1>2. TypeOK /\ GridInv /\ [Next]_vars => GridInv'
    BY GridStep
  <1> QED
    BY <1>1, <1>2, TypeInit, TypeStep, GridInit, PTL DEF Spec

(***************************************************************************)
(* The sidecar, since it was last rewritten by a Put that found no other   *)
(* at it. While no write of it fails and all who rewrite it agree on what  *)
(* to write, a sidecar that is not what memory believes is being rewritten *)
(* or has been by a Put that is about to say so.                           *)
(***************************************************************************)
Rewriting == \E v \in Writers : put[v].pc = "metaWrite"

SettledInv ==
    /\ \A v, w \in Rewriters : put[v].meta = put[w].meta
    /\ \A w \in Writers : put[w].pc = "metaWrite" => metaFile \in {Torn, put[w].meta}
    /\ \A w \in Writers : put[w].pc = "metaSet" => metaFile = put[w].meta \/ Rewriting
    /\ meta # None /\ Rewriters = {} => metaFile = meta

SidecarInv ==
    /\ ~running => \A w \in Writers : put[w].pc = "idle"
    /\ ~disputed => SettledInv

LEMMA SidecarInit == Init => SidecarInv
  BY DEF Init, SidecarInv, SettledInv, Rewriters, PutIdle

(* A step that touches neither the sidecar nor a Put that is at it.         *)
LEMMA SidecarQuiet ==
    ASSUME SidecarInv, UNCHANGED <<metaFile, meta, running, disputed>>,
           \A v \in Writers :
              /\ v \in Rewriters' <=> v \in Rewriters
              /\ v \in Rewriters => put'[v].pc = put[v].pc /\ put'[v].meta = put[v].meta
              /\ put[v].pc = "idle" /\ ~running => put'[v].pc = "idle"
    PROVE  SidecarInv'
  <1>1. Rewriters' = Rewriters
    BY DEF Rewriters
  <1>2. \A v \in Writers : put'[v].pc \in {"metaWrite", "metaSet"} => v \in Rewriters
    BY <1>1 DEF Rewriters
  <1>3. Rewriting' <=> Rewriting
    BY <1>1, <1>2 DEF Rewriting, Rewriters
  <1> QED
    BY <1>1, <1>2, <1>3 DEF SidecarInv, SettledInv, Rewriters

LEMMA SidecarPutting ==
    ASSUME TypeOK, SidecarInv, NEW w \in Writers, Putting(w)
    PROVE  SidecarInv'
  <1>0. /\ running /\ put \in [Writers -> PutState] /\ put' \in [Writers -> PutState]
        /\ put[w].pc # "idle" => put[w].meta \in Metas
    BY TypePutting, BusyHasFrame DEF TypeOK, SidecarInv,
       Putting, Claim, PutDecoded, PutOpenTmp, PutWriteTmp, PutRename, PutIndex,
       WriteMetaOpen, WriteMetaBytes, PutSetMeta
  <1>1. ASSUME NEW t \in Frames, Claim(w, t) PROVE SidecarInv'
    <2>1. \A v \in Writers : put'[v] = put[v] \/ (v = w /\ put[v].pc = "idle" /\ put'[v].pc = "put")
      BY <1>0, <1>1 DEF Claim
    <2> QED
      BY <1>0, <1>1, <2>1, SidecarQuiet DEF Rewriters, Claim, disk, memory, env
  <1>2. CASE PutDecoded(w)
    <2>1. \A v \in Writers : put'[v] = put[v]
                             \/ (v = w /\ put[v].pc = "put" /\ put'[v].pc \in {"open", "idle"})
      BY <1>0, <1>2 DEF PutDecoded, PutIdle, PutState
    <2> QED
      BY <1>0, <1>2, <2>1, SidecarQuiet DEF Rewriters, PutDecoded, env
  <1>3. CASE PutOpenTmp(w)
    <2>1. \A v \in Writers : put'[v] = put[v]
                             \/ (v = w /\ put[v].pc = "open" /\ put'[v].pc \in {"write", "idle"})
      BY <1>0, <1>3 DEF PutOpenTmp, PutIdle, PutState
    <2> QED
      BY <1>0, <1>3, <2>1, SidecarQuiet DEF Rewriters, PutOpenTmp, memory, env
  <1>4. CASE PutWriteTmp(w)
    <2>1. \A v \in Writers : put'[v] = put[v]
                             \/ (v = w /\ put[v].pc = "write" /\ put'[v].pc \in {"rename", "idle"})
      BY <1>0, <1>4 DEF PutWriteTmp, PutIdle, PutState
    <2> QED
      BY <1>0, <1>4, <2>1, SidecarQuiet DEF Rewriters, PutWriteTmp, memory, env
  <1>5. CASE PutRename(w)
    <2> DEFINE t == put[w].t
    <2>1. \A v \in Writers :
             /\ FdsAfterRename(t)[v].pc = put[v].pc /\ FdsAfterRename(t)[v].meta = put[v].meta
             /\ FdsAfterUnlink(t, "tmp")[v].pc = put[v].pc
             /\ FdsAfterUnlink(t, "tmp")[v].meta = put[v].meta
      BY <1>0 DEF FdsAfterRename, FdsAfterUnlink, PutIdle, PutState
    <2>2. put[w].pc = "rename" /\ t \in Frames
      BY <1>5, BusyHasFrame DEF PutRename
    <2>3. \/ put' = [FdsAfterRename(t) EXCEPT ![w].pc = "index"]
          \/ put' = [FdsAfterUnlink(t, "tmp") EXCEPT ![w] = PutIdle]
      BY <1>5 DEF PutRename
    <2>4. \A v \in Writers :
             \/ put'[v].pc = put[v].pc /\ put'[v].meta = put[v].meta
             \/ v = w /\ put'[v].pc \in {"index", "idle"}
      <3>1. CASE put' = [FdsAfterRename(t) EXCEPT ![w].pc = "index"]
        BY <2>1, <2>2, <3>1, FdsType DEF PutState, PutIdle
      <3>2. CASE put' = [FdsAfterUnlink(t, "tmp") EXCEPT ![w] = PutIdle]
        BY <2>1, <2>2, <3>2, FdsType DEF PutIdle
      <3> QED
        BY <2>3, <3>1, <3>2
    <2> QED
      BY <1>0, <1>5, <2>2, <2>4, SidecarQuiet DEF Rewriters, PutRename, memory, env
  <1>6. CASE PutIndex(w)
    <2>1. UNCHANGED <<metaFile, meta, running>> /\ put[w].pc = "index" /\ running
      BY <1>0, <1>6 DEF PutIndex, disk, env
    <2>2. CASE put' = [put EXCEPT ![w] = PutIdle] /\ UNCHANGED disputed
      <3>1. \A v \in Writers : put'[v] = put[v] \/ (v = w /\ put'[v].pc = "idle")
        BY <1>0, <2>2 DEF PutIdle
      <3> QED
        BY <2>1, <2>2, <3>1, SidecarQuiet DEF Rewriters
    <2>3. CASE put' = [put EXCEPT ![w].pc = "metaOpen"] /\ disputed' = DisputedBy(w)
      <3>1. /\ put'[w].pc = "metaOpen" /\ put'[w].meta = put[w].meta
            /\ \A v \in Writers : v # w => put'[v] = put[v]
        BY <1>0, <2>1, <2>3 DEF PutState, PutIdle
      <3>2. w \in Rewriters' /\ Rewriters' \ {w} = Rewriters \ {w} /\ w \notin Rewriters
        BY <2>1, <3>1 DEF Rewriters
      <3>3. SUFFICES ASSUME ~disputed' PROVE SettledInv'
        BY <2>1 DEF SidecarInv
      <3>4. \A v \in Rewriters : ~disputed /\ put[v].meta = put[w].meta
        BY <2>3, <3>2, <3>3 DEF DisputedBy
      <3>5. \A v \in Rewriters' : put'[v].meta = put[w].meta
        BY <3>1, <3>2, <3>4 DEF Rewriters
      <3>6. Rewriting' <=> Rewriting
        BY <2>1, <3>1 DEF Rewriting
      <3>7. \A v \in Writers : put'[v].pc \in {"metaWrite", "metaSet"} =>
                v \in Rewriters /\ put'[v] = put[v]
        BY <3>1 DEF Rewriters
      <3> QED
        BY <2>1, <3>2, <3>4, <3>5, <3>6, <3>7 DEF SidecarInv, SettledInv
    <2> QED
      BY <1>6, <2>2, <2>3 DEF PutIndex
  <1>7. CASE WriteMetaOpen(w)
    <2>1. running' /\ put[w].pc = "metaOpen"
      BY <1>0, <1>7 DEF WriteMetaOpen, env
    <2>2. CASE disputed'
      BY <2>1, <2>2 DEF SidecarInv
    <2>3. CASE ~disputed'
      <3>1. ~disputed /\ metaFile' = Torn /\ put' = [put EXCEPT ![w].pc = "metaWrite"]
        BY <1>7, <2>3 DEF WriteMetaOpen
      <3>2. /\ put'[w].pc = "metaWrite" /\ put'[w].meta = put[w].meta
            /\ \A v \in Writers : v # w => put'[v] = put[v]
        BY <1>0, <2>1, <3>1 DEF PutState, PutIdle
      <3>3. Rewriters' = Rewriters /\ w \in Rewriters /\ Rewriting'
        BY <2>1, <3>2 DEF Rewriters, Rewriting
      <3>4. \A v \in Rewriters : put'[v].meta = put[v].meta
        BY <3>2 DEF Rewriters
      <3> QED
        BY <2>1, <3>1, <3>3, <3>4 DEF SidecarInv, SettledInv
    <2> QED
      BY <2>2, <2>3
  <1>8. CASE WriteMetaBytes(w)
    <2>1. running' /\ put[w].pc = "metaWrite" /\ put' = [put EXCEPT ![w].pc = "metaSet"]
      BY <1>0, <1>8 DEF WriteMetaBytes, env
    <2>2. CASE disputed'
      BY <2>1, <2>2 DEF SidecarInv
    <2>3. CASE ~disputed'
      <3>1. ~disputed /\ metaFile' = put[w].meta
        BY <1>8, <2>3 DEF WriteMetaBytes
      <3>2. /\ put'[w].pc = "metaSet" /\ put'[w].meta = put[w].meta
            /\ \A v \in Writers : v # w => put'[v] = put[v]
        BY <1>0, <2>1 DEF PutState, PutIdle
      <3>3. Rewriters' = Rewriters /\ w \in Rewriters
        BY <2>1, <3>2 DEF Rewriters
      <3>4. \A v \in Rewriters : put'[v].meta = put[w].meta
        BY <3>1, <3>2, <3>3 DEF SidecarInv, SettledInv, Rewriters
      <3>5. \A v \in Writers : put'[v].pc \in {"metaWrite", "metaSet"} => v \in Rewriters
        BY <3>3 DEF Rewriters
      <3> QED
        BY <2>1, <3>1, <3>3, <3>4, <3>5 DEF SidecarInv, SettledInv
    <2> QED
      BY <2>2, <2>3
  <1>9. CASE PutSetMeta(w)
    <2>1. /\ put[w].pc = "metaSet" /\ meta' = put[w].meta /\ UNCHANGED <<metaFile, disputed>>
          /\ running' /\ put' = [put EXCEPT ![w] = PutIdle]
      BY <1>0, <1>9 DEF PutSetMeta, disk, env
    <2>2. /\ put'[w].pc = "idle"
          /\ \A v \in Writers : v # w => put'[v] = put[v]
      BY <1>0, <2>1 DEF PutIdle
    <2>3. Rewriting' <=> Rewriting
      BY <2>1, <2>2 DEF Rewriting
    <2>4. Rewriters' = Rewriters \ {w}
      BY <2>2 DEF Rewriters
    <2>5. Rewriters' = {} => ~Rewriting
      BY <2>3, <2>4 DEF Rewriting, Rewriters
    <2>6. SUFFICES ASSUME ~disputed' PROVE SettledInv'
      BY <2>1 DEF SidecarInv
    <2>7. SettledInv
      BY <2>1, <2>6 DEF SidecarInv
    <2> QED
      BY <2>1, <2>2, <2>3, <2>4, <2>5, <2>7 DEF SettledInv
  <1> QED
    BY <1>1, <1>2, <1>3, <1>4, <1>5, <1>6, <1>7, <1>8, <1>9 DEF Putting

LEMMA SidecarStep ==
    ASSUME ArchiveEnabled, TypeOK, SidecarInv, [Next]_vars
    PROVE  SidecarInv'
  <1>1. ASSUME NEW r \in Readers, Getting(r) PROVE SidecarInv'
    BY <1>1, SidecarQuiet DEF Getting, GetReadMeta, GetReadFile, GetCache, Rewriters,
                              disk, memory, env
  <1>2. CASE Pruning
    <2>1. \A v \in Writers : put'[v].pc = put[v].pc /\ put'[v].meta = put[v].meta
      <3>1. CASE PruneRemove
        <4>1. PICK t \in prune.todo :
                  \/ put' = FdsAfterUnlink(t, "path")
                  \/ UNCHANGED put
          BY <3>1 DEF PruneRemove
        <4> QED
          BY <4>1 DEF FdsAfterUnlink, TypeOK, PutState, PutIdle
      <3>2. CASE PruneStart \/ PruneUnlist \/ PruneForget \/ PruneReadDir \/ PruneSweep
        BY <3>2 DEF PruneStart, PruneUnlist, PruneForget, PruneReadDir, PruneSweep
      <3> QED
        BY <1>2, <3>1, <3>2 DEF Pruning
    <2>2. UNCHANGED <<metaFile, meta, running, disputed>>
      BY <1>2 DEF Pruning, PruneStart, PruneRemove, PruneUnlist, PruneForget, PruneReadDir,
         PruneSweep, disk, memory, env
    <2> QED
      BY <2>1, <2>2, SidecarQuiet DEF Rewriters
  <1>3. CASE Rescale
    BY <1>3, SidecarQuiet DEF Rescale, Rewriters, disk, memory
  <1>4. CASE Crash
    BY <1>4 DEF Crash, SidecarInv, SettledInv, Rewriters, PutIdle
  <1>5. CASE Open
    <2>1. running' /\ UNCHANGED put /\ \A w \in Writers : put[w].pc = "idle"
      BY <1>5 DEF Open, SidecarInv
    <2>2. meta' = metaFile' \/ meta' = None
      BY <1>5 DEF Open, OpenScan, OpenClear, disk
    <2> QED
      BY <2>1, <2>2 DEF SidecarInv, SettledInv, Rewriters
  <1>6. CASE UNCHANGED vars
    BY <1>6, SidecarQuiet DEF Rewriters, vars, disk, memory, env
  <1> QED
    BY <1>1, <1>2, <1>3, <1>4, <1>5, <1>6, SidecarPutting DEF Next

(* Between Puts meta.json holds the meta that memory trusts, however many   *)
(* pollers rewrite it and wherever the process ends, unless the last        *)
(* rewriting failed or ran beside one with another scaling.                 *)
THEOREM SidecarTrusted ==
    ASSUME ArchiveEnabled
    PROVE  Spec => []MetaRecorded
  <1>1. SidecarInv => MetaRecorded
    BY DEF SidecarInv, SettledInv, Rewriters, MetaRecorded, Quiet
  <1>2. TypeOK /\ SidecarInv /\ [Next]_vars => SidecarInv'
    BY SidecarStep
  <1> QED
    BY <1>1, <1>2, TypeInit, TypeStep, SidecarInit, PTL DEF Spec

(***************************************************************************)
(* FrameStore implements Archive. A process that is down prunes nothing,   *)
(* which neither ListingInv nor WholeInv says; with those two, every step  *)
(* of a call maps to a step of the archive or to none.                     *)
(***************************************************************************)
DownDoesNotPrune == ~running => prune = PruneIdle

LEMMA DownInit == Init => DownDoesNotPrune
  BY DEF Init, DownDoesNotPrune

LEMMA DownStep == TypeOK /\ DownDoesNotPrune /\ [Next]_vars => DownDoesNotPrune'
  <1> USE DEF DownDoesNotPrune
  <1>1. ASSUME NEW w \in Writers, DownDoesNotPrune, Putting(w) PROVE DownDoesNotPrune'
    BY <1>1 DEF Putting, Claim, PutDecoded, PutOpenTmp, PutWriteTmp, PutRename, PutIndex,
       WriteMetaOpen, WriteMetaBytes, PutSetMeta, env
  <1>2. ASSUME NEW r \in Readers, DownDoesNotPrune, Getting(r) PROVE DownDoesNotPrune'
    BY <1>2 DEF Getting, GetReadMeta, GetReadFile, GetCache, env
  <1>3. ASSUME DownDoesNotPrune, Pruning PROVE DownDoesNotPrune'
    <2>1. running
      <3>1. CASE PruneStart
        BY <3>1 DEF PruneStart
      <3>2. CASE ~PruneStart
        <4>1. prune.pc \in {"remove", "unlist", "forget", "sweep"}
          BY <1>3, <3>2 DEF Pruning, PruneRemove, PruneUnlist, PruneForget, PruneReadDir, PruneSweep
        <4> QED
          BY <1>3, <4>1 DEF PruneIdle
      <3> QED
        BY <3>1, <3>2
    <2>2. running' = running
      BY <1>3 DEF Pruning, PruneStart, PruneRemove, PruneUnlist, PruneForget, PruneReadDir,
         PruneSweep, env
    <2> QED
      BY <2>1, <2>2
  <1>4. ASSUME DownDoesNotPrune, Rescale \/ Crash \/ Open PROVE DownDoesNotPrune'
    BY <1>4 DEF Rescale, Crash, Open
  <1>5. ASSUME DownDoesNotPrune, UNCHANGED vars PROVE DownDoesNotPrune'
    BY <1>5 DEF vars, env
  <1> QED
    BY <1>1, <1>2, <1>3, <1>4, <1>5 DEF Next

PromisedInv == TypeOK /\ ListingInv /\ WholeInv /\ DownDoesNotPrune

Maps == [Promise!Next]_(Promise!vars)

LEMMA MapsPutting ==
    ASSUME SoleWriter, ArchiveEnabled, PromisedInv, NEW w \in Writers, Putting(w)
    PROVE  Maps
  <1> USE DEF PromisedInv
  <1>0. /\ running
        /\ put[w].pc # "idle" => put[w].t \in Frames /\ put[w].meta \in Metas
        /\ put \in [Writers -> PutState]
        /\ file \in [Frames -> Content] /\ tmp \in [Frames -> Content]
    BY BusyHasFrame DEF TypeOK, ListingInv, DownIsEmpty, PutIdle, Putting, Claim, PutDecoded,
       PutOpenTmp, PutWriteTmp, PutRename, PutIndex, WriteMetaOpen, WriteMetaBytes, PutSetMeta
  <1>1. CASE \/ \E t \in Frames : Claim(w, t)
             \/ PutDecoded(w) \/ PutOpenTmp(w) \/ PutSetMeta(w)
    BY <1>1 DEF Claim, PutDecoded, PutOpenTmp, PutSetMeta, Maps, Promise!vars, disk, memory, env
  <1>2. CASE PutWriteTmp(w)
    <2>1. put[w].fd = "tmp"
      BY <1>2 DEF PutWriteTmp, WholeInv
    <2> QED
      BY <1>2, <2>1 DEF PutWriteTmp, Maps, Promise!vars, memory, env
  <1>3. CASE PutRename(w)
    <2>1. UNCHANGED <<metaFile, index, source, running, cutoff>> /\ put[w].t \in Frames
      BY <1>0, <1>3 DEF PutRename, memory, env
    <2>2. CASE UNCHANGED file
      BY <2>1, <2>2 DEF Maps, Promise!vars
    <2>3. CASE /\ tmp[put[w].t] # Absent
               /\ file' = [file EXCEPT ![put[w].t] = tmp[put[w].t]]
      <3>1. tmp[put[w].t] \in Metas
        BY <1>0, <1>3, <2>1, <2>3 DEF PutRename, WholeInv, Content
      <3>2. Promise!Store(put[w].t)
        BY <1>0, <2>1, <2>3, <3>1 DEF Promise!Store
      <3> QED
        BY <2>1, <3>2 DEF Maps, Promise!Next
    <2> QED
      BY <1>3, <2>2, <2>3 DEF PutRename
  <1>4. CASE PutIndex(w)
    <2>1. put[w].t \in Frames /\ (file[put[w].t] # Absent \/ put[w].t < cutoff)
      BY <1>0, <1>4 DEF PutIndex, ListingInv, PutsHavePng
    <2>2. Promise!List(put[w].t)
      BY <1>0, <1>4, <2>1 DEF PutIndex, Promise!List, disk, env
    <2> QED
      BY <2>1, <2>2 DEF Maps, Promise!Next
  <1>5. CASE WriteMetaOpen(w) \/ WriteMetaBytes(w)
    <2>1. UNCHANGED <<file, index, source, running, cutoff>>
      BY <1>5 DEF WriteMetaOpen, WriteMetaBytes, memory, env
    <2>2. Promise!Describe
      BY <1>0, <2>1 DEF Promise!Describe
    <2> QED
      BY <2>2 DEF Maps, Promise!Next
  <1> QED
    BY <1>1, <1>2, <1>3, <1>4, <1>5 DEF Putting

LEMMA MapsPruning ==
    ASSUME PromisedInv, Pruning
    PROVE  Maps
  <1> USE DEF PromisedInv
  <1>0. prune.pc # "idle" => running /\ prune \in PruneState /\ prune.todo \subseteq Frames
    BY DEF DownDoesNotPrune, PruneIdle, TypeOK, PruneState
  <1>1. CASE PruneStart
    <2>1. PICK c \in (cutoff + 1)..MaxCutoff : cutoff' = c
      BY <1>1 DEF PruneStart
    <2>2. cutoff \in Nat /\ cutoff' \in Nat /\ cutoff' > cutoff
      BY <2>1 DEF TypeOK
    <2>3. Promise!Retain
      BY <1>1, <2>2 DEF PruneStart, Promise!Retain, disk, memory
    <2> QED
      BY <2>3 DEF Maps, Promise!Next
  <1>2. CASE PruneRemove
    <2>1. PICK t \in prune.todo : file' = [file EXCEPT ![t] = Absent] \/ UNCHANGED file
      BY <1>2 DEF PruneRemove
    <2>2. UNCHANGED <<metaFile, index, source, running, cutoff>> /\ running
          /\ t \in Frames /\ t < cutoff
      BY <1>0, <1>2, <2>1 DEF PruneRemove, memory, env, ListingInv, PruneOnlyExpired
    <2>3. CASE UNCHANGED file
      BY <2>2, <2>3 DEF Maps, Promise!vars
    <2>4. CASE file' = [file EXCEPT ![t] = Absent]
      BY <2>2, <2>4 DEF Maps, Promise!Next, Promise!Expire
    <2> QED
      BY <2>1, <2>3, <2>4
  <1>3. CASE PruneUnlist
    <2>1. prune.t \in Frames /\ prune.t < cutoff
      BY <1>0, <1>3 DEF PruneUnlist, ListingInv, PruneOnlyExpired
    <2>2. Promise!Unlist(prune.t)
      BY <1>0, <1>3, <2>1 DEF PruneUnlist, Promise!Unlist, disk, env
    <2> QED
      BY <2>1, <2>2 DEF Maps, Promise!Next
  <1>4. CASE PruneForget \/ PruneReadDir \/ PruneSweep
    BY <1>4 DEF PruneForget, PruneReadDir, PruneSweep, Maps, Promise!vars, disk, memory, env
  <1> QED
    BY <1>1, <1>2, <1>3, <1>4 DEF Pruning

LEMMA MapsOther ==
    ASSUME ArchiveEnabled, PromisedInv,
           \/ \E r \in Readers : Getting(r)
           \/ Rescale \/ Crash \/ Open
    PROVE  Maps
  <1> USE DEF PromisedInv
  <1>1. ASSUME NEW r \in Readers, Getting(r) PROVE Maps
    BY <1>1 DEF Getting, GetReadMeta, GetReadFile, GetCache, Maps, Promise!vars, disk, memory, env
  <1>2. CASE Rescale
    BY <1>2 DEF Rescale, disk, memory, Maps, Promise!Next, Promise!Rescale
  <1>3. CASE Crash
    BY <1>3 DEF Crash, disk, Maps, Promise!Next, Promise!Stop
  <1>4. CASE Open
    <2>1. ~running /\ running' = TRUE /\ source' \in Metas /\ cutoff' = cutoff
          /\ (OpenScan \/ OpenClear)
      BY <1>4 DEF Open
    <2>2. CASE OpenScan
      <3>1. metaFile \in Metas /\ GridOf[metaFile] = GridOf[source']
        BY <2>2 DEF OpenScan, sameGrid
      <3>2. Promise!Restart
        BY <2>1, <2>2, <3>1 DEF OpenScan, OnDisk, disk, Promise!Restart
      <3> QED
        BY <3>2 DEF Maps, Promise!Next
    <2>3. CASE OpenClear
      <3>1. Absent \notin Metas
        BY SentinelAssumption
      <3>2. metaFile \in Metas => GridOf[metaFile] # GridOf[source']
        BY <2>3 DEF OpenClear, sameGrid
      <3>3. index' = {} /\ metaFile' \in {Absent, metaFile}
            /\ \E kept \in SUBSET Frames :
                  file' = [t \in Frames |-> IF t \in kept THEN file[t] ELSE Absent]
        BY <2>3, RemovedKept DEF OpenClear
      <3>4. Promise!Restart
        BY <2>1, <3>1, <3>2, <3>3 DEF Promise!Restart
      <3> QED
        BY <3>4 DEF Maps, Promise!Next
    <2> QED
      BY <2>1, <2>2, <2>3
  <1> QED
    BY <1>1, <1>2, <1>3, <1>4

LEMMA MapsInit == Init => Promise!Init
  <1>1. Absent \notin Metas
    BY SentinelAssumption
  <1> QED
    BY <1>1 DEF Init, Promise!Init, Promise!Nothing

LEMMA MapsStep ==
    SoleWriter /\ ArchiveEnabled /\ PromisedInv /\ [Next]_vars => Maps
  <1>1. ASSUME SoleWriter, ArchiveEnabled, PromisedInv, Next PROVE Maps
    BY <1>1, MapsPutting, MapsPruning, MapsOther DEF Next
  <1>2. ASSUME UNCHANGED vars PROVE Maps
    BY <1>2 DEF vars, disk, memory, env, Maps, Promise!vars
  <1> QED
    BY <1>1, <1>2

(* Put, Prune, Open and the process exits, cut at their system calls, are a *)
(* refinement of an archive that stores, expires and restarts in single     *)
(* steps, where one goroutine archives the product.                         *)
THEOREM ArchiveImplemented ==
    ASSUME SoleWriter, ArchiveEnabled
    PROVE  Spec => ImplementsArchive
  <1>1. Init => PromisedInv
    BY TypeInit, ListingInit, WholeInit, DownInit DEF PromisedInv
  <1>2. PromisedInv /\ [Next]_vars => PromisedInv'
    BY TypeStep, ListingStep, WholeStep, DownStep DEF PromisedInv
  <1>3. PromisedInv /\ [Next]_vars => [Promise!Next]_(Promise!vars)
    BY MapsStep DEF Maps
  <1> QED
    BY <1>1, <1>2, <1>3, MapsInit, PTL DEF Spec, ImplementsArchive, Promise!Spec

(***************************************************************************)
(* Durability. A restart finds the frames acknowledged because the sidecar *)
(* stays readable for as long as any is: rewriting it is the one moment    *)
(* when none is, and only the goroutine that rewrites it can end it.       *)
(***************************************************************************)
AckInv ==
    /\ AckedIsListed
    /\ ~running => \A t \in acked : t < cutoff \/ file[t] # Absent
    /\ acked # {} => metaFile \in Metas
    /\ \A w \in Writers :
          /\ put[w].pc \in {"metaOpen", "metaWrite", "metaSet"}
                => put[w].t < cutoff \/ put[w].t \in index
          /\ put[w].pc = "metaWrite" => metaFile = Torn /\ acked = {}

LEMMA AckPutting ==
    ASSUME SoleWriter, PromisedInv, AckInv, NEW w \in Writers, Putting(w)
    PROVE  AckInv'
  <1> USE DEF PromisedInv, SoleWriter
  <1>0. /\ running
        /\ put[w].pc # "idle" => put[w].t \in Frames /\ put[w].meta \in Metas
        /\ put \in [Writers -> PutState]
        /\ \A v \in Writers : v = w
    BY BusyHasFrame DEF TypeOK, ListingInv, DownIsEmpty, PutIdle, Putting, Claim, PutDecoded,
       PutOpenTmp, PutWriteTmp, PutRename, PutIndex, WriteMetaOpen, WriteMetaBytes, PutSetMeta
  <1>1. ASSUME NEW t \in Frames, Claim(w, t) PROVE AckInv'
    BY <1>0, <1>1 DEF Claim, AckInv, AckedIsListed, disk, memory, env
  <1>2. CASE PutDecoded(w)
    BY <1>0, <1>2 DEF PutDecoded, PutIdle, PutState, AckInv, AckedIsListed, env
  <1>3. CASE PutOpenTmp(w)
    BY <1>0, <1>3 DEF PutOpenTmp, PutIdle, PutState, AckInv, AckedIsListed, memory, env
  <1>4. CASE PutWriteTmp(w)
    BY <1>0, <1>4 DEF PutWriteTmp, PutIdle, PutState, AckInv, AckedIsListed, memory, env
  <1>5. CASE PutRename(w)
    <2>1. UNCHANGED <<metaFile, index, acked, running, cutoff>>
      BY <1>5 DEF PutRename, memory, env
    <2>2. put'[w].pc \in {"index", "idle"}
      BY <1>0, <1>5, FdsType DEF PutRename, PutIdle, PutState
    <2> QED
      BY <1>0, <2>1, <2>2 DEF AckInv, AckedIsListed
  <1>6. CASE PutIndex(w)
    <2>1. UNCHANGED <<metaFile, running, cutoff, file>> /\ index' = index \cup {put[w].t}
      BY <1>6 DEF PutIndex, disk, env
    <2>2. \/ acked' = AckedAfter(w) /\ put' = [put EXCEPT ![w] = PutIdle]
          \/ acked' = acked /\ put' = [put EXCEPT ![w].pc = "metaOpen"]
      BY <1>6 DEF PutIndex
    <2>3. AckedIsListed' /\ (acked' # {} => metaFile' \in Metas)
      BY <1>0, <1>6, <2>1, <2>2 DEF PutIndex, AckInv, AckedIsListed, AckedAfter
    <2>4. put'[w].pc \in {"idle", "metaOpen"} /\ (put'[w].pc = "metaOpen" => put'[w].t = put[w].t)
      BY <1>0, <2>2 DEF PutIdle, PutState
    <2> QED
      BY <1>0, <2>1, <2>3, <2>4 DEF AckInv
  <1>7. CASE WriteMetaOpen(w)
    BY <1>0, <1>7 DEF WriteMetaOpen, PutState, PutIdle, AckInv, AckedIsListed, memory, env
  <1>8. CASE WriteMetaBytes(w)
    BY <1>0, <1>8 DEF WriteMetaBytes, PutState, PutIdle, AckInv, AckedIsListed, memory, env
  <1>9. CASE PutSetMeta(w)
    BY <1>0, <1>9 DEF PutSetMeta, PutState, PutIdle, AckInv, AckedIsListed, AckedAfter, disk, env
  <1> QED
    BY <1>1, <1>2, <1>3, <1>4, <1>5, <1>6, <1>7, <1>8, <1>9 DEF Putting

LEMMA AckOther ==
    ASSUME ArchiveEnabled, PromisedInv, AckInv,
           \/ \E r \in Readers : Getting(r)
           \/ Pruning \/ Rescale \/ Crash \/ Open
    PROVE  AckInv'
  <1> USE DEF PromisedInv
  <1>0. prune.pc # "idle" => running
    BY DEF DownDoesNotPrune, PruneIdle
  <1>1. ASSUME NEW r \in Readers, Getting(r) PROVE AckInv'
    BY <1>1 DEF Getting, GetReadMeta, GetReadFile, GetCache, AckInv, AckedIsListed, disk, memory, env
  <1>2. CASE PruneStart
    <2>1. cutoff \in Nat /\ cutoff' \in Nat /\ cutoff < cutoff' /\ Frames \subseteq Nat
          /\ acked \subseteq Frames
      BY <1>2, FramesAssumption DEF PruneStart, TypeOK
    <2>2. running /\ UNCHANGED <<file, metaFile, index, acked, put, running>>
      BY <1>2 DEF PruneStart, disk, memory
    <2>3. \A w \in Writers : put[w].pc # "idle" => put[w].t \in Nat
      BY <2>1, BusyHasFrame
    <2>4. \A t \in acked : t < cutoff => t < cutoff'
      BY <2>1
    <2>5. \A w \in Writers : put[w].pc # "idle" /\ put[w].t < cutoff => put[w].t < cutoff'
      BY <2>1, <2>3
    <2> QED
      BY <2>2, <2>4, <2>5 DEF AckInv, AckedIsListed
  <1>3. CASE PruneRemove
    <2>1. UNCHANGED <<metaFile, index, acked, running, cutoff>> /\ running
      BY <1>0, <1>3 DEF PruneRemove, memory, env
    <2>2. PICK t : put' = FdsAfterUnlink(t, "path") \/ UNCHANGED put
      BY <1>3 DEF PruneRemove
    <2>3. \A w \in Writers : put'[w].pc = put[w].pc /\ put'[w].t = put[w].t
      BY <2>2, FdsKeepCalls
    <2> QED
      BY <2>1, <2>3 DEF AckInv, AckedIsListed
  <1>4. CASE PruneUnlist
    <2>1. prune.t < cutoff /\ running
      BY <1>0, <1>4 DEF PruneUnlist, ListingInv, PruneOnlyExpired
    <2> QED
      BY <1>4, <2>1 DEF PruneUnlist, AckInv, AckedIsListed, disk, env
  <1>5. CASE PruneForget \/ PruneReadDir \/ PruneSweep
    BY <1>5 DEF PruneForget, PruneReadDir, PruneSweep, AckInv, AckedIsListed, disk, memory, env
  <1>6. CASE Rescale
    BY <1>6 DEF Rescale, AckInv, AckedIsListed, disk, memory
  <1>7. CASE Crash
    BY <1>7 DEF Crash, AckInv, AckedIsListed, ListingInv, IndexedIsArchived, PutIdle, disk
  <1>8. CASE Open
    <2>1. ~running /\ running' /\ cutoff' = cutoff /\ put' = put /\ (OpenScan \/ OpenClear)
          /\ acked \subseteq Frames /\ \A w \in Writers : put[w] = PutIdle
      BY <1>8 DEF Open, ListingInv, DownIsEmpty, TypeOK
    <2>2. CASE OpenScan
      BY <2>1, <2>2 DEF OpenScan, OnDisk, AckInv, AckedIsListed, PutIdle, disk
    <2>3. CASE OpenClear
      <3>1. acked' = {}
        BY <2>1, <2>3 DEF OpenClear, AckInv, sameGrid
      <3> QED
        BY <2>1, <3>1 DEF AckInv, AckedIsListed, PutIdle
    <2> QED
      BY <2>1, <2>2, <2>3
  <1> QED
    BY <1>1, <1>2, <1>3, <1>4, <1>5, <1>6, <1>7, <1>8 DEF Pruning

LEMMA AckInit == Init => AckInv
  BY DEF Init, AckInv, AckedIsListed, PutIdle

(* A frame whose Put returned over a sidecar that reached the disk stays    *)
(* listed through any crash, failed operation and restart until it expires, *)
(* where one goroutine archives the product.                                *)
THEOREM AckedSurvives ==
    ASSUME SoleWriter, ArchiveEnabled
    PROVE  Spec => []AckedIsListed
  <1>1. Init => PromisedInv /\ AckInv
    BY TypeInit, ListingInit, WholeInit, DownInit, AckInit DEF PromisedInv
  <1>2. PromisedInv /\ AckInv /\ [Next]_vars => PromisedInv' /\ AckInv'
    <2>1. ASSUME PromisedInv, AckInv, Next PROVE AckInv'
      BY <2>1, AckPutting, AckOther DEF Next
    <2>2. ASSUME AckInv, UNCHANGED vars PROVE AckInv'
      BY <2>2 DEF AckInv, AckedIsListed, vars, disk, memory, env
    <2> QED
      BY <2>1, <2>2, TypeStep, ListingStep, WholeStep, DownStep DEF PromisedInv
  <1>3. AckInv => AckedIsListed
    BY DEF AckInv
  <1> QED
    BY <1>1, <1>2, <1>3, PTL DEF Spec
=============================================================================
