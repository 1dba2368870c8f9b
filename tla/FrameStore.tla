----------------------------- MODULE FrameStore -----------------------------
(***************************************************************************)
(* The on-disk radar archive of one product (tutka/store.go): Put, Get,    *)
(* Prune and Open, each cut at its system calls and lock releases, so that *)
(* the live poller, the boot-time backfill, the prune loop, HTTP readers   *)
(* and a process exit interleave the way their goroutines can.             *)
(*                                                                         *)
(* A frame is its timestamp. What a frame's raster means (grid, depth,     *)
(* gain, offset: the productMeta sidecar) is one element of Metas; the     *)
(* PNG carries only the raw values, so a file's content is modelled by the *)
(* productMeta its raw values were produced under.                         *)
(*                                                                         *)
(* Files live behind directory entries, and two Puts of one frame share    *)
(* the entry "<path>.tmp": a writer's descriptor follows the inode, which  *)
(* `fd' records as the entry that names it now.                            *)
(***************************************************************************)
EXTENDS Naturals, FiniteSets

CONSTANTS
    Frames,         \* timestamps of the product's frames
    Days,           \* archive day directories
    DayOf,          \* the directory of each frame
    Metas,          \* productMeta values: grid and scaling
    GridOf,         \* the grid of each productMeta
    Writers,        \* goroutines that call Put: the live poller, the backfill
    Readers,        \* HTTP handlers that call Get
    ArchiveEnabled, \* FALSE when FRAMES_DIR is empty or cannot be created
    DecodedSize,    \* decodedCacheSize
    CanFail,        \* disk operations that may fail: "frame" "rename" "meta" "unlink" "clear"
    MaxCutoff,      \* bound: latest retention cutoff a prune pass uses
    MaxCrashes,     \* bound: process exits
    Absent, Torn,   \* no such file; a file whose writing has not finished
    None            \* Go's zero value: nothing cached, no meta known

ASSUME FramesAssumption == Frames \subseteq Nat
ASSUME DayAssumption == DayOf \in [Frames -> Days]
ASSUME GridAssumption == DOMAIN GridOf = Metas
ASSUME FlagAssumption == ArchiveEnabled \in BOOLEAN
ASSUME BoundAssumption == DecodedSize \in Nat \ {0} /\ MaxCutoff \in Nat /\ MaxCrashes \in Nat
ASSUME SentinelAssumption ==
    /\ Absent \notin Metas /\ Torn \notin Metas /\ None \notin Metas
    /\ Absent # Torn
    /\ None \notin Frames

VARIABLES
    file, tmp,   \* what <path> and <path>.tmp hold, per frame
    days,        \* day directories that exist
    metaFile,    \* meta.json
    index, meta, decoded,  \* the Store's in-memory state
    put, get, prune,       \* calls in progress
    source,      \* the productMeta a frame fetched now would carry
    cutoff,      \* retention cutoff of the latest prune pass
    running, crashes,
    \* History, for the properties only:
    acked,       \* frames whose Put returned nil with the sidecar on disk
    strays,      \* frames a clear that failed may have left files of
    strayMeta,   \* whether it left a readable meta.json, not rewritten since
    disputed     \* whether the last rewriting of meta.json failed or was contended

disk == <<file, tmp, days, metaFile>>
memory == <<index, meta, decoded>>
env == <<source, cutoff, running, crashes>>
history == <<acked, strays, strayMeta, disputed>>
vars == <<disk, memory, put, get, prune, env, history>>

Content == Metas \cup {Absent, Torn}
DecodedFrame == Metas \X Metas     \* <<raw values made under, interpreted under>>

PutIdle == [pc |-> "idle", t |-> None, meta |-> None, fd |-> "none"]
PutState == {PutIdle} \cup
    [pc : {"put", "open", "write", "rename", "index", "metaOpen", "metaWrite", "metaSet"},
     t : Frames, meta : Metas, fd : {"none", "tmp", "path", "gone"}]

GetIdle == [pc |-> "idle", t |-> None, meta |-> None, body |-> None]
GetState == {GetIdle}
    \cup [pc : {"read"}, t : Frames, meta : Metas, body : {None}]
    \cup [pc : {"cache"}, t : Frames, meta : Metas, body : Metas]

PruneIdle == [pc |-> "idle", todo |-> {}, t |-> None, sweep |-> {}]
PruneState ==
    [pc : {"idle", "remove", "unlist", "forget", "sweep"}, todo : SUBSET Frames,
     t : Frames \cup {None}, sweep : SUBSET Days]

-----------------------------------------------------------------------------
(* The decoded-frame LRU. Which entry goes when it is full is left open:   *)
(* recency is the LRU's own business (lru.go) and no property here needs it. *)
Cached(d) == {t \in Frames : d[t] # None}

DecodedAfter(t, f) ==
    LET d == [decoded EXCEPT ![t] = f]
    IN  IF Cardinality(Cached(d)) <= DecodedSize
        THEN {d}
        ELSE {[d EXCEPT ![e] = None] : e \in Cached(d) \ {t}}

(* Descriptors after the entry <path>.tmp of frame t is renamed to <path>:  *)
(* the inode behind .tmp is the one <path> names, the old <path> is unlinked. *)
FdsAfterRename(t) ==
    [v \in Writers |->
        IF put[v].t # t THEN put[v]
        ELSE [put[v] EXCEPT !.fd = CASE @ = "tmp"  -> "path"
                                     [] @ = "path" -> "gone"
                                     [] OTHER      -> @]]

(* Descriptors after an entry of frame t is unlinked.                       *)
FdsAfterUnlink(t, entry) ==
    [v \in Writers |->
        IF put[v].t = t /\ put[v].fd = entry THEN [put[v] EXCEPT !.fd = "gone"] ELSE put[v]]

EmptyDay(d) == \A t \in Frames : DayOf[t] = d => file[t] = Absent /\ tmp[t] = Absent

Init ==
    /\ file = [t \in Frames |-> Absent]
    /\ tmp = [t \in Frames |-> Absent]
    /\ days = {}
    /\ metaFile = Absent
    /\ index = {}
    /\ meta = None
    /\ decoded = [t \in Frames |-> None]
    /\ put = [w \in Writers |-> PutIdle]
    /\ get = [r \in Readers |-> GetIdle]
    /\ prune = PruneIdle
    /\ source \in Metas
    /\ cutoff = 0
    /\ running = TRUE
    /\ crashes = 0
    /\ acked = {} /\ strays = {}
    /\ strayMeta = FALSE /\ disputed = FALSE

-----------------------------------------------------------------------------
(* Put, and the check-then-act around it in sync and backfillProduct.       *)

Has(t) == t \in index

(* The caller saw Has = FALSE and then fetched the frame from FMI: by the   *)
(* time Put starts, the answer of Has may be old.                           *)
Claim(w, t) ==
    /\ running
    /\ put[w].pc = "idle"
    /\ ~Has(t)
    /\ put' = [put EXCEPT ![w] = [pc |-> "put", t |-> t, meta |-> source, fd |-> "none"]]
    /\ UNCHANGED <<disk, memory, get, prune, env, history>>

(* decoded.put, the early return of a disabled archive, and MkdirAll. An    *)
(* error returns with the frame decoded in memory and nowhere else.         *)
PutDecoded(w) ==
    /\ put[w].pc = "put"
    /\ decoded' \in DecodedAfter(put[w].t, <<put[w].meta, put[w].meta>>)
    /\ \/ /\ ArchiveEnabled
          /\ days' = days \cup {DayOf[put[w].t]}
          /\ put' = [put EXCEPT ![w].pc = "open"]
       \/ /\ ~ArchiveEnabled \/ "frame" \in CanFail
          /\ put' = [put EXCEPT ![w] = PutIdle]
          /\ UNCHANGED days
    /\ UNCHANGED <<file, tmp, metaFile, index, meta, get, prune, env, history>>

(* Mutant of PutOpenTmp: the frame is written in place, with no temporary.  *)
PutOpenPath(w) ==
    LET t == put[w].t IN
    /\ put[w].pc = "open"
    /\ DayOf[t] \in days
    /\ file' = [file EXCEPT ![t] = Torn]
    /\ put' = [put EXCEPT ![w].pc = "write", ![w].fd = "path"]
    /\ UNCHANGED <<tmp, days, metaFile, memory, get, prune, env, history>>

(* os.WriteFile(tmp): open with O_CREATE|O_TRUNC. A day directory swept     *)
(* since MkdirAll makes it fail with ENOENT; an existing .tmp is the same   *)
(* inode, emptied.                                                          *)
PutOpenTmp(w) ==
    LET t == put[w].t IN
    /\ put[w].pc = "open"
    /\ \/ /\ DayOf[t] \in days
          /\ tmp' = [tmp EXCEPT ![t] = Torn]
          /\ put' = [put EXCEPT ![w].pc = "write", ![w].fd = "tmp"]
       \/ /\ DayOf[t] \notin days \/ "frame" \in CanFail
          /\ put' = [put EXCEPT ![w] = PutIdle]
          /\ UNCHANGED tmp
    /\ UNCHANGED <<file, days, metaFile, memory, get, prune, env, history>>

(* os.WriteFile(tmp): the bytes reach the inode, under whatever entry names *)
(* it by now. A failed write (a full disk) returns with .tmp left behind.   *)
PutWriteTmp(w) ==
    LET t == put[w].t IN
    /\ put[w].pc = "write"
    /\ \/ /\ file' = IF put[w].fd = "path" THEN [file EXCEPT ![t] = put[w].meta] ELSE file
          /\ tmp' = IF put[w].fd = "tmp" THEN [tmp EXCEPT ![t] = put[w].meta] ELSE tmp
          /\ put' = [put EXCEPT ![w].pc = "rename", ![w].fd = "none"]
       \/ /\ "frame" \in CanFail
          /\ put' = [put EXCEPT ![w] = PutIdle]
          /\ UNCHANGED <<file, tmp>>
    /\ UNCHANGED <<days, metaFile, memory, get, prune, env, history>>

(* os.Rename(tmp, path); a failure also removes .tmp, whoever wrote it.     *)
PutRename(w) ==
    LET t == put[w].t IN
    /\ put[w].pc = "rename"
    /\ \/ /\ tmp[t] # Absent
          /\ file' = [file EXCEPT ![t] = tmp[t]]
          /\ tmp' = [tmp EXCEPT ![t] = Absent]
          /\ put' = [FdsAfterRename(t) EXCEPT ![w].pc = "index"]
       \/ /\ tmp[t] = Absent \/ "rename" \in CanFail
          /\ tmp' = [tmp EXCEPT ![t] = Absent]
          /\ put' = [FdsAfterUnlink(t, "tmp") EXCEPT ![w] = PutIdle]
          /\ UNCHANGED file
    /\ UNCHANGED <<days, metaFile, memory, get, prune, env, history>>

(* Frames a restart owes its visitors after Put of writer w returns nil: a  *)
(* restart needs a readable sidecar, and the code accepts a failed one.     *)
AckedAfter(w) == IF metaFile = put[w].meta THEN acked \cup {put[w].t} ELSE acked

Rewriters == {v \in Writers : put[v].pc \in {"metaOpen", "metaWrite", "metaSet"}}

(* Writer w is about to rewrite meta.json: alone, it settles what it holds; *)
(* beside another whose frame has another scaling, nobody knows.            *)
DisputedBy(w) ==
    \E v \in Rewriters \ {w} : disputed \/ put[v].meta # put[w].meta

(* Under mu: list the frame, and read what meta is known. A meta that is    *)
(* missing or whose scaling differs is rewritten first; else Put is done.   *)
PutIndex(w) ==
    /\ put[w].pc = "index"
    /\ index' = index \cup {put[w].t}
    /\ IF meta = put[w].meta
       THEN /\ acked' = AckedAfter(w)
            /\ put' = [put EXCEPT ![w] = PutIdle]
            /\ UNCHANGED disputed
       ELSE /\ put' = [put EXCEPT ![w].pc = "metaOpen"]
            /\ disputed' = DisputedBy(w)
            /\ UNCHANGED acked
    /\ UNCHANGED <<disk, meta, decoded, get, prune, env, strays, strayMeta>>

(* writeMeta: os.WriteFile truncates meta.json in place, then fills it. A   *)
(* failure of either half is logged and otherwise ignored. Bytes written    *)
(* over another writer's different ones may leave its longer tail behind.   *)
(* While the file is rewritten, an exit costs the whole archive: nothing is *)
(* durable.                                                                 *)
WriteMetaOpen(w) ==
    /\ put[w].pc = "metaOpen"
    /\ \/ /\ metaFile' = Torn
          /\ acked' = {} /\ strayMeta' = FALSE
          /\ put' = [put EXCEPT ![w].pc = "metaWrite"]
          /\ UNCHANGED disputed
       \/ /\ "meta" \in CanFail
          /\ disputed' = TRUE
          /\ put' = [put EXCEPT ![w].pc = "metaSet"]
          /\ UNCHANGED <<metaFile, acked, strayMeta>>
    /\ UNCHANGED <<file, tmp, days, memory, get, prune, env, strays>>

WriteMetaBytes(w) ==
    /\ put[w].pc = "metaWrite"
    /\ \/ /\ metaFile' = put[w].meta
          /\ UNCHANGED disputed
       \/ /\ "meta" \in CanFail \/ metaFile \notin {Torn, put[w].meta}
          /\ metaFile' = Torn
          /\ disputed' = TRUE
    /\ put' = [put EXCEPT ![w].pc = "metaSet"]
    /\ UNCHANGED <<file, tmp, days, memory, get, prune, env, acked, strays, strayMeta>>

PutSetMeta(w) ==
    /\ put[w].pc = "metaSet"
    /\ meta' = put[w].meta
    /\ acked' = AckedAfter(w)
    /\ put' = [put EXCEPT ![w] = PutIdle]
    /\ UNCHANGED <<disk, index, decoded, get, prune, env, strays, strayMeta, disputed>>

-----------------------------------------------------------------------------
(* Get. A hit in `decoded' changes nothing here.                            *)

GetReadMeta(r, t) ==
    /\ running
    /\ get[r].pc = "idle"
    /\ decoded[t] = None
    /\ ArchiveEnabled
    /\ meta # None
    /\ get' = [get EXCEPT ![r] = [pc |-> "read", t |-> t, meta |-> meta, body |-> None]]
    /\ UNCHANGED <<disk, memory, put, prune, env, history>>

(* ReadFile and decodeFrame: an absent or undecodable file is an error for  *)
(* the caller. decodeFrame also compares dimensions, which two grids may    *)
(* share: nothing here relies on that check, and it is left out.            *)
GetReadFile(r) ==
    LET content == file[get[r].t] IN
    /\ get[r].pc = "read"
    /\ \/ /\ content \in Metas
          /\ get' = [get EXCEPT ![r].pc = "cache", ![r].body = content]
       \/ /\ content \notin Metas
          /\ get' = [get EXCEPT ![r] = GetIdle]
    /\ UNCHANGED <<disk, memory, put, prune, env, history>>

GetCache(r) ==
    /\ get[r].pc = "cache"
    /\ decoded' \in DecodedAfter(get[r].t, <<get[r].body, get[r].meta>>)
    /\ get' = [get EXCEPT ![r] = GetIdle]
    /\ UNCHANGED <<disk, index, meta, put, prune, env, history>>

-----------------------------------------------------------------------------
(* Prune, one pass per pruneInterval with a later cutoff each time.         *)

(* Mutant of PruneStart: Times' inclusive upper bound taken as exclusive.   *)
PruneStartInclusive ==
    /\ running
    /\ ArchiveEnabled
    /\ prune.pc = "idle"
    /\ \E c \in (cutoff + 1)..MaxCutoff :
          /\ cutoff' = c
          /\ prune' = [PruneIdle EXCEPT !.pc = "remove", !.todo = {t \in index : t <= c}]
    /\ UNCHANGED <<disk, memory, put, get, source, running, crashes, history>>

PruneStart ==
    /\ running
    /\ ArchiveEnabled
    /\ prune.pc = "idle"
    /\ \E c \in (cutoff + 1)..MaxCutoff :
          /\ cutoff' = c
          /\ prune' = [PruneIdle EXCEPT !.pc = "remove", !.todo = {t \in index : t < c}]
    /\ UNCHANGED <<disk, memory, put, get, source, running, crashes, history>>

(* os.Remove of the oldest frame left; an error other than ENOENT skips it. *)
PruneRemove ==
    /\ prune.pc = "remove"
    /\ \E t \in prune.todo :
          /\ \A u \in prune.todo : t <= u
          /\ \/ /\ file' = [file EXCEPT ![t] = Absent]
                /\ put' = FdsAfterUnlink(t, "path")
                /\ prune' = [prune EXCEPT !.pc = "unlist", !.t = t]
             \/ /\ "unlink" \in CanFail /\ file[t] # Absent
                /\ prune' = [prune EXCEPT !.todo = @ \ {t}]
                /\ UNCHANGED <<file, put>>
    /\ UNCHANGED <<tmp, days, metaFile, memory, get, env, history>>

PruneUnlist ==
    /\ prune.pc = "unlist"
    /\ index' = index \ {prune.t}
    /\ prune' = [prune EXCEPT !.pc = "forget"]
    /\ UNCHANGED <<disk, meta, decoded, put, get, env, history>>

PruneForget ==
    /\ prune.pc = "forget"
    /\ decoded' = [decoded EXCEPT ![prune.t] = None]
    /\ prune' = [prune EXCEPT !.pc = "remove", !.todo = @ \ {prune.t}, !.t = None]
    /\ UNCHANGED <<disk, index, meta, put, get, env, history>>

(* ReadDir, then os.Remove of every day directory: it fails, and leaves the *)
(* directory, when any entry is inside.                                     *)
PruneReadDir ==
    /\ prune.pc = "remove"
    /\ prune.todo = {}
    /\ prune' = [prune EXCEPT !.pc = "sweep", !.sweep = days]
    /\ UNCHANGED <<disk, memory, put, get, env, history>>

PruneSweep ==
    /\ prune.pc = "sweep"
    /\ \/ \E d \in prune.sweep :
             /\ days' = IF EmptyDay(d) THEN days \ {d} ELSE days
             /\ prune' = [prune EXCEPT !.sweep = @ \ {d}]
       \/ /\ prune.sweep = {}
          /\ prune' = PruneIdle
          /\ UNCHANGED days
    /\ UNCHANGED <<file, tmp, metaFile, memory, put, get, env, history>>

-----------------------------------------------------------------------------
(* The world around the store.                                              *)

(* FMI changes a product's linear transformation.                           *)
Rescale ==
    /\ running
    /\ \E m \in Metas \ {source} : GridOf[m] = GridOf[source] /\ source' = m
    /\ UNCHANGED <<disk, memory, put, get, prune, cutoff, running, crashes, history>>

(* The process ends: killed, or main returning without waiting for the      *)
(* pollers. Whatever has reached the file system stays.                     *)
Crash ==
    /\ running
    /\ crashes < MaxCrashes
    /\ running' = FALSE
    /\ crashes' = crashes + 1
    /\ index' = {}
    /\ meta' = None
    /\ decoded' = [t \in Frames |-> None]
    /\ put' = [w \in Writers |-> PutIdle]
    /\ get' = [r \in Readers |-> GetIdle]
    /\ prune' = PruneIdle
    /\ disputed' = FALSE
    /\ UNCHANGED <<disk, source, cutoff, acked, strays, strayMeta>>

(* Mutant of sameGrid: only the dimensions are compared, and they agree.    *)
sameDimensions(m, n) == m \in Metas /\ n \in Metas

(* Mutant of sameGrid: the whole productMeta is compared, scaling included. *)
sameMeta(m, n) == m = n

sameGrid(m, n) == GridOf[m] = GridOf[n]

OnDisk == {t \in Frames : file[t] # Absent}

(* Mutant of OpenScan: an unreadable meta.json is not an error.             *)
OpenScanUnread ==
    /\ metaFile \in Metas => sameGrid(metaFile, source')
    /\ meta' = metaFile
    /\ index' = OnDisk
    /\ strays' = IF strayMeta THEN OnDisk ELSE strays
    /\ strayMeta' = FALSE
    /\ UNCHANGED <<disk, acked>>

(* Open of a product with a readable meta.json on the configured grid:      *)
(* scanProduct lists every .png, and only .png. A meta.json that a failed   *)
(* clear left behind vouches for whatever it finds beside it.               *)
OpenScan ==
    /\ metaFile \in Metas
    /\ sameGrid(metaFile, source')
    /\ meta' = metaFile
    /\ index' = OnDisk
    /\ strays' = IF strayMeta THEN OnDisk ELSE strays
    /\ strayMeta' = FALSE
    /\ UNCHANGED <<disk, acked>>

(* os.RemoveAll of the product's directory. Where it fails it has removed   *)
(* some of what is inside, and the directories of what is left are there.   *)
RemoveAll ==
    \E files, tmps \in (IF "clear" \in CanFail THEN SUBSET Frames ELSE {{}}) :
        /\ file' = [t \in Frames |-> IF t \in files THEN file[t] ELSE Absent]
        /\ tmp' = [t \in Frames |-> IF t \in tmps THEN tmp[t] ELSE Absent]
        /\ days' \in {d \in SUBSET days : \A t \in Frames : EmptyDay(DayOf[t])' \/ DayOf[t] \in d}
        /\ metaFile' \in (IF "clear" \in CanFail THEN {Absent, metaFile} ELSE {Absent})

(* Mutant of OpenClear: the discarded product's new meta is known at once,  *)
(* so that no Put sees it missing and writes it.                            *)
OpenClearKnown ==
    /\ metaFile \in Metas => ~sameGrid(metaFile, source')
    /\ RemoveAll
    /\ strays' = OnDisk'
    /\ strayMeta' = (metaFile' \in Metas)
    /\ meta' = source'
    /\ index' = {}
    /\ UNCHANGED acked

(* Open of any other: clearProduct removes the product's directory, logs a  *)
(* failure, and forgets the product all the same.                           *)
OpenClear ==
    /\ metaFile \in Metas => ~sameGrid(metaFile, source')
    /\ RemoveAll
    /\ strays' = OnDisk'
    /\ strayMeta' = (metaFile' \in Metas)
    /\ meta' = None
    /\ index' = {}
    /\ acked' = IF metaFile \in Metas /\ GridOf[metaFile] # GridOf[source'] THEN {} ELSE acked

(* A restart, possibly with another GRID_BBOX or GRID_RESOLUTION.           *)
Open ==
    /\ ~running
    /\ source' \in Metas
    /\ running' = TRUE
    /\ IF ArchiveEnabled
       THEN OpenScan \/ OpenClear
       ELSE UNCHANGED <<disk, index, meta, acked, strays, strayMeta>>
    /\ UNCHANGED <<decoded, put, get, prune, cutoff, crashes, disputed>>

-----------------------------------------------------------------------------
Putting(w) ==
    \/ \E t \in Frames : Claim(w, t)
    \/ PutDecoded(w) \/ PutOpenTmp(w) \/ PutWriteTmp(w) \/ PutRename(w) \/ PutIndex(w)
    \/ WriteMetaOpen(w) \/ WriteMetaBytes(w) \/ PutSetMeta(w)

Getting(r) == (\E t \in Frames : GetReadMeta(r, t)) \/ GetReadFile(r) \/ GetCache(r)

Pruning ==
    PruneStart \/ PruneRemove \/ PruneUnlist \/ PruneForget \/ PruneReadDir \/ PruneSweep

Next ==
    \/ \E w \in Writers : Putting(w)
    \/ \E r \in Readers : Getting(r)
    \/ Pruning
    \/ Rescale
    \/ Crash
    \/ Open

Spec == Init /\ [][Next]_vars

-----------------------------------------------------------------------------
(* Type correctness of the archive's files, the Store's maps and the calls  *)
(* in progress.                                                             *)
TypeOK ==
    /\ file \in [Frames -> Content]
    /\ tmp \in [Frames -> Content]
    /\ days \subseteq Days
    /\ metaFile \in Content
    /\ index \subseteq Frames
    /\ meta \in Metas \cup {None}
    /\ decoded \in [Frames -> DecodedFrame \cup {None}]
    /\ put \in [Writers -> PutState]
    /\ get \in [Readers -> GetState]
    /\ prune \in PruneState
    /\ source \in Metas
    /\ cutoff \in 0..MaxCutoff
    /\ running \in BOOLEAN
    /\ crashes \in 0..MaxCrashes
    /\ acked \subseteq Frames /\ strays \subseteq Frames
    /\ strayMeta \in BOOLEAN /\ disputed \in BOOLEAN

(* What Times lists can be read back: a listed frame that no prune pass has *)
(* expired has a PNG under its name, whatever Put, Prune and restarts       *)
(* overlap. (Has answers from the same map: a listed frame that is not      *)
(* there would never be fetched again.)                                     *)
IndexedIsArchived ==
    ArchiveEnabled => \A t \in index : t < cutoff \/ file[t] # Absent

Quiet == \A w \in Writers : put[w].pc = "idle"

(* The sidecar a restart will trust is the one memory believes, whenever no *)
(* Put is between the two writes: they part only if the last rewriting of   *)
(* meta.json failed, which is logged and then taken for done, or ran beside *)
(* one with another scaling; the next rewriting that succeeds alone, and    *)
(* any restart, brings them together again.                                 *)
MetaRecorded ==
    running /\ Quiet /\ ArchiveEnabled /\ meta # None /\ ~disputed => metaFile = meta

(* Durability: a frame whose Put returned nil over a sidecar that reached   *)
(* the disk stays listed, across process exits at any point of any call,    *)
(* until a prune pass expires it, Open discards the archive of another grid *)
(* or a later Put rewrites the sidecar.                                     *)
AckedIsListed ==
    running => \A t \in acked : t < cutoff \/ t \in index

(* The temporary file and the rename at work: <path> never names a file     *)
(* whose writing has not finished.                                          *)
NoTornFrame == \A t \in Frames : file[t] # Torn

(* The same promise as Put's comment states it, looked at only when no Put  *)
(* is running, as after a crash: no truncated PNG is left in the archive.   *)
CrashLeavesWholeFrames == Quiet => NoTornFrame

(* Weather is put where it was measured: a decoded frame is interpreted on  *)
(* the grid its raster was fetched on, across restarts with another         *)
(* configured grid. The only exceptions are frames whose files outlived a   *)
(* clear that failed: clearProduct logs the failure, the next meta.json     *)
(* vouches for what is left, and a later restart serves it.                 *)
GridFaithful ==
    \A t \in Frames :
        decoded[t] # None => GridOf[decoded[t][1]] = GridOf[decoded[t][2]] \/ t \in strays

-----------------------------------------------------------------------------
(* A sidecar that cannot be read tells nothing.                             *)
Promise ==
    INSTANCE Archive WITH
        held <- file, listed <- index, horizon <- cutoff, up <- running,
        sidecar <- IF metaFile \in Metas THEN metaFile ELSE Absent

(* The steps of Put, Prune, Open and an exit add up to an archive that      *)
(* stores, expires and restarts in single steps, as long as one goroutine   *)
(* archives the product.                                                    *)
ImplementsArchive == Promise!Spec
=============================================================================
