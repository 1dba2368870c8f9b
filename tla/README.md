# A TLA+ model of the FMI weather map

This directory holds TLA+ modules for the program in `src/`, the TLC runs that
check them on small instances, and theorems checked by TLAPS. The program is a
Go server that polls the Finnish Meteorological Institute (FMI) for radar
frames, lightning strikes and station observations, and a React map that shows
them. Its governing rule (`src/README.md`) is that *pollers write to a Store,
handlers only read from the Store, and nothing a visitor does triggers an
upstream request*; place search is the one exception, and has a rate gate of its
own for that reason.

- [The system](#the-system): components, state, operations, hard behaviour
- [The modules](#the-modules): how each corresponds to the code
- [The runs](#the-runs): what is checked, in which bounds, under which fairness
- [The proofs](#the-proofs)
- [Where code and comments disagree](#where-code-and-comments-disagree)
- [Not modelled](#not-modelled) and [the plan](#the-plan)

`PROJECT.json` is the index: each definition's source lines (`map`), the runs,
a mutated definition per property that makes it fail (`mutants`), the hazards
of the code with the properties that watch them, and the theorems.

## The system

### Backend (`src/backend`)

**Frame archive** (`internal/tutka/store.go`, `lru.go`). State: per product the
in-memory `index` (time to path), the `productMeta` in `meta`, an LRU of decoded
frames; on disk a PNG per frame in a directory per day, and `meta.json`.
Operations: `Open` (scan, or discard on an unreadable or differently gridded
sidecar), `Has`, `Put` (decode into memory, mkdir, write `.tmp`, rename, index,
sidecar), `Get` (decoded LRU, else file plus sidecar), `Times`, `Prune`,
`DiskBytes`, `MeanFrameBytes`. Callers overlap: two pollers, the prune loop and
any number of HTTP requests, with the mutex released around every file
operation, and the process can end between any two of them. Correct when: what
is listed can be read back; an acknowledged frame survives a restart; no
half-written image is ever served; a raster is never shown on a grid, or with a
scaling, it was not produced under.

**Radar pollers** (`internal/tutka/service.go`). Per product a live poller
(60 s over 30 min, or 10 min over 6 h); one backfill goroutine per process that
starts after two minutes and walks day-long chunks backwards; a prune loop every
six hours; health bookkeeping. Correct when: an outage heals; history grows
contiguously backwards; downloads follow new data and not the polling rate;
retention wins over the backfill.

**Radar discovery, decoding and grid** (`fmiwfs.go`, `models.go`, `grid.go`,
`palette.go`). Pure: WFS XML to frame metas, GeoTIFF to a raster, raster to a
palette image, coordinates to pixels.

**Rendered frames** (`render.go`, `lru.go`). An LRU of PNGs behind a singleflight.
Correct when one miss renders once and a result belongs to its key.

**Radar handlers and nowcast** (`handlers.go`, `nowcast.go`). Frame list, image,
point readout: they compose `Times`, several `Get`s and an extrapolation, each
of which can see a different archive. Correct when a readout is about the frames
it says it is about.

**Lightning** (`internal/salama`). State: the retained strikes `fallback`,
`updated`, and a summary in the shared cache with a TTL; the loop's `lookback`
and `lastPoll`. Operations: poll, `Merge`, `Get`, `Health`. Hard: overlapping
windows against FMI's publication delay, slow and failing requests, restarts
that lose memory but not Redis. Correct when no strike is lost, answers never go
back in time, and a healthy mode does not show an old map.

**Observations** (`internal/havainnot`). A snapshot of stations in the cache and
per-station details in memory only. Hard: the two are published one after the
other, and only one of them survives a restart.

**Place search** (`internal/core/places`). State: the cache, and the instant
`next` under a mutex. Operation: `Search` (look up, `acquire` a slot, sleep, ask
Nominatim, store). Hard: overlapping, abandoned and refused searches. Correct
when requests are spaced, the queue is bounded, and a refusal's `Retry-After` is
worth something.

**Core** (`internal/core`): `cache` (in-memory or Redis), `upstream` (HTTP client
with a timeout), `fmiwfs` (multipoint parser), `config`, `server` (router,
health). `cmd/fmi/main.go` wires them and returns at shutdown without waiting
for the pollers, which is why every model lets the process end at any step.

### Frontend (`src/frontend/src`)

**Radar loop** (`radar/`): frame list, index, live flag, playback and prefetch.
Hard: refreshes that complete out of order, windows that slide under the index.
**Map** (`map/`, `layers/`): a theme change replaces the style and with it every
layer, which must come back once and in draw order. **Shell and panels**
(`WeatherMap.tsx`, `components/`): one detail panel at a time, with late
answers. **Place search and locate** (`shared/components/`): answers after the
popover was closed. The rest is presentation.

### How they interact

The pollers call FMI and write to a Store; handlers read a Store, perhaps
through the cache; the browser polls the handlers. No component calls back into
another: the interactions are shared state (the Store's maps, the archive's
files, Redis), which is where the hazards are.

## The modules

| module | models | used by |
|---|---|---|
| `Archive` | what one product's archive promises: the abstract specification | `FrameStore` (refinement), `FrameStoreProofs` |
| `FrameStore` | one product's archive: `tutka/store.go`, with the crash points of `main.go` | `MC_FrameStore`, `FrameStoreProofs` |
| `FramePollers` | live poller, backfill and prune loop of one product: `tutka/service.go` | `MC_FramePollers`, `FramePollersProofs` |
| `RenderCache` | frame images on request: `tutka/render.go`, `lru.go`, `handlers.go` | `MC_RenderCache`, `RenderCacheProofs` |
| `RateGate` | place search: `core/places/places.go` | `MC_RateGate`, `BackendProofs` |
| `StrikeStore` | the lightning mode: `salama/service.go`, `store.go`, `handlers.go` | `MC_StrikeStore`, `StrikeStoreProofs` |
| `ObservationStore` | the observation mode: `havainnot/service.go`, `store.go`, `handlers.go` | `MC_ObservationStore`, `ObservationStoreProofs` |
| `Multipoint`, `Observations` | the shared coverage parser, `core/fmiwfs/multipoint.go`, and what `havainnot/fmi.go` makes of it | `Decoders` |
| `Discovery` | frame lists, backfill order and the checks of a raster: `tutka/fmiwfs.go`, `service.go` | `Decoders` |
| `Palette` | raw values to sample states, colours and legends: `tutka/palette.go`, `models.go` | `Decoders` |
| `Nowcast` | motion, extrapolation, the point readout: `tutka/nowcast.go`, `handlers.go` | `Decoders` |
| `Configuration` | settings and the grid they give: `core/config/config.go`, `tutka/grid.go` | `Decoders` |
| `Decoders` | the pure modules above as calls with inputs and a result | `MC_Decoders`, `BackendProofs` |
| `RadarLoop` | the animation: `radar/useRadarLoop.ts` | `MC_RadarLoop`, `RadarLoopProofs` |
| `DetailPanels` | readout and station panel: `WeatherMap.tsx` | `WeatherMap` |
| `WeatherMap` | the map, its style swaps and overlays, composed with the panels: `map/Map.tsx`, `layers/` | `MC_WeatherMap`, `WeatherMapProofs` |

Three levels describe the radar archive. `FrameStore` has every system call of
`Put`, `Get`, `Prune` and `Open`; it implements `Archive`, where each of them
is a single step. `FramePollers` sits above it: there a `Put` is one step, and
what a restart finds is what `Archive!Restart` keeps. `RenderCache` reads an
archive whose `Put` and `Prune` are cut only where a rendering request can tell.
They are not composed in one state space, which would be out of TLC's reach.

### FrameStore

Each call is cut where another goroutine, or the end of the process, can come
between: at its system calls and at each release of `mu`. `put`, `get` and
`prune` hold the program counter and locals of the calls in progress.

| code | actions |
|---|---|
| the caller's `Has`, then the download | `Claim` |
| `Put`: `decoded.put`, the disabled archive's return, `MkdirAll` | `PutDecoded` |
| `Put`: `os.WriteFile(tmp)` | `PutOpenTmp` (create and truncate), `PutWriteTmp` (the bytes) |
| `Put`: `os.Rename` | `PutRename` |
| `Put`: the section under `mu` | `PutIndex` |
| `Put`: `writeMeta`, then `meta` under `mu` | `WriteMetaOpen`, `WriteMetaBytes`, `PutSetMeta` |
| `Get` | `GetReadMeta`, `GetReadFile`, `GetCache` |
| `Prune` | `PruneStart`, per frame `PruneRemove`, `PruneUnlist`, `PruneForget`, then `PruneReadDir`, `PruneSweep` |
| `Open` | `Open` (`OpenScan` or `OpenClear`), one step: nothing runs beside it |

Abstractions. A frame is its timestamp. A PNG's content is the `productMeta` its
raw values were produced under, which is all the properties distinguish. A
descriptor follows its inode: `fd` says which directory entry names the inode
now, since a rename by another writer moves it from `<path>.tmp` to `<path>`.
The eviction order of the decoded LRU is left open. `decodeFrame`'s comparison of
dimensions is left out: two grids may share them, and `GridFaithful` holds
without its help. Every write, rename and removal may fail (`CanFail`), the
clearing of a discarded archive included: `RemoveAll` may leave any of the files,
and the sidecar, behind. Reading the directory and the sidecar is taken to work,
as are the encoders in memory.

Four variables are history, and say what the properties excuse:

- `acked`: the frames whose `Put` returned nil while the sidecar on disk was the
  right one. The code accepts that a frame put over a failed sidecar, or an exit
  while the sidecar is rewritten, costs the archive; `AckedIsListed` starts over
  there.
- `disputed`: the last rewriting of `meta.json` failed, or ran beside one with
  another scaling. `writeMeta`'s error is logged and the meta in memory set all
  the same, so that memory and disk part; nothing but the next rewriting, or a
  restart, mends it, and `MetaRecorded` is silent until then.
- `strays`, `strayMeta`: the frames whose files, and whether the sidecar, outlived
  a clear that failed. `clearProduct` logs the failure and forgets the product;
  the next Put writes a sidecar of the new grid beside the old files, and the
  restart after it serves them. `GridFaithful` excuses those frames and no others.

What holds only between Puts (`MetaRecorded`, `CrashLeavesWholeFrames`) is stated
under `Quiet`: no Put is in progress.

### Archive, and how FrameStore implements it

| `Archive` | `FrameStore` |
|---|---|
| `held` | `file` |
| `listed` | `index` |
| `sidecar` | `metaFile` where it is readable, else `Absent` |
| `source`, `up`, `horizon` | `source`, `running`, `cutoff` |

A rename is `Store`, the section under `mu` is `List`, the sidecar's writes are
`Describe`, Prune's three effects are `Retain`, `Expire` and `Unlist`, an exit is
`Stop` and `Open` is `Restart`, which lists all it holds or none of it, and in the
second case removes as much of it as it can. Everything else, reads and decoded
frames included, is a stutter. The abstract archive has
no unfinished files at all: this is what the temporary and the rename are for,
and it holds with one writer and an enabled archive.

### FramePollers

Time is counted in frame steps. `discoverFrames` answers a window with every
frame FMI lists by then, `PublishDelay` after its timestamp. `Live*` is
`pollProduct` and `sync`; `Backfill*` is `backfillProduct`, with `NextChunk` the
post statement and condition of its chunk loop; `Prune` one pass of `pruneLoop`.
Between `Has` and the `Put` that ends a download (`LiveNext` and `LiveFetch`,
`BackfillNext` and `BackfillFetch`) the others may act. A budget of faults makes
discoveries, downloads and writes fail. `filled`, `missed`, `skipped` and
`fetches` are history. `BackfillContiguous` excuses the frames that failed
themselves and the chunks whose discovery failed (see below).

### RenderCache

| code | actions |
|---|---|
| `Put` as far as a reader can tell | `PutDecode` (the decoded LRU), `PutArchive` (file and index), `PutMeta` (the meta of a product's first frame) |
| `Prune` as far as a reader can tell | `PruneRemove`, `PruneForget` |
| `Frames`, the list a page keeps | `ListFrames` |
| `FrameImage`, `RenderedFrame`'s first lookup | `FrameImage` |
| joining or leading the flight of this key | `Do` (external: `singleflight`) |
| the second lookup, inside the flight | `Recheck` |
| `Get`: decoded LRU; file; keeping what was read | `Get`, `Read`, `Keep` |
| `RenderPNG`, the rendered LRU, everyone's answer | `Rendered`, `Land` |

`Unlinked`, `Without`, `Touched` and `Kept` are the list operations of
`lru.go`: a sequence of keys, most recent first, bounded in entries. A frame
whose file does not decode stands for every failing read. A product's first
frame is listed before its meta is set, and without the meta `Get` reports a
missing file: in between only the decoded cache, filled first, answers for it.
One poller archives at a time here: two that archive first frames of different
products could evict each other's from that cache if its size were one.

### RateGate

`Search` is the cache lookup that misses; a hit changes no state. `Acquire` is
`acquire` under its mutex, `Depart` the end of the sleep and the request,
`Answer` the stored result. `Abandon` stands for a visitor who leaves, the
request timeout and an upstream error. `Tick` does not let a waiter oversleep by
more than `Jitter`: this is the assumption about the Go runtime that the 1100 ms
interval (for a limit of one request a second) budgets for, `Ceiling + Jitter <=
minInterval`.

### StrikeStore

`Ask`, `Reply` or `FetchFails`, and `Publish` are one turn of the poll loop.
`Answer` is FMI looking up what it answers with (external), at any time between
the ask and the arrival: what is listed after it is not in the reply, however
late the reply comes. `Reply` updates memory and `Publish` writes the cache, and a visitor can come
between. `Get` is the set of summaries a visitor can be answered with, and
`Visit` records the newest one given. `RedisFails` and `RedisReturns` are an
outage of any length, a single failed call included. `Crash` loses memory, and
the cache too unless it is Redis. `Tick` makes timers fire on time and the
client's timeout bound a request.

### ObservationStore

The same loop with `Ask`, `FetchFails`, `Set` (the maps, under the lock) and
`Publish` (the cache, after it). `ListStations` is `Snapshot` answered from the
cache, `ListFallback` its second half, a separate step because the cache is read
without the lock. `OpenStation` is the handler's three answers: a detail, 404, or
503 when `Count` is zero. `reach` tells a cache that never failed from one that
is failing and one that came back with what it held.

### Decoders and the pure modules

A behaviour of `Decoders` picks one call with its inputs and evaluates it, so
that TLC explores the inputs as initial states. The reference is what went into
the call: `Encoded` lays reports out the way FMI does (a flat list of positions,
a flat list of tuples, identities by id). The two branches of the answer place a
station independently, its samples at `place` and its point at `drawn`; the code
joins them by rounding (`posKey`). `Damaged` loses tokens (a loss names the
positions that are left), `Moved` carries a storm on. Loops of the code are folds:
`Collected` is one member of a frame list, `Inserted` one round of its insertion
sort, `Overridden` one retention entry, `Got` one listed frame of a point request,
`Overwritten` one reading of a headline. Where the code appends what it accepts,
`Multipoint` knows an entry by its place in the document, `<<member, index>>`
(`Places`), and compares places where the order counts (`Before`). `Sorted` is
*some* order in which no key decreases: `sort.Slice` is not stable.

A storm is tried only if its motion can be told at all (`Trackable`): it stays on
the raster, moves whole blocks within the search, enough blocks rain in both
frames, and at no offset but its own does the second frame show the first one,
stronger or weaker by a factor (`Repeats`). Rain that repeats itself scores
1 at several offsets; the search takes the first of them, which need not be the
true one.

The specification is called `CallSpec`, so that a module about `Decoders` and
`RateGate` together can name both. Numbers keep the code's rounding and truncation (`posKey` is
`math.Round`, `Truncated` is Go's `int()`), at a scale where they are exact: a
physical value in hundredths, a point in tenths of a pixel, a coordinate in
quarters of the join's quantum. Scores of the motion search are compared as
fractions. XML and GeoTIFF decoding are external.

### RadarLoop

A commit of the component is a step; the refs its effect writes (`SyncRefs`) are
a step of their own, except after a viewer's event, when React runs effects
before anything else. `Load` asks for the list and `Arrive` is the state update
of a reply; replies may overtake each other. `Tick` is one firing of the
interval: a `Step`, a `Dwell` on the newest frame, or the `Stop`. `setIndex`,
`togglePlaying` and `Select` are the viewer. `ended`, `late` and `disturbed` are
history: the last two mark what the races described
[below](#where-code-and-comments-disagree) disturb.

### DetailPanels and WeatherMap

`DetailPanels` has one operator per callback of `WeatherMap.tsx` (`pickPoint`,
`selectStation`, `closePoint`, `setProduct`) and one action per late answer. A
request the effect's cleanup disowned can have no effect, so `reads` holds only
the others. `WeatherMap` adds the layer stack. `ToggleTheme`, `ToggleOverlay`, `TapStation`,
`TapMap` and `PickProduct` are the viewer; `StyleLoad` and `MapLoad` are the
events of MapLibre (external); `Commit` is the render after `onStyleReady`, in
which both overlays' effects re-run (`Rebuilt`); `ShowFrame` and `GridArrives`
are props that reach the frame effect. `Installed` is `Map.tsx`'s `install`,
`AddLayer` is `addLayer` with `beforeLayer`, and `PinFollows`, the effect of the
picked point, is part of every action that can change the point.

## The runs

Every instance is the smallest in which the races it is about occur.

| run | result | shows |
|---|---|---|
| `archive_concurrent` | pass | `TypeOK`, `IndexedIsArchived`, `MetaRecorded`: live poller and backfill with two scalings, a pruner whose sweep removes the day directory under a Put, failing renames, unlinks and sidecar writes, a crash |
| `archive_restart` | pass | `NoTornFrame`, `AckedIsListed`, `GridFaithful`, `ImplementsArchive`: one writer and a reader with a one-frame LRU, every write, rename and removal failing at will, the clearing of a discarded archive included, two grids, a scaling change, two exits at any step; every step is one of `Archive` or a stutter |
| `archive_torn` | violation | `CrashLeavesWholeFrames`, see [below](#where-code-and-comments-disagree) |
| `pollers_loops` | pass | `BackfillContiguous`, `TrafficProportional`, `LiveCatchesUp`, `RetentionWins`: a live window of two frames, so that a failed write costs the rest of it, a horizon of two chunks, a failing discovery, download or write, a restart, any subset of the history archived at the start, fair loops |
| `requests` | pass | `NoDoubleRender`, `NotFoundMeansGone`, `EveryRequestAnswered`: two visitors, two frames, two palettes, a decoded cache of one and a rendered cache of two for four keys, frames archived, pruned or undecodable, fair requests |
| `gate_spacing` | pass | `DeparturesSpaced`, `RetryAfterSuffices`, `QueueBounded`: four searches against a queue of three, so one is refused; a failing cache |
| `strikes_polls` | pass | `NothingMissed`, `NeverBackInTime`, `HealthHonest`: failed requests and slow ones that FMI answers early or late, a crash, and a Redis that stops answering at will and comes back with or without its entry |
| `observations_polls` | pass | `DetailNotOlderThanList`, `ListMatchesDetails`: polls that fail or list nobody, a list that expires, a crash, the same Redis, and a visitor between any two steps |
| `decoders` | pass | ten properties of the pure functions over 10,600 inputs, listed below |
| `loop` | pass | `LiveShowsNewest`, `RunEndsLive`, `PlaceKept`, `RunEnds`: two windows of different length, two list requests that overlap, three in all, three actions of the viewer |
| `viewer` | pass | `DrawOrderKept`, `StackRestored`, `ReadoutBelongsToProbe`, `LoadingIsHonest`: two overlays, two theme swaps, the second of which may supersede the first, four actions of the viewer, answers in any order |
| `viewer_panels` | violation | `OnePanelAtATime`, see [below](#where-code-and-comments-disagree) |

Deadlock is checked in `requests`, `viewer` and `viewer_panels`: a visitor can
always ask again and a frame can always be shown. Elsewhere an instance stops at
its bound on time, crashes, cutoffs or inputs, and the cfg says so.

**What `decoders` checks.** `TruncationCaught`: a response that lost tokens is
refused or loses whole rows, never shifts a value onto another row.
`StationsKeepTheirReadings`: readings and stations joined by rounded coordinate
are the ones that were sent together, in any order of the two branches and
wherever they place a station. Exactly the stations whose two places straddle a
rounding mark (`Straddles`) lose their readings; two of the four layouts have one.
`HeadlineMostRecent`: a headline shows, for each parameter, the latest
value reported. `DiscoveryFaithful`: each listed time once, in order, under its
own scaling. `MapAgreesWithReadout` and `LegendMatchesMap`: the three places that
interpret a raw value say the same of it, sentinels of both depths included.
`SteadyRainArrives`: for rain that moves steadily the nowcast gives the step at
which it covers the point. `NowcastIsFresh`, `RasterMatchesCorners`,
`TyposCostThemselves`: as their comments say.

**Bounds.**

| constant | in | why it is enough |
|---|---|---|
| `MaxCutoff`, `MaxCrashes` | `FrameStore` | one prune pass, which expires one of two frames and keeps the other; in `archive_restart` the second restart trusts, or discards, what the process after the first one left |
| `Lookback` | `FramePollers` | two frames of the live window are listed at once, the least at which one of them can be abandoned for the other |
| `MaxNow`, `MaxFaults`, `MaxRestarts` | `FramePollers` | the clock moves on during a pass, so that frames are published and expire under it; one fault meets every interleaving of every operation, and a healed system needs faults to stop, which is what a finite budget says |
| `MaxNow` | `RateGate` | past the whole queue and one more search |
| `MaxNow`, `MaxFailures`, `MaxCrashes` | `StrikeStore`, `ObservationStore` | a cache entry expires in the time after a crash; longer runs of failures are covered by the theorems |
| `MaxInFlight`, `MaxLoads`, `MaxNow`, `MaxActs` | `RadarLoop` | two overlapping lists suffice to overtake, a third repairs or does not; frames appear and fall out of the short window |
| `MaxSwaps`, `MaxClicks` | `WeatherMap` | a swap in flight superseded by another; pick, pick again, switch product and close |

Times are scaled down in the order the code gives them: in `RateGate` an interval
of 3, a limit of 2 and a queue of 6 stand for 1100, 1000 and 3000 ms; in
`StrikeStore` and `ObservationStore` one unit is about a poll interval. Symmetry
is used where no property or constant tells the members apart and no liveness is
checked (`FrameStore`, `RateGate`, `ObservationStore`).

**What `NothingMissed` assumes.** `OutageWithinLookback` is a precondition: the
publication delay, plus the transfer of an answer FMI looked up early (one
timeout), plus the poll interval, plus each failed request with its retry delay
and timeout, fits in the lookback. With the code's values (60 s, 60 s, 30 s + 60 s,
5 min) one failed request is tolerated for a publication delay of up to 90 s; two
in a row that time out are tolerated for none at all, and can lose a strike
(see [below](#where-code-and-comments-disagree)). `strikes_polls` satisfies the
precondition with equality, one failed request in a row.

**Fairness.** `FramePollers!FairSpec` has weak fairness on `Live`, `Backfill` and
`Prune`: each is a goroutine that loops until its context is cancelled and blocks
only on timers and on requests with a timeout. `RenderCache!Fairness` has it on a
request's `Do` and on each flight's next step `Fly`: a goroutine runs on, and
reading a file or drawing an image ends. `RadarLoop!Spec` has it on `Tick`: a
browser's interval keeps firing. The code restarts that interval whenever the
list's length changes; lists come a minute apart against a tick every half
second, so they cannot keep it from firing, and `MaxLoads` is finite. Nothing is assumed of restarts,
time, failures, the archive or the viewer. `LiveCatchesUp` is a leads-to whose
right side lets a frame fall out of the lookback window, as an outage longer than
the window makes it.

## The proofs

TLC looks at one instance; the theorems hold for every value of the constants
that satisfies the named assumptions of the module. None of the properties is
inductive as it stands; each proof states a strengthening, shows that `Init`
gives it and every action keeps it, one step per action.

**`FrameStoreProofs`**, for any frames, directories, sidecars, numbers of writers
and readers, and bounds:

- `TypeCorrect`: `Spec => []TypeOK`.
- `IndexedArchived`: `[]IndexedIsArchived`. A Put about to index a frame must know
  that its file is there or already expired, and Prune must know that what it
  removes lies below the cutoff. The strengthening says that of every call in
  progress.
- `SoleWriterNeverTorn`: with one writer `[]NoTornFrame`. The invariant follows
  the one descriptor: what is renamed is a file whose bytes are complete.
  The assumption of a single writer is needed, as `archive_torn` shows.
- `GridNeverMixed`: `[]GridFaithful` for an enabled archive, whatever fails. The
  invariant: the files that are not strays, `meta`, every call in progress and,
  unless a clear left it, the sidecar belong to the grid that is configured now,
  or the process is down and `Open` has yet to compare them.
- `SidecarTrusted`: `[]MetaRecorded`, for any number of writers, scalings and
  failing writes. The invariant `SidecarInv` says what memory may still believe
  while Puts rewrite the sidecar and none of them is in dispute (`SettledInv`).

With one writer and an enabled archive, in the same module:

- `ArchiveImplemented`: `Spec => Promise!Spec`, the refinement of `Archive`. Needs
  `NoTornFrame`'s invariant: a rename must store a whole frame.
- `AckedSurvives`: `[]AckedIsListed`.

**`FramePollersProofs`**: `TypeCorrect`; `BackfillReachesBack`
(`[]BackfillContiguous`), whose invariant `PassInv` divides the frames newer than
one in hand into those already swept, those of this chunk still owed and those
settled; `DownloadsBounded` (`[]TrafficProportional`, with the archive enabled),
which counts a download in progress as spent (`Downloads`).

**`RenderCacheProofs`**: `TypeCorrect`, that is also that an LRU holds a key once
and keeps to its size (lemmas about `Unlinked`, `Touched` and `Kept`);
`RendersOnce` (`[]NoDoubleRender`); `NotFoundOnlyIfPruned`
(`[]NotFoundMeansGone`), whose `ImagesInv` says that the caches and flights only
know frames that were archived (`OnlyKnown`) and that until the meta is known the
decoded cache holds the one frame there is (`Covered`).

**`BackendProofs`** holds what is proved of the backend beside its stores and
caches: the calls of `Decoders` and the rate gate.

A behaviour of `Decoders` makes one call, so the invariant of each theorem is
that the call in hand is one the assumptions describe (`CallTyped`). What is hard
is the function that is called, and the inputs are of any size: the assumptions
(`LossesAssumption`, `FrameListAssumption`, `RastersAssumption`, ...) give their
shapes and no bound.

- `TruncationAlwaysCaught`: `[]TruncationCaught`. If the halves of what is left
  still line up then no token is missing: as many ascending positions as there
  were are all of them (`NothingLost`), and a whole row cannot vanish from one
  half only (`SameFactor`).
- `DiscoveryAlwaysFaithful`: `[]DiscoveryFaithful`. The invariant of the first loop
  (`Complete`) says that the frames collected are those of the first members of
  their instants and miss none; that of the insertion sort says that the prefix is
  sorted and has the same elements.
- `MapAlwaysAgrees` and `LegendAlwaysMatches`: every palette of the table is
  `Graded` (ascending values, transparent first, never fainter after), a value
  lies between two stops (`Band`), and `lerp8` between two bytes meets its ends and
  never decreases.
- `NowcastAlwaysFresh`: `[]NowcastIsFresh`. The frames that can be read are in the
  order they are listed in; that the interval is positive forces the newest of
  them to be the newest listed.
- `GridAlwaysMatches`: `[]RasterMatchesCorners`, for any box and resolution, from
  two facts about rounding down.
- `TyposNeverSpread`: `[]TyposCostThemselves`, from what the entries before a
  position have settled.
- `HeadlineAlwaysMostRecent` (`[]HeadlineMostRecent`) and
  `StationsAlwaysKeepTheirs` (`[]StationsKeepTheirReadings`), for reports of any
  length. `LayoutsAssumption` says what the join relies on: the answer has a field
  for every parameter asked for, every station listed has a point, and different
  stations are a quantum apart in one coordinate, whichever branch places them.
  It says nothing of the two places of one station. Coordinates a quantum apart
  round to different keys (`ApartDiffers`), and two that round alike have no
  rounding mark between them (`RoundedAlike`, `KeyOfStation`). So a row is owned
  by the station it came from or, where that one straddles a mark, by none
  (`OwnedByItsStation`), a station's series is its own entries in time order
  (`Tells`), and along the series the headline always holds the latest reading so
  far of each parameter (`HoldsLatest`). `PollOfReport` puts the two together.
- `SteadyRainAlwaysArrives` (`[]SteadyRainArrives`), for every storm that is
  `Trackable` on any raster. The sums over blocks do not depend on the order they
  are taken in (`AnyOrder`, `SumAddsUp`), so a block that moved holds the sum it
  held (`CoarsenMoved`). At the storm's own offset the correlation is therefore
  exactly 1 (`PerfectMatch`); at every other it is below 1, by Cauchy and Schwarz
  with equality excluded (`CosineBelowOne`, `NoPerfectMatch`, where `Repeats` is
  what equality would mean). So the search returns the true motion
  (`MotionFound`). A pixel's centre carried upwind is a pixel's centre again
  (`UpwindOf`), and the first step that reads rain there is the arrival
  (`RainOver`).

A `FoldLeft` is, by its definition, a function *chosen* among the solutions of a
recursion over sets of positions. The proofs about folds show first that there is
a solution (`FoldExists`), then that all of them walk the sequence position by
position (the `...History` lemmas); an invariant is then carried along the walk
with a least counterexample (`UpTo`). `WeatherMapProofs` does the same for the
layer stack.

The rate gate, for any number of searches, intervals and clock bound:

- `TypeCorrect`: the gate, the cache and the searches keep their types.
- `RequestsSpaced`: `Spec => DeparturesSpaced`. The property is about instants of
  departure and the code's mutex is about slots, so the invariant `GateInv`
  relates them: the gate is at least a limit past the latest departure
  (`GateAhead`), a waiter's slot is an interval behind the gate, clear of the
  latest departure and not overslept (`SlotsHeld`), and slots are an interval
  apart (`SlotsApart`).
- `RefusalClears`: `Spec => []RetryAfterSuffices`, from `GateAhead`.
- `QueueNeverLonger`: `Spec => []QueueBounded`. Slots an interval apart, none
  further than the queue, number the waiters injectively.

**`StrikeStoreProofs`**: `TypeCorrect`; `NeverBack` and `HealthyMeansRecent`, from
what an answer can be (`AnswersInv`); `NoStrikeMissed` (`[]NothingMissed`), whose
invariant `Coverage` says what memory holds of what FMI had listed when it last answered, and
how far a slow transfer and the failures in a row can have moved the next request.

**`ObservationStoreProofs`**: `TypeCorrect`; `DetailsRecent`
(`[]DetailNotOlderThanList`); `ListAndDetailsAgree` (`[]ListMatchesDetails`). The
invariant orders every list in circulation behind the one in memory.

**`WeatherMapProofs`**, for any places, stations, products, layers, overlays, and
numbers of swaps and clicks:

- `ReadoutNeverStray` (`[]ReadoutBelongsToProbe`) and `SpinnerHonest`
  (`[]LoadingIsHonest`): a request that still counts is for the point picked and
  the product shown now (`ReadoutInv`).
- `OrderAlwaysKept` (`[]DrawOrderKept`): `addLayer` puts a layer where it belongs in
  a stack that is in order, and removing one keeps the order, so a rebuild of any
  number of overlays does.
- `StackAlwaysRestored` (`[]StackRestored`). That the stack is in order says nothing
  of what is on it; the invariant `StackInv` adds the order of the map's events
  (`Phases`) and what each of them leaves on the stack (`Holdings`). Its last line
  is the one that is easily missed: `MapLoad` installs the radar layer only where
  none is, so it has to be known that a map that has just loaded has none, or the
  image on it could be an old one.

**`RadarLoopProofs`**, for any windows, dwell, numbers of refreshes and actions:

- `LiveIsNewest` (`[]LiveShowsNewest`), `RunLeavesLive` (`[]RunEndsLive`) and
  `RefreshKeepsPlace` (`PlaceKept`). The properties bound the index from one side;
  `Following` relates it to the live flag from both, which is what a tick and a
  list need to keep each other right. A list is ascending, and an instant has one
  place in it (`Listable` shows that the backend's answer exists).

Only model-checked: the liveness properties `LiveCatchesUp`, `RetentionWins`,
`EveryRequestAnswered` and `RunEnds`, which are out of the prover's reach. Every
other property of a passing run is a theorem. The two that a run refutes
(`CrashLeavesWholeFrames`, `OnePanelAtATime`) are not theorems of the code.

## Where code and comments disagree

Two runs end in a counterexample to a sentence of the source.

- `archive_torn` (`store.go:289-291`, a crash cannot leave a truncated PNG): the
  live poller and the backfill share one `.tmp` per frame. If both put the same
  frame, one can rename the file the other has just truncated.
- `viewer_panels` (`WeatherMap.tsx:222-223`, one detail panel at a time): a
  station's detail is fetched, the viewer picks a point, and the late answer opens
  the station beside the readout.

Others are visible in the models and their definitions, without a run.

- Scaling (`store.go:336-341`, not blending old and new): `meta.json` records one
  scaling, and decoding an old frame uses the new one.
- Another grid (`store.go:46-50`, `Open()` detects the mismatch and discards the
  archive instead): where the removal fails it is logged only, and the restart
  after next serves old frames on the new grid. These are the `strays` of
  `GridFaithful`.
- Disabled archive (`store.go:75-78`, carries on serving from memory;
  `store.go:231-233`, traffic proportional to new data): `Put` returns before the
  index, so nothing is listed and `Has` is always false. `TrafficProportional` is
  checked and proved with the archive enabled.
- Backfill (`service.go:252-253`, the archive stays contiguous): a failed
  discovery skips its day, and older days are filled behind the hole. This is the
  excuse `skipped` in `BackfillContiguous`.
- Place search (`places.go:8`, cached rather than re-asked): the cache is not
  looked at again after the wait at the gate.
- Lightning (`salama/store.go:17-19`, no truly ancient data forever): the
  in-memory fallback has no age limit. `HealthHonest` is about a healthy mode.
- Lightning polls (`salama/service.go:21-22`, a slow cycle cannot open a gap): FMI
  answers at once, the reply takes its 60 s, two requests time out; the next window
  then starts after strikes that were not yet listed at that answer.
  `OutageWithinLookback` excludes this case.
- Joining stations (`havainnot/fmi.go:63-65`, quantised because the branches format
  the same number with different precision): at a rounding mark the two formats
  fall on either side of it and the station loses its readings. This is the excuse
  `Straddles` in `StationsKeepTheirReadings`.
- Nowcast timing (`handlers.go:342-345`): the interval is measured from the last
  listed time but one, while the earlier frame is the last but one that could be
  read. `NowcastIsFresh` promises the interval only when all frames can be read.
- Upwind positions (`nowcast.go:212-213`): `int()` truncates towards zero, so less
  than a pixel outside the west or north edge is read as the edge pixel.
  `SteadyRainArrives` leaves those points out.
- Radar loop (`useRadarLoop.ts:92-124`, keep showing the same instant, pin only if
  the view was already there): a list that arrives before the effect has written
  the refs is placed by the previous commit's; overlapping lists can arrive out of
  order; and when the instant shown has left the list the index keeps its number.
  The history variables `late` and `disturbed` mark these in the properties.
  `dwellRef` keeps its count across a selection, so the first run there may dwell
  shorter.

## Not modelled

- Router, static files, health roll-up (`core/server`), and what the modes report
  to it except the lightning mode's verdict: stateless, or a repetition.
- Web-mercator projection, motion in metres, speed and bearing: floating-point
  transcendental arithmetic. Pixels and projected metres are modelled.
- XML, GeoTIFF, PNG and JSON coding: external libraries.
- Redis itself: an entry with an expiry and an outage.
- Archive reports (`DiskBytes`, `MeanFrameBytes`, `publishIndex`), `logBudget` and
  the health bookkeeping of the pollers: they change nothing the archive does. The
  alternation of several products in one loop is left out as the products share
  only the store's mutex.
- Place search's `parseResults`, `detailFor` and zoom table; the parameter
  catalogue and Health of the observation mode; the metadata handlers.
- Frontend: the search box and locate button, image preloading and its counter,
  the overlays' own fetches, the legend, static panels, colour and age scales,
  styling, and the map's disposal.
- Deployment and changelog scripts; logging.

## What could follow

The pollers of several products composed with one prune loop; the search box of
the frontend beside `RateGate`, so that a late answer and a refused search meet;
the overlays' own refreshes in `WeatherMap`.
