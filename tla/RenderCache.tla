------------------------------ MODULE RenderCache ------------------------------
(***************************************************************************)
(* Frame images on request (tutka/render.go, handlers.go Frames and        *)
(* FrameImage, lru.go): concurrent requests collapse onto one flight per   *)
(* frame and palette, between two LRU caches, while the pollers archive    *)
(* frames and prune them. Archiving and pruning are cut no finer than      *)
(* rendering can tell; FrameStore has their steps.                         *)
(***************************************************************************)
EXTENDS Integers, Sequences, Functions, FiniteSetsExt

CONSTANTS
    Clients,
    Frames,
    Palettes,
    DecodedSize,  \* decodedCacheSize
    RenderedSize, \* renderedCacheSize
    None

ASSUME SizeAssumption == DecodedSize \in Nat \ {0} /\ RenderedSize \in Nat \ {0}

Keys == Frames \X Palettes
ASSUME NoneAssumption ==
    /\ None \notin {"recheck", "get", "read", "keep", "render", "ok", "not found", "failed"}
    /\ None \notin Frames
    /\ None \notin Keys

VARIABLES
    file,     \* what disk holds of a frame: nothing yet, the frame, a torn file, nothing any more
    listed,   \* the index
    meta,     \* whether memory knows what the product's frames mean
    decoded,  \* the decoded frames, most recently used first
    rendered, \* the rendered images, most recently used first
    put,      \* the frame a poller is archiving, or None
    prune,    \* the frame being pruned and how far, or None
    page,     \* the frames each client was listed
    req,      \* each client's image request
    flight    \* each key's flight: what its leader does next, or None

archive == <<file, listed, meta, put, prune>>
vars == <<archive, decoded, rendered, page, req, flight>>

Idle == [pc |-> "idle", key |-> None, status |-> None]

Init ==
    /\ file \in [Frames -> {"future", "whole", "torn"}]
    /\ listed = {t \in Frames : file[t] # "future"}
    /\ meta \in BOOLEAN /\ (listed # {} => meta)
    /\ decoded = <<>> /\ rendered = <<>>
    /\ put = None /\ prune = None
    /\ page = [c \in Clients |-> {}]
    /\ req = [c \in Clients |-> Idle]
    /\ flight = [k \in Keys |-> None]

-----------------------------------------------------------------------------
(* The LRU, under its mutex.                                                *)

(* An entry is unlinked from its place in the list.                         *)
Unlinked(cache, i) == SubSeq(cache, 1, i - 1) \o SubSeq(cache, i + 1, Len(cache))

(* remove.                                                                  *)
Without(cache, k) ==
    IF k \in Range(cache)
    THEN Unlinked(cache, CHOOSE i \in DOMAIN cache : cache[i] = k) ELSE cache

(* get on a hit.                                                            *)
Touched(cache, k) == <<k>> \o Without(cache, k)

(* put: the entry goes to the front, and the last ones over the limit go.   *)
Kept(cache, k, max) ==
    LET all == Touched(cache, k) IN SubSeq(all, 1, Min({max, Len(all)}))

-----------------------------------------------------------------------------
(* The archive: a poller caches a frame decoded before it is on disk and    *)
(* listed, and the product's first frame is listed before its meta is       *)
(* known; pruning takes the file before the listing and the cached frame.   *)
(* One poller archives at a time: two could not fill the decoded cache.     *)

(* Mutant of PutDecode: the frame is not cached before it is listed.        *)
PutDecodeUncached ==
    /\ put = None
    /\ \E t \in Frames : file[t] = "future" /\ put' = t
    /\ UNCHANGED <<file, listed, meta, prune, decoded, rendered, page, req, flight>>

PutDecode ==
    /\ put = None
    /\ \E t \in Frames :
          /\ file[t] = "future"
          /\ put' = t
          /\ decoded' = Kept(decoded, t, DecodedSize)
    /\ UNCHANGED <<file, listed, meta, prune, rendered, page, req, flight>>

PutArchive ==
    /\ put # None
    /\ file[put] = "future"
    /\ file' = [file EXCEPT ![put] = "whole"]
    /\ listed' = listed \cup {put}
    /\ put' = IF meta THEN None ELSE put
    /\ UNCHANGED <<meta, prune, decoded, rendered, page, req, flight>>

PutMeta ==
    /\ put # None
    /\ file[put] # "future"
    /\ meta' = TRUE
    /\ put' = None
    /\ UNCHANGED <<file, listed, prune, decoded, rendered, page, req, flight>>

PruneRemove ==
    /\ prune = None
    /\ \E t \in listed :
          /\ file' = [file EXCEPT ![t] = "gone"]
          /\ prune' = t
    /\ UNCHANGED <<listed, meta, put, decoded, rendered, page, req, flight>>

PruneForget ==
    /\ prune # None
    /\ listed' = listed \ {prune}
    /\ decoded' = Without(decoded, prune)
    /\ prune' = None
    /\ UNCHANGED <<file, meta, put, rendered, page, req, flight>>

-----------------------------------------------------------------------------
(* The handlers.                                                            *)

(* Frames: the index; an empty one is a 503 and changes no page.            *)
ListFrames(c) ==
    /\ req[c].pc = "idle"
    /\ page' = [page EXCEPT ![c] = IF listed = {} THEN @ ELSE listed]
    /\ UNCHANGED <<archive, decoded, rendered, req, flight>>

(* FrameImage of a frame the client was listed, up to the first lookup.     *)
FrameImage(c) ==
    /\ req[c].pc = "idle"
    /\ \E t \in page[c], p \in Palettes :
          LET k == <<t, p>> IN
          IF k \in Range(rendered)
          THEN /\ rendered' = Touched(rendered, k)
               /\ req' = [req EXCEPT ![c] = [pc |-> "idle", key |-> k, status |-> "ok"]]
          ELSE /\ req' = [req EXCEPT ![c] = [pc |-> "missed", key |-> k, status |-> None]]
               /\ UNCHANGED rendered
    /\ UNCHANGED <<archive, decoded, page, flight>>

(* singleflight's Do: the first becomes the leader, the others wait for it. *)
Do(c) ==
    /\ req[c].pc = "missed"
    /\ req' = [req EXCEPT ![c].pc = "waiting"]
    /\ flight' = [flight EXCEPT ![req[c].key] = IF @ = None THEN "recheck" ELSE @]
    /\ UNCHANGED <<archive, decoded, rendered, page>>

(* Only a file that does not exist is a 404.                                *)
StatusOf(outcome) ==
    CASE outcome = "done" -> "ok"
      [] outcome = "missing" -> "not found"
      [] outcome = "failed" -> "failed"

(* The flight's function returns: everyone waiting on it gets its result.   *)
Land(k, outcome) ==
    /\ flight' = [flight EXCEPT ![k] = None]
    /\ req' = [c \in Clients |->
                  IF req[c].pc = "waiting" /\ req[c].key = k
                  THEN [pc |-> "idle", key |-> k, status |-> StatusOf(outcome)] ELSE req[c]]

Proceed(k, step) ==
    /\ flight' = [flight EXCEPT ![k] = step]
    /\ UNCHANGED req

(* Mutant of Recheck: the flight goes straight to the frame.                *)
RecheckNot(k) ==
    /\ flight[k] = "recheck"
    /\ Proceed(k, "get")
    /\ UNCHANGED <<archive, decoded, rendered, page>>

(* The lookup inside the flight.                                            *)
Recheck(k) ==
    /\ flight[k] = "recheck"
    /\ IF k \in Range(rendered)
       THEN rendered' = Touched(rendered, k) /\ Land(k, "done")
       ELSE UNCHANGED rendered /\ Proceed(k, "get")
    /\ UNCHANGED <<archive, decoded, page>>

(* Get: the decoded frame if it is cached.                                  *)
Get(k) ==
    /\ flight[k] = "get"
    /\ IF k[1] \in Range(decoded)
       THEN decoded' = Touched(decoded, k[1]) /\ Proceed(k, "render")
       ELSE UNCHANGED decoded /\ Proceed(k, "read")
    /\ UNCHANGED <<archive, rendered, page>>

(* Mutant of Read: an error leaves the flight open.                         *)
ReadHangs(k) ==
    /\ flight[k] = "read"
    /\ file[k[1]] = "whole" /\ Proceed(k, "keep")
    /\ UNCHANGED <<archive, decoded, rendered, page>>

(* The meta, ReadFile and decodeFrame: without the meta nothing can be read.*)
Read(k) ==
    /\ flight[k] = "read"
    /\ CASE meta /\ file[k[1]] = "whole" -> Proceed(k, "keep")
         [] meta /\ file[k[1]] = "torn"  -> Land(k, "failed")
         [] OTHER                        -> Land(k, "missing")
    /\ UNCHANGED <<archive, decoded, rendered, page>>

(* Get caches what it read, pruned in the meantime or not.                  *)
Keep(k) ==
    /\ flight[k] = "keep"
    /\ decoded' = Kept(decoded, k[1], DecodedSize)
    /\ Proceed(k, "render")
    /\ UNCHANGED <<archive, rendered, page>>

(* RenderPNG is done: the image is cached and handed to everyone waiting.   *)
Rendered(k) ==
    /\ flight[k] = "render"
    /\ rendered' = Kept(rendered, k, RenderedSize)
    /\ Land(k, "done")
    /\ UNCHANGED <<archive, decoded, page>>

Fly(k) == Recheck(k) \/ Get(k) \/ Read(k) \/ Keep(k) \/ Rendered(k)

Next ==
    \/ PutDecode \/ PutArchive \/ PutMeta \/ PruneRemove \/ PruneForget
    \/ \E c \in Clients : ListFrames(c) \/ FrameImage(c) \/ Do(c)
    \/ \E k \in Keys : Fly(k)

(* A handler's goroutine and the one that leads a flight keep running.      *)
Fairness ==
    /\ \A c \in Clients : WF_vars(Do(c))
    /\ \A k \in Keys : WF_vars(Fly(k))

Spec == Init /\ [][Next]_vars /\ Fairness

-----------------------------------------------------------------------------
(* Type correctness; each LRU holds an entry once and keeps to its limit.   *)
TypeOK ==
    /\ file \in [Frames -> {"future", "whole", "torn", "gone"}]
    /\ listed \subseteq Frames /\ meta \in BOOLEAN
    /\ decoded \in Seq(Frames) /\ IsInjective(decoded) /\ Len(decoded) <= DecodedSize
    /\ rendered \in Seq(Keys) /\ IsInjective(rendered) /\ Len(rendered) <= RenderedSize
    /\ put \in Frames \cup {None} /\ prune \in Frames \cup {None}
    /\ page \in [Clients -> SUBSET Frames]
    /\ req \in [Clients -> [pc : {"idle", "missed", "waiting"}, key : Keys \cup {None},
                            status : {None, "ok", "not found", "failed"}]]
    /\ flight \in [Keys -> {None, "recheck", "get", "read", "keep", "render"}]

(* No image is rendered while it is cached, although a request may have     *)
(* missed the cache before the render it could have used was over.          *)
NoDoubleRender ==
    \A k \in Keys : flight[k] = "render" => k \notin Range(rendered)

(* A 404 for a listed frame means it has been pruned, whoever led the       *)
(* flight: never a torn file, and never a frame still being archived, which *)
(* the decoded cache answers for until the product's meta is known.         *)
NotFoundMeansGone ==
    \A c \in Clients : req[c].status = "not found" => file[req[c].key[1]] = "gone"

(* Every image request is answered, whatever becomes of the frame.          *)
EveryRequestAnswered ==
    \A c \in Clients : req[c].pc # "idle" ~> req[c].pc = "idle"
=============================================================================
