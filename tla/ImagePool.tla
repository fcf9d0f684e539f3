------------------------------ MODULE ImagePool ------------------------------
(***************************************************************************)
(* ImagePool: the workers of one process ask for the same runtime image.   *)
(* The pool remembers that it is there, else asks the daemon, else pulls   *)
(* it, from a registry under another name when there is one. Images of the *)
(* host may be removed from outside.                                       *)
(***************************************************************************)
EXTENDS Naturals, FiniteSets

CONSTANTS
    Pullers,           \* the workers that call EnsureImage
    MaxImageFailures   \* bound: how many failures are explored

ASSUME ImageAssumption == MaxImageFailures \in Nat

VARIABLES
    registry,   \* a registry is configured
    known,      \* the pool's map has the image
    local,      \* the names under which the daemon has it
    puller,     \* how far each worker's call got
    pulls,      \* the pulls that began, up to two
    removed,    \* the image was removed from the host
    imageTroubles, imageFailures

imageVars == <<registry, known, local, puller, pulls, removed, imageTroubles, imageFailures>>

\* The name that is pulled, and the one that callers use.
PullRef == IF registry THEN "registry" ELSE "bare"

\* Every variable keeps its type, and only what was asked for is known.
ImageTypeOK ==
    /\ registry \in BOOLEAN /\ known \in BOOLEAN /\ removed \in BOOLEAN
    /\ local \subseteq {"bare", "registry"}
    /\ puller \in [Pullers -> {"idle", "asking", "missing", "reading", "tagging", "spinning",
                               "ready", "failed"}]
    /\ pulls \in 0..2
    /\ imageTroubles \subseteq {"inspect", "pull", "event", "decode", "tag"}
    /\ imageFailures \in 0..MaxImageFailures
    /\ (\E w \in Pullers : puller[w] = "tagging") => registry

ImageInit ==
    /\ registry \in BOOLEAN
    /\ known = FALSE /\ local = {}
    /\ puller = [w \in Pullers |-> "idle"]
    /\ pulls = 0 /\ removed = FALSE
    /\ imageTroubles = {} /\ imageFailures = 0

ImageFails(which) ==
    /\ imageFailures < MaxImageFailures
    /\ imageFailures' = imageFailures + 1
    /\ imageTroubles' = imageTroubles \cup {which}

ImageWorks == UNCHANGED <<imageTroubles, imageFailures>>

PullerGoes(w, from, to) ==
    /\ puller[w] = from
    /\ puller' = [puller EXCEPT ![w] = to]

\* EnsureImage's first look, into the pool's map.
AskPool(w) ==
    /\ PullerGoes(w, "idle", IF known THEN "ready" ELSE "asking")
    /\ ImageWorks
    /\ UNCHANGED <<registry, known, local, pulls, removed>>

\* imageExistsLocally
AskDaemon(w) ==
    /\ \/ PullerGoes(w, "asking", IF "bare" \in local THEN "ready" ELSE "missing")
          /\ known' = (known \/ "bare" \in local) /\ ImageWorks
       \/ PullerGoes(w, "asking", "failed") /\ ImageFails("inspect") /\ UNCHANGED known
    /\ UNCHANGED <<registry, local, pulls, removed>>

\* pullAuth, and the pull begins, or is refused.
BeginPull(w) ==
    /\ \/ PullerGoes(w, "missing", "reading") /\ ImageWorks
          /\ pulls' = IF pulls = 2 THEN 2 ELSE pulls + 1
       \/ PullerGoes(w, "missing", "failed") /\ ImageFails("pull") /\ UNCHANGED pulls
    /\ UNCHANGED <<registry, known, local, removed>>

\* The end of the progress stream is read: the image is there; or an event of the
\* stream reported an error, which nobody reads. Another error of the decoder
\* comes again at each call of it, and the loop goes round for ever.
ReadProgress(w) ==
    /\ \/ /\ PullerGoes(w, "reading", IF registry THEN "tagging" ELSE "ready")
          /\ \/ local' = local \cup {PullRef} /\ ImageWorks
             \/ UNCHANGED local /\ ImageFails("event")
          /\ known' = (known \/ ~registry)
       \/ PullerGoes(w, "reading", "spinning") /\ ImageFails("decode")
          /\ UNCHANGED <<known, local>>
    /\ UNCHANGED <<registry, pulls, removed>>

\* As if an image that could not be tagged were only logged.
TagAnyway(w) ==
    /\ PullerGoes(w, "tagging", "ready")
    /\ known' = TRUE
    /\ \/ "registry" \in local /\ local' = local \cup {"bare"} /\ ImageWorks
       \/ UNCHANGED local /\ ImageFails("tag")
    /\ UNCHANGED <<registry, pulls, removed>>

\* The image gets the name that the callers use, which fails if it is not there.
TagImage(w) ==
    /\ \/ PullerGoes(w, "tagging", "ready") /\ "registry" \in local
          /\ local' = local \cup {"bare"} /\ known' = TRUE /\ ImageWorks
       \/ /\ PullerGoes(w, "tagging", "failed")
          /\ \/ ImageFails("tag")
             \/ "registry" \notin local /\ ImageWorks
          /\ UNCHANGED <<known, local>>
    /\ UNCHANGED <<registry, pulls, removed>>

\* The next job of the worker asks again.
NextRequest(w) ==
    /\ \E from \in {"ready", "failed"} : PullerGoes(w, from, "idle")
    /\ ImageWorks
    /\ UNCHANGED <<registry, known, local, pulls, removed>>

\* The host's images are cleaned up; the pool is not told.
RemoveImage ==
    /\ local # {} /\ local' = {} /\ removed' = TRUE
    /\ ImageWorks
    /\ UNCHANGED <<registry, known, puller, pulls>>

ImageNext ==
    \/ RemoveImage
    \/ \E w \in Pullers :
          AskPool(w) \/ AskDaemon(w) \/ BeginPull(w) \/ ReadProgress(w) \/ TagImage(w)
          \/ NextRequest(w)

ImageSpec == ImageInit /\ [][ImageNext]_imageVars

-----------------------------------------------------------------------------
(* Properties                                                              *)

\* Whoever EnsureImage told that the image is there can create a container of it,
\* and so can those who ask later and find it in the map; except after it was
\* removed from outside, or, without a registry, when the pull reported an error
\* in its stream.
EnsuredIsLocal ==
    ((\E w \in Pullers : puller[w] = "ready") \/ known) =>
        "bare" \in local \/ removed \/ (~registry /\ "event" \in imageTroubles)

\* Workers that start together pull the image once ("each image is only pulled
\* once even when many workers start concurrently", image_pool.go:22).
PulledOnce == (~removed /\ imageTroubles = {}) => pulls <= 1
=============================================================================
