-------------------------- MODULE WorkerNodeProofs --------------------------
(***************************************************************************)
(* What a worker gives a container and takes from it, for any number of    *)
(* workers, any sizes of chunks and limits, and any requests: the image    *)
(* that was ensured is there, the output is kept up to its limit, and the  *)
(* limits of an execution are granted within the maximums.                 *)
(*                                                                         *)
(* The output needs that a frame never has more left than the program may  *)
(* still write (Remaining). The limits need what each step makes of the    *)
(* request (Chain), and that no language of the table needs more than the  *)
(* maximums.                                                               *)
(*                                                                         *)
(* The last part shows that every behaviour of the instance in             *)
(* MCWorkerNode is one of its parts' specifications, and that its          *)
(* execution is that of the sandbox or of the database runtime             *)
(* (ExecutionInv).                                                         *)
(***************************************************************************)
EXTENDS MCWorkerNode, NatsQueueProofs, WorkerPoolProofs, SandboxProofs

-----------------------------------------------------------------------------
(* The image                                                               *)

ImageInv == ImageTypeOK /\ EnsuredIsLocal

LEMMA ImageInitHolds == ASSUME ImageInit PROVE ImageInv
  <1>1. known \in BOOLEAN /\ removed \in BOOLEAN /\ registry \in BOOLEAN
    BY Zenon DEF ImageInit
  <1>2. /\ puller \in [Pullers -> {"idle", "asking", "missing", "reading", "tagging", "spinning",
                                   "ready", "failed"}]
        /\ \A w \in Pullers : puller[w] = "idle"
    BY DEF ImageInit
  <1>3. ~known
    BY Zenon DEF ImageInit
  <1>4. pulls \in 0..2 /\ imageFailures \in 0..MaxImageFailures /\ imageTroubles = {} /\ local = {}
    BY ImageAssumption DEF ImageInit
  <1>. QED
    BY <1>1, <1>2, <1>3, <1>4 DEF ImageInv, ImageTypeOK, EnsuredIsLocal

\* A failure is counted within its bound, and is one of those that are named.
LEMMA ImageTroublesKept ==
    ASSUME ImageTypeOK,
           ImageWorks \/ \E k \in {"inspect", "pull", "event", "decode", "tag"} : ImageFails(k)
    PROVE  /\ imageFailures' \in 0..MaxImageFailures
           /\ imageTroubles' \subseteq {"inspect", "pull", "event", "decode", "tag"}
           /\ imageTroubles \subseteq imageTroubles'
  <1>1. CASE ImageWorks
    BY <1>1 DEF ImageTypeOK, ImageWorks
  <1>2. ASSUME NEW k \in {"inspect", "pull", "event", "decode", "tag"}, ImageFails(k)
        PROVE  /\ imageFailures' \in 0..MaxImageFailures
               /\ imageTroubles' \subseteq {"inspect", "pull", "event", "decode", "tag"}
               /\ imageTroubles \subseteq imageTroubles'
    BY <1>2, ImageAssumption DEF ImageTypeOK, ImageFails
  <1>. QED
    BY <1>1, <1>2

\* A step of a worker keeps the invariant.
LEMMA PullerStep ==
    ASSUME ImageInv, NEW w \in Pullers,
           AskPool(w) \/ AskDaemon(w) \/ BeginPull(w) \/ ReadProgress(w) \/ TagImage(w)
               \/ NextRequest(w)
    PROVE  ImageInv'
  <1>. USE DEF ImageInv, ImageTypeOK, EnsuredIsLocal, PullerGoes
  <1>1. CASE AskPool(w)
    BY <1>1, ImageTroublesKept DEF AskPool, ImageWorks
  <1>2. CASE AskDaemon(w)
    <2>1. /\ known' \in BOOLEAN
          /\ known' => known \/ "bare" \in local
          /\ UNCHANGED <<registry, local, pulls, removed>>
      <3>1. UNCHANGED <<registry, local, pulls, removed>>
        BY <1>2, Zenon DEF AskDaemon
      <3>2. known' = (known \/ "bare" \in local) \/ known' = known
        BY <1>2, Zenon DEF AskDaemon
      <3>3. known' \in BOOLEAN
        BY <3>2, Zenon
      <3>4. known' => known \/ "bare" \in local
        BY <3>2
      <3>. QED
        BY <3>1, <3>3, <3>4, Zenon
    <2>2. \E place \in {"ready", "missing", "failed"} :
             /\ puller' = [puller EXCEPT ![w] = place]
             /\ place = "ready" => "bare" \in local
      BY <1>2 DEF AskDaemon
    <2>3. ImageWorks \/ ImageFails("inspect")
      BY <1>2 DEF AskDaemon
    <2>. QED
      BY <2>1, <2>2, <2>3, ImageTroublesKept
  <1>3. CASE BeginPull(w)
    BY <1>3, ImageTroublesKept DEF BeginPull
  <1>4. CASE ReadProgress(w)
    <2>1. /\ known' \in BOOLEAN
          /\ known' => known \/ ~registry
          /\ UNCHANGED <<registry, pulls, removed>>
      <3>1. UNCHANGED <<registry, pulls, removed>>
        BY <1>4, Zenon DEF ReadProgress
      <3>2. known' = (known \/ ~registry) \/ known' = known
        BY <1>4, Zenon DEF ReadProgress
      <3>3. known' \in BOOLEAN
        BY <3>2, Zenon
      <3>4. known' => known \/ ~registry
        BY <3>2
      <3>. QED
        BY <3>1, <3>3, <3>4, Zenon
    <2>2. \/ puller' = [puller EXCEPT ![w] = "tagging"] /\ registry /\ (known' => known)
          \/ puller' = [puller EXCEPT ![w] = "spinning"] /\ (known' => known)
          \/ puller' = [puller EXCEPT ![w] = "ready"] /\ ~registry
               /\ ("bare" \in local' \/ "event" \in imageTroubles')
      BY <1>4 DEF ReadProgress, PullRef, ImageFails
    <2>3. ImageWorks \/ ImageFails("event") \/ ImageFails("decode")
      BY <1>4 DEF ReadProgress
    <2>4. local \subseteq local' /\ local' \subseteq {"bare", "registry"}
      BY <1>4 DEF ReadProgress, PullRef
    <2>5. ImageTypeOK'
      BY <2>1, <2>2, <2>3, <2>4, ImageTroublesKept
    <2>6. known' => \/ known
                    \/ ~registry /\ ("bare" \in local' \/ "event" \in imageTroubles')
      BY <2>1, <2>2
    <2>. QED
      BY <2>1, <2>2, <2>3, <2>4, <2>5, <2>6, ImageTroublesKept
  <1>5. CASE TagImage(w)
    <2>1. /\ known' \in BOOLEAN
          /\ UNCHANGED <<registry, pulls, removed>>
      BY <1>5, Zenon DEF TagImage
    <2>2. \/ puller' = [puller EXCEPT ![w] = "ready"] /\ "bare" \in local'
          \/ puller' = [puller EXCEPT ![w] = "failed"] /\ (known' => known)
      BY <1>5, Zenon DEF TagImage
    <2>3. ImageWorks \/ ImageFails("tag")
      BY <1>5 DEF TagImage
    <2>4. local \subseteq local' /\ local' \subseteq {"bare", "registry"}
      BY <1>5 DEF TagImage
    <2>. QED
      BY <2>1, <2>2, <2>3, <2>4, ImageTroublesKept
  <1>6. CASE NextRequest(w)
    BY <1>6, ImageTroublesKept DEF NextRequest
  <1>. QED
    BY <1>1, <1>2, <1>3, <1>4, <1>5, <1>6

LEMMA ImageStepKeeps == ASSUME ImageInv, [ImageNext]_imageVars PROVE ImageInv'
  <1>1. CASE UNCHANGED imageVars
    BY <1>1 DEF imageVars, ImageInv, ImageTypeOK, EnsuredIsLocal
  <1>2. CASE RemoveImage
    BY <1>2, ImageTroublesKept DEF RemoveImage, ImageInv, ImageTypeOK, EnsuredIsLocal
  <1>. QED
    BY <1>1, <1>2, PullerStep DEF ImageNext

\* An image that EnsureImage answered for can be used, for any number of workers
\* and failures, unless it was removed or the pull's stream reported an error.
THEOREM EnsuredCanBeUsed == ImageSpec => []EnsuredIsLocal
  <1>1. ImageInv => EnsuredIsLocal
    BY DEF ImageInv
  <1>2. ImageSpec => []ImageInv
    BY ImageInitHolds, ImageStepKeeps, PTL DEF ImageSpec
  <1>. QED
    BY <1>1, <1>2, PTL

-----------------------------------------------------------------------------
(* The output                                                              *)

\* What has arrived and what is left of the frame are within the program's output.
Remaining ==
    /\ left \in Nat
    /\ \A s \in Streams : arrived[s] \in Nat
    /\ left + arrived["stdout"] + arrived["stderr"] <= MaxOutput

OutputInv == OutputTypeOK /\ Remaining /\ OutputIsKept

LEMMA OutputInitHolds == ASSUME OutputInit PROVE OutputInv
  <1>1. cut \in BOOLEAN /\ ~cut
    BY Zenon DEF OutputInit
  <1>2. /\ arrived = [s \in Streams |-> 0] /\ stored = [s \in Streams |-> 0]
        /\ left = 0 /\ frame = "other" /\ copier = "copying"
    BY DEF OutputInit
  <1>3. OutputTypeOK
    BY <1>1, <1>2, OutputAssumption DEF OutputTypeOK
  <1>4. Remaining
    BY <1>2, OutputAssumption DEF Remaining, Streams
  <1>5. OutputIsKept
    BY <1>1, <1>2, OutputAssumption DEF OutputIsKept
  <1>. QED
    BY <1>3, <1>4, <1>5 DEF OutputInv

\* A chunk goes to the buffer of its frame.
LEMMA ChunkKeeps ==
    ASSUME OutputInv, NEW n \in 1..Chunk, CopyChunk(n)
    PROVE  OutputInv'
  <1>1. n \in Nat /\ n <= left /\ left' = left - n /\ frame' = frame /\ copier = "copying"
    BY OutputAssumption DEF CopyChunk
  <1>2. CASE frame \notin Streams
    <2>1. /\ arrived' = arrived /\ stored' = stored /\ copier' = copier /\ (cut' <=> cut)
      BY <1>2, Zenon DEF CopyChunk
    <2>. QED
      <3>0. cut' \in BOOLEAN
        BY <1>2, Zenon DEF CopyChunk, OutputInv, OutputTypeOK
      <3>1. OutputTypeOK'
        BY <1>1, <2>1, <3>0, OutputAssumption DEF OutputInv, OutputTypeOK
      <3>2. Remaining'
        BY <1>1, <2>1, OutputAssumption DEF OutputInv, Remaining, Streams
      <3>3. OutputIsKept'
        BY <2>1 DEF OutputInv, OutputIsKept
      <3>. QED
        BY <3>1, <3>2, <3>3 DEF OutputInv
  <1>3. CASE frame \in Streams
    <2>. DEFINE room == Limit - stored[frame]
    <2>1. /\ stored' = [stored EXCEPT ![frame] = IF n > room THEN Limit ELSE @ + n]
          /\ arrived' = [arrived EXCEPT ![frame] = @ + n]
          /\ copier' \in {"copying", "stopped"}
      BY <1>1, <1>3 DEF CopyChunk, Store
    <2>2. cut' <=> (cut \/ (room > 0 /\ n > room))
      BY <1>3, Zenon DEF CopyChunk, Store
    <2>3. cut' \in BOOLEAN
      BY <1>3, Zenon DEF CopyChunk, Store
    <2>4. /\ stored[frame] \in 0..Limit /\ arrived[frame] \in Nat
          /\ stored[frame] = IF arrived[frame] > Limit THEN Limit ELSE arrived[frame]
      BY <1>3 DEF OutputInv, OutputTypeOK, Remaining, OutputIsKept
    <2>5. /\ stored'[frame] = IF n > room THEN Limit ELSE stored[frame] + n
          /\ arrived'[frame] = arrived[frame] + n
          /\ \A s \in Streams \ {frame} : stored'[s] = stored[s] /\ arrived'[s] = arrived[s]
      BY <1>3, <2>1 DEF OutputInv, OutputTypeOK
    <2>6. Remaining'
      BY <1>1, <1>3, <2>4, <2>5, OutputAssumption DEF OutputInv, Remaining, Streams
    <2>7. OutputTypeOK'
      <3>1. \A s \in Streams : arrived'[s] \in 0..MaxOutput
        BY <2>6, OutputAssumption DEF Remaining, Streams
      <3>2. \A s \in Streams : stored'[s] \in 0..Limit
        BY <1>1, <2>4, <2>5, OutputAssumption DEF OutputInv, OutputTypeOK
      <3>3. left' \in 0..MaxOutput
        BY <1>1, OutputAssumption DEF OutputInv, OutputTypeOK
      <3>. QED
        BY <1>1, <1>3, <2>1, <2>3, <3>1, <3>2, <3>3 DEF OutputInv, OutputTypeOK
    <2>8. OutputIsKept'
      <3>1. stored'[frame] = IF arrived'[frame] > Limit THEN Limit ELSE arrived'[frame]
        BY <1>1, <2>4, <2>5, OutputAssumption
      <3>2. \A s \in Streams : stored'[s] = IF arrived'[s] > Limit THEN Limit ELSE arrived'[s]
        BY <1>3, <2>5, <3>1 DEF OutputInv, OutputIsKept
      <3>3. ASSUME NEW s \in Streams, stored[s] = Limit, arrived[s] > Limit
            PROVE  stored'[s] = Limit /\ arrived'[s] > Limit
        BY <1>1, <2>4, <2>5, <3>3, OutputAssumption
      <3>4. room > 0 /\ n > room => stored'[frame] = Limit /\ arrived'[frame] > Limit
        BY <1>1, <2>4, <2>5, OutputAssumption
      <3>5. cut' => \E s \in Streams : stored'[s] = Limit /\ arrived'[s] > Limit
        BY <1>3, <2>2, <3>3, <3>4 DEF OutputInv, OutputIsKept
      <3>. QED
        BY <3>2, <3>5 DEF OutputIsKept
    <2>. QED
      BY <2>6, <2>7, <2>8 DEF OutputInv
  <1>. QED
    BY <1>2, <1>3

LEMMA OutputStepKeeps == ASSUME OutputInv, [OutputNext]_outputVars PROVE OutputInv'
  <1>. USE DEF OutputInv, OutputTypeOK, Remaining, OutputIsKept, Streams
  <1>1. CASE UNCHANGED outputVars
    BY <1>1 DEF outputVars
  <1>2. CASE ReadHeader
    BY <1>2, OutputAssumption DEF ReadHeader
  <1>3. CASE EndOutput
    BY <1>3 DEF EndOutput
  <1>. QED
    BY <1>1, <1>2, <1>3, ChunkKeeps DEF OutputNext

\* No byte of the output up to the limit is lost, for any limit, any frames and
\* any chunks.
THEOREM OutputKept == OutputSpec => [](OutputTypeOK /\ OutputIsKept)
  <1>1. OutputInv => OutputTypeOK /\ OutputIsKept
    BY DEF OutputInv
  <1>2. OutputSpec => []OutputInv
    BY OutputInitHolds, OutputStepKeeps, PTL DEF OutputSpec
  <1>. QED
    BY <1>1, <1>2, PTL

-----------------------------------------------------------------------------
(* The limits                                                              *)

\* The defaults of the two columns.
TimeOf(t) == IF t = 0 THEN 5 ELSE t
MemoryOf(m) == IF m = 0 THEN 256 * Kilo ELSE m

\* What an int64 makes of the bytes.
StoredBytes == Wrap(MemoryOf(asked.memory) * Kilo)

\* What became of the request at each step.
Chain ==
    /\ progress = "stored" =>
          limits.time = TimeOf(asked.time) /\ limits.wall = 10 /\ limits.memory = MemoryOf(asked.memory)
    /\ progress = "built" =>
          /\ limits.time = AtLeast(TimeOf(asked.time), LanguageTime)
          /\ limits.wall = AtLeast(10, 3 * LanguageTime)
          /\ limits.memory = AtLeast(StoredBytes, LanguageMemory)

LimitsInv == LimitsTypeOK /\ Chain /\ LimitsAreGranted

\* The table asks for five seconds to a minute, and 2 GB at most.
LEMMA TableIsModest == \A l \in Languages : l[2] \in 5..60 /\ l[3] \in {256, 512, 1024, 2048}
  <1>1. \A l \in FirstLanguages : l[2] \in 5..60 /\ l[3] \in {256, 512, 1024, 2048}
    <2>1. \A l \in FirstLanguages : l[2] \in {5, 10, 15, 20, 30, 60}
      BY SMTT(60) DEF FirstLanguages
    <2>2. \A l \in FirstLanguages : l[3] \in {256, 512, 1024, 2048}
      BY SMTT(60) DEF FirstLanguages
    <2>. QED
      BY <2>1, <2>2
  <1>2. \A l \in MiddleLanguages : l[2] \in 5..60 /\ l[3] \in {256, 512, 1024, 2048}
    <2>1. \A l \in MiddleLanguages : l[2] \in {5, 10, 15, 20, 30, 60}
      BY SMTT(60) DEF MiddleLanguages
    <2>2. \A l \in MiddleLanguages : l[3] \in {256, 512, 1024, 2048}
      BY SMTT(60) DEF MiddleLanguages
    <2>. QED
      BY <2>1, <2>2
  <1>3. \A l \in LaterLanguages : l[2] \in 5..60 /\ l[3] \in {256, 512, 1024, 2048}
    <2>1. \A l \in LaterLanguages : l[2] \in {5, 10, 15, 20, 30, 60}
      BY SMTT(60) DEF LaterLanguages
    <2>2. \A l \in LaterLanguages : l[3] \in {256, 512, 1024, 2048}
      BY SMTT(60) DEF LaterLanguages
    <2>. QED
      BY <2>1, <2>2
  <1>4. \A l \in LastLanguages : l[2] \in 5..60 /\ l[3] \in {256, 512, 1024, 2048}
    <2>1. \A l \in LastLanguages : l[2] \in {5, 10, 15, 20, 30, 60}
      BY SMTT(60) DEF LastLanguages
    <2>2. \A l \in LastLanguages : l[3] \in {256, 512, 1024, 2048}
      BY SMTT(60) DEF LastLanguages
    <2>. QED
      BY <2>1, <2>2
  <1>. QED
    BY <1>1, <1>2, <1>3, <1>4 DEF Languages

LEMMA Squares ==
    /\ Kilo \in Nat /\ Kilo * Kilo \in Nat
    /\ \A m \in {256, 512, 1024, 2048} :
          m * Kilo * Kilo \in Nat /\ m * Kilo * Kilo <= MaxMemoryLimit
    /\ 256 * Kilo * Kilo <= MaxMemoryLimit /\ MaxMemoryLimit \in Nat
  <1>1. Kilo \in Nat
    BY LimitsAssumption
  <1>2. Kilo * Kilo \in Nat
    BY <1>1
  <1>3. \A m \in Nat : m * Kilo * Kilo = m * (Kilo * Kilo)
    BY <1>1
  <1>4. \A x \in Nat : \A m \in 1..2048 : m * x \in Nat /\ m * x <= 4096 * x
    OBVIOUS
  <1>5. 256 * Kilo * Kilo = 256 * (Kilo * Kilo) /\ 4096 * Kilo * Kilo = 4096 * (Kilo * Kilo)
    BY <1>3
  <1>6. 256 * (Kilo * Kilo) <= 4096 * (Kilo * Kilo) /\ 4096 * (Kilo * Kilo) \in Nat
    BY <1>2
  <1>. QED
    BY <1>1, <1>2, <1>3, <1>4, <1>5, <1>6 DEF MaxMemoryLimit

\* An integer that an int64 holds is what becomes of it there.
LEMMA WrapIsInt == ASSUME NEW x \in Int PROVE Wrap(x) \in Int
  <1>1. Half \in Nat /\ 2 * Half \in Nat /\ 2 * Half > 0
    BY Squares, LimitsAssumption
  <1>2. (x + Half) % (2 * Half) \in 0 .. 2 * Half - 1
    BY <1>1
  <1>. QED
    BY <1>1, <1>2 DEF Wrap

LEMMA WrapKeeps == ASSUME NEW x \in Int64 PROVE Wrap(x) = x
  <1>1. Half \in Nat
    BY LimitsAssumption
  <1>2. x \in -Half .. Half - 1
    BY DEF Int64
  <1>. QED
    BY <1>1, <1>2 DEF Wrap

\* What a language needs is within the maximums.
LEMMA LanguageFits ==
    ASSUME LimitsTypeOK
    PROVE  /\ LanguageTime \in 5..60
           /\ LanguageMemory \in Nat /\ LanguageMemory <= MaxMemoryLimit
           /\ MaxMemoryLimit \in Nat
           /\ asked.time \in Int /\ asked.memory \in Int /\ asked.memory * Kilo \in Int
           /\ StoredBytes \in Int
           /\ limits.time \in Int /\ limits.wall \in Int /\ limits.memory \in Int
  <1>1. language[2] \in 5..60 /\ language[3] \in {256, 512, 1024, 2048}
    BY TableIsModest DEF LimitsTypeOK
  <1>2. asked.time \in Int /\ asked.memory \in Int
    <2>1. asked.time \in AskedTimes /\ asked.memory \in AskedKB
      BY DEF LimitsTypeOK, RequestedLimits
    <2>2. asked.time \in Int /\ asked.memory \in Int64
      BY <2>1, LimitsAssumption, Zenon
    <2>3. Half \in Nat
      BY LimitsAssumption
    <2>. QED
      BY <2>2, <2>3 DEF Int64
  <1>3. Kilo \in Int /\ MemoryOf(asked.memory) \in Int
    BY <1>2, Squares DEF MemoryOf
  <1>4. asked.memory * Kilo \in Int /\ MemoryOf(asked.memory) * Kilo \in Int
    BY <1>2, <1>3
  <1>5. StoredBytes \in Int
    BY <1>4, WrapIsInt DEF StoredBytes
  <1>. QED
    <2>1. LanguageTime \in 5..60
      BY <1>1 DEF LanguageTime
    <2>2. LanguageMemory \in Nat /\ LanguageMemory <= MaxMemoryLimit /\ MaxMemoryLimit \in Nat
      <3>1. CASE language[3] = 256
        BY <3>1, Squares DEF LanguageMemory
      <3>2. CASE language[3] = 512
        BY <3>2, Squares DEF LanguageMemory
      <3>3. CASE language[3] = 1024
        BY <3>3, Squares DEF LanguageMemory
      <3>4. CASE language[3] = 2048
        BY <3>4, Squares DEF LanguageMemory
      <3>. QED
        BY <1>1, <3>1, <3>2, <3>3, <3>4
    <2>3. limits.time \in Int /\ limits.wall \in Int /\ limits.memory \in Int
      BY DEF LimitsTypeOK
    <2>. QED
      BY <1>2, <1>4, <1>5, <2>1, <2>2, <2>3

\* Bytes that fit are stored as they are; a request that asks for no memory gets
\* 256 MB, which is not too much.
LEMMA MemoryAsked ==
    ASSUME LimitsTypeOK, AskedFits
    PROVE  /\ StoredBytes > MaxMemoryLimit => asked.memory * Kilo > MaxMemoryLimit
           /\ StoredBytes >= asked.memory * Kilo
  <1>1. CASE asked.memory = 0
    <2>1. MemoryOf(asked.memory) = 256 * Kilo
      BY <1>1 DEF MemoryOf
    <2>2. asked.memory * Kilo = 0 /\ 256 * Kilo * Kilo \in Nat
      BY <1>1, Squares
    <2>3. 256 * Kilo * Kilo \in Int64
      BY <2>2, Squares, LimitsAssumption DEF Int64
    <2>4. StoredBytes = 256 * Kilo * Kilo
      BY <2>1, <2>3, WrapKeeps DEF StoredBytes
    <2>. QED
      BY <2>2, <2>4, Squares
  <1>2. CASE asked.memory # 0
    <2>1. StoredBytes = asked.memory * Kilo
      BY <1>2, WrapKeeps DEF StoredBytes, MemoryOf, AskedFits
    <2>. QED
      BY <2>1, LanguageFits
  <1>. QED
    BY <1>1, <1>2

LEMMA LimitsInitHolds == ASSUME LimitsInit PROVE LimitsInv
  BY DEF LimitsInit, LimitsInv, LimitsTypeOK, Chain, LimitsAreGranted

\* What the check and the clamp find in the limits as built.
LEMMA BuiltLimits ==
    ASSUME LimitsInv, progress = "built"
    PROVE  /\ limits.wall = 3 * LanguageTime /\ limits.wall <= MaxWallTimeLimit
           /\ limits.time > MaxCPUTimeLimit => asked.time > MaxCPUTimeLimit
           /\ limits.time >= AtLeast(asked.time, LanguageTime)
           /\ limits.memory >= LanguageMemory
           /\ AskedFits => /\ limits.memory > MaxMemoryLimit => asked.memory * Kilo > MaxMemoryLimit
                          /\ limits.memory >= asked.memory * Kilo
  <1>1. /\ limits.time = AtLeast(TimeOf(asked.time), LanguageTime)
        /\ limits.wall = AtLeast(10, 3 * LanguageTime)
        /\ limits.memory = AtLeast(StoredBytes, LanguageMemory)
    BY DEF LimitsInv, Chain
  <1>2. limits.wall = 3 * LanguageTime /\ limits.wall <= MaxWallTimeLimit
    BY <1>1, LanguageFits DEF LimitsInv, AtLeast, MaxWallTimeLimit
  <1>3. limits.time > MaxCPUTimeLimit => asked.time > MaxCPUTimeLimit
    BY <1>1, LanguageFits DEF LimitsInv, AtLeast, TimeOf, MaxCPUTimeLimit
  <1>4. limits.time >= AtLeast(asked.time, LanguageTime)
    BY <1>1, LanguageFits DEF LimitsInv, AtLeast, TimeOf
  <1>5. limits.memory >= LanguageMemory
    BY <1>1, LanguageFits DEF LimitsInv, AtLeast
  <1>6. ASSUME AskedFits
        PROVE  /\ limits.memory > MaxMemoryLimit => asked.memory * Kilo > MaxMemoryLimit
               /\ limits.memory >= asked.memory * Kilo
    BY <1>1, <1>6, LanguageFits, MemoryAsked DEF LimitsInv, AtLeast
  <1>. QED
    BY <1>2, <1>3, <1>4, <1>5, <1>6

LEMMA StoreKeeps == ASSUME LimitsInv, StoreRequest PROVE LimitsInv'
  <1>1. MemoryOf(asked.memory) \in Int /\ TimeOf(asked.time) \in Int
    BY LanguageFits, Squares DEF LimitsInv, MemoryOf, TimeOf
  <1>2. limits' = [time |-> TimeOf(asked.time), wall |-> 10, memory |-> MemoryOf(asked.memory)]
    BY DEF StoreRequest, TimeOf, MemoryOf
  <1>. QED
    BY <1>1, <1>2 DEF StoreRequest, LimitsInv, LimitsTypeOK, Chain, LimitsAreGranted, TimeOf, MemoryOf

LEMMA BuildKeeps == ASSUME LimitsInv, BuildRequest PROVE LimitsInv'
  <1>1. limits' = [time   |-> AtLeast(TimeOf(asked.time), LanguageTime),
                   wall   |-> AtLeast(10, 3 * LanguageTime),
                   memory |-> AtLeast(StoredBytes, LanguageMemory)]
    BY DEF BuildRequest, LimitsInv, Chain, StoredBytes
  <1>2. /\ AtLeast(TimeOf(asked.time), LanguageTime) \in Int
        /\ AtLeast(10, 3 * LanguageTime) \in Int
        /\ AtLeast(StoredBytes, LanguageMemory) \in Int
    BY LanguageFits DEF LimitsInv, AtLeast, TimeOf
  <1>3. LimitsTypeOK'
    BY <1>1, <1>2 DEF BuildRequest, LimitsInv, LimitsTypeOK
  <1>4. Chain'
    <2>1. progress' = "built" /\ UNCHANGED <<language, asked>>
      BY DEF BuildRequest
    <2>2. (AtLeast(TimeOf(asked.time), LanguageTime))' = AtLeast(TimeOf(asked.time), LanguageTime)
      BY <2>1 DEF LanguageTime, TimeOf, AtLeast
    <2>3. StoredBytes' = StoredBytes /\ LanguageMemory' = LanguageMemory /\ LanguageTime' = LanguageTime
      BY <2>1 DEF StoredBytes, MemoryOf, LanguageMemory, LanguageTime
    <2>. QED
      BY <1>1, <2>1, <2>2, <2>3 DEF Chain, AtLeast
  <1>. QED
    BY <1>3, <1>4 DEF BuildRequest, LimitsInv, LimitsAreGranted

\* The last step ends in an answer; what it finds is what BuiltLimits says.
LEMMA CheckKeeps == ASSUME LimitsInv, CheckRequest PROVE LimitsInv'
  <1>1. UNCHANGED <<language, asked, limits>> /\ progress' \in {"refused", "granted"}
    BY DEF CheckRequest
  <1>2. progress = "built"
    BY DEF CheckRequest
  <1>3. /\ progress' = "refused" =>
              limits.time > MaxCPUTimeLimit \/ limits.memory > MaxMemoryLimit
        /\ progress' = "granted" => ~(limits.memory > MaxMemoryLimit)
    <2>1. ~(limits.wall > MaxWallTimeLimit)
      BY <1>2, BuiltLimits, LanguageFits DEF LimitsInv, MaxWallTimeLimit
    <2>. QED
      BY <2>1 DEF CheckRequest
  <1>4. ASSUME progress' = "refused"
        PROVE  asked.time > MaxCPUTimeLimit \/ asked.memory * Kilo > MaxMemoryLimit \/ ~AskedFits
    BY <1>2, <1>3, <1>4, BuiltLimits
  <1>5. ASSUME progress' = "granted"
        PROVE  /\ limits.memory \in LanguageMemory .. MaxMemoryLimit
               /\ AskedFits => limits.memory >= AtMost(asked.memory * Kilo, MaxMemoryLimit)
    <2>1. limits.memory <= MaxMemoryLimit
      BY <1>3, <1>5, LanguageFits DEF LimitsInv
    <2>. QED
      BY <1>2, <2>1, BuiltLimits, LanguageFits DEF LimitsInv, AtMost
  <1>6. LimitsAreGranted'
    <2>1. LanguageTime' = LanguageTime /\ LanguageMemory' = LanguageMemory /\ AskedFits' = AskedFits
      BY <1>1 DEF LanguageTime, LanguageMemory, AskedFits
    <2>. QED
      BY <1>1, <1>2, <1>4, <1>5, <2>1, BuiltLimits DEF LimitsAreGranted
  <1>. QED
    BY <1>1, <1>6 DEF LimitsInv, LimitsTypeOK, Chain

LEMMA ClampKeeps == ASSUME LimitsInv, ClampRequest PROVE LimitsInv'
  <1>1. UNCHANGED <<language, asked>> /\ progress = "built" /\ progress' = "granted"
    BY DEF ClampRequest
  <1>2. /\ limits'.time = limits.time
        /\ limits'.wall = AtMost(limits.wall, MaxWallTimeLimit)
        /\ limits'.memory = AtMost(limits.memory, MaxMemoryLimit)
        /\ limits' \in [time : Int, wall : Int, memory : Int]
    <2>1. limits' = [limits EXCEPT !.wall = AtMost(@, MaxWallTimeLimit),
                                   !.memory = AtMost(@, MaxMemoryLimit)]
      BY DEF ClampRequest
    <2>2. AtMost(limits.wall, MaxWallTimeLimit) \in Int /\ AtMost(limits.memory, MaxMemoryLimit) \in Int
      BY LanguageFits DEF LimitsInv, AtMost, MaxWallTimeLimit
    <2>. QED
      BY <2>1, <2>2 DEF LimitsInv, LimitsTypeOK
  <1>3. limits'.wall = 3 * LanguageTime /\ limits'.wall <= MaxWallTimeLimit
    BY <1>1, <1>2, BuiltLimits, LanguageFits DEF LimitsInv, AtMost, MaxWallTimeLimit
  <1>4. /\ limits'.memory \in LanguageMemory .. MaxMemoryLimit
        /\ AskedFits => limits'.memory >= AtMost(asked.memory * Kilo, MaxMemoryLimit)
    BY <1>1, <1>2, BuiltLimits, LanguageFits DEF LimitsInv, AtMost
  <1>5. LimitsAreGranted'
    <2>1. LanguageTime' = LanguageTime /\ LanguageMemory' = LanguageMemory /\ AskedFits' = AskedFits
      BY <1>1 DEF LanguageTime, LanguageMemory, AskedFits
    <2>. QED
      BY <1>1, <1>2, <1>3, <1>4, <2>1, BuiltLimits DEF LimitsAreGranted
  <1>. QED
    BY <1>1, <1>2, <1>5 DEF LimitsInv, LimitsTypeOK, Chain

LEMMA LimitsStepKeeps == ASSUME LimitsInv, [LimitsNext]_limitVars PROVE LimitsInv'
  <1>1. CASE UNCHANGED limitVars
    BY <1>1 DEF limitVars, LimitsInv, LimitsTypeOK, Chain, LimitsAreGranted, LanguageTime,
       LanguageMemory, StoredBytes, AskedFits
  <1>. QED
    BY <1>1, StoreKeeps, BuildKeeps, CheckKeeps, ClampKeeps DEF LimitsNext

\* For every request and every language of the table, a request is refused only
\* for more than a maximum or for bytes that wrap; what is granted is within the
\* maximums and no less than the language needs, nor than was asked for where that
\* fits; and the wall time is the language's, whatever was asked for.
THEOREM LimitsGranted == LimitsSpec => [](LimitsTypeOK /\ LimitsAreGranted)
  <1>1. LimitsInv => LimitsTypeOK /\ LimitsAreGranted
    BY DEF LimitsInv
  <1>2. LimitsSpec => []LimitsInv
    BY LimitsInitHolds, LimitsStepKeeps, PTL DEF LimitsSpec
  <1>. QED
    BY <1>1, <1>2, PTL

-----------------------------------------------------------------------------
(* The parts together, as they run in one instance                         *)

\* A step of the node is a step of the part in focus, and none of the others.
LEMMA NodeStep ==
    ASSUME [NodeNext]_nodeVars
    PROVE  /\ focus' = focus
           /\ [NatsNext]_natsVars /\ [PoolNext]_poolVars
           /\ [ImageNext]_imageVars /\ [OutputNext]_outputVars
           /\ IF focus = "database" THEN [DatabaseNext]_runVars /\ stage' = stage
                                    ELSE [SandboxNext]_sandboxVars
           /\ IF focus = "limits" THEN [LimitsNext]_limitVars ELSE UNCHANGED limitVars
  BY DEF NodeNext, nodeVars, sandboxVars

\* Every behaviour of the instance is, for the queue, the pool, the images and
\* the output, one of their specifications.
THEOREM NodeHasParts == NodeSpec => NatsSpec /\ PoolSpec /\ ImageSpec /\ OutputSpec
  <1>1. NodeInit => NatsInit /\ PoolInit /\ ImageInit /\ OutputInit
    BY Zenon DEF NodeInit
  <1>. QED
    BY <1>1, NodeStep, PTL DEF NodeSpec, NatsSpec, PoolSpec, ImageSpec, OutputSpec

\* The variables of an execution are those of the sandbox or of the database
\* runtime, and the limits are as the client asked unless they are in focus.
ExecutionInv ==
    /\ focus \in Parts
    /\ focus = "database" => DInv /\ stage = "run"
    /\ focus # "database" => SandboxInv
    /\ focus = "limits" => LimitsInv
    /\ focus # "limits" => /\ language = <<"C", 5, 256>> /\ asked = [time |-> 0, wall |-> 0, memory |-> 0]
                           /\ limits = [time |-> 0, wall |-> 0, memory |-> 0]
                           /\ progress = "asked"

LEMMA ExecutionInitHolds == ASSUME NodeInit PROVE ExecutionInv
  <1>1. focus \in Parts
    BY Zenon DEF NodeInit
  <1>2. focus = "database" => DInv /\ stage = "run"
    BY Zenon, DatabaseInitHolds DEF NodeInit
  <1>3. focus # "database" => SandboxInv
    BY Zenon, SandboxInitHolds DEF NodeInit
  <1>4. focus = "limits" => LimitsInv
    BY Zenon, LimitsInitHolds DEF NodeInit
  <1>5. focus # "limits" => /\ language = <<"C", 5, 256>> /\ asked = [time |-> 0, wall |-> 0, memory |-> 0]
                            /\ limits = [time |-> 0, wall |-> 0, memory |-> 0]
                            /\ progress = "asked"
    BY DEF NodeInit
  <1>. QED
    BY <1>1, <1>2, <1>3, <1>4, <1>5 DEF ExecutionInv

LEMMA ExecutionStepKeeps == ASSUME ExecutionInv, [NodeNext]_nodeVars PROVE ExecutionInv'
  <1>1. focus' = focus
    BY NodeStep
  <1>2. focus = "database" => DInv' /\ stage' = "run"
    BY NodeStep, DatabaseStepKeeps DEF ExecutionInv
  <1>3. focus # "database" => SandboxInv'
    BY NodeStep, SandboxStepKeeps DEF ExecutionInv
  <1>4. focus = "limits" => LimitsInv'
    BY NodeStep, LimitsStepKeeps DEF ExecutionInv
  <1>5. focus # "limits" => UNCHANGED limitVars
    BY NodeStep
  <1>. QED
    BY <1>1, <1>2, <1>3, <1>4, <1>5 DEF ExecutionInv, limitVars

LEMMA ExecutionInductive == NodeSpec => []ExecutionInv
  BY ExecutionInitHolds, ExecutionStepKeeps, PTL DEF NodeSpec

\* Every variable of the node keeps its type; a client that leaves a limit out
\* asks for zero.
THEOREM NodeTypeCorrect ==
    ASSUME 0 \in AskedTimes, 0 \in AskedWalls, 0 \in AskedKB
    PROVE  NodeSpec => []NodeTypeOK
  <1>1. ExecutionInv => focus \in Parts /\ SandboxTypeOK
    BY DEF ExecutionInv, DInv, SandboxInv, SandboxTypeOK
  <1>2. ExecutionInv => LimitsTypeOK
    <2>1. <<"C", 5, 256>> \in Languages
      BY DEF Languages, FirstLanguages
    <2>2. LimitsInv => LimitsTypeOK
      BY DEF LimitsInv
    <2>. QED
      BY <2>1, <2>2 DEF ExecutionInv, LimitsTypeOK, RequestedLimits
  <1>3. ImageInv => ImageTypeOK
    BY DEF ImageInv
  <1>4. ImageSpec => []ImageTypeOK
    BY <1>3, ImageInitHolds, ImageStepKeeps, PTL DEF ImageSpec
  <1>5. /\ ExecutionInv
        /\ NatsTypeOK /\ PoolTypeOK /\ ImageTypeOK
        /\ OutputTypeOK
        => NodeTypeOK
    BY Zenon, <1>1, <1>2 DEF NodeTypeOK
  <1>. QED
    BY <1>4, <1>5, ExecutionInductive, NodeHasParts, NatsTypeCorrect, PoolTypeCorrect, OutputKept, PTL

\* What is proved of the parts, of the node: jobs are accounted for and pools
\* wait for theirs, an execution is answered truly and leaves nothing behind,
\* images are there, output is kept, and limits are granted.
THEOREM NodeIsSafe ==
    NodeSpec => /\ [](JobIsAccountedFor /\ QueuedHasAJob /\ StopWaitsForJobs)
                /\ [](NothingIsLeft /\ VerdictIsEarned /\ ScriptVerdictIsEarned)
                /\ [](EnsuredIsLocal /\ OutputIsKept /\ LimitsAreGranted)
  <1>1. ExecutionInv => NothingIsLeft
    BY DEF ExecutionInv, DInv, SandboxInv, NothingIsLeft, BoxPlace, StrandedPlace, DirectoryPlace
  <1>2. ExecutionInv => VerdictIsEarned /\ ScriptVerdictIsEarned
    <2>1. CASE focus = "database"
      BY <2>1 DEF ExecutionInv, DInv, VerdictIsEarned
    <2>2. CASE focus # "database"
      BY <2>2 DEF ExecutionInv, SandboxInv, ScriptVerdictIsEarned
    <2>. QED
      BY <2>1, <2>2
  <1>3. ExecutionInv => LimitsAreGranted
    <2>1. CASE focus = "limits"
      BY <2>1 DEF ExecutionInv, LimitsInv
    <2>2. CASE focus # "limits"
      BY <2>2 DEF ExecutionInv, LimitsAreGranted
    <2>. QED
      BY <2>1, <2>2
  <1>. QED
    BY <1>1, <1>2, <1>3, ExecutionInductive, NodeHasParts, JobAccountedFor, QueuedHasItsJob,
       StopWaits, EnsuredCanBeUsed, OutputKept, PTL

=============================================================================
