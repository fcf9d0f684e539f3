--------------------------- MODULE GatewayProofs ---------------------------
(***************************************************************************)
(* What the api-gateway shows its users, for any number of requests, jobs  *)
(* and failures: a result that is served was recorded and stays, languages *)
(* that were changed are seen, a client's budget is its own, a window      *)
(* admits no more than its limit, and whoever waits leaves no goroutine    *)
(* that cannot end.                                                        *)
(*                                                                         *)
(* The first needs every place that a status passes through on its way to  *)
(* the cache (Backing), and that the entry is the only source of what a    *)
(* reader sees (SeenFromCache). The languages need that no job asks while  *)
(* a refresh runs (NobodyAsks), and that after a change no entry is older  *)
(* than it (Settled). The window needs that stamps stay (StampsStay).      *)
(*                                                                         *)
(* The last part shows that every behaviour of the instance in MCGateway   *)
(* is, for each of its parts, a behaviour of the part's own specification. *)
(***************************************************************************)
EXTENDS MCGateway, BulkSweepProofs

-----------------------------------------------------------------------------
(* Results                                                                 *)

\* Nothing has happened before the submission exists.
Untouched ==
    creator = "creating" =>
        /\ row = "none" /\ entry = "none" /\ listed = "none" /\ latest = "none"
        /\ published = FALSE
        /\ \A a \in Attempts : attempt[a] = "idle"
        /\ \A r \in Readers : reader[r] = "idle" /\ copy[r] = "none"

\* If x is a result, it is in the row, was there, or could not be written.
Backed(x) == x \in SubResults => x \in stored \cup unrecorded

\* Whatever may go to the cache or to a user is backed.
Backing ==
    /\ row \in Statuses => row \in stored
    /\ Backed(entry) /\ Backed(listed) /\ Backed(latest)
    /\ \A r \in Readers : Backed(copy[r])
    /\ \A a \in Attempts : attempt[a] = "caching" => Backed(outcome[a])

SubInv == SubTypeOK /\ Untouched /\ Backing

LEMMA SubInitHolds == ASSUME SubInit PROVE SubInv
  <1>0. subFailures \in 0..MaxSubFailures
    BY SubAssumption DEF SubInit
  <1>1. published \in BOOLEAN /\ expired \in BOOLEAN
    BY Zenon DEF SubInit
  <1>2. /\ attempt \in [Attempts -> AttemptPC] /\ outcome \in [Attempts -> SubResults \cup {"none"}]
        /\ reader \in [Readers -> {"idle", "reading", "filling"}]
        /\ copy \in [Readers -> Statuses \cup {"none"}]
        /\ \A a \in Attempts : attempt[a] = "idle"
        /\ \A r \in Readers : reader[r] = "idle" /\ copy[r] = "none"
    BY DEF SubInit, AttemptPC
  <1>3. SubTypeOK
    BY <1>0, <1>1, <1>2 DEF SubInit, SubTypeOK
  <1>4. Untouched
    BY <1>2 DEF SubInit, Untouched
  <1>5. Backing
    BY <1>2 DEF SubInit, Backing, Backed, SubResults, Statuses
  <1>. QED
    BY <1>3, <1>4, <1>5 DEF SubInv

USE DEF SubInv, Untouched, Backing, Backed, SubResults, Statuses, AttemptPC

\* A failure is counted within its bound.
LEMMA SubFailuresBounded ==
    ASSUME subFailures \in 0..MaxSubFailures, SubWorks \/ (\E k : SubFails(k))
    PROVE  subFailures' \in 0..MaxSubFailures
  BY SubAssumption DEF SubWorks, SubFails

\* An update of the row leaves it backed, and takes back nothing.
LEMMA StoreKeeps ==
    ASSUME SubInv, NEW s \in Statuses, Store(s)
    PROVE  /\ row' \in Statuses \cup {"none", "deleted"}
           /\ stored' \subseteq Statuses /\ unrecorded' \subseteq SubResults
           /\ stored \subseteq stored' /\ unrecorded \subseteq unrecorded'
           /\ row' \in Statuses => row' \in stored'
           /\ row \notin Statuses => row' = row
           /\ s \in SubResults => s \in stored' \cup unrecorded'
  BY ZenonT(30) DEF Store, SubTypeOK

\* The cached answer stays one that is backed.
LEMMA SetEntryKeeps ==
    ASSUME SubInv, NEW s \in Statuses \cup {"none"}, Backed(s), SetEntry(s)
    PROVE  /\ entry' \in Statuses \cup {"none"}
           /\ entry' = s \/ entry' = entry
           /\ subFailures' \in 0..MaxSubFailures
  <1>1. SubWorks \/ SubFails("redis")
    BY DEF SetEntry
  <1>2. subFailures' \in 0..MaxSubFailures
    BY <1>1, SubFailuresBounded DEF SubTypeOK
  <1>. QED
    BY <1>2 DEF SetEntry, SubTypeOK

\* Who makes the submission keeps the invariant.
LEMMA CreatorKeeps == ASSUME SubInv, CreatorStep \/ DeleteSubmission PROVE SubInv'
  <1>. USE DEF SubTypeOK, tableVars, creatorVars, workerVars, readerVars
  <1>1. CASE CreateRow
    <2>1. subFailures' \in 0..MaxSubFailures
      BY <1>1, SubFailuresBounded DEF CreateRow
    <2>. QED
      BY <1>1, <2>1 DEF CreateRow
  <1>2. CASE ListForFanOut
    <2>1. subFailures' \in 0..MaxSubFailures
      BY <1>2, SubFailuresBounded DEF ListForFanOut
    <2>. QED
      BY <1>2, <2>1 DEF ListForFanOut
  <1>3. CASE SeedEntry
    <2>1. /\ entry' \in Statuses \cup {"none"} /\ entry' \in {listed, entry}
          /\ subFailures' \in 0..MaxSubFailures
      BY <1>3, SetEntryKeeps DEF SeedEntry
    <2>. QED
      BY <1>3, <2>1 DEF SeedEntry
  <1>4. CASE PublishJob
    <2>1. subFailures' \in 0..MaxSubFailures
      BY <1>4, SubFailuresBounded DEF PublishJob
    <2>2. published' \in BOOLEAN
      BY <1>4 DEF PublishJob
    <2>3. creator' \in {"idle", "pending"}
      BY <1>4 DEF PublishJob
    <2>. QED
      BY <1>4, <2>1, <2>2, <2>3 DEF PublishJob
  <1>5. CASE CreatorDies
    <2>1. subFailures' \in 0..MaxSubFailures
      BY <1>5, SubFailuresBounded DEF CreatorDies
    <2>. QED
      BY <1>5, <2>1 DEF CreatorDies
  <1>6. CASE DeleteSubmission
    <2>1. /\ entry' \in Statuses \cup {"none"} /\ entry' \in {"none", entry}
          /\ subFailures' \in 0..MaxSubFailures
      BY <1>6, SetEntryKeeps DEF DeleteSubmission
    <2>. QED
      BY <1>6, <2>1 DEF DeleteSubmission, Issued
  <1>. QED
    BY <1>1, <1>2, <1>3, <1>4, <1>5, <1>6 DEF CreatorStep

\* So does the drainer, and an answer that expires.
LEMMA BackgroundKeeps == ASSUME SubInv, DrainIntoRow \/ Expire PROVE SubInv'
  <1>. USE DEF SubTypeOK, tableVars, creatorVars, workerVars, readerVars
  <1>1. subFailures' \in 0..MaxSubFailures
    BY SubFailuresBounded DEF DrainIntoRow, Expire
  <1>2. CASE DrainIntoRow
    BY <1>1, <1>2, StoreKeeps DEF DrainIntoRow
  <1>3. CASE Expire
    BY <1>1, <1>3 DEF Expire
  <1>. QED
    BY <1>2, <1>3

\* So does a worker, at each step of a job.
LEMMA AttemptKeeps ==
    ASSUME SubInv, NEW a \in Attempts, AttemptRuns(a) \/ WorkerDies(a)
    PROVE  SubInv'
  <1>. USE DEF SubTypeOK, tableVars, creatorVars, workerVars, readerVars, Goes
  <1>1. CASE MarkRow(a)
    <2>1. subFailures' \in 0..MaxSubFailures
      BY <1>1, SubFailuresBounded DEF MarkRow
    <2>2. CASE Store("Processing")
      BY <1>1, <2>1, <2>2, StoreKeeps DEF MarkRow
    <2>3. CASE UNCHANGED tableVars
      BY <1>1, <2>1, <2>3 DEF MarkRow
    <2>. QED
      BY <1>1, <2>2, <2>3 DEF MarkRow
  <1>2. CASE Announce(a)
    <2>1. /\ entry' \in Statuses \cup {"none"} /\ entry' \in {"Processing", entry}
          /\ subFailures' \in 0..MaxSubFailures
      BY <1>2, SetEntryKeeps DEF Announce
    <2>. QED
      BY <1>2, <2>1 DEF Announce
  <1>3. CASE RunJob(a)
    <2>1. subFailures' \in 0..MaxSubFailures
      BY <1>3, SubFailuresBounded DEF RunJob
    <2>. QED
      BY <1>3, <2>1 DEF RunJob
  <1>4. CASE PersistRow(a)
    <2>1. subFailures' \in 0..MaxSubFailures
      BY <1>4, SubFailuresBounded DEF PersistRow
    <2>2. outcome[a] \in SubResults
      BY <1>4 DEF PersistRow
    <2>3. /\ attempt[a] = "persisting" /\ attempt' = [attempt EXCEPT ![a] = "caching"]
          /\ UNCHANGED <<entry, creatorVars, outcome, readerVars, expired>>
      BY <1>4 DEF PersistRow
    <2>4. /\ row' \in Statuses \cup {"none", "deleted"}
          /\ stored' \subseteq Statuses /\ unrecorded' \subseteq SubResults
          /\ stored \subseteq stored' /\ unrecorded \subseteq unrecorded'
          /\ row' \in Statuses => row' \in stored'
          /\ row \notin Statuses => row' = row
          /\ outcome[a] \in stored' \cup unrecorded'
      <3>1. CASE Store(outcome[a])
        BY <2>2, <3>1, StoreKeeps
      <3>2. CASE unrecorded' = unrecorded \cup {outcome[a]} /\ UNCHANGED <<row, stored>>
        BY <2>2, <3>2
      <3>. QED
        BY <1>4, <3>1, <3>2 DEF PersistRow
    <2>5. SubTypeOK'
      BY <2>1, <2>2, <2>3, <2>4
    <2>6. Untouched'
      BY <2>3, <2>4
    <2>7. Backing'
      BY <2>2, <2>3, <2>4
    <2>. QED
      BY <2>5, <2>6, <2>7
  <1>5. CASE CacheResult(a)
    <2>1. outcome[a] \in SubResults /\ Backed(outcome[a])
      BY <1>5 DEF CacheResult
    <2>2. /\ entry' \in Statuses \cup {"none"} /\ entry' \in {outcome[a], entry}
          /\ subFailures' \in 0..MaxSubFailures
      BY <1>5, <2>1, SetEntryKeeps DEF CacheResult
    <2>. QED
      BY <1>5, <2>1, <2>2 DEF CacheResult
  <1>6. CASE WorkerDies(a)
    <2>1. subFailures' \in 0..MaxSubFailures
      BY <1>6, SubFailuresBounded DEF WorkerDies
    <2>. QED
      BY <1>6, <2>1 DEF WorkerDies
  <1>. QED
    BY <1>1, <1>2, <1>3, <1>4, <1>5, <1>6 DEF AttemptRuns

\* So does a GET request.
LEMMA ReaderKeeps == ASSUME SubInv, NEW r \in Readers, ReaderStep(r) PROVE SubInv'
  <1>. USE DEF SubTypeOK, tableVars, creatorVars, workerVars, readerVars, Issued
  <1>1. CASE Hit(r)
    <2>1. subFailures' \in 0..MaxSubFailures
      BY <1>1, SubFailuresBounded DEF Hit
    <2>. QED
      BY <1>1, <2>1 DEF Hit
  <1>2. CASE Miss(r)
    <2>1. subFailures' \in 0..MaxSubFailures
      BY <1>2, SubFailuresBounded DEF Miss
    <2>. QED
      BY <1>2, <2>1 DEF Miss
  <1>3. CASE ReadRow(r)
    <2>1. subFailures' \in 0..MaxSubFailures
      BY <1>3, SubFailuresBounded DEF ReadRow
    <2>. QED
      BY <1>3, <2>1 DEF ReadRow
  <1>4. CASE FillEntry(r)
    <2>1. copy[r] \in Statuses \cup {"none"} /\ Backed(copy[r])
      OBVIOUS
    <2>2. /\ entry' \in Statuses \cup {"none"} /\ entry' \in {copy[r], entry}
          /\ subFailures' \in 0..MaxSubFailures
      BY <1>4, <2>1, SetEntryKeeps DEF FillEntry
    <2>. QED
      BY <1>4, <2>1, <2>2 DEF FillEntry
  <1>. QED
    BY <1>1, <1>2, <1>3, <1>4 DEF ReaderStep

LEMMA SubStepKeeps == ASSUME SubInv, [SubNext]_subVars PROVE SubInv'
  <1>1. CASE UNCHANGED subVars
    BY <1>1 DEF subVars, SubTypeOK
  <1>2. CASE SubNext
    BY <1>2, CreatorKeeps, BackgroundKeeps, AttemptKeeps, ReaderKeeps DEF SubNext
  <1>. QED
    BY <1>1, <1>2

LEMMA SubInvImplies == ASSUME SubInv PROVE SubTypeOK /\ ResultIsRecorded
  BY DEF ResultIsRecorded

HIDE DEF SubInv, Untouched, Backing, Backed, SubResults, Statuses, AttemptPC

\* Every variable of SubmissionStore keeps its type, whatever fails.
THEOREM SubmissionTypeCorrect == SubSpec => []SubTypeOK
  <1>1. SubSpec => []SubInv
    BY SubInitHolds, SubStepKeeps, PTL DEF SubSpec
  <1>. QED
    BY <1>1, SubInvImplies, PTL

\* No result is served that the row did not hold, unless its write failed, for
\* any number of deliveries, readers and failures.
THEOREM ServedIsRecorded == SubSpec => []ResultIsRecorded
  <1>1. SubSpec => []SubInv
    BY SubInitHolds, SubStepKeeps, PTL DEF SubSpec
  <1>. QED
    BY <1>1, SubInvImplies, PTL

-----------------------------------------------------------------------------
(* What a user sees of a single submission                                 *)

\* The deliveries that began, and what holds while nothing disturbs them:
\* every GET finds an answer in the cache, so that none has an older row in
\* hand, and the cache has a result only when the delivery is over.
Started == {a \in Attempts : attempt[a] # "idle"}
SeenFromCache ==
    /\ \A r \in Readers : reader[r] = "idle"
    /\ creator # "pending"
    /\ creator = "seeding" => listed = "InQueue"
    /\ creator \in {"publishing", "idle"} => entry # "none"
    /\ creator # "idle" => latest = "none" /\ published = FALSE /\ Started = {}
    /\ latest \in SubResults => entry \in SubResults
    /\ entry \in SubResults => \E a \in Attempts : attempt[a] = "over"

QuietInv == IsFiniteSet(Started) /\ (Undisturbed => SeenFromCache)

\* A set of at most one element has no two.
LEMMA AtMostOne ==
    ASSUME NEW S, IsFiniteSet(S), Cardinality(S) <= 1, NEW x \in S, NEW y \in S
    PROVE  x = y
  <1>. SUFFICES ASSUME x # y PROVE FALSE
    OBVIOUS
  <1>1. IsFiniteSet({x}) /\ Cardinality({x}) = 1
    BY FS_Singleton
  <1>2. Cardinality({x} \cup {y}) = 2 /\ {x} \cup {y} \in SUBSET S
    <2>1. y \notin {x}
      OBVIOUS
    <2>2. Cardinality({x} \cup {y}) = Cardinality({x}) + 1
      BY <1>1, <2>1, FS_AddElement, Zenon
    <2>3. {x} \cup {y} \in SUBSET S
      OBVIOUS
    <2>. QED
      BY <1>1, <2>2, <2>3
  <1>3. 2 <= Cardinality(S) /\ Cardinality(S) \in Nat
    BY <1>2, FS_Subset, FS_CardinalityType
  <1>. QED
    BY <1>3

\* What a step does to the deliveries: it begins one, or goes on with one.
LEMMA StartedStep ==
    ASSUME SubTypeOK, [SubNext]_subVars
    PROVE  Started \subseteq Started' /\ \E a : Started' \subseteq Started \cup {a}
  <1>. USE DEF SubTypeOK, Started, AttemptPC, workerVars, Goes
  <1>1. CASE UNCHANGED attempt
    BY <1>1
  <1>2. ASSUME NEW a \in Attempts, AttemptRuns(a) \/ WorkerDies(a)
        PROVE  Started \subseteq Started' /\ Started' \subseteq Started \cup {a}
    <2>1. \E pc \in AttemptPC \ {"idle"} : attempt' = [attempt EXCEPT ![a] = pc]
      BY <1>2 DEF AttemptRuns, MarkRow, Announce, RunJob, PersistRow, CacheResult, WorkerDies
    <2>. QED
      BY <2>1
  <1>3. CASE CreatorStep \/ DeleteSubmission \/ DrainIntoRow \/ Expire
    BY <1>1, <1>3, Zenon DEF CreatorStep, CreateRow, ListForFanOut, SeedEntry, PublishJob,
       CreatorDies, DeleteSubmission, DrainIntoRow, Expire
  <1>4. ASSUME NEW r \in Readers, ReaderStep(r) PROVE UNCHANGED attempt
    BY <1>4, Zenon DEF ReaderStep, Hit, Miss, ReadRow, FillEntry
  <1>5. CASE UNCHANGED subVars
    BY <1>1, <1>5, Zenon DEF subVars
  <1>. QED
    BY <1>1, <1>2, <1>3, <1>4, <1>5 DEF SubNext

\* No step of the submission takes back a disturbance.
LEMMA DisturbanceStays ==
    ASSUME SubInv, [SubNext]_subVars
    PROVE  /\ origin' = origin
           /\ subFailures' = subFailures \/ \E k : SubFails(k)
           /\ expired' = FALSE => expired = FALSE /\ ~Expire
           /\ row = "deleted" => row' = "deleted"
  <1>. USE DEF tableVars, creatorVars, workerVars, readerVars, SubWorks, SetEntry
  <1>1. origin' = origin
    BY Zenon DEF SubNext, CreatorStep, CreateRow, ListForFanOut, SeedEntry, PublishJob,
       CreatorDies, DeleteSubmission, DrainIntoRow, Expire, AttemptRuns, MarkRow, Announce,
       RunJob, PersistRow, CacheResult, WorkerDies, ReaderStep, Hit, Miss, ReadRow, FillEntry,
       subVars
  <1>2. subFailures' = subFailures \/ \E k : SubFails(k)
    BY Zenon DEF SubNext, CreatorStep, CreateRow, ListForFanOut, SeedEntry, PublishJob,
       CreatorDies, DeleteSubmission, DrainIntoRow, Expire, AttemptRuns, MarkRow, Announce,
       RunJob, PersistRow, CacheResult, WorkerDies, ReaderStep, Hit, Miss, ReadRow, FillEntry,
       subVars
  <1>3. expired' = expired \/ (expired' = TRUE /\ Expire)
    BY Zenon DEF SubNext, CreatorStep, CreateRow, ListForFanOut, SeedEntry, PublishJob,
       CreatorDies, DeleteSubmission, DrainIntoRow, Expire, AttemptRuns, MarkRow, Announce,
       RunJob, PersistRow, CacheResult, WorkerDies, ReaderStep, Hit, Miss, ReadRow, FillEntry,
       subVars
  <1>4. expired' = FALSE => expired = FALSE /\ ~Expire
    BY <1>3, Zenon DEF Expire
  <1>5. row' \in {row, "deleted"} \/ CreateRow \/ \E s : Store(s)
    <2>1. row' = row \/ row' = "deleted" \/ CreateRow \/ \E s : Store(s)
      BY Zenon DEF SubNext, CreatorStep, ListForFanOut, SeedEntry, PublishJob,
         CreatorDies, DeleteSubmission, DrainIntoRow, Expire, AttemptRuns, MarkRow, Announce,
         RunJob, PersistRow, CacheResult, WorkerDies, ReaderStep, Hit, Miss, ReadRow, FillEntry,
         subVars
    <2>. QED
      BY <2>1
  <1>6. row = "deleted" => row' = "deleted"
    BY <1>5 DEF CreateRow, Store, SubInv, Untouched, Statuses, SubResults
  <1>. QED
    BY <1>1, <1>2, <1>4, <1>6

\* So what is undisturbed after a step was so before, and nothing fails in it.
LEMMA UndisturbedBefore ==
    ASSUME SubInv, IsFiniteSet(Started), [SubNext]_subVars
    PROVE  /\ IsFiniteSet(Started)'
           /\ Undisturbed' => /\ Undisturbed
                              /\ \A k : ~SubFails(k)
                              /\ ~Expire /\ ~DeleteSubmission
                              /\ \A a, b \in Started' : a = b
  <1>1. SubTypeOK
    BY Zenon DEF SubInv
  <1>2. Started \subseteq Started' /\ IsFiniteSet(Started')
    <2>1. PICK a : Started' \subseteq Started \cup {a}
      BY <1>1, StartedStep
    <2>2. IsFiniteSet(Started \cup {a})
      BY FS_AddElement
    <2>. QED
      BY <1>1, <2>1, <2>2, StartedStep, FS_Subset
  <1>3. ASSUME Undisturbed'
        PROVE  /\ Undisturbed /\ (\A k : ~SubFails(k)) /\ ~Expire /\ ~DeleteSubmission
               /\ \A a, b \in Started' : a = b
    <2>1. /\ origin' = "api" /\ subFailures' = 0 /\ row' # "deleted"
          /\ Cardinality(Started') <= 1
      BY <1>3, Zenon DEF Undisturbed, Started
    <2>2. expired' = FALSE
      <3>1. expired' \in BOOLEAN
        BY <1>1, SubStepKeeps, Zenon DEF SubInv, SubTypeOK
      <3>. QED
        BY <1>3, <3>1, Zenon DEF Undisturbed
    <2>3. subFailures = 0 /\ \A k : ~SubFails(k)
      <3>1. subFailures \in Nat
        BY <1>1, SubAssumption DEF SubTypeOK
      <3>2. subFailures' = subFailures \/ \E k : SubFails(k)
        BY DisturbanceStays, Zenon
      <3>3. \A k : ~SubFails(k)
        BY <2>1, <3>1 DEF SubFails
      <3>. QED
        BY <2>1, <3>2, <3>3
    <2>4. expired = FALSE /\ ~Expire /\ origin = "api" /\ row # "deleted"
      BY <2>1, <2>2, DisturbanceStays, Zenon
    <2>5. Cardinality(Started) <= 1
      <3>1. /\ Cardinality(Started) \in Nat /\ Cardinality(Started') \in Nat
            /\ Cardinality(Started) <= Cardinality(Started')
        BY <1>2, FS_Subset, FS_CardinalityType
      <3>. QED
        BY <2>1, <3>1
    <2>6. Undisturbed
      BY <2>3, <2>4, <2>5, Zenon DEF Undisturbed, Started
    <2>7. \A a, b \in Started' : a = b
      BY <1>2, <2>1, AtMostOne
    <2>. QED
      BY <2>1, <2>3, <2>4, <2>6, <2>7 DEF DeleteSubmission
  <1>. QED
    BY <1>2, <1>3

\* The answer that a user gets, and the cache, at each step that is left.
LEMMA SeenStep ==
    ASSUME SubTypeOK, SeenFromCache, SubNext, origin = "api", row # "deleted",
           \A k : ~SubFails(k), ~Expire, ~DeleteSubmission,
           Started \subseteq Started', \A a, b \in Started' : a = b
    PROVE  SeenFromCache' /\ (latest' = latest \/ latest' = entry)
  <1>. USE DEF SubTypeOK, SeenFromCache, tableVars, creatorVars, workerVars, readerVars, SubWorks
  <1>0. \A s : SetEntry(s) => entry' = s
    BY DEF SetEntry
  <1>1. CASE CreateRow
    BY <1>1 DEF CreateRow, Started
  <1>2. CASE SeedEntry
    BY <1>0, <1>2 DEF SeedEntry, Started, SubResults
  <1>3. CASE PublishJob
    BY <1>3 DEF PublishJob, Started
  <1>4. CASE DrainIntoRow
    BY <1>4 DEF DrainIntoRow, Started
  <1>5. ASSUME NEW a \in Attempts, AttemptRuns(a) \/ WorkerDies(a)
        PROVE  SeenFromCache' /\ latest' = latest
    <2>1. a \in Started'
      BY <1>5 DEF AttemptRuns, MarkRow, Announce, RunJob, PersistRow, CacheResult, WorkerDies,
         Goes, Started
    <2>2. \A b \in Attempts : b # a => attempt[b] = "idle" /\ attempt'[b] = "idle"
      BY <2>1 DEF Started
    <2>3. creator = "idle" /\ UNCHANGED <<creator, listed, published, reader, latest>>
      BY <1>5 DEF AttemptRuns, MarkRow, Announce, RunJob, PersistRow, CacheResult, WorkerDies,
         Goes, Started
    <2>4. CASE MarkRow(a) \/ RunJob(a) \/ PersistRow(a)
      <3>1. entry' = entry /\ attempt[a] # "over"
        BY <2>4 DEF MarkRow, RunJob, PersistRow, Goes
      <3>. QED
        BY <2>2, <2>3, <3>1 DEF SubResults
    <2>5. CASE Announce(a)
      <3>1. entry' = "Processing" /\ attempt[a] # "over"
        BY <1>0, <2>5 DEF Announce, Goes
      <3>. QED
        BY <2>2, <2>3, <3>1 DEF SubResults
    <2>6. CASE CacheResult(a)
      <3>1. entry' = outcome[a] /\ outcome[a] \in SubResults /\ attempt'[a] = "over"
        BY <1>0, <2>6 DEF CacheResult, Goes
      <3>. QED
        BY <2>2, <2>3, <3>1 DEF SubResults
    <2>. QED
      BY <1>5, <2>4, <2>5, <2>6 DEF AttemptRuns, WorkerDies
  <1>6. ASSUME NEW r \in Readers, ReaderStep(r)
        PROVE  SeenFromCache' /\ (latest' = latest \/ latest' = entry)
    <2>1. Hit(r)
      BY <1>6 DEF ReaderStep, Miss, ReadRow, FillEntry, Issued
    <2>. QED
      BY <2>1 DEF Hit, Started, Issued
  <1>7. ~CreatorDies /\ ~ListForFanOut
    BY DEF CreatorDies, ListForFanOut
  <1>. QED
    BY <1>1, <1>2, <1>3, <1>4, <1>5, <1>6, <1>7 DEF SubNext, CreatorStep

LEMMA QuietStep ==
    ASSUME SubInv, QuietInv, [SubNext]_subVars
    PROVE  /\ QuietInv'
           /\ Undisturbed' /\ latest \in SubResults /\ latest' # latest => latest' \in SubResults
  <1>1. SubTypeOK
    BY Zenon DEF SubInv
  <1>2. CASE UNCHANGED subVars
    BY <1>2 DEF subVars, QuietInv, Started, Undisturbed, SeenFromCache
  <1>3. CASE SubNext
    <2>1. /\ IsFiniteSet(Started)'
          /\ Undisturbed' => /\ Undisturbed
                             /\ \A k : ~SubFails(k)
                             /\ ~Expire /\ ~DeleteSubmission
                             /\ \A a, b \in Started' : a = b
      BY UndisturbedBefore, Zenon DEF QuietInv
    <2>2. ASSUME Undisturbed' PROVE SeenFromCache' /\ (latest' = latest \/ latest' = entry)
      <3>1. SeenFromCache /\ origin = "api" /\ row # "deleted"
        BY <2>1, <2>2, Zenon DEF QuietInv, Undisturbed
      <3>2. Started \subseteq Started'
        BY <1>1, StartedStep
      <3>. QED
        BY <1>1, <1>3, <2>1, <2>2, <3>1, <3>2, SeenStep
    <2>3. Undisturbed' /\ latest \in SubResults => entry \in SubResults
      BY <2>1, Zenon DEF QuietInv, SeenFromCache
    <2>. QED
      BY <2>1, <2>2, <2>3, Zenon DEF QuietInv
  <1>. QED
    BY <1>2, <1>3

LEMMA QuietInit == SubInit => QuietInv
  <1>. SUFFICES ASSUME SubInit PROVE QuietInv
    OBVIOUS
  <1>1. Started = {}
    BY DEF SubInit, Started
  <1>2. SeenFromCache
    BY <1>1 DEF SubInit, SeenFromCache, SubResults
  <1>. QED
    BY <1>1, <1>2, FS_EmptySet DEF QuietInv

\* Whoever polls a single submission never sees its result go away again, as
\* long as nothing fails or expires and its job is delivered once, for any
\* number of requests (CreateSubmission seeds the cache before it publishes).
THEOREM ResultsStay == SubSpec => ReadsNeverGoBack
  <1>1. SubSpec => []SubInv
    BY SubInitHolds, SubStepKeeps, PTL DEF SubSpec
  <1>2. SubInv /\ QuietInv /\ [SubNext]_subVars => QuietInv'
    BY QuietStep
  <1>3. SubInv /\ QuietInv /\ [SubNext]_subVars
          => [Undisturbed' /\ latest \in SubResults /\ latest' # latest
                  => latest' \in SubResults]_subVars
    BY QuietStep
  <1>. QED
    BY <1>1, <1>2, <1>3, QuietInit, PTL DEF SubSpec, ReadsNeverGoBack

-----------------------------------------------------------------------------
(* A worker's languages                                                    *)

\* No job asks for the language while a refresh runs, and none after one that
\* succeeded; what such a refresh put into memory is no older than its start.
NobodyAsks ==
    /\ refresh # "up" => \A j \in Lookups : lookup[j] = "idle"
    /\ refreshed => memory # {} /\ \A j \in Lookups : lookup[j] = "idle"
    /\ refreshed => refresh \in {"filling", "up"}
    /\ refresh = "filling" => refreshed
    /\ lookup \in [Lookups -> {"idle", "asking", "reading", "storing", "filling"}]

Fresh ==
    /\ version \in Nat /\ floor \in Nat /\ floor <= version
    /\ refreshed => \A v \in memory : v \in Nat /\ v >= floor

LangInv == NobodyAsks /\ Fresh

LEMMA LangInitHolds == ASSUME LangInit PROVE LangInv
  BY DEF LangInit, LangInv, NobodyAsks, Fresh

USE DEF LangInv, NobodyAsks, Fresh, langReaderVars, langWorkerVars

\* A step that leaves the worker alone, whether or not the row changes.
LEMMA OthersKeep ==
    ASSUME LangInv, UNCHANGED langWorkerVars, UNCHANGED version \/ RowChanges
    PROVE  LangInv'
  <1>1. /\ memory' = memory /\ refresh' = refresh /\ floor' = floor /\ lookup' = lookup
        /\ (refreshed' <=> refreshed)
    BY Zenon
  <1>2. NobodyAsks'
    BY <1>1
  <1>3. version' \in Nat /\ version <= version'
    <2>1. version' = version \/ version' = version + 1
      BY Zenon DEF RowChanges
    <2>. QED
      BY <2>1
  <1>4. Fresh'
    BY <1>1, <1>3
  <1>. QED
    BY <1>2, <1>4

\* The worker starts, refreshes and restarts.
LEMMA RefreshKeeps == ASSUME LangInv, RefreshStep \/ WorkerRestarts PROVE LangInv'
  <1>1. CASE BeginRefresh
    BY <1>1 DEF BeginRefresh
  <1>2. CASE RefreshFromRow
    BY <1>2 DEF RefreshFromRow
  <1>3. CASE FillFromRefresh
    BY <1>3 DEF FillFromRefresh
  <1>4. CASE WorkerRestarts
    BY <1>4 DEF WorkerRestarts
  <1>. QED
    BY <1>1, <1>2, <1>3, <1>4 DEF RefreshStep

\* A job asks.
LEMMA LookupKeeps ==
    ASSUME LangInv, NEW j \in Lookups, AskMemory(j) \/ LookupStep(j)
    PROVE  LangInv'
  <1>1. refresh = "up" /\ ~refreshed
    BY DEF AskMemory, LookupStep, AskRedis, ReadForJob, StoreForJob, FillForJob, LookupGoes
  <1>2. UNCHANGED <<refresh, refreshed, version, floor>>
    BY Zenon DEF AskMemory, LookupStep, AskRedis, ReadForJob, StoreForJob, FillForJob, LookupGoes
  <1>3. \E pc \in {"idle", "asking", "reading", "storing", "filling"} :
            lookup' = [lookup EXCEPT ![j] = pc]
    BY DEF AskMemory, LookupStep, AskRedis, ReadForJob, StoreForJob, FillForJob, LookupGoes
  <1>. QED
    BY <1>1, <1>2, <1>3

LEMMA LangStepKeeps == ASSUME LangInv, [LangNext]_langVars PROVE LangInv'
  <1>1. CASE UNCHANGED langVars
    BY <1>1 DEF langVars
  <1>2. CASE \E k \in Keys : LangExpires(k)
    BY <1>2, OthersKeep DEF LangExpires
  <1>3. ASSUME NEW a \in Admins, SetActive(a) \/ DisableAll(a) \/ AdminStep(a) PROVE LangInv'
    BY <1>3, OthersKeep
       DEF SetActive, DisableAll, AdminStep, EnforceActive, InvalidateList, InvalidateOne
  <1>4. ASSUME NEW r \in LangReaders, LangReaderStep(r) \/ \E k \in Keys : AskEntry(r, k)
        PROVE  LangInv'
    BY <1>4, OthersKeep DEF LangReaderStep, ReadLang, FillLang, AskEntry
  <1>. QED
    BY <1>1, <1>2, <1>3, <1>4, RefreshKeeps, LookupKeeps DEF LangNext

LEMMA LangInvImplies == ASSUME LangInv PROVE WorkerIsFresh
  BY DEF WorkerIsFresh

HIDE DEF LangInv, NobodyAsks, Fresh

\* No job of a worker whose refresh succeeded gets a definition older than the
\* row when it started, for any number of changes, requests and jobs.
THEOREM RefreshedIsFresh == LangSpec => []WorkerIsFresh
  <1>1. LangSpec => []LangInv
    BY LangInitHolds, LangStepKeeps, PTL DEF LangSpec
  <1>. QED
    BY <1>1, LangInvImplies, PTL

-----------------------------------------------------------------------------
(* The entries of the languages                                            *)

\* Nobody was overtaken by a change, and nothing failed.
Settled == ~overlapped /\ langFailures = 0

\* A cached value is the row's, if there is one.
Current(S) == S \in {{}, {version}}

\* Until then, whoever is about to write an entry holds the row's version; an
\* entry holds another one only if the change that made it old goes on to
\* delete it.
EntriesCurrent ==
    /\ \A r \in LangReaders : Current(langCopy[r])
    /\ \A j \in Lookups : Current(found[j])
    /\ refresh = "filling" => memory = {version}
    /\ \/ Current(langEntry["list"])
       \/ \E a \in Admins : admin[a] \in {"enforcing", "deletingList"}
    /\ \/ Current(langEntry["one"])
       \/ \E a \in Admins : admin[a] # "idle"

\* The two flags are TRUE or FALSE; no step takes back an overlap or a failure.
LEMMA LangFlags ==
    ASSUME LangTypeOK, [LangNext]_langVars
    PROVE  /\ refreshed' \in BOOLEAN /\ overlapped' \in BOOLEAN
           /\ Settled' => Settled
  <1>. USE DEF LangTypeOK, LangWorks
  <1>0. ASSUME LangFails \/ LangWorks
        PROVE  langFailures' \in Nat /\ (langFailures' = 0 => langFailures = 0)
    BY <1>0, LangAssumption DEF LangFails
  <1>1. ASSUME UNCHANGED <<refreshed, overlapped>>, LangFails \/ LangWorks
        PROVE  /\ refreshed' \in BOOLEAN /\ overlapped' \in BOOLEAN
               /\ Settled' => Settled
    BY <1>0, <1>1, Zenon DEF Settled
  <1>2. CASE UNCHANGED langVars
    BY <1>1, <1>2, Zenon DEF langVars
  <1>3. CASE \E k \in Keys : LangExpires(k)
    BY <1>1, <1>3, Zenon DEF LangExpires, langWorkerVars
  <1>4. ASSUME NEW a \in Admins, SetActive(a) \/ DisableAll(a) \/ AdminStep(a)
        PROVE  /\ refreshed' \in BOOLEAN /\ overlapped' \in BOOLEAN
               /\ Settled' => Settled
    <2>1. refreshed' = refreshed
      BY <1>4, Zenon DEF SetActive, DisableAll, AdminStep, EnforceActive, InvalidateList,
         InvalidateOne, langWorkerVars
    <2>2. LangFails \/ LangWorks
      BY <1>4, Zenon DEF SetActive, DisableAll, AdminStep, EnforceActive, InvalidateList,
         InvalidateOne, SetLang, RowChanges
    <2>3. overlapped' = overlapped \/ RowChanges
      BY <1>4, Zenon DEF SetActive, DisableAll, AdminStep, EnforceActive, InvalidateList,
         InvalidateOne
    <2>4. overlapped' \in BOOLEAN /\ (~overlapped' => ~overlapped)
      BY <2>3, Zenon DEF RowChanges
    <2>. QED
      BY <1>0, <2>1, <2>2, <2>4, Zenon DEF Settled
  <1>5. ASSUME NEW r \in LangReaders, LangReaderStep(r) \/ \E k \in Keys : AskEntry(r, k)
        PROVE  /\ refreshed' \in BOOLEAN /\ overlapped' \in BOOLEAN
               /\ Settled' => Settled
    BY <1>1, <1>5, Zenon DEF LangReaderStep, ReadLang, FillLang, AskEntry, langWorkerVars
  <1>6. CASE RefreshStep \/ WorkerRestarts
    <2>1. refreshed' \in BOOLEAN /\ overlapped' = overlapped /\ (LangFails \/ LangWorks)
      BY <1>6, Zenon DEF RefreshStep, BeginRefresh, RefreshFromRow, FillFromRefresh,
         WorkerRestarts, SetLang
    <2>. QED
      BY <1>0, <2>1, Zenon DEF Settled
  <1>7. ASSUME NEW j \in Lookups, AskMemory(j) \/ LookupStep(j)
        PROVE  /\ refreshed' \in BOOLEAN /\ overlapped' \in BOOLEAN
               /\ Settled' => Settled
    BY <1>1, <1>7, Zenon DEF LookupStep, AskMemory, AskRedis, ReadForJob, StoreForJob,
       FillForJob, LookupGoes, SetLang
  <1>. QED
    BY <1>2, <1>3, <1>4, <1>5, <1>6, <1>7 DEF LangNext

\* The type of the rest.
LangShape ==
    /\ version \in Versions
    /\ langEntry \in [Keys -> Cached]
    /\ admin \in [Admins -> {"idle", "enforcing", "deletingList", "deletingOne"}]
    /\ asked \in [LangReaders -> Keys]
    /\ langReader \in [LangReaders -> {"idle", "reading", "filling"}]
    /\ langCopy \in [LangReaders -> Cached]
    /\ memory \in Cached
    /\ refresh \in {"starting", "reading", "filling", "up"}
    /\ floor \in Versions
    /\ lookup \in [Lookups -> {"idle", "asking", "reading", "storing", "filling"}]
    /\ found \in [Lookups -> Cached]
    /\ langFailures \in 0..MaxLangFailures
    /\ \A r \in LangReaders : langReader[r] = "filling" => langCopy[r] # {}
    /\ \A j \in Lookups : lookup[j] \in {"storing", "filling"} => found[j] # {}

LEMMA LangTypeIsShape ==
    LangTypeOK <=> LangShape /\ refreshed \in BOOLEAN /\ overlapped \in BOOLEAN
  BY Zenon DEF LangTypeOK, LangShape

LEMMA VersionsCached == {} \in Cached /\ \A v \in Versions : {v} \in Cached
  BY DEF Cached

LEMMA LangShapeStep == ASSUME LangShape, [LangNext]_langVars PROVE LangShape'
  <1>. USE LangAssumption, VersionsCached DEF LangShape, LangWorks, LangFails, SetLang,
           langReaderVars, langWorkerVars, Versions
  <1>. HIDE DEF Cached
  <1>1. CASE UNCHANGED langVars
    BY <1>1 DEF langVars
  <1>2. CASE \E k \in Keys : LangExpires(k)
    BY <1>2 DEF LangExpires
  <1>3. ASSUME NEW a \in Admins, SetActive(a) \/ DisableAll(a) \/ EnforceActive(a)
        PROVE  LangShape'
    <2>1. /\ version' \in {version, version + 1} /\ (version' # version => version < MaxVersion)
          /\ langFailures' = langFailures \/ LangFails
      BY <1>3, Zenon DEF SetActive, DisableAll, EnforceActive, RowChanges
    <2>2. /\ \E pc \in {"idle", "enforcing", "deletingList"} : admin' = [admin EXCEPT ![a] = pc]
          /\ UNCHANGED <<langEntry, langReaderVars, langWorkerVars>>
      BY <1>3, Zenon DEF SetActive, DisableAll, EnforceActive
    <2>3. version' \in Versions /\ langFailures' \in 0..MaxLangFailures
      BY <2>1
    <2>. QED
      BY <2>2, <2>3
  <1>4. ASSUME NEW a \in Admins, InvalidateList(a) \/ InvalidateOne(a) PROVE LangShape'
    <2>1. /\ \/ langEntry' = langEntry
             \/ \E k \in Keys : langEntry' = [langEntry EXCEPT ![k] = {}]
          /\ langFailures' = langFailures \/ LangFails
      BY <1>4, Zenon DEF InvalidateList, InvalidateOne, Keys
    <2>2. /\ \E pc \in {"idle", "deletingOne"} : admin' = [admin EXCEPT ![a] = pc]
          /\ UNCHANGED <<version, langReaderVars, langWorkerVars>>
      BY <1>4, Zenon DEF InvalidateList, InvalidateOne
    <2>3. langEntry' \in [Keys -> Cached]
      <3>1. \A k \in Keys : [langEntry EXCEPT ![k] = {}] \in [Keys -> Cached]
        BY Zenon
      <3>. QED
        BY <2>1, <3>1, Zenon
    <2>4. langFailures' \in 0..MaxLangFailures
      BY <2>1
    <2>. QED
      BY <2>2, <2>3, <2>4
  <1>5. ASSUME NEW r \in LangReaders, NEW k \in Keys, AskEntry(r, k) PROVE LangShape'
    BY <1>5 DEF AskEntry
  <1>6. ASSUME NEW r \in LangReaders, ReadLang(r) PROVE LangShape'
    <2>1. \/ /\ langReader' = [langReader EXCEPT ![r] = "filling"]
             /\ langCopy' = [langCopy EXCEPT ![r] = {version}]
          \/ /\ langReader' = [langReader EXCEPT ![r] = "idle"]
             /\ langCopy' = langCopy
      BY <1>6, Zenon DEF ReadLang
    <2>2. /\ UNCHANGED <<version, langEntry, asked, admin, langWorkerVars>>
          /\ langFailures' \in 0..MaxLangFailures
      BY <1>6 DEF ReadLang
    <2>3. langCopy' \in [LangReaders -> Cached]
      BY <2>1
    <2>4. \A q \in LangReaders : langReader'[q] = "filling" => langCopy'[q] # {}
      BY <2>1
    <2>. QED
      BY <2>1, <2>2, <2>3, <2>4
  <1>7. ASSUME NEW r \in LangReaders, FillLang(r) PROVE LangShape'
    BY <1>7 DEF FillLang
  <1>8. CASE BeginRefresh
    BY <1>8 DEF BeginRefresh
  <1>9. CASE RefreshFromRow
    BY <1>9 DEF RefreshFromRow
  <1>10. CASE FillFromRefresh
    BY <1>10 DEF FillFromRefresh, Keys
  <1>11. CASE WorkerRestarts
    BY <1>11 DEF WorkerRestarts
  <1>12. ASSUME NEW j \in Lookups, AskMemory(j) PROVE LangShape'
    BY <1>12 DEF AskMemory, LookupGoes
  <1>13. ASSUME NEW j \in Lookups, AskRedis(j) PROVE LangShape'
    BY <1>13 DEF AskRedis, LookupGoes, Keys
  <1>14. ASSUME NEW j \in Lookups, ReadForJob(j) PROVE LangShape'
    BY <1>14 DEF ReadForJob, LookupGoes
  <1>15. ASSUME NEW j \in Lookups, StoreForJob(j) PROVE LangShape'
    BY <1>15 DEF StoreForJob, LookupGoes
  <1>16. ASSUME NEW j \in Lookups, FillForJob(j) PROVE LangShape'
    BY <1>16 DEF FillForJob, LookupGoes, Keys
  <1>. QED
    BY <1>1, <1>2, <1>3, <1>4, <1>5, <1>6, <1>7, <1>8, <1>9, <1>10, <1>11, <1>12, <1>13,
       <1>14, <1>15, <1>16 DEF LangNext, AdminStep, LangReaderStep, RefreshStep, LookupStep

\* The type is inductive.
LEMMA LangTypeStep == LangTypeOK /\ [LangNext]_langVars => LangTypeOK'
  <1>1. ASSUME LangTypeOK, [LangNext]_langVars PROVE LangTypeOK'
    <2>1. LangShape' /\ refreshed' \in BOOLEAN /\ overlapped' \in BOOLEAN
      BY <1>1, LangTypeIsShape, LangShapeStep, LangFlags, Zenon
    <2>. QED
      BY <2>1, Zenon DEF LangTypeOK, LangShape
  <1>. QED
    BY <1>1

\* Without failures, a command does what it is for.
LEMMA CommandsWork ==
    ASSUME LangShape, Settled, Settled'
    PROVE  ~LangFails /\ \A k, S : SetLang(k, S) => langEntry' = [langEntry EXCEPT ![k] = S]
  <1>1. langFailures = 0 /\ langFailures' = 0
    BY Zenon DEF Settled
  <1>2. ~LangFails
    BY <1>1 DEF LangFails
  <1>. QED
    BY <1>2, Zenon DEF SetLang

\* A change is made when nobody holds a version, and has both entries to
\* delete; while it does, the others may leave them as they are.
LEMMA ChangeStep ==
    ASSUME LangShape, EntriesCurrent, Settled, Settled', NEW a \in Admins,
           SetActive(a) \/ DisableAll(a) \/ AdminStep(a)
    PROVE  EntriesCurrent'
  <1>. USE DEF LangShape, EntriesCurrent, Keys
  <1>0. /\ langCopy' = langCopy /\ found' = found /\ refresh' = refresh /\ memory' = memory
    BY Zenon DEF SetActive, DisableAll, AdminStep, EnforceActive, InvalidateList, InvalidateOne,
       langReaderVars, langWorkerVars
  <1>1. CASE SetActive(a) \/ DisableAll(a) \/ EnforceActive(a)
    <2>1. RowChanges
      BY <1>1, CommandsWork, Zenon DEF SetActive, DisableAll, EnforceActive
    <2>2. ~overlapped'
      BY Zenon DEF Settled
    <2>3. /\ \A r \in LangReaders : langCopy[r] = {}
          /\ \A j \in Lookups : found[j] = {}
          /\ refresh # "filling"
      BY <2>1, <2>2, Zenon DEF RowChanges
    <2>4. \E pc \in {"enforcing", "deletingList"} : admin' = [admin EXCEPT ![a] = pc]
      BY <1>1, CommandsWork, Zenon DEF SetActive, DisableAll, EnforceActive
    <2>. QED
      BY <1>0, <2>3, <2>4 DEF Current
  <1>2. CASE InvalidateList(a)
    <2>1. /\ langEntry' = [langEntry EXCEPT !["list"] = {}]
          /\ admin' = [admin EXCEPT ![a] = "deletingOne"]
          /\ version' = version
      BY <1>2, CommandsWork, Zenon DEF InvalidateList
    <2>. QED
      BY <1>0, <2>1 DEF Current
  <1>3. CASE InvalidateOne(a)
    <2>1. /\ langEntry' = [langEntry EXCEPT !["one"] = {}]
          /\ admin[a] = "deletingOne"
          /\ admin' = [admin EXCEPT ![a] = "idle"]
          /\ version' = version
      BY <1>3, CommandsWork, Zenon DEF InvalidateOne
    <2>2. \A b \in Admins : admin[b] \in {"enforcing", "deletingList"} => admin'[b] = admin[b]
      BY <2>1
    <2>. QED
      BY <1>0, <2>1, <2>2 DEF Current
  <1>. QED
    BY <1>1, <1>2, <1>3 DEF AdminStep

\* What is written to an entry, or held to be written, is the row's version.
LEMMA WriterStep ==
    ASSUME LangShape, EntriesCurrent, Settled, Settled', UNCHANGED <<version, admin>>,
           \A r \in LangReaders : Current(langCopy'[r]),
           \A j \in Lookups : Current(found'[j]),
           refresh' = "filling" => memory' = {version},
           \A k \in Keys : langEntry'[k] = langEntry[k] \/ Current(langEntry'[k])
    PROVE  EntriesCurrent'
  BY DEF EntriesCurrent, Current, Keys

LEMMA EntriesStep ==
    ASSUME LangShape, EntriesCurrent, Settled, Settled', [LangNext]_langVars
    PROVE  EntriesCurrent'
  <1>. USE WriterStep, CommandsWork DEF LangShape, EntriesCurrent, Current
  <1>1. CASE UNCHANGED langVars
    BY <1>1 DEF langVars
  <1>2. ASSUME NEW k \in Keys, LangExpires(k) PROVE EntriesCurrent'
    BY <1>2 DEF LangExpires
  <1>3. ASSUME NEW r \in LangReaders, NEW k \in Keys, AskEntry(r, k) PROVE EntriesCurrent'
    BY <1>3 DEF AskEntry
  <1>4. ASSUME NEW r \in LangReaders, ReadLang(r) PROVE EntriesCurrent'
    BY <1>4 DEF ReadLang
  <1>5. ASSUME NEW r \in LangReaders, FillLang(r) PROVE EntriesCurrent'
    BY <1>5 DEF FillLang
  <1>6. CASE BeginRefresh \/ RefreshFromRow
    BY <1>6 DEF BeginRefresh, RefreshFromRow
  <1>7. CASE FillFromRefresh
    BY <1>7 DEF FillFromRefresh, Keys
  <1>8. CASE WorkerRestarts
    BY <1>8 DEF WorkerRestarts
  <1>9. ASSUME NEW j \in Lookups, AskMemory(j) \/ AskRedis(j) \/ StoreForJob(j)
        PROVE  EntriesCurrent'
    BY <1>9 DEF AskMemory, AskRedis, StoreForJob, LookupGoes
  <1>10. ASSUME NEW j \in Lookups, ReadForJob(j) PROVE EntriesCurrent'
    BY <1>10 DEF ReadForJob, LookupGoes
  <1>11. ASSUME NEW j \in Lookups, FillForJob(j) PROVE EntriesCurrent'
    BY <1>11 DEF FillForJob, LookupGoes, Keys
  <1>. QED
    BY <1>1, <1>2, <1>3, <1>4, <1>5, <1>6, <1>7, <1>8, <1>9, <1>10, <1>11, ChangeStep
       DEF LangNext, LangReaderStep, RefreshStep, LookupStep

LEMMA LangTypeInit == LangInit => LangTypeOK
  <1>1. ASSUME LangInit PROVE LangShape
    BY <1>1, LangAssumption, VersionsCached DEF LangInit, LangShape, Versions, Cached, Keys
  <1>2. ASSUME LangInit PROVE refreshed \in BOOLEAN /\ overlapped \in BOOLEAN
    BY <1>2, Zenon DEF LangInit
  <1>. QED
    BY <1>1, <1>2, LangTypeIsShape

\* Every variable of LanguageCache keeps its type, and no empty value is ever
\* written to an entry in the place of a version.
THEOREM LangTypeCorrect == LangSpec => []LangTypeOK
  BY LangTypeInit, LangTypeStep, PTL DEF LangSpec

\* When the last change is over, the entries in Redis hold the row's version or
\* none, unless someone held an older one or a command failed: whatever GETs,
\* jobs, restarting workers and gateways did meanwhile (Invalidate,
\* InvalidateAll, EnforceLanguageActive).
THEOREM ChangesAreSeen == LangSpec => []ChangeIsSeen
  <1>1. LangInit => (Settled => EntriesCurrent)
    BY DEF LangInit, EntriesCurrent, Current, Keys
  <1>2. LangTypeOK /\ (Settled => EntriesCurrent) /\ [LangNext]_langVars
            => (Settled' => EntriesCurrent')
    BY LangTypeIsShape, LangFlags, EntriesStep
  <1>3. (Settled => EntriesCurrent) => ChangeIsSeen
    BY DEF Settled, EntriesCurrent, Current, ChangeIsSeen, Keys
  <1>. QED
    BY <1>1, <1>2, <1>3, LangTypeCorrect, PTL DEF LangSpec

-----------------------------------------------------------------------------
(* Budgets                                                                 *)

\* A bucket's counter is behind its requests, and its served requests are
\* behind the counter and the limit, but for failures of the store.
Counted(c, k) ==
    LET b == <<c, k>> IN
    /\ counter[b] \in Nat /\ requests[b] \in Nat /\ served[b] \in Nat
    /\ counter[b] <= requests[b] /\ served[b] <= requests[b]
    /\ served[b] < requests[b] => requests[b] > Rate(c)
    /\ ~Bypasses(c, k) =>
          served[b] <= counter[b] + storeFailures /\ served[b] <= Rate(c) + storeFailures

BudgetInv == BudgetTypeOK /\ \A c \in Classes, k \in Clients : Counted(c, k)

LEMMA RateIsLimit == \A c \in Classes : Rate(c) \in Nat
  BY BudgetAssumption DEF Rate

LEMMA SumIsNatural == \A m, n \in Nat : m + n >= 0 /\ 0 <= m + n
  OBVIOUS

LEMMA BudgetInitHolds == ASSUME BudgetInit PROVE BudgetInv
  <1>1. BudgetTypeOK
    BY BudgetAssumption DEF BudgetInit, BudgetTypeOK
  <1>2. \A c \in Classes, k \in Clients : Counted(c, k)
    BY RateIsLimit DEF BudgetInit, Counted, Buckets
  <1>. QED
    BY <1>1, <1>2 DEF BudgetInv

\* A request changes its own bucket, and keeps it counted.
LEMMA RequestKeeps ==
    ASSUME BudgetInv, NEW c \in Classes, NEW k \in Clients, Request(c, k)
    PROVE  BudgetInv'
  <1>. DEFINE b == <<c, k>>
  <1>1. b \in Buckets /\ Rate(c) \in Nat
    BY RateIsLimit DEF Buckets
  <1>2. /\ counter[b] \in Nat /\ requests[b] \in Nat /\ served[b] \in Nat
        /\ storeFailures \in Nat /\ Counted(c, k)
    BY <1>1 DEF BudgetInv, BudgetTypeOK
  <1>3. requests[b] < MaxRequests /\ requests' = [requests EXCEPT ![b] = @ + 1]
    BY DEF Request
  <1>4. /\ \/ counter' = counter
           \/ counter' = [counter EXCEPT ![b] = @ + 1]
        /\ \/ served' = served
           \/ served' = [served EXCEPT ![b] = @ + 1]
        /\ storeFailures' \in 0..MaxStoreFailures /\ storeFailures <= storeFailures'
    BY <1>2, BudgetAssumption DEF Request, Passes, Bucket, BudgetInv, BudgetTypeOK
  <1>5. /\ counter' \in [Buckets -> Nat] /\ served' \in [Buckets -> Nat]
        /\ requests' \in [Buckets -> 0..MaxRequests]
    BY <1>1, <1>2, <1>3, <1>4, BudgetAssumption DEF BudgetInv, BudgetTypeOK
  <1>6. Counted(c, k)'
    <2>1. requests'[b] = requests[b] + 1
      BY <1>1, <1>3 DEF BudgetInv, BudgetTypeOK
    <2>2. CASE Bypasses(c, k) /\ Passes(b) /\ UNCHANGED <<counter, storeFailures>>
      <3>1. served'[b] = served[b] + 1 /\ counter'[b] = counter[b]
        BY <1>1, <2>2 DEF Passes, BudgetInv, BudgetTypeOK
      <3>. QED
        BY <1>1, <1>2, <2>1, <2>2, <3>1 DEF Counted, Rate, Bypasses
    <2>3. CASE Passes(b) /\ UNCHANGED counter /\ storeFailures' = storeFailures + 1
      <3>1. served'[b] = served[b] + 1 /\ counter'[b] = counter[b]
        BY <1>1, <2>3 DEF Passes, BudgetInv, BudgetTypeOK
      <3>. QED
        BY <1>1, <1>2, <2>1, <2>3, <3>1 DEF Counted, Rate, Bypasses
    <2>4. CASE /\ counter' = [counter EXCEPT ![b] = @ + 1]
               /\ IF counter[b] < Rate(c) THEN Passes(b) ELSE UNCHANGED served
               /\ UNCHANGED storeFailures
      <3>1. counter'[b] = counter[b] + 1
        BY <1>1, <2>4 DEF BudgetInv, BudgetTypeOK
      <3>2. IF counter[b] < Rate(c) THEN served'[b] = served[b] + 1 ELSE served'[b] = served[b]
        BY <1>1, <2>4 DEF Passes, BudgetInv, BudgetTypeOK
      <3>. QED
        BY <1>1, <1>2, <2>1, <2>4, <3>1, <3>2 DEF Counted, Rate, Bypasses
    <2>. QED
      BY <2>2, <2>3, <2>4 DEF Request, Bucket
  <1>7. ASSUME NEW d \in Classes, NEW l \in Clients, <<d, l>> # b PROVE Counted(d, l)'
    <2>1. <<d, l>> \in Buckets /\ Counted(d, l)
      BY DEF Buckets, BudgetInv
    <2>2. /\ counter'[<<d, l>>] = counter[<<d, l>>] /\ served'[<<d, l>>] = served[<<d, l>>]
          /\ requests'[<<d, l>>] = requests[<<d, l>>]
      BY <1>3, <1>4, <1>7, <2>1 DEF BudgetInv, BudgetTypeOK
    <2>3. storeFailures' \in Nat /\ Rate(d) \in Nat
      BY <1>4, BudgetAssumption, RateIsLimit
    <2>. QED
      BY <1>2, <1>4, <2>1, <2>2, <2>3 DEF Counted, Rate, Bypasses
  <1>8. \A d \in Classes, l \in Clients : Counted(d, l)'
    BY <1>6, <1>7
  <1>9. \A e \in Buckets : served'[e] <= requests'[e]
    BY <1>8 DEF Buckets, Counted
  <1>. QED
    BY <1>4, <1>5, <1>8, <1>9 DEF BudgetInv, BudgetTypeOK

LEMMA BudgetStepKeeps == ASSUME BudgetInv, [BudgetNext]_budgetVars PROVE BudgetInv'
  <1>1. CASE UNCHANGED budgetVars
    BY <1>1 DEF budgetVars, BudgetInv, BudgetTypeOK, Counted, Rate, Bypasses
  <1>2. CASE PeriodEnds
    <2>1. BudgetTypeOK'
      BY <1>2, BudgetAssumption DEF PeriodEnds, BudgetInv, BudgetTypeOK
    <2>2. \A c \in Classes, k \in Clients : Counted(c, k)'
      <3>. SUFFICES ASSUME NEW c \in Classes, NEW k \in Clients PROVE Counted(c, k)'
        OBVIOUS
      <3>1. counter'[<<c, k>>] = 0 /\ requests'[<<c, k>>] = 0 /\ served'[<<c, k>>] = 0
        BY <1>2 DEF PeriodEnds, Buckets
      <3>2. storeFailures' \in Nat /\ Rate(c) \in Nat
        BY <1>2, BudgetAssumption, RateIsLimit DEF PeriodEnds, BudgetInv, BudgetTypeOK
      <3>3. /\ served'[<<c, k>>] <= counter'[<<c, k>>] + storeFailures'
            /\ served'[<<c, k>>] <= Rate(c) + storeFailures'
        <4>1. 0 <= 0 + storeFailures' /\ 0 <= Rate(c) + storeFailures'
          BY <3>2, SumIsNatural
        <4>. QED
          BY <3>1, <4>1
      <3>4. /\ counter'[<<c, k>>] \in Nat /\ requests'[<<c, k>>] \in Nat
            /\ served'[<<c, k>>] \in Nat /\ counter'[<<c, k>>] <= requests'[<<c, k>>]
            /\ served'[<<c, k>>] <= requests'[<<c, k>>]
            /\ ~(served'[<<c, k>>] < requests'[<<c, k>>])
        BY <3>1
      <3>. QED
        BY <3>3, <3>4 DEF Counted, Rate, Bypasses
    <2>. QED
      BY <2>1, <2>2 DEF BudgetInv
  <1>3. CASE \E c \in Classes, k \in Clients : Request(c, k)
    BY <1>3, RequestKeeps
  <1>. QED
    BY <1>1, <1>2, <1>3 DEF BudgetNext

LEMMA BudgetInvImplies == ASSUME BudgetInv PROVE BudgetsAreSeparate
  <1>. SUFFICES ASSUME NEW c \in Classes, NEW k \in Clients
                PROVE  /\ served[<<c, k>>] < requests[<<c, k>>] => requests[<<c, k>>] > Rate(c)
                       /\ served[<<c, k>>] > Rate(c) + storeFailures => Bypasses(c, k)
    BY DEF BudgetsAreSeparate
  <1>1. Counted(c, k) /\ storeFailures \in Nat /\ Rate(c) \in Nat
    BY RateIsLimit DEF BudgetInv, BudgetTypeOK
  <1>. QED
    BY <1>1 DEF Counted

\* A client's requests in a class are refused only for its own, and never more
\* than the limit are served, for any limits, classes and clients.
THEOREM BudgetsSeparate == BudgetSpec => []BudgetsAreSeparate
  <1>1. BudgetSpec => []BudgetInv
    BY BudgetInitHolds, BudgetStepKeeps, PTL DEF BudgetSpec
  <1>. QED
    BY <1>1, BudgetInvImplies, PTL

-----------------------------------------------------------------------------
(* The sliding window                                                      *)

\* What a call counts: a time stamp younger than the window stays in the set,
\* once it is there, so that the stamps of the calls that were allowed, and of
\* the ones about to be, are; and no call is older than it may become.
StampsStay ==
    /\ \A s \in admitted : s > clock - Window => s \in stamps
    /\ \A i \in Calls :
         /\ call[i] \notin {"idle", "over"} => clock <= now[i] + MaxDelay
         /\ call[i] = "counting" /\ now[i] > clock - Window => now[i] \in stamps

WindowInv == WindowTypeOK /\ StampsStay /\ AdmitsAtMostLimit

\* The calls allowed at times of the window that ends at t.
AllowedBy(t) == {s \in admitted : t - (Window - MaxDelay) < s /\ s <= t}

LEMMA WindowInitHolds == ASSUME WindowInit PROVE WindowInv
  <1>1. WindowTypeOK /\ StampsStay
    BY WindowAssumption DEF WindowInit, WindowTypeOK, StampsStay
  <1>2. \A t \in 0..clock : AllowedBy(t) = {}
    BY DEF WindowInit, AllowedBy
  <1>3. AdmitsAtMostLimit
    BY <1>2, FS_EmptySet, WindowAssumption DEF AdmitsAtMostLimit, AllowedBy
  <1>. QED
    BY <1>1, <1>3 DEF WindowInv

\* A set of times that were allowed, all still in the sorted set, is no larger
\* than what ZCARD counts.
LEMMA CountedByCard ==
    ASSUME WindowTypeOK, NEW S, S \subseteq stamps, Cardinality(stamps) <= WindowLimit
    PROVE  Cardinality(S) <= WindowLimit
  <1>1. IsFiniteSet(0..clock)
    BY FS_Interval DEF WindowTypeOK
  <1>2. IsFiniteSet(stamps)
    BY <1>1, FS_Subset DEF WindowTypeOK
  <1>3. /\ Cardinality(S) \in Nat /\ Cardinality(stamps) \in Nat
        /\ Cardinality(S) <= Cardinality(stamps)
    BY <1>2, FS_Subset, FS_CardinalityType
  <1>. QED
    BY <1>3, WindowAssumption

\* Time passes: the window that ends now holds no more than the one before.
LEMMA TickKeeps == ASSUME WindowInv, Tick PROVE WindowInv'
  <1>. USE WindowAssumption DEF WindowTypeOK
  <1>1. WindowTypeOK' /\ StampsStay'
    BY DEF WindowInv, Tick, StampsStay
  <1>2. clock \in Nat /\ clock' = clock + 1 /\ admitted' = admitted /\ admitted \subseteq 0..clock
    BY DEF WindowInv, Tick
  <1>3. \A t \in 0..clock : Cardinality(AllowedBy(t)) <= WindowLimit
    BY DEF WindowInv, AdmitsAtMostLimit, AllowedBy
  <1>4. ASSUME NEW t \in 0..clock' PROVE Cardinality(AllowedBy(t))' <= WindowLimit
    <2>1. CASE t \in 0..clock
      BY <1>2, <1>3, <2>1 DEF AllowedBy
    <2>2. CASE t = clock + 1
      <3>1. \A s \in AllowedBy(t) : s \in AllowedBy(clock)
        <4>. TAKE s \in AllowedBy(t)
        <4>1. s \in admitted /\ s \in 0..clock /\ t - (Window - MaxDelay) < s
          BY <1>2 DEF AllowedBy
        <4>2. clock - (Window - MaxDelay) < s /\ s <= clock
          BY <1>2, <2>2, <4>1
        <4>. QED
          BY <4>1, <4>2 DEF AllowedBy
      <3>2. IsFiniteSet(AllowedBy(clock))
        <4>1. AllowedBy(clock) \in SUBSET (0..clock)
          BY <1>2 DEF AllowedBy
        <4>2. IsFiniteSet(0..clock)
          BY <1>2, FS_Interval
        <4>. QED
          BY <4>1, <4>2, FS_Subset
      <3>3. /\ Cardinality(AllowedBy(t)) \in Nat /\ Cardinality(AllowedBy(clock)) \in Nat
            /\ Cardinality(AllowedBy(t)) <= Cardinality(AllowedBy(clock))
        BY <3>1, <3>2, FS_Subset, FS_CardinalityType
      <3>4. Cardinality(AllowedBy(t)) <= WindowLimit
        BY <1>2, <1>3, <3>3
      <3>. QED
        BY <1>2, <3>4 DEF AllowedBy
    <2>. QED
      BY <1>2, <2>1, <2>2
  <1>. QED
    BY <1>1, <1>4 DEF WindowInv, AdmitsAtMostLimit, AllowedBy

\* A step that allows no call, and removes only time stamps that have left
\* the window.
LEMMA StampsKeep ==
    ASSUME WindowInv, WindowTypeOK', StampsStay', UNCHANGED <<clock, admitted>>
    PROVE  WindowInv'
  BY DEF WindowInv, AdmitsAtMostLimit

\* The decision: all that a window may hold of this call and the ones before it
\* was counted.
LEMMA CountKeeps == ASSUME WindowInv, NEW i \in Calls, Count(i) PROVE WindowInv'
  <1>. USE WindowAssumption DEF WindowTypeOK, CallGoes
  <1>1. /\ call[i] = "counting" /\ call' = [call EXCEPT ![i] = "over"]
        /\ UNCHANGED <<clock, stamps, now>>
        /\ clock \in Nat /\ now[i] \in 0..clock /\ clock <= now[i] + MaxDelay
        /\ now[i] > clock - Window => now[i] \in stamps
        /\ \A s \in admitted : s > clock - Window => s \in stamps
        /\ admitted \subseteq 0..clock
    BY DEF Count, WindowInv, StampsStay
  <1>2. CASE admitted' = admitted
    BY <1>1, <1>2, StampsKeep DEF WindowInv, StampsStay
  <1>3. CASE Cardinality(stamps) <= WindowLimit /\ admitted' = admitted \cup {now[i]}
    <2>1. WindowTypeOK' /\ StampsStay'
      BY <1>1, <1>3 DEF WindowInv, StampsStay
    <2>2. ASSUME NEW t \in 0..clock PROVE Cardinality(AllowedBy(t))' <= WindowLimit
      <3>1. CASE now[i] \in AllowedBy(t)'
        <4>1. now[i] <= t /\ t - (Window - MaxDelay) < now[i]
          BY <3>1 DEF AllowedBy
        <4>2. \A s \in AllowedBy(t)' : s \in admitted' /\ t - (Window - MaxDelay) < s
          BY DEF AllowedBy
        <4>3. \A s \in admitted' : s \in 0..clock
          BY <1>1, <1>3
        <4>4. \A s \in AllowedBy(t)' : s > clock - Window
          BY <1>1, <4>1, <4>2, <4>3
        <4>5. AllowedBy(t)' \subseteq stamps
          BY <1>1, <1>3, <4>2, <4>4
        <4>. QED
          BY <1>3, <4>5, CountedByCard DEF WindowInv
      <3>2. CASE now[i] \notin AllowedBy(t)'
        <4>1. AllowedBy(t)' = AllowedBy(t)
          BY <1>3, <3>2 DEF AllowedBy
        <4>. QED
          BY <4>1 DEF WindowInv, AdmitsAtMostLimit, AllowedBy
      <3>. QED
        BY <3>1, <3>2
    <2>. QED
      BY <1>1, <2>1, <2>2 DEF WindowInv, AdmitsAtMostLimit, AllowedBy
  <1>. QED
    BY <1>2, <1>3 DEF Count

LEMMA WindowStepKeeps == ASSUME WindowInv, [WindowNext]_windowVars PROVE WindowInv'
  <1>. USE WindowAssumption DEF WindowTypeOK, StampsStay, CallGoes
  <1>1. CASE UNCHANGED windowVars
    BY <1>1, StampsKeep DEF windowVars, WindowInv
  <1>2. CASE KeyExpires
    BY <1>2, StampsKeep DEF KeyExpires, WindowInv
  <1>3. ASSUME NEW i \in Calls, TakeTime(i) PROVE WindowInv'
    BY <1>3, StampsKeep DEF TakeTime, WindowInv
  <1>4. ASSUME NEW i \in Calls, Trim(i) PROVE WindowInv'
    <2>1. /\ call[i] = "trimming" /\ call' = [call EXCEPT ![i] = "adding"]
          /\ UNCHANGED <<clock, now, admitted>>
          /\ stamps' \subseteq stamps
          /\ \A s \in stamps : s > now[i] - Window => s \in stamps'
      BY <1>4 DEF Trim
    <2>2. \A s \in stamps : s > clock - Window => s \in stamps'
      <3>1. /\ clock \in Nat /\ now[i] \in 0..clock
            /\ \A s \in stamps : s \in 0..clock
        BY DEF WindowInv
      <3>. QED
        BY <2>1, <3>1
    <2>3. WindowTypeOK'
      BY <2>1 DEF WindowInv
    <2>4. StampsStay'
      BY <2>1, <2>2 DEF WindowInv
    <2>. QED
      BY <2>1, <2>3, <2>4, StampsKeep
  <1>5. ASSUME NEW i \in Calls, AddStamp(i) PROVE WindowInv'
    BY <1>5, StampsKeep DEF AddStamp, WindowInv
  <1>. QED
    BY <1>1, <1>2, <1>3, <1>4, <1>5, TickKeeps, CountKeeps DEF WindowNext, CallStep

\* Every variable of SlidingWindow keeps its type.
THEOREM WindowTypeCorrect == WindowSpec => []WindowTypeOK
  <1>1. WindowInv => WindowTypeOK
    BY DEF WindowInv
  <1>. QED
    BY <1>1, WindowInitHolds, WindowStepKeeps, PTL DEF WindowSpec

\* However the commands of any number of calls interleave, those allowed in a
\* window, shortened by as much as a call may take, are no more than the limit
\* (RateLimiter.Allow).
THEOREM WindowIsLimited == WindowSpec => []AdmitsAtMostLimit
  <1>1. WindowInv => AdmitsAtMostLimit
    BY DEF WindowInv
  <1>. QED
    BY <1>1, WindowInitHolds, WindowStepKeeps, PTL DEF WindowSpec

-----------------------------------------------------------------------------
(* Waiting for a result                                                    *)

\* A poller that has not ended has room in its channel, and the context of a
\* listener that has returned has ended.
PollerHasRoom ==
    \A w \in Listeners :
        /\ poller[w] # "over" => pollDone[w] = "empty"
        /\ waiter[w] \in {"served", "unserved"} => due[w]

WaitInv == WaitTypeOK /\ PollerHasRoom

LEMMA WaitInitHolds == ASSUME WaitInit PROVE WaitInv
  <1>1. waitFailures \in 0..MaxWaitFailures
    BY WaitAssumption DEF WaitInit
  <1>. QED
    BY <1>1 DEF WaitInit, WaitInv, WaitTypeOK, PollerHasRoom, WaiterState, Waiters

\* A look at the cache that finds nothing, or fails, is counted.
LEMMA LooksAreCounted ==
    ASSUME WaitTypeOK, Finds \/ FindsNone \/ WaitFails \/ WaitWorks
    PROVE  waitFailures' \in 0..MaxWaitFailures
  BY WaitAssumption DEF WaitTypeOK, Finds, FindsNone, WaitFails, WaitWorks

\* What a return of a listener or a caller leaves behind.
LEMMA ReturnKeeps ==
    ASSUME WaitInv, NEW w \in Waiters, NEW how \in {"served", "unserved"}, Returns(w, how),
           waitFailures' \in 0..MaxWaitFailures,
           UNCHANGED <<cached, announced, poller, pollDone>>
    PROVE  WaitInv'
  BY DEF WaitInv, WaitTypeOK, PollerHasRoom, WaiterState, Waiters, Returns

\* The cache, the worker's notification, and the deadlines.
LEMMA CacheMoves ==
    ASSUME WaitInv, CachedChanges \/ PublishDone \/ \E w \in Waiters : DeadlinePasses(w)
    PROVE  WaitInv'
  <1>. USE DEF WaitInv, WaitTypeOK, PollerHasRoom, WaiterState, Waiters, WaitWorks, listenerVars
  <1>1. CASE CachedChanges
    BY <1>1 DEF CachedChanges
  <1>2. CASE PublishDone
    BY <1>2 DEF PublishDone
  <1>3. CASE \E w \in Waiters : DeadlinePasses(w)
    BY <1>3 DEF DeadlinePasses
  <1>. QED
    BY <1>1, <1>2, <1>3

\* A listener begins, subscribes, and looks again.
LEMMA ListeningKeeps ==
    ASSUME WaitInv, NEW w \in Listeners,
           \/ StartListening(w) \/ SubscriptionStarts(w) \/ ChannelCloses(w) \/ SecondLook(w)
    PROVE  WaitInv'
  <1>. USE DEF WaitInv, WaitTypeOK, PollerHasRoom, WaiterState, Waiters
  <1>1. CASE StartListening(w)
    <2>1. CASE Finds /\ Returns(w, "served")
      BY <1>1, <2>1, ReturnKeeps, LooksAreCounted DEF StartListening
    <2>2. CASE /\ FindsNone \/ WaitFails
               /\ waiter' = [waiter EXCEPT ![w] = "checking"]
               /\ UNCHANGED <<inbox, due>>
      BY <1>1, <2>2, LooksAreCounted DEF StartListening
    <2>. QED
      BY <1>1, <2>1, <2>2 DEF StartListening
  <1>2. CASE SubscriptionStarts(w)
    BY <1>2 DEF SubscriptionStarts, WaitWorks
  <1>3. CASE ChannelCloses(w)
    BY <1>3, LooksAreCounted DEF ChannelCloses
  <1>4. CASE SecondLook(w)
    <2>1. CASE Finds /\ Returns(w, "served") /\ UNCHANGED poller
      BY <1>4, <2>1, ReturnKeeps, LooksAreCounted DEF SecondLook
    <2>2. CASE /\ FindsNone \/ WaitFails
               /\ waiter' = [waiter EXCEPT ![w] = "waiting"]
               /\ poller' = [poller EXCEPT ![w] = "polling"]
               /\ UNCHANGED <<inbox, due>>
      BY <1>4, <2>2, LooksAreCounted DEF SecondLook
    <2>. QED
      BY <1>4, <2>1, <2>2 DEF SecondLook
  <1>. QED
    BY <1>1, <1>2, <1>3, <1>4

\* A listener hears, takes the poller's answer or gives up, and its poller goes on.
LEMMA WaitingKeeps ==
    ASSUME WaitInv, NEW w \in Listeners, ListenerStep(w) \/ PollerStep(w)
    PROVE  WaitInv'
  <1>. USE DEF WaitInv, WaitTypeOK, PollerHasRoom, WaiterState, Waiters
  <1>1. CASE SecondLook(w)
    BY <1>1, ListeningKeeps
  <1>2. CASE HearDone(w)
    <2>1. CASE Finds /\ Returns(w, "served")
      BY <1>2, <2>1, ReturnKeeps, LooksAreCounted DEF HearDone
    <2>2. CASE /\ FindsNone \/ WaitFails
               /\ inbox' = [inbox EXCEPT ![w] = "open"]
               /\ UNCHANGED <<waiter, due>>
      BY <1>2, <2>2, LooksAreCounted DEF HearDone
    <2>. QED
      BY <1>2, <2>1, <2>2 DEF HearDone
  <1>3. CASE TakePoll(w)
    <2>1. PICK how \in {"served", "unserved"} : Returns(w, how)
      BY <1>3 DEF TakePoll
    <2>. QED
      BY <1>3, <2>1, ReturnKeeps, LooksAreCounted DEF TakePoll
  <1>4. CASE ListenerTimesOut(w)
    BY <1>4, ReturnKeeps, LooksAreCounted DEF ListenerTimesOut
  <1>5. CASE PollFinds(w)
    BY <1>5, LooksAreCounted DEF PollFinds
  <1>6. CASE PollEnds(w)
    BY <1>6, LooksAreCounted DEF PollEnds
  <1>. QED
    BY <1>1, <1>2, <1>3, <1>4, <1>5, <1>6 DEF ListenerStep, PollerStep

\* A request with ?wait.
LEMMA CallerKeeps ==
    ASSUME WaitInv, NEW w \in Callers, StartPolling(w) \/ CallerStep(w)
    PROVE  WaitInv'
  <1>1. w \in Waiters /\ w \notin Listeners
    BY WaitAssumption DEF Waiters
  <1>2. CASE StartPolling(w)
    BY <1>1, <1>2 DEF StartPolling, WaitWorks, listenerVars, WaitInv, WaitTypeOK,
                      PollerHasRoom, WaiterState
  <1>3. CASE CallerPolls(w)
    <2>1. PICK how \in {"served", "unserved"} : Returns(w, how)
      BY <1>3 DEF CallerPolls
    <2>2. waitFailures' \in 0..MaxWaitFailures
      BY <1>3, LooksAreCounted DEF CallerPolls, WaitInv
    <2>. QED
      BY <1>1, <1>3, <2>1, <2>2, ReturnKeeps DEF CallerPolls
  <1>4. CASE CallerTimesOut(w)
    <2>1. PICK how \in {"served", "unserved"} : Returns(w, how)
      BY <1>4 DEF CallerTimesOut
    <2>2. waitFailures' \in 0..MaxWaitFailures
      BY <1>4, LooksAreCounted DEF CallerTimesOut, WaitInv
    <2>. QED
      BY <1>1, <1>4, <2>1, <2>2, ReturnKeeps DEF CallerTimesOut
  <1>. QED
    BY <1>2, <1>3, <1>4 DEF CallerStep

LEMMA WaitStepKeeps == ASSUME WaitInv, [WaitNext]_waitVars PROVE WaitInv'
  <1>1. CASE UNCHANGED waitVars
    BY <1>1 DEF waitVars, WaitInv, WaitTypeOK, PollerHasRoom
  <1>. QED
    BY <1>1, CacheMoves, ListeningKeeps, WaitingKeeps, CallerKeeps DEF WaitNext

\* Every variable of ResultWaiter keeps its type, and a listener polls only
\* while it may have to.
THEOREM WaitTypeCorrect == WaitSpec => []WaitTypeOK
  <1>1. WaitInv => WaitTypeOK
    BY DEF WaitInv
  <1>. QED
    BY <1>1, WaitInitHolds, WaitStepKeeps, PTL DEF WaitSpec

\* No poller is kept from ending once WaitForResult has returned, by whatever
\* way: its context has ended and its channel has room for the value nobody
\* takes. That it then ends is PollerEnds.
THEOREM PollersCanEnd ==
    WaitSpec => [](\A w \in Listeners :
                      waiter[w] \in {"served", "unserved"} /\ poller[w] = "polling"
                          => due[w] /\ pollDone[w] = "empty")
  <1>1. WaitInv => \A w \in Listeners :
                      waiter[w] \in {"served", "unserved"} /\ poller[w] = "polling"
                          => due[w] /\ pollDone[w] = "empty"
    BY DEF WaitInv, PollerHasRoom
  <1>. QED
    BY <1>1, WaitInitHolds, WaitStepKeeps, PTL DEF WaitSpec

-----------------------------------------------------------------------------
(* The parts together, as they run in one instance                         *)

\* A step of the gateway is a step of the part in focus, and none of the others.
LEMMA GatewayStep ==
    ASSUME [GatewayNext]_gatewayVars
    PROVE  /\ focus' = focus
           /\ [SubNext]_subVars /\ [WaitNext]_waitVars /\ [SweepNext]_sweepVars
           /\ [LangNext]_langVars /\ [BudgetNext]_budgetVars /\ [WindowNext]_windowVars
  BY DEF GatewayNext, gatewayVars

\* Every behaviour of the instance is, for each part, one of its specification,
\* so that what is proved of the part is true of the instance.
THEOREM GatewayHasParts ==
    GatewaySpec => SubSpec /\ WaitSpec /\ SweepSpec /\ LangSpec /\ BudgetSpec /\ WindowSpec
  <1>1. GatewayInit => /\ SubInit /\ WaitInit /\ SweepInit
                       /\ LangInit /\ BudgetInit /\ WindowInit
    BY Zenon DEF GatewayInit
  <1>. QED
    BY <1>1, GatewayStep, PTL
       DEF GatewaySpec, SubSpec, WaitSpec, SweepSpec, LangSpec, BudgetSpec, WindowSpec

\* Every variable of the gateway keeps its type.
THEOREM GatewayTypeCorrect == GatewaySpec => []GatewayTypeOK
  <1>. DEFINE Focused == focus \in {"submission", "wait", "sweep", "language", "budget", "window"}
  <1>1. GatewayInit => Focused
    BY Zenon DEF GatewayInit
  <1>2. Focused /\ [GatewayNext]_gatewayVars => Focused'
    BY GatewayStep
  <1>3. GatewaySpec => []Focused
    <2>. HIDE DEF Focused
    <2>. QED
      BY <1>1, <1>2, PTL DEF GatewaySpec
  <1>4. BudgetSpec => []BudgetTypeOK
    <2>1. BudgetInv => BudgetTypeOK
      BY DEF BudgetInv
    <2>. QED
      BY <2>1, BudgetInitHolds, BudgetStepKeeps, PTL DEF BudgetSpec
  <1>5. Focused /\ SubTypeOK /\ WaitTypeOK /\ SweepTypeOK
            /\ LangTypeOK /\ BudgetTypeOK /\ WindowTypeOK => GatewayTypeOK
    BY Zenon DEF GatewayTypeOK
  <1>. HIDE DEF Focused
  <1>. QED
    BY <1>3, <1>4, <1>5, GatewayHasParts, SubmissionTypeCorrect, WaitTypeCorrect, SweepTypeCorrect,
       LangTypeCorrect, WindowTypeCorrect, PTL

\* What is proved of the parts, of the gateway: what users read was recorded
\* and does not go back, sweeps hand out every batch once, changed languages
\* are seen, and requests are limited by client.
THEOREM GatewayIsSafe ==
    GatewaySpec => /\ [](ResultIsRecorded /\ SweepVisitsOnce /\ SweepMissesNone /\ ChangeIsSeen)
                   /\ [](WorkerIsFresh /\ BudgetsAreSeparate /\ AdmitsAtMostLimit)
                   /\ ReadsNeverGoBack
  BY GatewayHasParts, ServedIsRecorded, ResultsStay, SweepsVisitOnce, SweepsMissNone, ChangesAreSeen,
     RefreshedIsFresh, BudgetsSeparate, WindowIsLimited, PTL

=============================================================================
