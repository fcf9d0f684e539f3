---------------------------- MODULE LanguageCache ----------------------------
(***************************************************************************)
(* The language definitions and their three caches: the list and the       *)
(* single entry in Redis, each with a time to live of an hour, and the map *)
(* in a worker's memory, which has none. Requests read through Redis, the  *)
(* jobs of a worker read through its memory and Redis, and administrators  *)
(* and redeployed gateways change the row and then delete the entries.     *)
(*                                                                         *)
(* One language stands for all of them, and its row for the versions it    *)
(* goes through. A cached value is a set: of one version, or of none.      *)
(***************************************************************************)
EXTENDS Naturals

CONSTANTS
    Admins,           \* those who change the row: requests, gateways that start
    LangReaders,      \* the GET requests that run at the same time
    Lookups,          \* the jobs of one worker that ask for the language
    MaxVersion,       \* bound: how often the row changes
    MaxLangFailures   \* bound: how many failures are explored

ASSUME LangAssumption == MaxVersion \in Nat /\ MaxLangFailures \in Nat

VARIABLES
    version,     \* the version in the row
    langEntry,   \* the two Redis entries
    admin,       \* how far each change got
    asked,       \* the entry that each GET request asks for
    langReader,  \* how far each GET request got
    langCopy,    \* the version it read from the row
    memory,      \* the worker's map
    refresh,     \* how far the worker's RefreshCache got
    floor,       \* the version in the row when RefreshCache began
    refreshed,   \* RefreshCache succeeded
    lookup,      \* how far each job's GetLanguage got
    found,       \* the version that the job read
    overlapped,  \* a change was made while someone held a version read before
    langFailures

langVars == <<version, langEntry, admin, asked, langReader, langCopy, memory, refresh,
              floor, refreshed, lookup, found, overlapped, langFailures>>
langReaderVars == <<asked, langReader, langCopy>>
langWorkerVars == <<memory, refresh, floor, refreshed, lookup, found>>

Keys == {"list", "one"}
Versions == 0..MaxVersion
Cached == {{}} \cup {{v} : v \in Versions}

\* Every variable keeps its type, and whoever writes an entry has a version.
LangTypeOK ==
    /\ version \in Versions
    /\ langEntry \in [Keys -> Cached]
    /\ admin \in [Admins -> {"idle", "enforcing", "deletingList", "deletingOne"}]
    /\ asked \in [LangReaders -> Keys]
    /\ langReader \in [LangReaders -> {"idle", "reading", "filling"}]
    /\ langCopy \in [LangReaders -> Cached]
    /\ memory \in Cached
    /\ refresh \in {"starting", "reading", "filling", "up"}
    /\ floor \in Versions
    /\ refreshed \in BOOLEAN
    /\ lookup \in [Lookups -> {"idle", "asking", "reading", "storing", "filling"}]
    /\ found \in [Lookups -> Cached]
    /\ overlapped \in BOOLEAN
    /\ langFailures \in 0..MaxLangFailures
    /\ \A r \in LangReaders : langReader[r] = "filling" => langCopy[r] # {}
    /\ \A j \in Lookups : lookup[j] \in {"storing", "filling"} => found[j] # {}

LangInit ==
    /\ version = 0
    /\ langEntry = [k \in Keys |-> {}]
    /\ admin = [a \in Admins |-> "idle"]
    /\ asked = [r \in LangReaders |-> "list"]
    /\ langReader = [r \in LangReaders |-> "idle"]
    /\ langCopy = [r \in LangReaders |-> {}]
    /\ memory = {} /\ refresh = "starting" /\ floor = 0 /\ refreshed = FALSE
    /\ lookup = [j \in Lookups |-> "idle"]
    /\ found = [j \in Lookups |-> {}]
    /\ overlapped = FALSE
    /\ langFailures = 0

LangFails == langFailures < MaxLangFailures /\ langFailures' = langFailures + 1
LangWorks == UNCHANGED langFailures

-----------------------------------------------------------------------------
(* The entries                                                             *)

\* The entry k becomes S; every caller ignores a failure.
SetLang(k, S) ==
    \/ langEntry' = [langEntry EXCEPT ![k] = S] /\ LangWorks
    \/ UNCHANGED langEntry /\ LangFails

\* As if the entries had no time to live.
LangNeverExpires(k) == FALSE /\ UNCHANGED langVars

LangExpires(k) ==
    /\ langEntry[k] # {}
    /\ langEntry' = [langEntry EXCEPT ![k] = {}]
    /\ LangWorks
    /\ UNCHANGED <<version, admin, langReaderVars, langWorkerVars, overlapped>>

-----------------------------------------------------------------------------
(* Changes                                                                 *)

RowChanges ==
    /\ version < MaxVersion
    /\ version' = version + 1
    /\ overlapped' = \/ overlapped
                     \/ \E r \in LangReaders : langCopy[r] # {}
                     \/ \E j \in Lookups : found[j] # {}
                     \/ refresh = "filling"
    /\ LangWorks

\* SetLanguageActive: the row is updated.
SetActive(a) ==
    /\ admin[a] = "idle"
    /\ RowChanges
    /\ admin' = [admin EXCEPT ![a] = "deletingList"]
    /\ UNCHANGED <<langEntry, langReaderVars, langWorkerVars>>

\* A gateway starts: EnforceLanguageActive disables every language, ...
DisableAll(a) ==
    /\ admin[a] = "idle"
    /\ RowChanges
    /\ admin' = [admin EXCEPT ![a] = "enforcing"]
    /\ UNCHANGED <<langEntry, langReaderVars, langWorkerVars>>

\* ... and enables those of the policy. If it fails or dies here, nothing is
\* undone and no entry is deleted.
EnforceActive(a) ==
    /\ admin[a] = "enforcing"
    /\ \/ RowChanges /\ admin' = [admin EXCEPT ![a] = "deletingList"]
       \/ /\ LangFails /\ UNCHANGED <<version, overlapped>>
          /\ admin' = [admin EXCEPT ![a] = "idle"]
    /\ UNCHANGED <<langEntry, langReaderVars, langWorkerVars>>

\* As if the entry of the language were deleted and the list forgotten.
InvalidateOneOnly(a) ==
    /\ admin[a] = "deletingList"
    /\ admin' = [admin EXCEPT ![a] = "deletingOne"]
    /\ LangWorks
    /\ UNCHANGED <<version, langEntry, langReaderVars, langWorkerVars, overlapped>>

\* Invalidate, InvalidateAll: first the list is deleted, ...
InvalidateList(a) ==
    /\ admin[a] = "deletingList"
    /\ admin' = [admin EXCEPT ![a] = "deletingOne"]
    /\ SetLang("list", {})
    /\ UNCHANGED <<version, langReaderVars, langWorkerVars, overlapped>>

\* ... then the entry of the language.
InvalidateOne(a) ==
    /\ admin[a] = "deletingOne"
    /\ admin' = [admin EXCEPT ![a] = "idle"]
    /\ SetLang("one", {})
    /\ UNCHANGED <<version, langReaderVars, langWorkerVars, overlapped>>

-----------------------------------------------------------------------------
(* GET /languages and GET /languages/:id                                   *)

\* The entry is missing, or Redis fails, which is the same to it. (A hit
\* changes nothing.)
AskEntry(r, k) ==
    /\ langReader[r] = "idle"
    /\ \/ langEntry[k] = {} /\ LangWorks
       \/ LangFails
    /\ asked' = [asked EXCEPT ![r] = k]
    /\ langReader' = [langReader EXCEPT ![r] = "reading"]
    /\ UNCHANGED <<version, langEntry, langCopy, admin, langWorkerVars, overlapped>>

\* The row is read for the user and for the cache; or the statement fails.
ReadLang(r) ==
    /\ langReader[r] = "reading"
    /\ \/ /\ langReader' = [langReader EXCEPT ![r] = "filling"]
          /\ langCopy' = [langCopy EXCEPT ![r] = {version}]
          /\ LangWorks
       \/ /\ langReader' = [langReader EXCEPT ![r] = "idle"]
          /\ UNCHANGED langCopy /\ LangFails
    /\ UNCHANGED <<version, langEntry, asked, admin, langWorkerVars, overlapped>>

\* A goroutine writes the copy with the context of a request that may have
\* ended, which ends the command too.
FillLang(r) ==
    /\ langReader[r] = "filling"
    /\ \/ langEntry' = [langEntry EXCEPT ![asked[r]] = langCopy[r]]
       \/ UNCHANGED langEntry
    /\ langReader' = [langReader EXCEPT ![r] = "idle"]
    /\ langCopy' = [langCopy EXCEPT ![r] = {}]
    /\ LangWorks
    /\ UNCHANGED <<version, asked, admin, langWorkerVars, overlapped>>

-----------------------------------------------------------------------------
(* A worker: RefreshCache when it starts, then GetLanguage for its jobs    *)

BeginRefresh ==
    /\ refresh = "starting"
    /\ refresh' = "reading"
    /\ memory' = {} /\ floor' = version
    /\ LangWorks
    /\ UNCHANGED <<version, langEntry, admin, langReaderVars, refreshed, lookup, found,
                   overlapped>>

\* As if the list of an earlier deployment were good enough (GetAllLanguages).
RefreshFromList ==
    /\ refresh = "reading"
    /\ \E S \in {langEntry["list"]} :
          /\ S # {} /\ memory' = S
          /\ refresh' = "filling" /\ refreshed' = TRUE
    /\ LangWorks
    /\ UNCHANGED <<version, langEntry, admin, langReaderVars, floor, lookup, found,
                   overlapped>>

\* The rows are read into memory; when that fails the worker starts without.
RefreshFromRow ==
    /\ refresh = "reading"
    /\ \/ memory' = {version} /\ refresh' = "filling" /\ refreshed' = TRUE /\ LangWorks
       \/ UNCHANGED <<memory, refreshed>> /\ refresh' = "up" /\ LangFails
    /\ UNCHANGED <<version, langEntry, admin, langReaderVars, floor, lookup, found,
                   overlapped>>

FillFromRefresh ==
    /\ refresh = "filling"
    /\ refresh' = "up"
    /\ SetLang("list", memory)
    /\ UNCHANGED <<version, admin, langReaderVars, memory, floor, refreshed, lookup, found,
                   overlapped>>

\* The process is replaced, and its jobs with it.
WorkerRestarts ==
    /\ refresh = "up"
    /\ refresh' = "starting"
    /\ memory' = {} /\ refreshed' = FALSE
    /\ lookup' = [j \in Lookups |-> "idle"]
    /\ found' = [j \in Lookups |-> {}]
    /\ LangFails
    /\ UNCHANGED <<version, langEntry, admin, langReaderVars, floor, overlapped>>

\* A job goes from one step of GetLanguage to the next.
LookupGoes(j, from, to) ==
    /\ refresh = "up"
    /\ lookup[j] = from
    /\ lookup' = [lookup EXCEPT ![j] = to]
    /\ UNCHANGED <<version, admin, langReaderVars, refresh, floor, refreshed, overlapped>>

\* The language is not in memory. (If it is, nothing changes.)
AskMemory(j) ==
    /\ memory = {}
    /\ LookupGoes(j, "idle", "asking")
    /\ LangWorks
    /\ UNCHANGED <<langEntry, memory, found>>

\* The Redis entry goes to memory.
AskRedis(j) ==
    /\ \/ /\ langEntry["one"] # {} /\ LangWorks
          /\ memory' = langEntry["one"]
          /\ LookupGoes(j, "asking", "idle")
       \/ /\ \/ langEntry["one"] = {} /\ LangWorks
             \/ LangFails
          /\ UNCHANGED memory
          /\ LookupGoes(j, "asking", "reading")
    /\ UNCHANGED <<langEntry, found>>

\* The row is read; if that fails, so does the job.
ReadForJob(j) ==
    /\ \/ /\ LookupGoes(j, "reading", "storing") /\ LangWorks
          /\ found' = [found EXCEPT ![j] = {version}]
       \/ LookupGoes(j, "reading", "idle") /\ LangFails /\ UNCHANGED found
    /\ UNCHANGED <<langEntry, memory>>

StoreForJob(j) ==
    /\ LookupGoes(j, "storing", "filling")
    /\ memory' = found[j]
    /\ LangWorks
    /\ UNCHANGED <<langEntry, found>>

FillForJob(j) ==
    /\ LookupGoes(j, "filling", "idle")
    /\ SetLang("one", found[j])
    /\ found' = [found EXCEPT ![j] = {}]
    /\ UNCHANGED memory

-----------------------------------------------------------------------------
AdminStep(a) == EnforceActive(a) \/ InvalidateList(a) \/ InvalidateOne(a)
LangReaderStep(r) == ReadLang(r) \/ FillLang(r)
RefreshStep == BeginRefresh \/ RefreshFromRow \/ FillFromRefresh
LookupStep(j) == AskRedis(j) \/ ReadForJob(j) \/ StoreForJob(j) \/ FillForJob(j)

LangNext ==
    \/ \E k \in Keys : LangExpires(k)
    \/ \E a \in Admins : SetActive(a) \/ DisableAll(a) \/ AdminStep(a)
    \/ \E r \in LangReaders : LangReaderStep(r) \/ \E k \in Keys : AskEntry(r, k)
    \/ RefreshStep \/ WorkerRestarts
    \/ \E j \in Lookups : AskMemory(j) \/ LookupStep(j)

LangSpec == LangInit /\ [][LangNext]_langVars

-----------------------------------------------------------------------------
(* Properties                                                              *)

\* Readers see a change when the request that made it is over ("so readers see
\* the change immediately", SetLanguageActive), whatever wrote the entries:
\* GETs, a worker's refresh, its jobs. This holds as far as nobody held an older
\* version meanwhile, to put it back afterwards, and no command failed.
ChangeIsSeen ==
    (~overlapped /\ langFailures = 0 /\ \A a \in Admins : admin[a] = "idle")
        => \A k \in Keys : langEntry[k] \in {{}, {version}}

\* A worker whose refresh succeeded never runs a job with a definition older
\* than the row was when it started, though older ones may be in Redis and its
\* jobs read through it (RefreshCache: "Bypassing Redis on read prevents a stale
\* cache").
WorkerIsFresh == refreshed => \A v \in memory : v >= floor

\* Once the row has settled, the Redis entries agree with it in the end. (A
\* worker's memory need not, until it restarts.)
LanguagesConverge ==
    \A v \in Versions :
        <>[](version = v) => <>[](\A k \in Keys : langEntry[k] \in {{}, {v}})
=============================================================================
