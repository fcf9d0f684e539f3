--------------------------- MODULE SandboxProofs ---------------------------
(***************************************************************************)
(* DockerSandbox.Execute, for any number of failed calls: the verdict is   *)
(* one that the program earned, and nothing is left behind.                *)
(*                                                                         *)
(* Both follow from where the execution stands. A container exists exactly *)
(* between its creation and its removal (BoxPlace); the answer of the run  *)
(* is open until one of its ends is reached, and says which one it was     *)
(* (AnswerPlace, AnswerTrue); and a container whose creation was not       *)
(* answered ends the execution, before the deadline of the compiler's run  *)
(* is forgotten (StrandedPlace).                                           *)
(*                                                                         *)
(* The same for a script in a database container (DBRuntime.Execute),      *)
(* whose run may wait for the output of a container that nobody kills:     *)
(* where it stands is ScriptPlace.                                         *)
(***************************************************************************)
EXTENDS Sandbox, DatabaseRun, TLAPS

Exits == {"zero", "nonzero", "xcpu", "oom"}

BoxPlace ==
    /\ box # "none" <=> step \in {"attaching", "starting", "waiting", "killing", "draining",
                                  "inspecting", "removing"}
    /\ step \in {"preparing", "pulling", "creating"} => program = "none"

AnswerPlace ==
    /\ step \in {"preparing", "pulling", "creating", "attaching", "starting", "waiting",
                 "killing", "inspecting"} => answer = "none"
    /\ step \in {"removing", "returning"} => answer # "none"
    /\ step \in {"draining", "inspecting"} /\ answer = "none" => box = "ended"
    /\ box = "ended" /\ answer = "none" => program \in Exits
    /\ step = "killing" => expired

AnswerTrue ==
    /\ answer \in {"exited", "oom"} => box \in {"ended", "none"} /\ program \in Exits
    /\ answer = "oom" => program = "oom"
    /\ answer = "killed" => expired
    /\ answer = "error" => troubles # {} \/ expired

StrandedPlace ==
    stranded => \/ "create" \in troubles \/ "remove" \in troubles
                \/ expired /\ answer = "error" /\ step \in {"returning", "returned"}

DirectoryPlace == step = "returned" /\ workdir = "made" => "chmod" \in troubles

VerdictPlace == verdict # "none" => step = "returned"

SandboxInv ==
    /\ SandboxTypeOK /\ kind # "database"
    /\ BoxPlace /\ AnswerPlace /\ AnswerTrue
    /\ StrandedPlace /\ DirectoryPlace /\ VerdictPlace /\ VerdictIsEarned

\* How a call may end: it is recorded as a failure or not, and either way the
\* types of these two variables are kept.
LEMMA DockerEnds ==
    ASSUME RunTypeOK,
           DockerWorks \/ \E which \in {"setup", "chmod", "pull", "create", "attach", "start",
                                        "wait", "kill", "inspect", "remove"} : DockerFails(which)
    PROVE  /\ troubles' \subseteq {"setup", "chmod", "pull", "create", "attach", "start", "wait",
                                   "kill", "inspect", "remove"}
           /\ dockerFailures' \in 0..MaxDockerFailures
           /\ troubles \subseteq troubles'
           /\ troubles # {} => troubles' # {}
  <1> USE DEF RunTypeOK
  <1>1. CASE DockerWorks
    BY <1>1 DEF DockerWorks, dockerVars
  <1>2. CASE \E which \in {"setup", "chmod", "pull", "create", "attach", "start",
                           "wait", "kill", "inspect", "remove"} : DockerFails(which)
    BY <1>2, DockerAssumption DEF DockerFails
  <1> QED
    BY <1>1, <1>2

LEMMA SandboxInitHolds == ASSUME SandboxInit PROVE SandboxInv
  <1> USE DEF SandboxInit, RunInit
  <1>1. SandboxTypeOK /\ kind # "database"
    <2>1. dockerFailures \in 0..MaxDockerFailures
      BY DockerAssumption
    <2>2. stage \in {"compile", "run"} /\ (stage = "compile" => kind = "compiled")
      OBVIOUS
    <2> QED
      BY <2>1, <2>2 DEF SandboxTypeOK, RunTypeOK, Steps
  <1>2. BoxPlace /\ AnswerPlace
    BY DEF BoxPlace, AnswerPlace
  <1>3. AnswerTrue /\ StrandedPlace /\ DirectoryPlace /\ VerdictPlace /\ VerdictIsEarned
    BY DEF AnswerTrue, StrandedPlace, DirectoryPlace, VerdictPlace, VerdictIsEarned
  <1> QED
    BY <1>1, <1>2, <1>3 DEF SandboxInv

USE DEF SandboxInv, SandboxTypeOK, RunTypeOK, Steps, Exits, BoxPlace, AnswerPlace, AnswerTrue,
        StrandedPlace, DirectoryPlace, VerdictPlace, VerdictIsEarned,
        sandboxVars, runVars, dockerVars, boxVars, fixedVars, stageVars,
        DockerWorks, RunGoes

LEMMA SetUpKeeps == ASSUME SandboxInv, SetUp PROVE SandboxInv'
  BY DockerEnds DEF SetUp, ReturnWith, DockerFails
LEMMA PullImageKeeps == ASSUME SandboxInv, PullImage PROVE SandboxInv'
  BY DockerEnds DEF PullImage, ReturnWith, CallFails, DockerFails
LEMMA CreateKeeps == ASSUME SandboxInv, CreateContainer, UNCHANGED stage PROVE SandboxInv'
  <1>1. CASE step' = "attaching"
    BY <1>1, DockerEnds DEF CreateContainer
  <1>2. CASE step' = "returning" /\ DockerFails("create")
    <2>1. /\ step = "creating" /\ answer' = "error" /\ stranded' \in {stranded, TRUE}
          /\ UNCHANGED <<kind, unwatched, workdir, box, program, stream, expired, overtime,
                         verdict>>
      BY <1>2 DEF CreateContainer
    <2>2. "create" \in troubles' /\ troubles' # {}
      BY <1>2 DEF DockerFails
    <2>3. /\ troubles' \subseteq {"setup", "chmod", "pull", "create", "attach", "start", "wait",
                                  "kill", "inspect", "remove"}
          /\ dockerFailures' \in 0..MaxDockerFailures /\ troubles \subseteq troubles'
      BY <1>2, DockerEnds
    <2>4. stranded' \in BOOLEAN
      BY <2>1
    <2> QED
      BY <1>2, <2>1, <2>2, <2>3, <2>4
  <1>3. CASE step' = "returning" /\ expired /\ DockerWorks
    BY <1>3, DockerEnds, ZenonT(30) DEF CreateContainer
  <1> QED
    BY <1>1, <1>2, <1>3 DEF CreateContainer, CallFails
LEMMA AttachKeeps == ASSUME SandboxInv, AttachContainer, UNCHANGED stage PROVE SandboxInv'
  BY DockerEnds DEF AttachContainer, CallFails, DockerFails
LEMMA StartKeeps == ASSUME SandboxInv, StartContainer, UNCHANGED stage PROVE SandboxInv'
  BY DockerEnds DEF StartContainer, CallFails, DockerFails
LEMMA SeeExitKeeps == ASSUME SandboxInv, SeeExit, UNCHANGED stage PROVE SandboxInv'
  BY DockerEnds DEF SeeExit
LEMMA KillKeeps == ASSUME SandboxInv, KillContainer, UNCHANGED stage PROVE SandboxInv'
  BY DockerEnds DEF KillContainer, DockerFails
LEMMA RemoveKeeps == ASSUME SandboxInv, RemoveContainer, UNCHANGED stage PROVE SandboxInv'
  <1>1. CASE DockerWorks
    BY <1>1, DockerEnds DEF RemoveContainer, DockerFails
  <1>2. CASE ~DockerWorks
    <2>1. /\ RunGoes("removing", "returning") /\ box' = "none" /\ stranded' = TRUE
          /\ DockerFails("remove")
          /\ UNCHANGED <<kind, unwatched, workdir, program, stream, expired, overtime, answer,
                         verdict>>
      BY <1>2, Zenon DEF RemoveContainer
    <2>2. "remove" \in troubles' /\ troubles' # {}
      BY <2>1 DEF DockerFails
    <2>3. /\ troubles' \subseteq {"setup", "chmod", "pull", "create", "attach", "start", "wait",
                                  "kill", "inspect", "remove"}
          /\ dockerFailures' \in 0..MaxDockerFailures /\ troubles \subseteq troubles'
      BY <2>1, DockerEnds
    <2> QED
      BY <2>1, <2>2, <2>3
  <1> QED
    BY <1>1, <1>2 DEF RemoveContainer
LEMMA WaitEndsKeeps == ASSUME SandboxInv, WaitEnds PROVE SandboxInv'
  BY DockerEnds DEF WaitEnds, DockerFails
LEMMA DrainKeeps == ASSUME SandboxInv, DrainOutput PROVE SandboxInv'
  BY DockerEnds DEF DrainOutput
LEMMA InspectKeeps == ASSUME SandboxInv, Inspect PROVE SandboxInv'
  BY DockerEnds DEF Inspect, DockerFails
LEMMA AfterCompileKeeps == ASSUME SandboxInv, AfterCompile PROVE SandboxInv'
  <1>1. CASE answer = "exited" /\ program = "zero"
    <2>1. /\ stage' = "run" /\ step' = "creating" /\ program' = "none" /\ stream' = "none"
          /\ overtime' = FALSE /\ answer' = "none" /\ (expired' = FALSE \/ expired' = expired)
          /\ UNCHANGED <<kind, unwatched, workdir, box, verdict, stranded, troubles, dockerFailures>>
      BY <1>1, Zenon DEF AfterCompile, ReturnWith
    <2>2. expired' \in BOOLEAN
      BY <2>1
    <2>3. step = "returning" /\ stage = "compile"
      BY DEF AfterCompile
    <2>4. SandboxTypeOK'
      BY <2>1, <2>2, <2>3
    <2> QED
      BY <1>1, <2>1, <2>2, <2>3, <2>4
  <1>2. CASE ~(answer = "exited" /\ program = "zero")
    <2>1. /\ step' = "returned" /\ UNCHANGED stage
          /\ workdir' = IF workdir = "made" THEN "removed" ELSE workdir
          /\ verdict' = IF answer = "exited" THEN "CompilationError" ELSE "InternalError"
          /\ UNCHANGED <<kind, unwatched, box, program, stream, expired, overtime, answer,
                         stranded, troubles, dockerFailures>>
      BY <1>2, Zenon DEF AfterCompile, ReturnWith
    <2>2. step = "returning" /\ stage = "compile"
      BY DEF AfterCompile
    <2> QED
      BY <1>2, <2>1, <2>2
  <1> QED
    BY <1>1, <1>2

LEMMA AfterRunKeeps == ASSUME SandboxInv, AfterRun PROVE SandboxInv'
  BY DockerEnds DEF AfterRun, ReturnWith, RunVerdict, MapExitCode
LEMMA SurroundingsKeep == ASSUME SandboxInv, Surroundings, UNCHANGED stage PROVE SandboxInv'
  <1>1. CASE ProgramEnds
    BY <1>1 DEF ProgramEnds
  <1>2. CASE StreamEnds
    BY <1>2 DEF StreamEnds
  <1>3. CASE TimePasses
    BY <1>3 DEF TimePasses
  <1>4. CASE ContextEnds
    BY <1>4 DEF ContextEnds
  <1> QED
    BY <1>1, <1>2, <1>3, <1>4 DEF Surroundings

LEMMA SandboxStepKeeps == ASSUME SandboxInv, [SandboxNext]_sandboxVars PROVE SandboxInv'
  <1>1. CASE SandboxStep
    BY <1>1, SetUpKeeps, PullImageKeeps, CreateKeeps, AttachKeeps, StartKeeps, SeeExitKeeps,
       KillKeeps, RemoveKeeps, WaitEndsKeeps, DrainKeeps, InspectKeeps, AfterCompileKeeps,
       AfterRunKeeps
    DEF SandboxStep, RunStep
  <1>2. CASE Surroundings /\ UNCHANGED stage
    BY <1>2, SurroundingsKeep
  <1>3. CASE UNCHANGED sandboxVars
    BY <1>3
  <1> QED
    BY <1>1, <1>2, <1>3 DEF SandboxNext

HIDE DEF SandboxInv, SandboxTypeOK, RunTypeOK, Steps, Exits, BoxPlace, AnswerPlace, AnswerTrue,
         StrandedPlace, DirectoryPlace, VerdictPlace, VerdictIsEarned,
         sandboxVars, runVars, dockerVars, boxVars, fixedVars, stageVars,
         DockerWorks, RunGoes

LEMMA SandboxInductive == SandboxSpec => []SandboxInv
  <1>1. SandboxInit => SandboxInv
    BY SandboxInitHolds
  <1>2. SandboxInv /\ [SandboxNext]_sandboxVars => SandboxInv'
    BY SandboxStepKeeps
  <1> QED
    BY <1>1, <1>2, PTL DEF SandboxSpec

\* Every variable keeps its type, through every failure of the daemon and the
\* end of the context at any moment.
THEOREM SandboxTypeCorrect == SandboxSpec => []SandboxTypeOK
  <1>1. SandboxInv => SandboxTypeOK
    BY DEF SandboxInv
  <1> QED
    BY <1>1, SandboxInductive, PTL

\* Execute reports what its program did: no verdict of the program stands for a
\* failure or for the deadline, and none of them for the program's own end,
\* whichever comes first and whatever fails.
THEOREM VerdictEarned == SandboxSpec => []VerdictIsEarned
  <1>1. SandboxInv => VerdictIsEarned
    BY DEF SandboxInv
  <1> QED
    BY <1>1, SandboxInductive, PTL

\* When Execute returns, its container is gone and its directory too, on every
\* path, except for the failures that NothingIsLeft names.
THEOREM SandboxLeavesNothing == SandboxSpec => []NothingIsLeft
  <1>1. SandboxInv => NothingIsLeft
    BY DEF SandboxInv, NothingIsLeft, BoxPlace, StrandedPlace, DirectoryPlace
  <1> QED
    BY <1>1, SandboxInductive, PTL

-----------------------------------------------------------------------------
(* A script in a database container                                        *)

\* An execution of DBRuntime is answered like one of the sandbox, except that
\* the wait for an exit may fail and the output be awaited all the same: the
\* container may then run on (unwatched), and the answer says so.
ScriptPlace ==
    /\ step # "inspecting"
    /\ step \in {"preparing", "pulling", "creating", "attaching", "starting", "waiting",
                 "killing"} => answer = "none"
    /\ step \in {"removing", "returning"} => answer # "none"
    /\ unwatched => step = "draining" /\ answer = "none" /\ (troubles # {} \/ expired)
    /\ step = "draining" /\ answer = "none" => unwatched \/ box = "ended"
    /\ box = "ended" /\ answer = "none" => program \in Exits
    /\ step = "killing" => expired

DInv ==
    /\ RunTypeOK /\ kind = "database"
    /\ BoxPlace /\ ScriptPlace /\ AnswerTrue /\ answer # "oom"
    /\ StrandedPlace /\ DirectoryPlace /\ VerdictPlace /\ ScriptVerdictIsEarned

LEMMA DatabaseInitHolds == ASSUME DatabaseInit PROVE DInv
  <1> USE DEF DatabaseInit, RunInit
  <1>1. RunTypeOK
    <2>1. dockerFailures \in 0..MaxDockerFailures
      BY DockerAssumption
    <2> QED
      BY <2>1 DEF RunTypeOK, Steps
  <1>2. BoxPlace /\ ScriptPlace
    BY DEF BoxPlace, ScriptPlace
  <1>3. AnswerTrue /\ StrandedPlace /\ DirectoryPlace /\ VerdictPlace /\ ScriptVerdictIsEarned
    BY DEF AnswerTrue, StrandedPlace, DirectoryPlace, VerdictPlace, ScriptVerdictIsEarned
  <1> QED
    BY <1>1, <1>2, <1>3 DEF DInv

USE DEF DInv, RunTypeOK, Steps, Exits, BoxPlace, ScriptPlace, AnswerTrue, StrandedPlace,
        DirectoryPlace, VerdictPlace, ScriptVerdictIsEarned, runVars, dockerVars, boxVars,
        fixedVars, DockerWorks, RunGoes

\* The steps before there is a container.
LEMMA PrepareKeeps == ASSUME DInv, PrepareWorkdir PROVE DInv'
  BY DockerEnds DEF PrepareWorkdir, ReturnWith, DockerFails
LEMMA PullDatabaseKeeps == ASSUME DInv, PullDatabaseImage PROVE DInv'
  BY DockerEnds DEF PullDatabaseImage, ReturnWith, CallFails, DockerFails

\* The calls that the sandbox makes too.
LEMMA ScriptCreateKeeps == ASSUME DInv, CreateContainer PROVE DInv'
  <1>1. CASE step' = "attaching"
    BY <1>1, DockerEnds DEF CreateContainer
  <1>2. CASE step' = "returning" /\ DockerFails("create")
    <2>1. /\ step = "creating" /\ answer' = "error" /\ stranded' \in {stranded, TRUE}
          /\ UNCHANGED <<kind, unwatched, workdir, box, program, stream, expired, overtime,
                         verdict>>
      BY <1>2 DEF CreateContainer
    <2>2. "create" \in troubles' /\ troubles' # {}
      BY <1>2 DEF DockerFails
    <2>3. /\ troubles' \subseteq {"setup", "chmod", "pull", "create", "attach", "start", "wait",
                                  "kill", "inspect", "remove"}
          /\ dockerFailures' \in 0..MaxDockerFailures /\ troubles \subseteq troubles'
      BY <1>2, DockerEnds
    <2>4. stranded' \in BOOLEAN
      BY <2>1
    <2> QED
      BY <1>2, <2>1, <2>2, <2>3, <2>4
  <1>3. CASE step' = "returning" /\ expired /\ DockerWorks
    BY <1>3, DockerEnds DEF CreateContainer
  <1> QED
    BY <1>1, <1>2, <1>3 DEF CreateContainer, CallFails
LEMMA ScriptAttachKeeps == ASSUME DInv, AttachContainer PROVE DInv'
  BY DockerEnds DEF AttachContainer, CallFails, DockerFails
LEMMA ScriptStartKeeps == ASSUME DInv, StartContainer PROVE DInv'
  BY DockerEnds DEF StartContainer, CallFails, DockerFails
LEMMA ScriptExitKeeps == ASSUME DInv, SeeExit PROVE DInv'
  BY DockerEnds DEF SeeExit
LEMMA ScriptKillKeeps == ASSUME DInv, KillContainer PROVE DInv'
  BY DockerEnds DEF KillContainer, DockerFails
LEMMA ScriptRemoveKeeps == ASSUME DInv, RemoveContainer PROVE DInv'
  <1>1. CASE DockerWorks
    BY <1>1, DockerEnds DEF RemoveContainer, DockerFails
  <1>2. CASE ~DockerWorks
    <2>1. /\ RunGoes("removing", "returning") /\ box' = "none" /\ stranded' = TRUE
          /\ DockerFails("remove")
          /\ UNCHANGED <<kind, unwatched, workdir, program, stream, expired, overtime, answer,
                         verdict>>
      BY <1>2, Zenon DEF RemoveContainer
    <2>2. "remove" \in troubles' /\ troubles' # {}
      BY <2>1 DEF DockerFails
    <2>3. /\ troubles' \subseteq {"setup", "chmod", "pull", "create", "attach", "start", "wait",
                                  "kill", "inspect", "remove"}
          /\ dockerFailures' \in 0..MaxDockerFailures /\ troubles \subseteq troubles'
      BY <2>1, DockerEnds
    <2> QED
      BY <2>1, <2>2, <2>3
  <1> QED
    BY <1>1, <1>2 DEF RemoveContainer

\* The select, the end of the output, and the answer.
LEMMA AwaitKeeps == ASSUME DInv, AwaitDatabase PROVE DInv'
  <1>1. CASE step' = "killing"
    BY <1>1, DockerEnds DEF AwaitDatabase
  <1>2. CASE step' = "draining"
    <2>1. /\ step = "waiting" /\ unwatched' = TRUE
          /\ UNCHANGED <<kind, workdir, boxVars, answer, verdict, stranded>>
          /\ CallFails("wait")
      BY <1>2, Zenon DEF AwaitDatabase
    <2>2. /\ troubles' \subseteq {"setup", "chmod", "pull", "create", "attach", "start", "wait",
                                  "kill", "inspect", "remove"}
          /\ dockerFailures' \in 0..MaxDockerFailures /\ troubles \subseteq troubles'
      BY <2>1, DockerEnds DEF CallFails
    <2>3. troubles' # {} \/ expired
      BY <2>1 DEF CallFails, DockerFails
    <2>4. unwatched' \in BOOLEAN
      BY <2>1
    <2> QED
      BY <1>2, <2>1, <2>2, <2>3, <2>4
  <1> QED
    BY <1>1, <1>2 DEF AwaitDatabase
LEMMA DrainDatabaseKeeps == ASSUME DInv, DrainDatabase PROVE DInv'
  <1>1. /\ step = "draining" /\ step' = "removing" /\ unwatched' = FALSE
        /\ UNCHANGED <<kind, workdir, boxVars, verdict, stranded, dockerVars>>
    BY Zenon DEF DrainDatabase
  <1>2. unwatched' \in BOOLEAN
    BY <1>1
  <1>3. CASE unwatched
    <2>1. \/ expired /\ answer' = "killed"
          \/ ~expired /\ answer' = "error"
      BY <1>3, Zenon DEF DrainDatabase
    <2>2. troubles # {} \/ expired
      BY <1>3, Zenon
    <2> QED
      BY <1>1, <1>2, <2>1, <2>2
  <1>4. CASE ~unwatched
    <2>1. answer' = IF answer = "none" THEN "exited" ELSE answer
      BY <1>4, Zenon DEF DrainDatabase
    <2>2. answer = "none" => box = "ended"
      BY <1>1, <1>4
    <2> QED
      BY <1>1, <1>2, <2>1, <2>2
  <1> QED
    BY <1>3, <1>4
LEMMA DatabaseReturnsKeeps == ASSUME DInv, DatabaseReturns PROVE DInv'
  BY DockerEnds DEF DatabaseReturns, ReturnWith, DatabaseVerdict

LEMMA ScriptSurroundingsKeep == ASSUME DInv, Surroundings PROVE DInv'
  <1>1. CASE ProgramEnds
    BY <1>1 DEF ProgramEnds
  <1>2. CASE StreamEnds
    BY <1>2 DEF StreamEnds
  <1>3. CASE TimePasses
    BY <1>3 DEF TimePasses
  <1>4. CASE ContextEnds
    BY <1>4 DEF ContextEnds
  <1> QED
    BY <1>1, <1>2, <1>3, <1>4 DEF Surroundings

LEMMA DatabaseStepKeeps == ASSUME DInv, [DatabaseNext]_runVars PROVE DInv'
  <1>1. CASE DatabaseStep
    BY <1>1, PrepareKeeps, PullDatabaseKeeps, ScriptCreateKeeps, ScriptAttachKeeps,
       ScriptStartKeeps, ScriptExitKeeps, ScriptKillKeeps, ScriptRemoveKeeps, AwaitKeeps,
       DrainDatabaseKeeps, DatabaseReturnsKeeps
    DEF DatabaseStep, RunStep
  <1>2. CASE Surroundings
    BY <1>2, ScriptSurroundingsKeep
  <1>3. CASE UNCHANGED runVars
    BY <1>3
  <1> QED
    BY <1>1, <1>2, <1>3 DEF DatabaseNext

HIDE DEF DInv, RunTypeOK, Steps, Exits, BoxPlace, ScriptPlace, AnswerTrue, StrandedPlace,
         DirectoryPlace, VerdictPlace, ScriptVerdictIsEarned, runVars, dockerVars, boxVars,
         fixedVars, DockerWorks, RunGoes

LEMMA DatabaseInductive == DatabaseSpec => []DInv
  BY DatabaseInitHolds, DatabaseStepKeeps, PTL DEF DatabaseSpec

\* DBRuntime.Execute reports what its script did: it was accepted or failed by
\* its own exit, and was over the limit only if its container was cut off,
\* whichever call fails and whenever the context ends, also when the wait for
\* the exit fails and the output is awaited all the same.
THEOREM ScriptVerdictEarned == DatabaseSpec => []ScriptVerdictIsEarned
  <1>1. DInv => ScriptVerdictIsEarned
    BY DEF DInv
  <1> QED
    BY <1>1, DatabaseInductive, PTL

\* Its container and its directory are gone when it returns, as the sandbox's
\* are.
THEOREM DatabaseLeavesNothing == DatabaseSpec => []NothingIsLeft
  <1>1. DInv => NothingIsLeft
    BY DEF DInv, NothingIsLeft, BoxPlace, StrandedPlace, DirectoryPlace
  <1> QED
    BY <1>1, DatabaseInductive, PTL

=============================================================================
