------------------------------- MODULE Sandbox -------------------------------
(***************************************************************************)
(* DockerSandbox.Execute: the directory, the image, the container of the   *)
(* compiler and then that of the program, and the verdict.                 *)
(***************************************************************************)
EXTENDS ContainerRun

VARIABLE stage  \* compile or run

sandboxVars == <<runVars, stage>>
stageVars == <<fixedVars, stage>>

\* Every variable keeps its type, and only a compiled language is compiled.
SandboxTypeOK ==
    /\ RunTypeOK
    /\ stage \in {"compile", "run"}
    /\ stage = "compile" => kind = "compiled"

SandboxInit ==
    /\ RunInit
    /\ kind \in {"script", "compiled"}
    /\ stage = IF kind = "compiled" THEN "compile" ELSE "run"

\* ApplyDefaults, ValidateConstraints, and the directory with the source and the
\* input: its removal is deferred only when its mode is set.
SetUp ==
    /\ step = "preparing"
    /\ \/ /\ step' = "pulling" /\ workdir' = "made" /\ DockerWorks
          /\ UNCHANGED <<boxVars, answer, verdict, stranded>>
       \/ ReturnWith("InternalError") /\ DockerFails("setup")
       \/ /\ verdict' = "InternalError" /\ step' = "returned" /\ workdir' = "made"
          /\ DockerFails("chmod")
          /\ UNCHANGED <<boxVars, answer, stranded>>
    /\ UNCHANGED stageVars

PullImage ==
    /\ step = "pulling"
    /\ \/ /\ step' = "creating" /\ DockerWorks
          /\ UNCHANGED <<workdir, boxVars, answer, verdict, stranded>>
       \/ ReturnWith("InternalError") /\ CallFails("pull")
    /\ UNCHANGED stageVars

\* As if the container were not killed when its time is over.
WaitInVain ==
    /\ step = "waiting"
    /\ \/ expired /\ step' = "draining" /\ answer' = "killed" /\ DockerWorks
       \/ ~expired /\ step' = "removing" /\ answer' = "error" /\ DockerFails("wait")
    /\ UNCHANGED <<workdir, boxVars, verdict, stranded, stageVars>>

\* The select has no answer of ContainerWait: the context has ended, and the
\* container is killed, or the daemon failed.
WaitEnds ==
    /\ step = "waiting"
    /\ \/ expired /\ step' = "killing" /\ UNCHANGED answer /\ DockerWorks
       \/ ~expired /\ step' = "removing" /\ answer' = "error" /\ DockerFails("wait")
    /\ UNCHANGED <<workdir, boxVars, verdict, stranded, stageVars>>

\* streamDone is received.
DrainOutput ==
    /\ step = "draining" /\ stream = "done"
    /\ step' = IF answer = "none" THEN "inspecting" ELSE "removing"
    /\ DockerWorks
    /\ UNCHANGED <<workdir, boxVars, answer, verdict, stranded, stageVars>>

\* ContainerInspect tells whether memory ran out; without its answer nobody knows.
Inspect ==
    /\ RunGoes("inspecting", "removing")
    /\ \/ answer' = (IF program = "oom" THEN "oom" ELSE "exited") /\ DockerWorks
       \/ answer' = "exited" /\ DockerFails("inspect")
    /\ UNCHANGED <<workdir, boxVars, verdict, stranded, stageVars>>

\* As if only the exit code counted.
MapExitCodeOnly ==
    IF program = "zero" THEN "Accepted"
    ELSE IF program = "xcpu" THEN "TimeLimitExceeded" ELSE "RuntimeError"

MapExitCode ==
    IF overtime THEN "TimeLimitExceeded"
    ELSE IF program = "zero" THEN "Accepted"
    ELSE IF program = "xcpu" THEN "TimeLimitExceeded" ELSE "RuntimeError"

RunVerdict ==
    CASE answer = "exited" -> MapExitCode
      [] answer = "killed" -> "TimeLimitExceeded"
      [] answer = "oom"    -> "RuntimeError"
      [] OTHER             -> "InternalError"

\* The compiler is done: the program is next if it exited with zero. A compiler
\* that was killed or ran out of memory is an error.
AfterCompile ==
    /\ step = "returning" /\ stage = "compile"
    /\ \/ /\ answer = "exited" /\ program = "zero"
          /\ stage' = "run" /\ step' = "creating"
          /\ program' = "none" /\ stream' = "none" /\ overtime' = FALSE
          /\ expired' \in {FALSE, expired}
          /\ answer' = "none"
          /\ UNCHANGED <<workdir, box, verdict, stranded>>
       \/ answer = "exited" /\ program # "zero" /\ ReturnWith("CompilationError")
          /\ UNCHANGED stage
       \/ answer # "exited" /\ ReturnWith("InternalError") /\ UNCHANGED stage
    /\ DockerWorks
    /\ UNCHANGED fixedVars

AfterRun ==
    /\ step = "returning" /\ stage = "run"
    /\ ReturnWith(RunVerdict)
    /\ DockerWorks
    /\ UNCHANGED stageVars

SandboxStep ==
    \/ SetUp \/ PullImage
    \/ RunStep /\ UNCHANGED stage
    \/ WaitEnds \/ DrainOutput \/ Inspect \/ AfterCompile \/ AfterRun

SandboxNext ==
    \/ SandboxStep
    \/ Surroundings /\ UNCHANGED stage

SandboxSpec == SandboxInit /\ [][SandboxNext]_sandboxVars

-----------------------------------------------------------------------------
(* Properties                                                              *)

\* A verdict says what happened, whichever of the exit, the deadline and a
\* failure of the daemon came first: Accepted is for a program that exited with
\* zero in its time, a compilation error for a compiler that said so, and an
\* internal error for a failure, for time that ran out in a call or in the
\* compiler, or for a compiler that ran out of memory.
VerdictIsEarned ==
    kind # "database" =>
    /\ verdict = "Accepted" => stage = "run" /\ program = "zero" /\ ~overtime
    /\ verdict = "CompilationError" =>
          stage = "compile" /\ program \in {"nonzero", "xcpu", "oom"}
    /\ verdict = "RuntimeError" => stage = "run" /\ program \in {"nonzero", "oom"}
    /\ verdict = "TimeLimitExceeded" =>
          stage = "run" /\ (overtime \/ expired \/ program = "xcpu")
    /\ verdict = "InternalError" =>
          troubles # {} \/ expired \/ (stage = "compile" /\ program = "oom")
=============================================================================
