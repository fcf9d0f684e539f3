----------------------------- MODULE DatabaseRun -----------------------------
(***************************************************************************)
(* DBRuntime: a script runs in a database container of its own. (SQLite    *)
(* runs in the sandbox.)                                                   *)
(***************************************************************************)
EXTENDS ContainerRun

DatabaseInit == RunInit /\ kind = "database"

\* Execute and prepareWorkdir: what was made is removed when a step fails.
PrepareWorkdir ==
    /\ step = "preparing"
    /\ \/ /\ step' = "pulling" /\ workdir' = "made" /\ DockerWorks
          /\ UNCHANGED <<boxVars, answer, verdict, stranded>>
       \/ ReturnWith("InternalError") /\ DockerFails("setup")
    /\ UNCHANGED fixedVars

PullDatabaseImage ==
    /\ step = "pulling"
    /\ \/ /\ step' = "creating" /\ DockerWorks
          /\ UNCHANGED <<workdir, boxVars, answer, verdict, stranded>>
       \/ ReturnWith("InternalError") /\ CallFails("pull")
    /\ UNCHANGED fixedVars

\* The select: an error of the wait is answered when the output has ended, with
\* the container as it is; only the end of the context that the select sees
\* itself kills it.
AwaitDatabase ==
    /\ step = "waiting"
    /\ \/ step' = "killing" /\ expired /\ DockerWorks /\ UNCHANGED <<answer, unwatched>>
       \/ /\ step' = "draining" /\ unwatched' = TRUE /\ UNCHANGED answer
          /\ CallFails("wait")
    /\ UNCHANGED <<kind, workdir, boxVars, verdict, stranded>>

DrainDatabase ==
    /\ step = "draining" /\ stream = "done"
    /\ step' = "removing"
    /\ answer' = IF unwatched THEN (IF expired THEN "killed" ELSE "error")
                 ELSE IF answer = "none" THEN "exited" ELSE answer
    /\ unwatched' = FALSE
    /\ DockerWorks
    /\ UNCHANGED <<kind, workdir, boxVars, verdict, stranded>>

\* As if a container that was killed had only a bad exit code.
KilledIsFailed ==
    CASE answer = "exited" -> IF program = "zero" THEN "Accepted" ELSE "RuntimeError"
      [] answer = "killed" -> "RuntimeError"
      [] OTHER             -> "InternalError"

DatabaseVerdict ==
    CASE answer = "exited" -> IF program = "zero" THEN "Accepted" ELSE "RuntimeError"
      [] answer = "killed" -> "TimeLimitExceeded"
      [] OTHER             -> "InternalError"

DatabaseReturns ==
    /\ step = "returning"
    /\ ReturnWith(DatabaseVerdict)
    /\ DockerWorks
    /\ UNCHANGED fixedVars

DatabaseStep ==
    \/ PrepareWorkdir \/ PullDatabaseImage
    \/ RunStep
    \/ AwaitDatabase \/ DrainDatabase \/ DatabaseReturns

DatabaseNext ==
    \/ DatabaseStep
    \/ Surroundings

DatabaseSpec == DatabaseInit /\ [][DatabaseNext]_runVars

-----------------------------------------------------------------------------
(* Properties                                                              *)

\* A verdict says what happened to the script, except that time over the limit
\* counts only when the container was cut off.
ScriptVerdictIsEarned ==
    kind = "database" =>
    /\ verdict = "Accepted" => program = "zero"
    /\ verdict = "RuntimeError" => program \in {"nonzero", "xcpu", "oom"}
    /\ verdict = "TimeLimitExceeded" => expired
    /\ verdict = "InternalError" => troubles # {} \/ expired
    /\ verdict # "CompilationError"
=============================================================================
