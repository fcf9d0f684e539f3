---------------------------- MODULE ContainerRun ----------------------------
(***************************************************************************)
(* One container from creation to removal, as the sandbox and the database *)
(* runtime use the Docker daemon: the calls that may fail or whose answer  *)
(* may be lost, the program that runs in it, the stream of its output, and *)
(* the deadline of the context that the calls are made with.               *)
(***************************************************************************)
EXTENDS Naturals, FiniteSets

CONSTANT MaxDockerFailures  \* bound: how many calls fail

ASSUME DockerAssumption == MaxDockerFailures \in Nat

VARIABLES
    kind,       \* what is executed: a script, a compiled program, or a database script
    step,       \* where the execution stands
    workdir,    \* its directory: none, there, or removed
    box,        \* its container
    program,    \* how the program in it ended
    stream,     \* the goroutine that copies the output
    expired,    \* the context of the calls has ended
    overtime,   \* the wall-time limit has passed since the start
    unwatched,  \* the run waits for the output of a container that nobody will kill
    answer,     \* what the run returns: none yet, exited, killed, oom, or an error
    verdict,    \* what the execution returns
    stranded,   \* a container was left behind
    troubles,   \* the kinds of failure that occurred
    dockerFailures

runVars == <<kind, step, workdir, box, program, stream, expired, overtime, unwatched,
             answer, verdict, stranded, troubles, dockerFailures>>
dockerVars == <<troubles, dockerFailures>>
boxVars == <<box, program, stream, expired, overtime>>
fixedVars == <<kind, unwatched>>

Steps == {"preparing", "pulling", "creating", "attaching", "starting", "waiting", "killing",
          "draining", "inspecting", "removing", "returning", "returned"}

\* Every variable keeps its type, and a program ends only in a container.
RunTypeOK ==
    /\ kind \in {"script", "compiled", "database"} /\ step \in Steps
    /\ workdir \in {"none", "made", "removed"}
    /\ box \in {"none", "created", "running", "ended"}
    /\ program \in {"none", "zero", "nonzero", "xcpu", "oom", "killed"}
    /\ stream \in {"none", "open", "done"}
    /\ expired \in BOOLEAN /\ overtime \in BOOLEAN /\ stranded \in BOOLEAN
    /\ unwatched \in BOOLEAN
    /\ unwatched => kind = "database"
    /\ answer \in {"none", "exited", "killed", "oom", "error"}
    /\ verdict \in {"none", "Accepted", "RuntimeError", "TimeLimitExceeded",
                    "CompilationError", "InternalError"}
    /\ troubles \subseteq {"setup", "chmod", "pull", "create", "attach", "start", "wait",
                           "kill", "inspect", "remove"}
    /\ dockerFailures \in 0..MaxDockerFailures
    /\ box = "created" => program = "none"
    /\ step \in {"killing", "inspecting"} => box # "none"

RunInit ==
    /\ step = "preparing" /\ workdir = "none"
    /\ box = "none" /\ program = "none" /\ stream = "none"
    /\ expired = FALSE /\ overtime = FALSE /\ unwatched = FALSE
    /\ answer = "none" /\ verdict = "none"
    /\ stranded = FALSE /\ troubles = {} /\ dockerFailures = 0

DockerWorks == UNCHANGED dockerVars

DockerFails(which) ==
    /\ dockerFailures < MaxDockerFailures
    /\ dockerFailures' = dockerFailures + 1
    /\ troubles' = troubles \cup {which}

\* A call fails by itself, or as its context has ended.
CallFails(which) ==
    \/ DockerFails(which)
    \/ expired /\ DockerWorks

RunGoes(from, to) == step = from /\ step' = to

-----------------------------------------------------------------------------
(* The program, its output, and time                                       *)

ProgramEnds ==
    /\ box = "running"
    /\ box' = "ended"
    /\ program' \in {"zero", "nonzero", "xcpu", "oom"}
    /\ DockerWorks
    /\ UNCHANGED <<fixedVars, step, workdir, stream, expired, overtime, answer, verdict, stranded>>

\* The output ends with the program, or earlier: the program closes it, or a
\* write to a buffer that is full ends stdCopy.
StreamEnds ==
    /\ stream = "open"
    /\ stream' = "done"
    /\ DockerWorks
    /\ UNCHANGED <<fixedVars, step, workdir, box, program, expired, overtime, answer, verdict, stranded>>

TimePasses ==
    /\ step \in {"waiting", "draining", "inspecting"} /\ answer = "none" /\ ~overtime
    /\ overtime' = TRUE
    /\ DockerWorks
    /\ UNCHANGED <<fixedVars, step, workdir, box, program, stream, expired, answer, verdict, stranded>>

\* The deadline of the run, or the end of the job's own context.
ContextEnds ==
    /\ step \notin {"returning", "returned"} /\ ~expired
    /\ expired' = TRUE
    /\ DockerWorks
    /\ UNCHANGED <<fixedVars, step, workdir, box, program, stream, overtime, answer, verdict, stranded>>

-----------------------------------------------------------------------------
(* The calls                                                               *)

\* ContainerCreate: an answer that is lost leaves a container that nobody knows.
CreateContainer ==
    /\ \/ RunGoes("creating", "attaching") /\ box' = "created" /\ DockerWorks
          /\ UNCHANGED <<answer, stranded>>
       \/ /\ RunGoes("creating", "returning")
          /\ answer' = "error" /\ CallFails("create")
          /\ stranded' \in {stranded, TRUE}
          /\ UNCHANGED box
    /\ UNCHANGED <<fixedVars, workdir, program, stream, expired, overtime, verdict>>

\* As if the removal were deferred only when the output is attached.
AttachThenDefer ==
    /\ \/ RunGoes("attaching", "starting") /\ UNCHANGED answer /\ DockerWorks
       \/ RunGoes("attaching", "returning") /\ answer' = "error" /\ CallFails("attach")
    /\ UNCHANGED <<fixedVars, workdir, boxVars, verdict, stranded>>

AttachContainer ==
    /\ \/ RunGoes("attaching", "starting") /\ UNCHANGED answer /\ DockerWorks
       \/ RunGoes("attaching", "removing") /\ answer' = "error" /\ CallFails("attach")
    /\ UNCHANGED <<fixedVars, workdir, boxVars, verdict, stranded>>

StartContainer ==
    /\ \/ /\ RunGoes("starting", "waiting")
          /\ box' = "running" /\ stream' = "open" /\ UNCHANGED answer /\ DockerWorks
       \/ /\ RunGoes("starting", "removing")
          /\ box' \in {box, "running"} /\ answer' = "error" /\ CallFails("start")
          /\ UNCHANGED stream
    /\ UNCHANGED <<fixedVars, workdir, program, expired, overtime, verdict, stranded>>

\* ContainerWait has its answer.
SeeExit ==
    /\ RunGoes("waiting", "draining") /\ box = "ended"
    /\ DockerWorks
    /\ UNCHANGED <<fixedVars, workdir, boxVars, answer, verdict, stranded>>

\* ContainerKill: its failure is ignored.
KillContainer ==
    /\ RunGoes("killing", "draining")
    /\ answer' = "killed"
    /\ \/ /\ box' = "ended" /\ program' = IF box = "running" THEN "killed" ELSE program
          /\ DockerWorks
       \/ UNCHANGED <<box, program>> /\ DockerFails("kill")
    /\ UNCHANGED <<fixedVars, workdir, stream, expired, overtime, verdict, stranded>>

\* removeContainer, deferred with a context of its own: its failure is ignored.
RemoveContainer ==
    /\ RunGoes("removing", "returning")
    /\ \/ box' = "none" /\ UNCHANGED stranded /\ DockerWorks
       \/ box' = "none" /\ stranded' = TRUE /\ DockerFails("remove")
    /\ UNCHANGED <<fixedVars, workdir, program, stream, expired, overtime, answer, verdict>>

\* The execution returns, and its directory is removed.
ReturnWith(v) ==
    /\ verdict' = v
    /\ step' = "returned"
    /\ workdir' = IF workdir = "made" THEN "removed" ELSE workdir
    /\ UNCHANGED <<boxVars, answer, stranded>>

RunStep ==
    \/ CreateContainer \/ AttachContainer \/ StartContainer
    \/ SeeExit \/ KillContainer \/ RemoveContainer

Surroundings == ProgramEnds \/ StreamEnds \/ TimePasses \/ ContextEnds

-----------------------------------------------------------------------------
(* What an execution of either kind promises                               *)

\* An execution that has returned left no container, unless a call to remove it
\* failed or the answer to its creation was lost, and no directory, unless its
\* mode could not be set.
NothingIsLeft ==
    step = "returned" =>
        /\ box = "none"
        /\ stranded => troubles \cap {"create", "remove"} # {} \/ expired
        /\ workdir = "made" => "chmod" \in troubles

\* An execution that began returns whatever its programs do, unless a container that runs
\* for ever could not be killed, or, for a database, the wait for its end failed
\* before its output ended.
ExecutionEnds == <>[](step \in {"preparing", "returned"} \/ unwatched \/ "kill" \in troubles)
=============================================================================
