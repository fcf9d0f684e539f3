--------------------------- MODULE ExecutionLimits ---------------------------
(***************************************************************************)
(* The limits of an execution, from the request of a client to the         *)
(* container: what the row keeps of them, the minimums of the language,    *)
(* the change of units, and the hard maximums of the sandbox. Time is in   *)
(* seconds; memory is in KB until the sandbox, and in bytes there.         *)
(***************************************************************************)
EXTENDS Integers

CONSTANTS
    Kilo,          \* 1024; smaller in an instance, as 4 GB exceed the checker's integers
    Half,          \* 2^63, half of what an int64 holds; smaller in an instance
    AskedTimes,    \* the values of cpu_time_limit that clients ask for
    AskedWalls,    \* those of wall_time_limit
    AskedKB        \* those of memory_limit

VARIABLES
    language,  \* the row of the submission's language
    asked,     \* what the client asked for
    limits,    \* the limits as they stand
    progress   \* asked, stored, built, granted or refused

limitVars == <<language, asked, limits, progress>>

\* DefaultLanguages: the name in short, MaxCPUTime in seconds, and MaxMemory in MB.
FirstLanguages == {
    <<"Bash", 10, 256>>, <<"C", 5, 256>>, <<"C++", 5, 256>>, <<"C#", 10, 256>>,
    <<"Clojure", 20, 512>>, <<"COBOL", 10, 256>>, <<"CoffeeScript", 10, 256>>,
    <<"Crystal", 30, 1024>>, <<"D", 10, 256>>, <<"Elixir", 15, 512>>,
    <<"Erlang", 15, 512>>, <<"Fortran", 10, 256>>, <<"Go", 10, 256>>}
MiddleLanguages == {
    <<"Groovy", 15, 512>>, <<"Haskell", 15, 256>>, <<"Java", 15, 512>>,
    <<"JavaScript", 10, 256>>, <<"Kotlin", 60, 2048>>, <<"Lisp", 10, 256>>,
    <<"Lua", 10, 256>>, <<"Nim", 15, 256>>, <<"Objective-C", 10, 256>>,
    <<"OCaml", 10, 256>>, <<"Pascal", 10, 256>>, <<"Perl", 10, 256>>, <<"PHP", 10, 256>>}
LaterLanguages == {
    <<"Prolog", 10, 256>>, <<"Python2", 10, 256>>, <<"Python3", 10, 256>>,
    <<"R", 15, 512>>, <<"Ruby", 10, 256>>, <<"Rust", 15, 256>>, <<"Scala", 20, 512>>,
    <<"Swift", 15, 256>>, <<"TypeScript", 15, 256>>, <<"VB.Net", 10, 256>>,
    <<"SQLite", 10, 256>>}
LastLanguages == {
    <<"MySQL", 30, 1024>>, <<"PostgreSQL", 30, 1024>>, <<"MongoDB", 30, 1024>>,
    <<"Web", 10, 256>>}
Languages == FirstLanguages \cup MiddleLanguages \cup LaterLanguages \cup LastLanguages

\* The databases that have a container of their own.
OwnContainer == {"MySQL", "PostgreSQL", "MongoDB"}

MaxCPUTimeLimit == 120
MaxWallTimeLimit == 360
MaxMemoryLimit == 4096 * Kilo * Kilo

LanguageTime == language[2]
LanguageMemory == language[3] * Kilo * Kilo

AtLeast(a, b) == IF a < b THEN b ELSE a
AtMost(a, b) == IF a > b THEN b ELSE a

\* An int64, and what an integer becomes in one.
Int64 == -Half .. Half - 1
Wrap(x) == ((x + Half) % (2 * Half)) - Half

ASSUME LimitsAssumption ==
    /\ Kilo \in Nat \ {0} /\ Half \in Nat /\ MaxMemoryLimit < Half
    /\ AskedTimes \subseteq Int /\ AskedWalls \subseteq Int /\ AskedKB \subseteq Int64

\* What clients may ask for.
RequestedLimits == [time : AskedTimes, wall : AskedWalls, memory : AskedKB]

\* Every variable keeps its type.
LimitsTypeOK ==
    /\ language \in Languages
    /\ asked \in RequestedLimits
    /\ limits \in [time : Int, wall : Int, memory : Int]
    /\ progress \in {"asked", "stored", "built", "granted", "refused"}

LimitsInit ==
    /\ language \in Languages
    /\ asked \in RequestedLimits
    /\ limits = [time |-> 0, wall |-> 0, memory |-> 0]
    /\ progress = "asked"

\* The handler keeps the processor time and the memory of the request, and no
\* other limit: the wall time is dropped, and its column gets the default, as does
\* what is zero.
StoreRequest ==
    /\ progress = "asked" /\ progress' = "stored"
    /\ limits' = [time   |-> IF asked.time = 0 THEN 5 ELSE asked.time,
                  wall   |-> 10,
                  memory |-> IF asked.memory = 0 THEN 256 * Kilo ELSE asked.memory]
    /\ UNCHANGED <<language, asked>>

\* As if KB were taken for bytes.
BuildInKB ==
    /\ progress = "stored" /\ progress' = "built"
    /\ limits' = [time   |-> AtLeast(limits.time, LanguageTime),
                  wall   |-> AtLeast(limits.wall, 3 * LanguageTime),
                  memory |-> AtLeast(limits.memory, LanguageMemory)]
    /\ UNCHANGED <<language, asked>>

\* BuildExecutionRequest, and the worker's request to a database: bytes, which an
\* int64 may not hold, and no less than the language needs.
BuildRequest ==
    /\ progress = "stored" /\ progress' = "built"
    /\ limits' = [time   |-> AtLeast(limits.time, LanguageTime),
                  wall   |-> AtLeast(limits.wall, 3 * LanguageTime),
                  memory |-> AtLeast(Wrap(limits.memory * Kilo), LanguageMemory)]
    /\ UNCHANGED <<language, asked>>

\* ValidateConstraints: what exceeds a maximum is refused.
CheckRequest ==
    /\ progress = "built" /\ language[1] \notin OwnContainer
    /\ progress' = IF \/ limits.time > MaxCPUTimeLimit
                      \/ limits.wall > MaxWallTimeLimit
                      \/ limits.memory > MaxMemoryLimit
                   THEN "refused" ELSE "granted"
    /\ UNCHANGED <<language, asked, limits>>

\* clampWall, clampMem: a database gets the maximum instead.
ClampRequest ==
    /\ progress = "built" /\ language[1] \in OwnContainer
    /\ progress' = "granted"
    /\ limits' = [limits EXCEPT !.wall = AtMost(@, MaxWallTimeLimit),
                                !.memory = AtMost(@, MaxMemoryLimit)]
    /\ UNCHANGED <<language, asked>>

LimitsNext == StoreRequest \/ BuildRequest \/ CheckRequest \/ ClampRequest

LimitsSpec == LimitsInit /\ [][LimitsNext]_limitVars

-----------------------------------------------------------------------------
(* Properties                                                              *)

\* The bytes that the client asked for are a number that an int64 holds.
AskedFits == asked.memory * Kilo \in Int64

\* A submission of any language of the table is refused only when the client asked
\* for more time or memory than the maximum, or for so many KB that the bytes wrap.
\* What is granted is within the maximums and not below what the language needs;
\* it is not below what was asked for unless that exceeds the maximum or wraps.
\* The wall time that was asked for counts for nothing: every submission gets
\* three times its language's processor time.
LimitsAreGranted ==
    /\ progress = "refused" =>
          \/ asked.time > MaxCPUTimeLimit
          \/ asked.memory * Kilo > MaxMemoryLimit
          \/ ~AskedFits
    /\ progress = "granted" =>
          /\ limits.wall = 3 * LanguageTime /\ limits.wall <= MaxWallTimeLimit
          /\ limits.memory \in LanguageMemory .. MaxMemoryLimit
          /\ AskedFits => limits.memory >= AtMost(asked.memory * Kilo, MaxMemoryLimit)
          /\ limits.time >= AtLeast(asked.time, LanguageTime)
=============================================================================
