---------------------------- MODULE OutputCapture ----------------------------
(***************************************************************************)
(* The output of a container: frames of stdout and stderr in one stream,   *)
(* which stdCopy copies chunk by chunk into two LimitedWriters. A writer   *)
(* discards what exceeds its limit, and tells its caller so when the limit *)
(* falls inside a chunk.                                                   *)
(***************************************************************************)
EXTENDS Naturals

CONSTANTS
    Limit,      \* MaxOutputSize
    Chunk,      \* the most that io.Copy writes at once
    MaxOutput   \* bound: the bytes that the program writes

ASSUME OutputAssumption ==
    Limit \in Nat \ {0} /\ Chunk \in Nat \ {0} /\ MaxOutput \in Nat

VARIABLES
    frame,    \* the stream of the frame that is being copied
    left,     \* the bytes of it that are left
    arrived,  \* the bytes of each stream that were read
    stored,   \* those in its buffer, which are the first ones
    cut,      \* a chunk was cut
    copier    \* the copy goes on, or has stopped

outputVars == <<frame, left, arrived, stored, cut, copier>>

Streams == {"stdout", "stderr"}

\* Every variable keeps its type.
OutputTypeOK ==
    /\ frame \in Streams \cup {"other"}
    /\ left \in 0..MaxOutput
    /\ arrived \in [Streams -> 0..MaxOutput]
    /\ stored \in [Streams -> 0..Limit]
    /\ cut \in BOOLEAN /\ copier \in {"copying", "stopped"}

OutputInit ==
    /\ frame = "other" /\ left = 0
    /\ arrived = [s \in Streams |-> 0]
    /\ stored = [s \in Streams |-> 0]
    /\ cut = FALSE /\ copier = "copying"

\* The header of the next frame is read; the stream of a frame may be another one.
ReadHeader ==
    /\ copier = "copying" /\ left = 0
    /\ frame' \in Streams \cup {"other"}
    /\ left' \in 0..(MaxOutput - arrived["stdout"] - arrived["stderr"])
    /\ UNCHANGED <<arrived, stored, cut, copier>>

\* As if a writer that is full began again.
StoreModulo(n) ==
    LET room == Limit - stored[frame]
    IN /\ stored' = [stored EXCEPT ![frame] = IF room = 0 THEN (IF n > Limit THEN Limit ELSE n)
                                              ELSE IF n > room THEN Limit ELSE @ + n]
       /\ cut' = (cut \/ (room > 0 /\ n > room))

\* LimitedWriter.Write of n bytes.
Store(n) ==
    LET room == Limit - stored[frame]
    IN /\ stored' = [stored EXCEPT ![frame] = IF n > room THEN Limit ELSE @ + n]
       /\ cut' = (cut \/ (room > 0 /\ n > room))

\* A chunk of the frame is read and written. A write that took less than it was
\* given is an error, which ends the copy; a full buffer takes all.
CopyChunk(n) ==
    /\ copier = "copying" /\ n <= left
    /\ left' = left - n
    /\ IF frame \in Streams
       THEN /\ Store(n)
            /\ arrived' = [arrived EXCEPT ![frame] = @ + n]
            /\ copier' = IF cut' THEN "stopped" ELSE copier
       ELSE UNCHANGED <<arrived, stored, cut, copier>>
    /\ UNCHANGED frame

\* The end of the stream, between two frames or within one.
EndOutput ==
    /\ copier = "copying"
    /\ copier' = "stopped"
    /\ UNCHANGED <<frame, left, arrived, stored, cut>>

OutputNext ==
    \/ ReadHeader \/ EndOutput
    \/ \E n \in 1..Chunk : CopyChunk(n)

OutputSpec == OutputInit /\ [][OutputNext]_outputVars

-----------------------------------------------------------------------------
(* Properties                                                              *)

\* Each buffer holds all that was read of its stream, up to the limit, however the
\* frames and the chunks fall; and the copy ends early only when some buffer is
\* full, which may be the other one's.
OutputIsKept ==
    /\ \A s \in Streams : stored[s] = IF arrived[s] > Limit THEN Limit ELSE arrived[s]
    /\ cut => \E s \in Streams : stored[s] = Limit /\ arrived[s] > Limit
=============================================================================
