------------------------------ MODULE Download ------------------------------
(***************************************************************************)
(* One bounded download (crates/thorium/src/releases.rs): a probe, then    *)
(* either parallel segments with retry and resume or one stream, into a    *)
(* `.part` file that is renamed at the end.                                *)
(*                                                                         *)
(* A file is a function from offsets to what became of the byte there.     *)
(* `write_all` of tokio hands a chunk to a thread of its own and returns:  *)
(* the byte is pending until that write lands or is lost.  A lost write is *)
(* reported by the next write on the same handle, or to nobody when the    *)
(* handle is dropped first.  The server is free to answer anything.        *)
(***************************************************************************)
EXTENDS Integers

CONSTANTS Total,            \* size of the archive
          Budgets,          \* the values of the parameter max_bytes
          ParallelMinTotal, TargetSegments, MinSegmentBytes,
          SegmentAttempts, SingleStreamAttempts, ProbeAttempts,
          MaxChunk          \* bound: bytes that arrive together

ASSUME SizeAssumption ==
    /\ Total \in Nat \ {0}
    /\ Budgets \subseteq Nat
    /\ ParallelMinTotal \in Nat
    /\ TargetSegments \in Nat \ {0}
    /\ MinSegmentBytes \in Nat \ {0}
ASSUME AttemptAssumption ==
    /\ SegmentAttempts \in Nat \ {0}
    /\ SingleStreamAttempts \in Nat \ {0}
    /\ ProbeAttempts \in Nat \ {0}
    /\ MaxChunk \in Nat \ {0}

VARIABLES
    phase,      \* where download_bounded is
    attempt,    \* of the probe
    max_bytes,  \* its parameter
    framed,     \* the server's answers say how long they are
    task,       \* the single stream (0) and the segment tasks
    part,       \* the `.part` file, absent bytes are holes
    downloaded, \* the counter the segments share
    deadline,   \* the time budget is used up
    last_error  \* a handle knows of a lost write it has not reported

vars == <<phase, attempt, max_bytes, framed, task, part, downloaded, deadline, last_error>>

Smaller(a, b) == IF a < b THEN a ELSE b
Larger(a, b) == IF a < b THEN b ELSE a

segment_count(total) ==
    IF total < ParallelMinTotal
    THEN 1
    ELSE Smaller(TargetSegments, Larger(total \div MinSegmentBytes, 1))

Segments == segment_count(Total)
SegSize == Total \div Segments

\* Variant with a mistake: the remainder of the division is left out.
EndWithoutRemainder(s) == IF s = 0 THEN Total - 1 ELSE s * SegSize - 1

\* The range of a task; task 0 is the single stream, which asks for all.
Start(s) == IF s = 0 THEN 0 ELSE (s - 1) * SegSize
End(s) == IF s \in {0, Segments} THEN Total - 1 ELSE s * SegSize - 1
Size(s) == End(s) - Start(s) + 1

Byte == 0 .. Total - 1
Task == 0 .. Segments
Segment == 1 .. Segments

\* `pending`: handed to a write that has not happened yet.
Cell == {"hole", "pending", "data", "lost"}
TaskState ==
    [at : {"idle", "request", "stream", "pause", "ok", "failed"},
     attempt : Nat,
     done : Nat,     \* bytes of earlier attempts
     written : Nat]  \* bytes of this attempt
Idle == [at |-> "idle", attempt |-> 0, done |-> 0, written |-> 0]
Begun == [at |-> "request", attempt |-> 1, done |-> 0, written |-> 0]

Phase == {"probe", "allocate", "parallel", "single", "rename", "renamed", "failed"}

Init ==
    /\ phase = "probe"
    /\ attempt = 1
    /\ max_bytes \in Budgets
    /\ framed \in BOOLEAN
    /\ task = [s \in Task |-> Idle]
    /\ part = [o \in Byte |-> "hole"]
    /\ downloaded = 0
    /\ deadline = FALSE
    /\ last_error = {}

\* The bytes of the running attempt, and where the next one goes.
From(s) == Start(s) + task[s].done
Position(s) == From(s) + task[s].written
Own(s) == {o \in Byte : From(s) <= o /\ o < Position(s)}

Goto(s, at) == task' = [task EXCEPT ![s].at = at]

-----------------------------------------------------------------------------
(* The probe and the choice of a strategy *)

\* A request fails, or is answered with neither 200 nor 206.
ProbeFails ==
    /\ phase = "probe"
    /\ \/ attempt < ProbeAttempts /\ attempt' = attempt + 1 /\ UNCHANGED phase
       \/ phase' = "failed" /\ UNCHANGED attempt
    /\ UNCHANGED <<max_bytes, framed, task, part, downloaded, deadline, last_error>>

\* `known`: the answer states the size; `ranged`: it is a 206.
Probe(known, ranged) ==
    /\ phase = "probe"
    /\ known => framed
    /\ phase' = IF known /\ Total > max_bytes THEN "failed"
                ELSE IF known /\ ranged /\ Segments > 1 THEN "allocate"
                ELSE "single"
    /\ task' = IF phase' = "single"
               THEN [task EXCEPT ![0] = Begun]
               ELSE task
    /\ UNCHANGED <<attempt, max_bytes, framed, part, downloaded, deadline, last_error>>

\* Creating or extending the file fails, or every segment is spawned.
Allocate ==
    /\ phase = "allocate"
    /\ \/ phase' = "failed" /\ UNCHANGED task
       \/ /\ phase' = "parallel"
          /\ task' = [s \in Task |-> IF s = 0 THEN Idle ELSE Begun]
    /\ UNCHANGED <<attempt, max_bytes, framed, part, downloaded, deadline, last_error>>

-----------------------------------------------------------------------------
(* One attempt of a task: request, then a stream of chunks *)

\* What the wrapper does with a failed attempt of a segment that handed over n
\* bytes with its last step: `done` counts all its bytes, and the head of the
\* loop looks at `done` only before another attempt.
SegmentFailed(s, n) ==
    LET done == task[s].done + task[s].written + n
        last == task[s].attempt = SegmentAttempts
    IN  task' = [task EXCEPT ![s] =
            [at |-> IF last THEN "failed" ELSE IF done = Size(s) THEN "ok" ELSE "pause",
             attempt |-> @.attempt, done |-> done, written |-> 0]]

\* The single stream starts again from the first byte.
StreamFailed ==
    task' = [task EXCEPT ![0] =
        [at |-> IF @.attempt = SingleStreamAttempts THEN "failed" ELSE "pause",
         attempt |-> @.attempt, done |-> 0, written |-> 0]]

AttemptFailed(s) == IF s = 0 THEN StreamFailed ELSE SegmentFailed(s, 0)

\* The sleep between two attempts.
Resume(s) ==
    /\ task[s].at = "pause"
    /\ task' = [task EXCEPT ![s].at = "request", ![s].attempt = @ + 1]
    /\ UNCHANGED <<phase, attempt, max_bytes, framed, part, downloaded, deadline, last_error>>

\* No connection, another status than 206 (an error status for the stream), or
\* the file does not open or seek.
RequestFails(s) ==
    /\ task[s].at = "request"
    /\ AttemptFailed(s)
    /\ UNCHANGED <<phase, attempt, max_bytes, framed, part, downloaded, deadline, last_error>>

\* The answer arrives and a new handle is opened.  A segment that ran past its
\* end asks for an inverted range, which no server answers with 206.  The
\* stream truncates the file; a write of its dropped handle may come later.
Answer(s) ==
    /\ task[s].at = "request"
    /\ task[s].done < Size(s)
    /\ Goto(s, "stream")
    /\ last_error' = last_error \ {s}
    /\ IF s = 0
       THEN \E late \in BOOLEAN :
              part' = [o \in Byte |->
                  IF late /\ part[o] = "pending" THEN "pending" ELSE "hole"]
       ELSE UNCHANGED part
    /\ UNCHANGED <<phase, attempt, max_bytes, framed, downloaded, deadline>>

\* The head of the read loop lets it read on.
Reads(s) ==
    /\ task[s].at = "stream"
    /\ ~deadline
    /\ s = 0 => task[s].written <= max_bytes

\* The write of the chunk before is over.
WriteIsOver(s) == \A o \in Own(s) : part[o] # "pending"

\* Variant with a mistake: an overlong answer is not noticed.
ChunkUnlimited(s, n) ==
    /\ Reads(s)
    /\ s \notin last_error
    /\ WriteIsOver(s)
    /\ s = 0 => task[s].written + n <= Total
    /\ part' = [o \in Byte |->
           IF Position(s) <= o /\ o < Position(s) + n THEN "pending" ELSE part[o]]
    /\ task' = [task EXCEPT ![s].written = @ + n]
    /\ downloaded' = IF s = 0 THEN downloaded ELSE downloaded + n
    /\ UNCHANGED <<phase, attempt, max_bytes, framed, deadline, last_error>>

\* A chunk of n bytes is handed to the file.  A segment that received more than
\* it asked for ends there.
Chunk(s, n) ==
    /\ Reads(s)
    /\ s \notin last_error
    /\ WriteIsOver(s)
    /\ s = 0 => task[s].written + n <= Total
    /\ part' = [o \in Byte |->
           IF Position(s) <= o /\ o < Position(s) + n THEN "pending" ELSE part[o]]
    /\ IF s # 0 /\ task[s].written + n > Size(s) - task[s].done
       THEN SegmentFailed(s, n)
       ELSE task' = [task EXCEPT ![s].written = @ + n]
    /\ downloaded' = IF s = 0 THEN downloaded ELSE downloaded + n
    /\ UNCHANGED <<phase, attempt, max_bytes, framed, deadline, last_error>>

\* The next write on the handle reports the lost one.  The lost bytes were
\* counted when they were handed over, so a segment resumes behind them.
WriteFails(s) ==
    /\ Reads(s)
    /\ s \in last_error
    /\ AttemptFailed(s)
    /\ UNCHANGED <<phase, attempt, max_bytes, framed, part, downloaded, deadline, last_error>>

\* No data for STALL_TIMEOUT, a broken connection, or a budget is used up.
StreamBreaks(s) ==
    /\ task[s].at = "stream"
    /\ AttemptFailed(s)
    /\ UNCHANGED <<phase, attempt, max_bytes, framed, part, downloaded, deadline, last_error>>

\* Variant with a mistake: the single stream does not flush.
EndOfStreamUnflushed(s) ==
    /\ Reads(s)
    /\ s # 0 \/ framed => task[s].written = Size(s) - task[s].done
    /\ IF s = 0
       THEN Goto(s, "ok")
       ELSE task' = [task EXCEPT ![s] =
                [at |-> "ok", attempt |-> @.attempt, done |-> Size(s), written |-> 0]]
    /\ UNCHANGED <<phase, attempt, max_bytes, framed, part, downloaded, deadline, last_error>>

\* The end of a stream.  A segment is complete when it was handed all its
\* bytes; the single stream takes any end for the end of the file unless the
\* answer was framed, and waits for its last write.
EndOfStream(s) ==
    /\ Reads(s)
    /\ s # 0 \/ framed => task[s].written = Size(s) - task[s].done
    /\ IF s = 0
       THEN /\ WriteIsOver(s)
            /\ IF s \in last_error THEN StreamFailed ELSE Goto(s, "ok")
       ELSE task' = [task EXCEPT ![s] =
                [at |-> "ok", attempt |-> @.attempt, done |-> Size(s), written |-> 0]]
    /\ UNCHANGED <<phase, attempt, max_bytes, framed, part, downloaded, deadline, last_error>>

-----------------------------------------------------------------------------
(* The file system and the clock *)

\* The write of the last chunk of an open handle lands or is lost; the handle
\* remembers a loss.
WriteEnds(s, lands) ==
    /\ task[s].at = "stream"
    /\ ~WriteIsOver(s)
    /\ part' = [o \in Byte |-> IF o \in Own(s) /\ part[o] = "pending"
                               THEN (IF lands THEN "data" ELSE "lost") ELSE part[o]]
    /\ last_error' = IF lands THEN last_error ELSE last_error \cup {s}
    /\ UNCHANGED <<phase, attempt, max_bytes, framed, task, downloaded, deadline>>

\* So does a write whose handle was dropped: nobody learns of a loss.
OrphanWriteEnds(o, lands) ==
    /\ part[o] = "pending"
    /\ \A s \in Task : task[s].at = "stream" => o \notin Own(s)
    /\ part' = [part EXCEPT ![o] = IF lands THEN "data" ELSE "lost"]
    /\ UNCHANGED <<phase, attempt, max_bytes, framed, task, downloaded, deadline, last_error>>

TimeIsUp ==
    /\ phase \in {"parallel", "single"}
    /\ ~deadline
    /\ deadline' = TRUE
    /\ UNCHANGED <<phase, attempt, max_bytes, framed, task, part, downloaded, last_error>>

-----------------------------------------------------------------------------
(* The end *)

\* Variant with a mistake: the join waits for success only.
JoinAllOk ==
    /\ phase = "parallel"
    /\ \A s \in Segment : task[s].at = "ok"
    /\ phase' = IF downloaded = Total THEN "rename" ELSE "failed"
    /\ UNCHANGED <<attempt, max_bytes, framed, task, part, downloaded, deadline, last_error>>

\* Variant with a mistake: the result is taken from the tasks joined so far.
JoinEarly ==
    /\ phase = "parallel"
    /\ \E s \in Segment : task[s].at = "ok"
    /\ phase' = "rename"
    /\ UNCHANGED <<attempt, max_bytes, framed, task, part, downloaded, deadline, last_error>>

\* Every segment task is joined before the result is looked at.
Join ==
    /\ phase = "parallel"
    /\ \A s \in Segment : task[s].at \in {"ok", "failed"}
    /\ phase' = IF (\A s \in Segment : task[s].at = "ok") /\ downloaded = Total
                THEN "rename" ELSE "failed"
    /\ UNCHANGED <<attempt, max_bytes, framed, task, part, downloaded, deadline, last_error>>

StreamDone ==
    /\ phase = "single"
    /\ task[0].at \in {"ok", "failed"}
    /\ phase' = IF task[0].at = "ok" THEN "rename" ELSE "failed"
    /\ UNCHANGED <<attempt, max_bytes, framed, task, part, downloaded, deadline, last_error>>

Rename ==
    /\ phase = "rename"
    /\ phase' \in {"renamed", "failed"}
    /\ UNCHANGED <<attempt, max_bytes, framed, task, part, downloaded, deadline, last_error>>

Begin == ProbeFails \/ (\E known, ranged \in BOOLEAN : Probe(known, ranged)) \/ Allocate
StreamStep(s) ==
    \/ \E n \in 1 .. MaxChunk : Chunk(s, n)
    \/ WriteFails(s)
    \/ StreamBreaks(s)
    \/ EndOfStream(s)
Disk ==
    \/ \E s \in Task, lands \in BOOLEAN : WriteEnds(s, lands)
    \/ \E o \in Byte, lands \in BOOLEAN : OrphanWriteEnds(o, lands)
Finish == Join \/ StreamDone \/ Rename

Next ==
    \/ Begin
    \/ \E s \in Task : Resume(s) \/ RequestFails(s) \/ Answer(s) \/ StreamStep(s)
    \/ Disk
    \/ TimeIsUp
    \/ Finish

Spec == Init /\ [][Next]_vars

\* The probe has a timeout of its own, the read loop a stall timer; sleeps,
\* joins and writes end.  Nothing bounds the wait for an answer to a request
\* (`send().await`), so neither Answer nor RequestFails is fair.
Fairness ==
    /\ WF_vars(Begin)
    /\ \A s \in Task : WF_vars(Resume(s)) /\ WF_vars(StreamStep(s))
    /\ WF_vars(Disk)
    /\ WF_vars(Finish)

FairSpec == Spec /\ Fairness

-----------------------------------------------------------------------------
(* What must hold *)

\* Every variable has its type; the counters of a task stay within its range
\* and one chunk (download_segment, segment_attempt).
TypeOK ==
    /\ phase \in Phase
    /\ attempt \in 1 .. ProbeAttempts
    /\ max_bytes \in Budgets
    /\ framed \in BOOLEAN
    /\ task \in [Task -> TaskState]
    /\ \A s \in Task : task[s].done + task[s].written <= Size(s) + MaxChunk
    /\ part \in [Byte -> Cell]
    /\ downloaded \in Nat
    /\ deadline \in BOOLEAN
    /\ last_error \subseteq Task

\* A renamed file has no byte that was never handed to it: whatever drops,
\* stalls and overlong answers its segments or its stream were resumed after,
\* the ranges leave no gap (segments and resume offsets of download_parallel,
\* download_segment).
RenamedWithoutGap ==
    phase \in {"rename", "renamed"} /\ (framed \/ task[0] = Idle) =>
        \A o \in Byte : part[o] # "hole"

\* A file fetched by the single stream is on the disk when it is renamed: the
\* flush waits for the last write and reports its loss (single_stream_attempt).
StreamIsWritten ==
    phase \in {"rename", "renamed"} /\ task[0].at = "ok" =>
        \A o \in Own(0) : part[o] = "data"

\* A segment received more than it asked for.
Overran == \E s \in Segment : task[s].done + task[s].written > Size(s)

\* No two segments and no retry write a byte that was written: as long as the
\* server keeps to the ranges, what is on the disk is final (segment_attempt
\* writes through one handle per attempt, positioned at its resume offset).
WrittenOnce ==
    [][phase = "parallel" /\ ~Overran' =>
         \A o \in Byte : part[o] \in {"data", "lost"} => part'[o] = part[o]]_vars

\* Bytes counted by attempts that failed are counted once: when all segments
\* have ended well, the shared counter is the size of the file, and the last
\* check of download_parallel refuses no complete download.
CounterAgrees ==
    (phase = "parallel" /\ \A s \in Segment : task[s].at = "ok") => downloaded = Total

\* A file that is kept respects the size budget, whether or not the server
\* told its size before (download_bounded, single_stream_attempt).
BudgetHolds ==
    phase \in {"rename", "renamed"} =>
        IF task[0] = Idle THEN Total <= max_bytes ELSE task[0].written <= max_bytes

\* A download ends, unless a request stays without an answer (the stall timer
\* and the time budget guard the read loops only).
DownloadEnds ==
    \/ <>(phase \in {"renamed", "failed"})
    \/ <>[](\E s \in Task : task[s].at = "request")
=============================================================================
