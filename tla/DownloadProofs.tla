--------------------------- MODULE DownloadProofs ---------------------------
(* Proofs about Download: the segments partition the file; whatever a       *)
(* download is resumed after, a renamed file was handed every byte and the  *)
(* shared counter counts every byte once; and no step goes back.            *)
EXTENDS Download, FiniteSetTheorems, FunctionTheorems, TLAPS

-----------------------------------------------------------------------------
(* The ranges of the tasks *)

LEMMA DivisionBounds ==
    ASSUME NEW a \in Nat, NEW b \in Nat \ {0}
    PROVE  /\ a \div b \in Nat
           /\ b * (a \div b) <= a
           /\ a < b * (a \div b) + b
BY Z3

LEMMA Times ==
    ASSUME NEW a \in Nat, NEW b \in Nat, NEW c \in Nat, a <= b
    PROVE  /\ a * c \in Nat
           /\ a * c <= b * c
           /\ (a + 1) * c = a * c + c
BY Z3

\* There are never more segments than bytes (segment_count).
LEMMA SegmentCount == Segments \in Nat /\ 1 <= Segments /\ Segments <= Total
<1>1. CASE Total < ParallelMinTotal
  BY <1>1, SizeAssumption DEF Segments, segment_count
<1>2. CASE ~(Total < ParallelMinTotal)
  <2> DEFINE q == Total \div MinSegmentBytes
  <2>1. q \in Nat /\ MinSegmentBytes * q <= Total
    BY DivisionBounds, SizeAssumption
  <2>2. q <= MinSegmentBytes * q
    BY <2>1, Times, SizeAssumption
  <2>3. q <= Total
    BY <2>1, <2>2, SizeAssumption
  <2>4. Segments = Smaller(TargetSegments, Larger(q, 1))
    BY <1>2 DEF Segments, segment_count
  <2> HIDE DEF q
  <2> QED BY <2>1, <2>3, <2>4, SizeAssumption DEF Smaller, Larger
<1> QED BY <1>1, <1>2

LEMMA SegmentSize == SegSize \in Nat \ {0} /\ Segments * SegSize <= Total
<1>1. Segments \in Nat \ {0} /\ Total \in Nat
  BY SegmentCount, SizeAssumption
<1>2. SegSize \in Nat /\ Segments * SegSize <= Total /\ Total < Segments * SegSize + Segments
  BY <1>1, DivisionBounds DEF SegSize
<1>3. SegSize # 0
  <2> SUFFICES ASSUME SegSize = 0 PROVE FALSE
    OBVIOUS
  <2>1. Segments * SegSize = 0
    BY <1>1
  <2> QED BY <2>1, <1>1, <1>2, SegmentCount
<1> QED BY <1>2, <1>3

\* Every task has a range of its own inside the file.
LEMMA Ranges ==
    ASSUME NEW s \in Task
    PROVE  /\ Start(s) \in Nat /\ End(s) \in Nat /\ Size(s) \in Nat \ {0}
           /\ Start(s) <= End(s) /\ End(s) < Total
           /\ Size(s) = End(s) - Start(s) + 1
<1> USE SegmentCount, SegmentSize, SizeAssumption
<1>1. CASE s = 0
  BY <1>1 DEF Start, End, Size
<1>2. CASE s # 0
  <2>1. s \in Nat /\ 1 <= s /\ s <= Segments
    BY <1>2 DEF Task
  <2>2. (s - 1) * SegSize \in Nat /\ s * SegSize = (s - 1) * SegSize + SegSize
    <3>1. s - 1 \in Nat /\ s = (s - 1) + 1
      BY <2>1
    <3> QED BY <3>1, Times
  <2>3. s * SegSize <= Segments * SegSize
    BY <2>1, Times
  <2> HIDE DEF SegSize, Segments
  <2>4. Start(s) = (s - 1) * SegSize
    BY <1>2 DEF Start
  <2>5. CASE s = Segments
    BY <2>1, <2>2, <2>3, <2>4, <2>5 DEF End, Size
  <2>6. CASE s # Segments
    <3>1. End(s) = s * SegSize - 1
      BY <1>2, <2>6 DEF End
    <3> QED BY <2>1, <2>2, <2>3, <2>4, <3>1 DEF Size
  <2> QED BY <2>5, <2>6
<1> QED BY <1>1, <1>2

\* Two segments share no byte.
LEMMA Disjoint ==
    ASSUME NEW s \in Segment, NEW t \in Segment, s < t
    PROVE  End(s) < Start(t)
<1> USE SegmentCount, SegmentSize, SizeAssumption
<1>1. s \in Nat /\ t \in Nat /\ 1 <= s /\ s < Segments /\ t # 0 /\ s # 0
  BY DEF Segment
<1>2. s <= t - 1 /\ t - 1 \in Nat
  BY <1>1
<1>3. s * SegSize <= (t - 1) * SegSize /\ s * SegSize \in Nat /\ (t - 1) * SegSize \in Nat
  BY <1>1, <1>2, Times
<1>4. End(s) = s * SegSize - 1 /\ Start(t) = (t - 1) * SegSize
  BY <1>1 DEF End, Start
<1> QED BY <1>3, <1>4

\* Every byte belongs to a segment: the segments partition the file, for every
\* size of the file and every number of segments (download_parallel).
THEOREM Partition ==
    \A o \in Byte : \E s \in Segment :
        /\ Start(s) <= o /\ o <= End(s)
        /\ \A t \in Segment : Start(t) <= o /\ o <= End(t) => t = s
<1> SUFFICES ASSUME NEW o \in Byte
             PROVE  \E s \in Segment : /\ Start(s) <= o /\ o <= End(s)
                        /\ \A t \in Segment : Start(t) <= o /\ o <= End(t) => t = s
  OBVIOUS
<1> USE SegmentCount, SegmentSize, SizeAssumption
<1> DEFINE q == o \div SegSize
<1>1. o \in Nat /\ o <= Total - 1
  BY DEF Byte
<1>2. q \in Nat /\ SegSize * q <= o /\ o < SegSize * q + SegSize
  BY <1>1, DivisionBounds
<1> HIDE DEF q
<1>3. q * SegSize <= o /\ o < (q + 1) * SegSize /\ q * SegSize \in Nat /\ (q + 1) * SegSize \in Nat
  <2>1. q * SegSize = SegSize * q
    BY <1>2
  <2>2. q * SegSize \in Nat /\ (q + 1) * SegSize = q * SegSize + SegSize
    BY <1>2, Times
  <2> QED BY <1>2, <2>1, <2>2
<1>4. \E s \in Segment : Start(s) <= o /\ o <= End(s)
  <2>1. CASE q + 1 < Segments
    <3>1. q + 1 \in Segment /\ q + 1 # 0 /\ q + 1 # Segments
      BY <2>1, <1>2 DEF Segment
    <3>2. Start(q + 1) = q * SegSize
      BY <3>1, <1>2 DEF Start
    <3>3. End(q + 1) = (q + 1) * SegSize - 1
      BY <3>1 DEF End
    <3>4. Start(q + 1) <= o /\ o <= End(q + 1)
      BY <1>1, <1>3, <3>2, <3>3
    <3> QED BY <3>1, <3>4
  <2>2. CASE ~(q + 1 < Segments)
    <3>1. Segments \in Segment /\ Segments # 0
      BY DEF Segment
    <3>2. (Segments - 1) * SegSize <= q * SegSize
      <4>1. Segments - 1 \in Nat /\ Segments - 1 <= q
        BY <2>2, <1>2
      <4> QED BY <4>1, <1>2, Times
    <3>3. Start(Segments) = (Segments - 1) * SegSize /\ End(Segments) = Total - 1
      BY <3>1 DEF Start, End
    <3>4. (Segments - 1) * SegSize \in Nat
      BY Times
    <3> QED BY <3>1, <3>2, <3>3, <3>4, <1>1, <1>3
  <2> QED BY <2>1, <2>2
<1>5. PICK s \in Segment : Start(s) <= o /\ o <= End(s)
  BY <1>4
<1>6. ASSUME NEW t \in Segment, Start(t) <= o, o <= End(t)
      PROVE  t = s
  <2>0. s \in Int /\ t \in Int /\ s \in Task /\ t \in Task
    BY DEF Segment, Task
  <2>1. ~(s < t)
    BY <1>1, <1>5, <1>6, <2>0, Disjoint, Ranges
  <2>2. ~(t < s)
    BY <1>1, <1>5, <1>6, <2>0, Disjoint, Ranges
  <2> QED BY <2>0, <2>1, <2>2
<1> QED BY <1>5, <1>6

-----------------------------------------------------------------------------
(* The inductive invariant *)

Busy == {"request", "stream", "pause"}

\* Who is at work in which phase.
Workers ==
    /\ phase # "parallel" => \A s \in Segment : task[s].at \notin Busy
    /\ phase # "single" => task[0].at \notin Busy
    /\ phase \in {"probe", "allocate", "single"} => \A s \in Segment : task[s] = Idle
    /\ phase \in {"probe", "allocate", "parallel"} => task[0] = Idle
    /\ phase \in {"probe", "allocate"} => \A o \in Byte : part[o] = "hole"
    /\ phase = "single" => task[0].at # "idle"
    /\ phase \in {"rename", "renamed"} =>
           \/ task[0] = Idle /\ \A s \in Segment : task[s].at = "ok"
           \/ task[0].at = "ok"

\* The counters of one task: a stream is within its range, what a pause or a
\* request keeps is in `done`, and a task that ended well has its whole range.
Counted(s) ==
    /\ task[s].at = "stream" => task[s].done + task[s].written <= Size(s)
    /\ task[s].at \in {"request", "pause"} => task[s].written = 0
    /\ s = 0 => task[s].done = 0
    /\ task[s].at = "idle" => task[s] = Idle
    /\ task[s].at = "ok" /\ (s # 0 \/ framed) => task[s].done + task[s].written = Size(s)

\* What a task counted was handed to the file.
Handed(s) == \A o \in Byte : Start(s) <= o /\ o < Position(s) => part[o] # "hole"

\* What was handed to the file was counted by a segment.
Covered ==
    phase = "parallel" /\ ~Overran =>
        \A o \in Byte : part[o] # "hole" =>
            \E s \in Segment : Start(s) <= o /\ o < Position(s)

\* The stream knows of every byte it lost.
StreamKnows ==
    /\ task[0].at = "stream" /\ 0 \notin last_error =>
           \A o \in Own(0) : part[o] # "lost"
    /\ task[0].at = "ok" => \A o \in Own(0) : part[o] = "data"

WithinBudget ==
    /\ phase \in {"allocate", "parallel"} => Total <= max_bytes
    /\ phase \in {"rename", "renamed"} /\ task[0] = Idle => Total <= max_bytes
    /\ task[0].at = "ok" => task[0].written <= max_bytes

Inv ==
    /\ Workers
    /\ \A s \in Task : Counted(s)
    /\ \A s \in Task : Handed(s)
    /\ Covered
    /\ StreamKnows
    /\ WithinBudget

LEMMA TaskFacts ==
    /\ 0 \in Task /\ Segment \subseteq Task
    /\ \A s \in Task : s # 0 => s \in Segment
    /\ \A s \in Segment : s # 0
    /\ \A s \in Task : Start(s) \in Nat /\ Size(s) \in Nat \ {0}
    /\ Start(0) = 0 /\ Size(0) = Total
    /\ Idle \in TaskState
<1>1. 0 \in Task /\ Segment \subseteq Task /\ (\A s \in Task : s # 0 => s \in Segment) /\ \A s \in Segment : s # 0
  BY SegmentCount DEF Task, Segment
<1>2. Start(0) = 0 /\ Size(0) = Total
  BY SizeAssumption DEF Start, End, Size
<1> QED BY <1>1, <1>2, Ranges DEF Idle, TaskState

LEMMA InitInv == Init => TypeOK /\ Inv
<1> SUFFICES ASSUME Init PROVE TypeOK /\ Inv
  OBVIOUS
<1> USE TaskFacts, AttemptAssumption
<1>0. \A s \in Task : task[s] = Idle /\ task[s].at = "idle" /\ task[s].done = 0 /\ task[s].written = 0
  BY DEF Init, Idle
<1>1. TypeOK
  <2>1. \A s \in Task : task[s].done + task[s].written <= Size(s) + MaxChunk
    BY <1>0
  <2>2. task \in [Task -> TaskState] /\ part \in [Byte -> Cell]
    BY DEF Init, Cell
  <2>3. attempt \in 1 .. ProbeAttempts /\ phase \in Phase
    BY DEF Init, Phase
  <2> QED BY <2>1, <2>2, <2>3 DEF Init, TypeOK
<1>2. Workers
  BY <1>0 DEF Workers, Busy, Init
<1>3. (\A s \in Task : Counted(s)) /\ \A s \in Task : Handed(s)
  <2>1. \A s \in Task : Position(s) = Start(s)
    BY <1>0 DEF Position, From
  <2>2. \A o \in Byte : o \in Int
    BY DEF Byte
  <2>3. \A s \in Task, o \in Byte : ~(Start(s) <= o /\ o < Position(s))
    BY <2>1, <2>2
  <2> QED BY <1>0, <2>3 DEF Counted, Handed
<1>4. Covered /\ StreamKnows /\ WithinBudget
  BY <1>0 DEF Covered, StreamKnows, WithinBudget, Init
<1> QED BY <1>1, <1>2, <1>3, <1>4 DEF Inv

\* What a failed attempt leaves of its task.
Failure(s, n) ==
    /\ task'[s] \in TaskState
    /\ task' = [task EXCEPT ![s] = task'[s]]
    /\ task'[s].at \in {"failed", "pause", "ok"}
    /\ task'[s].written = 0
    /\ s = 0 => task'[s].done = 0 /\ task'[s].at # "ok"
    /\ s # 0 => task'[s].done = task[s].done + task[s].written + n
    /\ task'[s].at = "ok" => task'[s].done = Size(s)

LEMMA SegmentFailure ==
    ASSUME TypeOK, NEW s \in Segment, NEW n \in Nat, SegmentFailed(s, n)
    PROVE  Failure(s, n)
<1> DEFINE done == task[s].done + task[s].written + n
<1> DEFINE at == IF task[s].attempt = SegmentAttempts THEN "failed" ELSE IF done = Size(s) THEN "ok" ELSE "pause"
<1>1. s \in Task /\ s # 0 /\ task[s] \in TaskState /\ task \in [Task -> TaskState]
  BY TaskFacts DEF TypeOK
<1>2. task' = [task EXCEPT ![s] = [at |-> at, attempt |-> task[s].attempt, done |-> done, written |-> 0]]
  BY <1>1 DEF SegmentFailed
<1>3. task'[s] = [at |-> at, attempt |-> task[s].attempt, done |-> done, written |-> 0]
  BY <1>1, <1>2
<1>4. done \in Nat /\ task[s].attempt \in Nat
  BY <1>1 DEF TaskState
<1>5. at \in {"failed", "ok", "pause"} /\ (at = "ok" => done = Size(s))
  OBVIOUS
<1> HIDE DEF at
<1>6. task'[s] \in TaskState
  BY <1>3, <1>4, <1>5 DEF TaskState
<1> QED BY <1>1, <1>2, <1>3, <1>5, <1>6 DEF Failure

LEMMA AttemptFailure ==
    ASSUME TypeOK, NEW s \in Task, AttemptFailed(s)
    PROVE  Failure(s, 0)
<1>1. CASE s = 0
  <2> DEFINE at == IF task[0].attempt = SingleStreamAttempts THEN "failed" ELSE "pause"
  <2>1. task[0] \in TaskState /\ task \in [Task -> TaskState]
    BY <1>1 DEF TypeOK
  <2>2. task' = [task EXCEPT ![0] = [at |-> at, attempt |-> task[0].attempt, done |-> 0, written |-> 0]]
    BY <1>1, <2>1 DEF AttemptFailed, StreamFailed
  <2>3. task'[0] = [at |-> at, attempt |-> task[0].attempt, done |-> 0, written |-> 0]
    BY <1>1, <2>1, <2>2
  <2>4. at \in {"failed", "pause"}
    OBVIOUS
  <2> HIDE DEF at
  <2> QED BY <1>1, <2>1, <2>2, <2>3, <2>4 DEF Failure, TaskState
<1>2. CASE s # 0
  BY <1>2, TaskFacts, SegmentFailure DEF AttemptFailed
<1> QED BY <1>1, <1>2

\* A step of one task that hands over nothing keeps the invariant, if it keeps
\* the task's own counters right.
LEMMA TaskStep ==
    ASSUME TypeOK, Inv, NEW s \in Task, task[s].at \in Busy,
           task'[s] \in TaskState, task' = [task EXCEPT ![s] = task'[s]],
           UNCHANGED <<phase, max_bytes, framed, part>>,
           0 \in last_error' <=> 0 \in last_error,
           Counted(s)', task'[s].at # "idle",
           task'[s].done + task'[s].written <= task[s].done + task[s].written,
           s # 0 => task'[s].done + task'[s].written = task[s].done + task[s].written,
           s = 0 => task'[s].at # "stream",
           s = 0 /\ task'[s].at = "ok" =>
               /\ task[s].at = "stream" /\ task'[s].written = task[s].written
               /\ task[s].written <= max_bytes /\ WriteIsOver(s) /\ s \notin last_error
    PROVE  Inv'
<1> USE TaskFacts
<1>1. \A t \in Task : t # s => task'[t] = task[t]
  BY DEF TypeOK
<1>t. \A t \in Task : task[t] \in TaskState
  BY DEF TypeOK
<1>n. /\ task[s].done \in Nat /\ task[s].written \in Nat
      /\ task'[s].done \in Nat /\ task'[s].written \in Nat
  BY <1>t DEF TaskState
<1>i. task[s] # Idle /\ task'[s] # Idle
  BY DEF Busy, Idle
<1>2. Workers'
  <2>1. s = 0 => phase = "single"
    BY DEF Inv, Workers
  <2>2. s # 0 => phase = "parallel"
    BY DEF Inv, Workers
  <2>3. \A t \in Segment : t \in Task /\ t # 0
    OBVIOUS
  <2>4. CASE s = 0
    <3>1. \A t \in Segment : task'[t] = task[t]
      BY <1>1, <2>3, <2>4
    <3> QED BY <2>1, <2>4, <3>1 DEF Inv, Workers
  <2>5. CASE s # 0
    <3>1. task'[0] = task[0]
      BY <1>1, <2>5
    <3> QED BY <2>2, <2>5, <3>1 DEF Inv, Workers
  <2> QED BY <2>4, <2>5
<1>3. \A t \in Task : Counted(t)'
  BY <1>1 DEF Inv, Counted
<1>4. \A t \in Task : t # s => Position(t)' = Position(t)
  BY <1>1 DEF Position, From
<1>5. Position(s)' <= Position(s) /\ Position(s) \in Nat /\ Position(s)' \in Nat /\ (s # 0 => Position(s)' = Position(s))
  BY <1>n DEF Position, From
<1>6. \A t \in Task : Handed(t)'
  <2> SUFFICES ASSUME NEW t \in Task, NEW o \in Byte, Start(t) <= o, o < Position(t)'
               PROVE  part[o] # "hole"
    BY DEF Handed
  <2>1. o \in Nat
    BY DEF Byte
  <2>2. o < Position(t)
    <3>1. CASE t = s
      BY <1>5, <2>1, <3>1
    <3>2. CASE t # s
      BY <1>4, <3>2
    <3> QED BY <3>1, <3>2
  <2> QED BY <2>2 DEF Inv, Handed
<1>7. Covered'
  <2> SUFFICES ASSUME phase = "parallel", ~Overran', NEW o \in Byte, part[o] # "hole"
               PROVE  \E t \in Segment : Start(t) <= o /\ o < Position(t)'
    BY DEF Covered
  <2>1. s # 0
    BY <1>i DEF Inv, Workers
  <2>2. \A t \in Segment : task'[t].done + task'[t].written = task[t].done + task[t].written
    BY <1>1, <2>1
  <2>3. ~Overran
    BY <2>2 DEF Overran
  <2>4. PICK t \in Segment : Start(t) <= o /\ o < Position(t)
    BY <2>3 DEF Inv, Covered
  <2>5. Position(t)' = Position(t)
    BY <1>4, <1>5, <2>1
  <2> QED BY <2>4, <2>5
<1>8. StreamKnows'
  <2>1. CASE s # 0
    <3>1. task'[0] = task[0]
      BY <1>1, <2>1
    <3>2. Own(0)' = Own(0)
      BY <3>1 DEF Own, Position, From
    <3> QED BY <3>1, <3>2 DEF Inv, StreamKnows
  <2>2. CASE s = 0 /\ task'[0].at # "ok"
    BY <2>2 DEF StreamKnows
  <2>3. CASE s = 0 /\ task'[0].at = "ok"
    <3>1. task[0].at = "stream" /\ task'[0].written = task[0].written /\ WriteIsOver(0) /\ 0 \notin last_error
      BY <2>3
    <3>2. task[0].done = 0 /\ task'[0].done = 0
      BY <1>3 DEF Inv, Counted
    <3>3. Own(0)' = Own(0)
      BY <3>1, <3>2 DEF Own, Position, From
    <3>4. \A o \in Own(0) : part[o] # "lost" /\ part[o] # "pending"
      BY <3>1 DEF Inv, StreamKnows, WriteIsOver
    <3>5. \A o \in Own(0) : o \in Byte /\ part[o] # "hole"
      <4>1. From(0) = Start(0)
        BY <3>2 DEF From
      <4> QED BY <4>1 DEF Own, Inv, Handed
    <3>6. \A o \in Own(0) : part[o] = "data"
      BY <3>4, <3>5 DEF TypeOK, Cell
    <3> QED BY <2>3, <3>3, <3>6 DEF StreamKnows
  <2> QED BY <2>1, <2>2, <2>3
<1>9. WithinBudget'
  <2>1. CASE s # 0
    <3>1. task'[0] = task[0]
      BY <1>1, <2>1
    <3> QED BY <3>1 DEF Inv, WithinBudget
  <2>2. CASE s = 0
    <3>1. phase = "single" /\ task'[0] # Idle
      BY <2>2, <1>i DEF Inv, Workers
    <3> QED BY <2>2, <3>1 DEF WithinBudget
  <2> QED BY <2>1, <2>2
<1> QED BY <1>2, <1>3, <1>6, <1>7, <1>8, <1>9 DEF Inv

-----------------------------------------------------------------------------
(* The steps of the tasks *)

LEMMA TypeStep ==
    ASSUME TypeOK, NEW s \in Task,
           task' = [task EXCEPT ![s] = task'[s]], task'[s] \in TaskState,
           task'[s].done + task'[s].written <= Size(s) + MaxChunk
    PROVE  /\ task' \in [Task -> TaskState]
           /\ \A t \in Task : task'[t].done + task'[t].written <= Size(t) + MaxChunk
<1>1. task \in [Task -> TaskState] /\ \A t \in Task : task[t].done + task[t].written <= Size(t) + MaxChunk
  BY DEF TypeOK
<1>2. \A t \in Task : t # s => task'[t] = task[t]
  BY <1>1
<1>3. task' \in [Task -> TaskState]
  BY <1>1
<1> QED BY <1>1, <1>2, <1>3

\* Steps that only fail an attempt.
LEMMA FailureStep ==
    ASSUME TypeOK, Inv, NEW s \in Task, task[s].at \in {"request", "stream"},
           AttemptFailed(s),
           UNCHANGED <<phase, attempt, max_bytes, framed, part, downloaded, deadline, last_error>>
    PROVE  TypeOK' /\ Inv'
<1>1. Failure(s, 0)
  BY AttemptFailure
<1>2. task[s] \in TaskState /\ task[s].done + task[s].written <= Size(s) + MaxChunk
  BY DEF TypeOK
<1>3. Size(s) \in Nat /\ MaxChunk \in Nat
  BY TaskFacts, AttemptAssumption
<1>4. /\ task'[s] \in TaskState /\ task' = [task EXCEPT ![s] = task'[s]]
      /\ task'[s].at # "idle" /\ task'[s].at # "stream"
      /\ task'[s].done + task'[s].written <= task[s].done + task[s].written
      /\ s # 0 => task'[s].done + task'[s].written = task[s].done + task[s].written
      /\ s = 0 => task'[s].at # "ok"
  BY <1>1, <1>2 DEF Failure, TaskState
<1>5. task'[s].done + task'[s].written <= Size(s) + MaxChunk
  BY <1>2, <1>3, <1>4 DEF TaskState
<1>6. TypeOK'
  BY <1>4, <1>5, TypeStep DEF TypeOK
<1>7. Counted(s)'
  BY <1>1, <1>3 DEF Failure, Counted, TaskState
<1>8. Inv'
  BY <1>4, <1>7, TaskStep DEF Busy
<1> QED BY <1>6, <1>8

LEMMA ResumeStep ==
    ASSUME TypeOK, Inv, NEW s \in Task, Resume(s)
    PROVE  TypeOK' /\ Inv'
<1>1. task[s] \in TaskState /\ task \in [Task -> TaskState] /\ task[s].done + task[s].written <= Size(s) + MaxChunk
  BY DEF TypeOK
<1>2. task[s].at = "pause" /\ task' = [task EXCEPT ![s] = [task[s] EXCEPT !.at = "request", !.attempt = task[s].attempt + 1]]
  BY <1>1 DEF Resume
<1>3. task'[s] = [task[s] EXCEPT !.at = "request", !.attempt = task[s].attempt + 1]
  BY <1>1, <1>2
<1>4. /\ task'[s].at = "request" /\ task'[s].done = task[s].done /\ task'[s].written = task[s].written
      /\ task'[s] \in TaskState
  <2>1. /\ task[s].attempt + 1 \in Nat
        /\ task[s] = [at |-> task[s].at, attempt |-> task[s].attempt,
                      done |-> task[s].done, written |-> task[s].written]
    BY <1>1 DEF TaskState
  <2>2. task'[s] = [at |-> "request", attempt |-> task[s].attempt + 1,
                    done |-> task[s].done, written |-> task[s].written]
    BY <1>3, <2>1
  <2> QED BY <1>1, <2>1, <2>2 DEF TaskState
<1>5. task' = [task EXCEPT ![s] = task'[s]]
  BY <1>2, <1>3
<1>6. TypeOK'
  BY <1>1, <1>4, <1>5, TypeStep DEF TypeOK, Resume
<1>7. Counted(s)'
  BY <1>2, <1>4 DEF Inv, Counted
<1>8. task'[s].done + task'[s].written <= task[s].done + task[s].written
  BY <1>1, <1>4 DEF TaskState
<1>9. Inv'
  BY <1>2, <1>4, <1>5, <1>7, <1>8, TaskStep DEF Busy, Resume
<1> QED BY <1>6, <1>9

\* The stream starts over: its counters are zero, so nothing it counted can be
\* missing from the truncated file.
LEMMA AnswerStep ==
    ASSUME TypeOK, Inv, NEW s \in Task, Answer(s)
    PROVE  TypeOK' /\ Inv'
<1> USE TaskFacts
<1>1. task[s] \in TaskState /\ task \in [Task -> TaskState] /\ task[s].done + task[s].written <= Size(s) + MaxChunk
  BY DEF TypeOK
<1>2. task[s].at = "request" /\ task' = [task EXCEPT ![s] = [task[s] EXCEPT !.at = "stream"]] /\ task[s].done < Size(s)
  BY <1>1 DEF Answer, Goto
<1>3. task'[s] = [task[s] EXCEPT !.at = "stream"]
  BY <1>1, <1>2
<1>4. /\ task'[s].at = "stream" /\ task'[s].done = task[s].done /\ task'[s].written = task[s].written
      /\ task'[s] \in TaskState
  BY <1>1, <1>3 DEF TaskState
<1>4a. task' = [task EXCEPT ![s] = task'[s]]
  BY <1>2, <1>3
<1>5. task[s].written = 0
  BY <1>2 DEF Inv, Counted
<1>6. Counted(s)'
  BY <1>1, <1>2, <1>4, <1>5 DEF Inv, Counted, TaskState
<1>7. part' \in [Byte -> Cell] /\ last_error' \subseteq Task
  BY DEF TypeOK, Answer, Cell
<1>8. TypeOK'
  BY <1>1, <1>4, <1>4a, <1>7, TypeStep DEF TypeOK, Answer
<1>9. task'[s].done + task'[s].written = task[s].done + task[s].written
  BY <1>4
<1>10. CASE s # 0
  <2>1. UNCHANGED <<phase, max_bytes, framed, part>> /\ (0 \in last_error' <=> 0 \in last_error)
    BY <1>10 DEF Answer
  <2>2. task'[s].done + task'[s].written <= task[s].done + task[s].written
    BY <1>1, <1>9 DEF TaskState
  <2>3. task'[s].at # "idle" /\ task[s].at \in Busy
    BY <1>2, <1>4 DEF Busy
  <2>4. Inv'
    BY <1>10, <2>1, <2>2, <2>3, <1>4, <1>4a, <1>6, <1>9, TaskStep
  <2> QED BY <1>8, <2>4
<1>11. CASE s = 0
  <2>1. phase = "single" /\ UNCHANGED <<phase, max_bytes, framed>>
    BY <1>2, <1>11 DEF Inv, Workers, Busy, Answer
  <2>2. \A t \in Segment : task'[t] = task[t] /\ task[t] = Idle
    BY <1>4a, <1>1, <1>11, <2>1 DEF Inv, Workers
  <2>3. Workers'
    BY <2>1, <2>2, <1>4, <1>11 DEF Workers, Inv, Busy
  <2>4. \A t \in Task : Counted(t)'
    BY <2>2, <1>6, <1>11 DEF Inv, Counted
  <2>5. \A t \in Task : Position(t)' = Start(t)
    <3>1. \A t \in Task : task'[t].done = 0 /\ task'[t].written = 0
      BY <2>2, <1>4, <1>5, <1>11 DEF Inv, Counted, Idle
    <3> QED BY <3>1 DEF Position, From
  <2>6. \A t \in Task : Handed(t)'
    <3>1. \A t \in Task, o \in Byte : ~(Start(t) <= o /\ o < Start(t))
      BY DEF Byte
    <3> QED BY <2>5, <3>1 DEF Handed
  <2>7. Covered' /\ WithinBudget'
    BY <2>1, <1>4, <1>11 DEF Covered, WithinBudget
  <2>8. StreamKnows'
    <3>1. \A o \in Byte : part'[o] # "lost"
      BY <1>11 DEF Answer
    <3> QED BY <3>1, <1>4, <1>11 DEF StreamKnows, Own
  <2>9. Inv'
    BY <2>3, <2>4, <2>6, <2>7, <2>8 DEF Inv
  <2> QED BY <1>8, <2>9
<1> QED BY <1>10, <1>11

LEMMA EndOfStreamStep ==
    ASSUME TypeOK, Inv, NEW s \in Task, EndOfStream(s)
    PROVE  TypeOK' /\ Inv'
<1>1. task[s] \in TaskState /\ task \in [Task -> TaskState] /\ task[s].done + task[s].written <= Size(s) + MaxChunk
  BY DEF TypeOK
<1>2. task[s].at = "stream" /\ UNCHANGED <<phase, attempt, max_bytes, framed, part, downloaded, deadline, last_error>>
  BY DEF EndOfStream, Reads
<1>3. Size(s) \in Nat /\ MaxChunk \in Nat
  BY TaskFacts, AttemptAssumption
<1>4. CASE s = 0 /\ s \in last_error
  <2>1. AttemptFailed(s)
    BY <1>4 DEF EndOfStream, AttemptFailed
  <2> QED BY <1>2, <2>1, FailureStep
<1>5. CASE s = 0 /\ s \notin last_error
  <2>1. task' = [task EXCEPT ![s] = [task[s] EXCEPT !.at = "ok"]] /\ WriteIsOver(s) /\ task[s].written <= max_bytes
    BY <1>1, <1>5 DEF EndOfStream, Goto, Reads
  <2>2. task'[s] = [task[s] EXCEPT !.at = "ok"]
    BY <1>1, <2>1
  <2>3. /\ task'[s].at = "ok" /\ task'[s].done = task[s].done /\ task'[s].written = task[s].written
        /\ task'[s] \in TaskState /\ task' = [task EXCEPT ![s] = task'[s]]
    BY <1>1, <2>1, <2>2 DEF TaskState
  <2>4. framed => task[s].written = Size(s) - task[s].done
    BY <1>5 DEF EndOfStream
  <2>5. task[s].done = 0
    BY <1>5 DEF Inv, Counted
  <2>6. Counted(s)'
    BY <1>1, <1>2, <1>3, <1>5, <2>3, <2>4, <2>5 DEF Counted, TaskState
  <2>7. task'[s].done + task'[s].written <= task[s].done + task[s].written
    BY <1>1, <2>3 DEF TaskState
  <2>8. Inv'
    BY <1>2, <1>5, <2>1, <2>3, <2>6, <2>7, TaskStep DEF Busy
  <2>9. TypeOK'
    BY <1>1, <1>2, <2>3, TypeStep DEF TypeOK
  <2> QED BY <2>8, <2>9
<1>6. CASE s # 0
  <2>1. task' = [task EXCEPT ![s] = [at |-> "ok", attempt |-> task[s].attempt, done |-> Size(s), written |-> 0]]
    BY <1>1, <1>6 DEF EndOfStream
  <2>2. task'[s] = [at |-> "ok", attempt |-> task[s].attempt, done |-> Size(s), written |-> 0]
    BY <1>1, <2>1
  <2>3. /\ task'[s].at = "ok" /\ task'[s].done = Size(s) /\ task'[s].written = 0
        /\ task'[s] \in TaskState /\ task' = [task EXCEPT ![s] = task'[s]]
    BY <1>1, <1>3, <2>1, <2>2 DEF TaskState
  <2>4. task[s].done + task[s].written = Size(s)
    BY <1>1, <1>3, <1>6 DEF EndOfStream, TaskState
  <2>5. Counted(s)'
    BY <1>3, <1>6, <2>3 DEF Counted
  <2>6. /\ task'[s].done + task'[s].written = task[s].done + task[s].written
        /\ task'[s].done + task'[s].written <= task[s].done + task[s].written
        /\ task'[s].done + task'[s].written <= Size(s) + MaxChunk
    BY <1>3, <2>3, <2>4
  <2>7. Inv'
    BY <1>2, <1>6, <2>3, <2>5, <2>6, TaskStep DEF Busy
  <2>8. TypeOK'
    BY <1>1, <1>2, <2>3, <2>6, TypeStep DEF TypeOK
  <2> QED BY <2>7, <2>8
<1> QED BY <1>4, <1>5, <1>6

\* A chunk moves the position of its task past the bytes it hands over.
LEMMA ChunkStep ==
    ASSUME TypeOK, Inv, NEW s \in Task, NEW n \in 1 .. MaxChunk, Chunk(s, n)
    PROVE  TypeOK' /\ Inv'
<1> USE TaskFacts
<1>1. task[s] \in TaskState /\ task \in [Task -> TaskState] /\ n \in Nat /\ 1 <= n /\ n <= MaxChunk
  BY AttemptAssumption DEF TypeOK
<1>2. /\ task[s].at = "stream" /\ s \notin last_error
      /\ UNCHANGED <<phase, attempt, max_bytes, framed, deadline, last_error>>
      /\ s = 0 => task[s].written + n <= Total
  BY DEF Chunk, Reads
<1>3. /\ task[s].done \in Nat /\ task[s].written \in Nat /\ task[s].attempt \in Nat
      /\ Size(s) \in Nat /\ MaxChunk \in Nat /\ Start(s) \in Nat
  BY <1>1, AttemptAssumption DEF TaskState
<1>4. task[s].done + task[s].written <= Size(s)
  BY <1>2 DEF Inv, Counted
<1>5. s = 0 => task[s].done = 0
  BY DEF Inv, Counted
<1>6. /\ task'[s] \in TaskState /\ task' = [task EXCEPT ![s] = task'[s]]
      /\ task'[s].done + task'[s].written = task[s].done + task[s].written + n
      /\ Counted(s)'
      /\ task'[s].at \in {"stream", "pause", "failed", "ok"}
      /\ s = 0 => task'[s].at = "stream"
  <2>1. CASE s # 0 /\ task[s].written + n > Size(s) - task[s].done
    <3>1. Failure(s, n)
      BY <1>1, <2>1, SegmentFailure DEF Chunk
    <3>2. task'[s].done + task'[s].written = task[s].done + task[s].written + n
      BY <1>1, <1>3, <2>1, <3>1 DEF Failure
    <3>3. Counted(s)'
      BY <1>3, <2>1, <3>1 DEF Failure, Counted
    <3> QED BY <2>1, <3>1, <3>2, <3>3 DEF Failure
  <2>2. CASE ~(s # 0 /\ task[s].written + n > Size(s) - task[s].done)
    <3>1. task' = [task EXCEPT ![s] = [task[s] EXCEPT !.written = task[s].written + n]]
      BY <1>1, <2>2 DEF Chunk
    <3>2. task'[s] = [task[s] EXCEPT !.written = task[s].written + n]
      BY <1>1, <3>1
    <3>3. task[s].written + n \in Nat
      BY <1>1, <1>3
    <3>4. task'[s] \in TaskState /\ task'[s].at = "stream"
          /\ task'[s].done = task[s].done /\ task'[s].written = task[s].written + n
      BY <1>1, <1>2, <3>2, <3>3 DEF TaskState
    <3>5. task'[s].done + task'[s].written <= Size(s)
      BY <1>1, <1>2, <1>3, <1>5, <2>2, <3>4
    <3>6. Counted(s)'
      BY <1>5, <3>4, <3>5 DEF Counted
    <3>7. task'[s].done + task'[s].written = task[s].done + task[s].written + n
      BY <1>1, <1>3, <3>4
    <3> QED BY <3>1, <3>2, <3>4, <3>6, <3>7
  <2> QED BY <2>1, <2>2
<1>7. \A t \in Task : t # s => task'[t] = task[t]
  BY <1>1, <1>6
<1>8. part' \in [Byte -> Cell] /\ downloaded' \in Nat
  BY <1>1 DEF Chunk, TypeOK, Cell
<1>9. TypeOK'
  <2>1. task'[s].done + task'[s].written <= Size(s) + MaxChunk
    BY <1>1, <1>3, <1>4, <1>6
  <2> QED BY <1>2, <1>6, <1>8, <2>1, TypeStep DEF TypeOK
<1>10. /\ Position(s) \in Nat /\ Position(s)' = Position(s) + n /\ Start(s) <= Position(s)
       /\ \A t \in Task : t # s => Position(t)' = Position(t)
  <2>1. task'[s].done \in Nat /\ task'[s].written \in Nat
    BY <1>6 DEF TaskState
  <2> QED BY <1>1, <1>3, <1>6, <1>7, <2>1 DEF Position, From
<1>11. \A o \in Byte : /\ Position(s) <= o /\ o < Position(s) + n => part'[o] = "pending"
                       /\ ~(Position(s) <= o /\ o < Position(s) + n) => part'[o] = part[o]
  BY DEF Chunk
<1>12. /\ s = 0 => phase = "single"
       /\ s # 0 => phase = "parallel" /\ task[0] = Idle /\ task'[0] = Idle
  BY <1>2, <1>7 DEF Inv, Workers, Busy
<1>13. Workers'
  <2>1. CASE s = 0
    <3>1. \A t \in Segment : task'[t] = task[t]
      BY <1>7, <2>1
    <3> QED BY <1>2, <1>6, <1>12, <2>1, <3>1 DEF Inv, Workers
  <2>2. CASE s # 0
    <3>1. task'[0].at \notin Busy
      BY <1>12, <2>2 DEF Busy, Idle
    <3> QED BY <1>2, <1>12, <2>2, <3>1 DEF Workers
  <2> QED BY <2>1, <2>2
<1>14. \A t \in Task : Counted(t)'
  BY <1>2, <1>6, <1>7 DEF Inv, Counted
<1>15. \A t \in Task : Handed(t)'
  <2> SUFFICES ASSUME NEW t \in Task, NEW o \in Byte, Start(t) <= o, o < Position(t)'
               PROVE  part'[o] # "hole"
    BY DEF Handed
  <2>1. o \in Nat
    BY DEF Byte
  <2>2. CASE Position(s) <= o /\ o < Position(s) + n
    BY <1>11, <2>2
  <2>3. CASE ~(Position(s) <= o /\ o < Position(s) + n)
    <3>1. o < Position(t)
      BY <1>1, <1>10, <2>1, <2>3
    <3> QED BY <1>11, <2>3, <3>1 DEF Inv, Handed
  <2> QED BY <2>2, <2>3
<1>16. Covered'
  <2> SUFFICES ASSUME phase = "parallel", ~Overran', NEW o \in Byte, part'[o] # "hole"
               PROVE  \E t \in Segment : Start(t) <= o /\ o < Position(t)'
    BY <1>2 DEF Covered
  <2>1. s \in Segment
    BY <1>12
  <2>2. ~Overran
    <3> SUFFICES ASSUME NEW t \in Segment, task[t].done + task[t].written > Size(t)
                 PROVE  FALSE
      BY DEF Overran
    <3>1. CASE t = s
      BY <1>3, <1>4, <3>1
    <3>2. CASE t # s
      BY <1>7, <3>2 DEF Overran
    <3> QED BY <3>1, <3>2
  <2>3. o \in Nat
    BY DEF Byte
  <2>4. CASE Position(s) <= o /\ o < Position(s) + n
    BY <1>3, <1>10, <2>1, <2>3, <2>4
  <2>5. CASE ~(Position(s) <= o /\ o < Position(s) + n)
    <3>1. PICK t \in Segment : Start(t) <= o /\ o < Position(t)
      BY <1>11, <2>2, <2>5 DEF Inv, Covered
    <3>2. o < Position(t)'
      BY <1>1, <1>10, <2>3, <3>1
    <3> QED BY <3>1, <3>2
  <2> QED BY <2>4, <2>5
<1>17. StreamKnows'
  <2>1. CASE s # 0
    BY <1>12, <2>1 DEF StreamKnows, Idle
  <2>2. CASE s = 0
    <3>1. \A o \in Own(0)' : o \in Byte /\ (o \in Own(0) \/ (Position(s) <= o /\ o < Position(s) + n))
      <4>1. From(0)' = From(0)
        BY <1>5, <1>14, <2>2 DEF From, Counted
      <4>2. From(0) \in Nat
        BY <1>3, <2>2 DEF From
      <4> QED BY <1>1, <1>10, <2>2, <4>1, <4>2 DEF Own, Byte
    <3>2. \A o \in Own(0) : part[o] # "lost"
      BY <1>2, <2>2 DEF Inv, StreamKnows
    <3> QED BY <1>6, <1>11, <2>2, <3>1, <3>2 DEF StreamKnows
  <2> QED BY <2>1, <2>2
<1>18. WithinBudget'
  BY <1>2, <1>6, <1>12 DEF Inv, WithinBudget, Idle
<1> QED BY <1>9, <1>13, <1>14, <1>15, <1>16, <1>17, <1>18 DEF Inv

-----------------------------------------------------------------------------
(* The disk *)

\* Writes that end make no hole and fill none.
LEMMA DiskStep ==
    ASSUME TypeOK, Inv, part' \in [Byte -> Cell], last_error' \subseteq Task,
           \A o \in Byte : part'[o] # part[o] => part[o] = "pending" /\ part'[o] \in {"data", "lost"},
           task[0].at = "stream" /\ 0 \notin last_error' =>
               0 \notin last_error /\ \A o \in Own(0) : part'[o] = "lost" => part[o] = "lost",
           UNCHANGED <<phase, attempt, max_bytes, framed, task, downloaded, deadline>>
    PROVE  TypeOK' /\ Inv'
<1>1. TypeOK'
  BY DEF TypeOK
<1>2. \A o \in Byte : part'[o] = "hole" <=> part[o] = "hole"
  OBVIOUS
<1>3. Workers' /\ WithinBudget'
  BY <1>2 DEF Inv, Workers, WithinBudget
<1>4. \A s \in Task : Counted(s)' /\ Position(s)' = Position(s)
  BY DEF Inv, Counted, Position, From
<1>5. \A s \in Task : Handed(s)'
  BY <1>2, <1>4 DEF Inv, Handed
<1>6. Covered'
  <2>1. Overran' = Overran
    BY DEF Overran
  <2> SUFFICES ASSUME phase = "parallel", ~Overran, NEW o \in Byte, part'[o] # "hole"
               PROVE  \E t \in Segment : Start(t) <= o /\ o < Position(t)'
    BY <2>1 DEF Covered
  <2>2. PICK t \in Segment : Start(t) <= o /\ o < Position(t)
    BY <1>2 DEF Inv, Covered
  <2> QED BY <1>4, <2>2, TaskFacts
<1>7. StreamKnows'
  <2>1. Own(0)' = Own(0) /\ \A o \in Own(0) : o \in Byte
    BY DEF Own, Position, From
  <2>2. \A o \in Byte : part[o] = "data" => part'[o] = "data"
    OBVIOUS
  <2> QED BY <2>1, <2>2 DEF Inv, StreamKnows
<1> QED BY <1>1, <1>3, <1>4, <1>5, <1>6, <1>7 DEF Inv

LEMMA WriteEndsStep ==
    ASSUME TypeOK, Inv, NEW s \in Task, NEW lands \in BOOLEAN, WriteEnds(s, lands)
    PROVE  TypeOK' /\ Inv'
<1>1. part' \in [Byte -> Cell] /\ last_error' \subseteq Task
  BY DEF TypeOK, WriteEnds, Cell
<1>2. \A o \in Byte : part'[o] # part[o] => part[o] = "pending" /\ part'[o] \in {"data", "lost"}
  BY DEF WriteEnds
<1>3. task[0].at = "stream" => s = 0
  BY TaskFacts DEF Inv, Workers, Busy, WriteEnds
<1>4. task[0].at = "stream" /\ 0 \notin last_error' =>
          0 \notin last_error /\ \A o \in Own(0) : part'[o] = "lost" => part[o] = "lost"
  BY <1>3 DEF WriteEnds, Own
<1>5. UNCHANGED <<phase, attempt, max_bytes, framed, task, downloaded, deadline>>
  BY DEF WriteEnds
<1> QED BY <1>1, <1>2, <1>4, <1>5, DiskStep

LEMMA OrphanWriteEndsStep ==
    ASSUME TypeOK, Inv, NEW o \in Byte, NEW lands \in BOOLEAN, OrphanWriteEnds(o, lands)
    PROVE  TypeOK' /\ Inv'
<1>1. part' \in [Byte -> Cell] /\ last_error' \subseteq Task
  BY DEF TypeOK, OrphanWriteEnds, Cell
<1>2. \A b \in Byte : part'[b] # part[b] => part[b] = "pending" /\ part'[b] \in {"data", "lost"}
  BY DEF OrphanWriteEnds, TypeOK
<1>3. task[0].at = "stream" => o \notin Own(0)
  BY TaskFacts DEF OrphanWriteEnds
<1>4. task[0].at = "stream" /\ 0 \notin last_error' =>
          0 \notin last_error /\ \A b \in Own(0) : part'[b] = "lost" => part[b] = "lost"
  BY <1>3 DEF OrphanWriteEnds, Own, TypeOK
<1>5. UNCHANGED <<phase, attempt, max_bytes, framed, task, downloaded, deadline>>
  BY DEF OrphanWriteEnds
<1> QED BY <1>1, <1>2, <1>4, <1>5, DiskStep

-----------------------------------------------------------------------------
(* The steps of the phases *)

\* A step that changes the phase alone moves no task and no byte.
LEMMA PhaseStep ==
    ASSUME TypeOK, Inv, Workers', WithinBudget', phase' \in Phase,
           attempt' \in 1 .. ProbeAttempts, deadline' \in BOOLEAN,
           phase' = "parallel" => phase = "parallel",
           UNCHANGED <<max_bytes, framed, task, part, downloaded, last_error>>
    PROVE  TypeOK' /\ Inv'
<1>1. TypeOK'
  BY DEF TypeOK
<1>2. \A s \in Task : Counted(s)' /\ Handed(s)'
  BY DEF Inv, Counted, Handed, Position, From
<1>3. Covered'
  BY DEF Inv, Covered, Overran, Position, From
<1>4. StreamKnows'
  BY DEF Inv, StreamKnows, Own, Position, From
<1> QED BY <1>1, <1>2, <1>3, <1>4 DEF Inv

LEMMA ProbeFailsStep == TypeOK /\ Inv /\ ProbeFails => TypeOK' /\ Inv'
<1> SUFFICES ASSUME TypeOK, Inv, ProbeFails PROVE TypeOK' /\ Inv'
  OBVIOUS
<1>1. phase = "probe" /\ phase' \in {"probe", "failed"}
  BY DEF ProbeFails
<1>2. attempt' \in 1 .. ProbeAttempts
  BY AttemptAssumption DEF ProbeFails, TypeOK
<1>3. Workers' /\ WithinBudget'
  BY <1>1 DEF ProbeFails, Inv, Workers, WithinBudget
<1>4. phase' \in Phase /\ deadline' \in BOOLEAN
  BY <1>1 DEF ProbeFails, TypeOK, Phase
<1>5. UNCHANGED <<max_bytes, framed, task, part, downloaded, last_error>>
  BY DEF ProbeFails
<1> QED BY <1>1, <1>2, <1>3, <1>4, <1>5, PhaseStep

\* A step that starts tasks: all of them had not counted anything.
LEMMA StartStep ==
    ASSUME TypeOK, Inv, phase \in {"probe", "allocate"},
           task' \in [Task -> TaskState],
           \A s \in Task : task'[s].done = 0 /\ task'[s].written = 0 /\
               (task'[s] = Idle \/ task'[s].at = "request"),
           Workers', WithinBudget', phase' \in Phase,
           UNCHANGED <<attempt, max_bytes, framed, part, downloaded, deadline, last_error>>
    PROVE  TypeOK' /\ Inv'
<1>1. TypeOK'
  <2>1. \A s \in Task : task'[s].done + task'[s].written <= Size(s) + MaxChunk
    <3>1. \A s \in Task : Size(s) \in Nat /\ MaxChunk \in Nat
      BY TaskFacts, AttemptAssumption
    <3> QED BY <3>1
  <2> QED BY <2>1 DEF TypeOK
<1>2. \A s \in Task : task'[s].at \in {"idle", "request"}
  BY DEF Idle
<1>3. \A s \in Task : Counted(s)'
  BY <1>2 DEF Counted
<1>4. \A s \in Task : Position(s)' = Start(s)
  BY TaskFacts DEF Position, From
<1>5. \A s \in Task : Handed(s)'
  <2>1. \A s \in Task, o \in Byte : ~(Start(s) <= o /\ o < Start(s))
    BY TaskFacts DEF Byte
  <2> QED BY <1>4, <2>1 DEF Handed
<1>6. \A o \in Byte : part'[o] = "hole"
  BY DEF Inv, Workers
<1>7. Covered' /\ StreamKnows'
  BY <1>2, <1>6, TaskFacts DEF Covered, StreamKnows, Own
<1> QED BY <1>1, <1>3, <1>5, <1>7 DEF Inv

LEMMA ProbeStep ==
    ASSUME TypeOK, Inv, NEW known \in BOOLEAN, NEW ranged \in BOOLEAN, Probe(known, ranged)
    PROVE  TypeOK' /\ Inv'
<1> USE TaskFacts
<1>1. phase = "probe" /\ (\A s \in Task : task[s] = Idle)
  BY DEF Probe, Inv, Workers
<1>2. phase' \in {"failed", "allocate", "single"} /\ (phase' = "allocate" => ~(Total > max_bytes))
  BY DEF Probe
<1>3. UNCHANGED <<attempt, max_bytes, framed, part, downloaded, deadline, last_error>>
  BY DEF Probe
<1>4. task \in [Task -> TaskState]
  BY DEF TypeOK
<1>5. Total \in Nat /\ max_bytes \in Nat
  BY SizeAssumption DEF TypeOK
<1>6. \A s \in Segment : task'[s] = Idle
  BY <1>1, <1>4 DEF Probe
<1>7. CASE phase' = "single"
  <2>1. task' = [task EXCEPT ![0] = Begun]
    BY <1>7 DEF Probe
  <2>2. task'[0] = Begun
    BY <1>4, <2>1
  <2>3. task'[0] = [at |-> "request", attempt |-> 1, done |-> 0, written |-> 0]
    BY <2>2 DEF Begun
  <2>4. task'[0].at = "request" /\ task'[0].done = 0 /\ task'[0].written = 0 /\ task'[0] \in TaskState
    BY <2>3 DEF TaskState
  <2>5. task' \in [Task -> TaskState]
    BY <1>4, <2>1, <2>2, <2>4
  <2>6. Workers' /\ WithinBudget'
    BY <1>6, <1>7, <2>4 DEF Workers, WithinBudget, Busy, Idle
  <2>7. \A s \in Task : task'[s].done = 0 /\ task'[s].written = 0 /\ (task'[s] = Idle \/ task'[s].at = "request")
    BY <1>6, <2>4 DEF Idle
  <2> QED BY <1>1, <1>3, <1>7, <2>5, <2>6, <2>7, StartStep DEF Phase
<1>8. CASE phase' # "single"
  <2>1. task' = task
    BY <1>8 DEF Probe
  <2>2. Workers' /\ WithinBudget'
    BY <1>1, <1>2, <1>3, <1>5, <1>8, <2>1 DEF Inv, Workers, WithinBudget, Busy, Idle
  <2>3. \A s \in Task : task'[s].done = 0 /\ task'[s].written = 0 /\ (task'[s] = Idle \/ task'[s].at = "request")
    BY <1>1, <2>1 DEF Idle
  <2> QED BY <1>1, <1>2, <1>3, <1>4, <2>1, <2>2, <2>3, StartStep DEF Phase
<1> QED BY <1>7, <1>8

LEMMA AllocateStep == TypeOK /\ Inv /\ Allocate => TypeOK' /\ Inv'
<1> SUFFICES ASSUME TypeOK, Inv, Allocate PROVE TypeOK' /\ Inv'
  OBVIOUS
<1> USE TaskFacts
<1>1. phase = "allocate" /\ (\A s \in Task : task[s] = Idle) /\ Total <= max_bytes
  BY DEF Allocate, Inv, Workers, WithinBudget
<1>2. UNCHANGED <<attempt, max_bytes, framed, part, downloaded, deadline, last_error>>
  BY DEF Allocate
<1>3. CASE phase' = "failed" /\ task' = task
  <2>1. \A s \in Task : task'[s].done = 0 /\ task'[s].written = 0 /\ task'[s] = Idle
    BY <1>1, <1>3 DEF Idle
  <2>2. Workers' /\ WithinBudget'
    BY <1>3, <2>1 DEF Workers, WithinBudget, Busy, Idle
  <2> QED BY <1>1, <1>2, <1>3, <2>1, <2>2, StartStep DEF Phase, TypeOK
<1>4. CASE phase' = "parallel"
          /\ task' = [s \in Task |-> IF s = 0 THEN Idle ELSE Begun]
  <2>2. Begun \in TaskState /\ Begun.at = "request" /\ Begun.done = 0 /\ Begun.written = 0
    BY DEF TaskState, Begun
  <2>3. \A s \in Task : task'[s] = IF s = 0 THEN Idle ELSE Begun
    BY <1>4
  <2>4. task' \in [Task -> TaskState]
    BY <1>4, <2>2
  <2>5. \A s \in Task : task'[s].done = 0 /\ task'[s].written = 0 /\ (task'[s] = Idle \/ task'[s].at = "request")
    BY <2>2, <2>3 DEF Idle
  <2>6. task'[0] = Idle
    BY <2>3
  <2>7. Workers' /\ WithinBudget'
    BY <1>1, <1>2, <1>4, <2>6 DEF Workers, WithinBudget, Busy, Idle
  <2> QED BY <1>1, <1>2, <1>4, <2>4, <2>5, <2>7, StartStep DEF Phase
<1> QED BY <1>3, <1>4 DEF Allocate

LEMMA ClockStep == TypeOK /\ Inv /\ TimeIsUp => TypeOK' /\ Inv'
<1> SUFFICES ASSUME TypeOK, Inv, TimeIsUp PROVE TypeOK' /\ Inv'
  OBVIOUS
<1>1. UNCHANGED <<phase, attempt, max_bytes, framed, task, part, downloaded, last_error>> /\ deadline' = TRUE
  BY DEF TimeIsUp
<1>2. Workers' /\ WithinBudget'
  BY <1>1 DEF Inv, Workers, WithinBudget
<1> QED BY <1>1, <1>2, PhaseStep DEF TypeOK

LEMMA FinishStep == TypeOK /\ Inv /\ Finish => TypeOK' /\ Inv'
<1> SUFFICES ASSUME TypeOK, Inv, Finish PROVE TypeOK' /\ Inv'
  OBVIOUS
<1>1. UNCHANGED <<attempt, max_bytes, framed, task, part, downloaded, deadline, last_error>>
  BY DEF Finish, Join, StreamDone, Rename
<1>2. phase' \in {"rename", "renamed", "failed"}
  BY DEF Finish, Join, StreamDone, Rename
<1>3. Workers' /\ WithinBudget'
  <2>1. CASE Join
    BY <1>1, <1>2, <2>1 DEF Join, Inv, Workers, WithinBudget, Busy, Idle
  <2>2. CASE StreamDone
    <3>1. phase = "single" /\ task[0].at \in {"ok", "failed"} /\ (phase' = "rename" => task[0].at = "ok")
      BY <2>2 DEF StreamDone
    <3>2. phase' # "renamed"
      BY <2>2 DEF StreamDone
    <3> QED BY <1>1, <1>2, <3>1, <3>2 DEF Inv, Workers, WithinBudget, Busy, Idle
  <2>3. CASE Rename
    BY <1>1, <1>2, <2>3 DEF Rename, Inv, Workers, WithinBudget
  <2> QED BY <2>1, <2>2, <2>3 DEF Finish
<1> QED BY <1>1, <1>2, <1>3, PhaseStep DEF Phase, TypeOK

LEMMA NextInv == TypeOK /\ Inv /\ [Next]_vars => TypeOK' /\ Inv'
<1> SUFFICES ASSUME TypeOK, Inv, [Next]_vars PROVE TypeOK' /\ Inv'
  OBVIOUS
<1>1. CASE Begin
  BY <1>1, ProbeFailsStep, ProbeStep, AllocateStep DEF Begin
<1>2. ASSUME NEW s \in Task, Resume(s) PROVE TypeOK' /\ Inv'
  BY <1>2, ResumeStep
<1>3. ASSUME NEW s \in Task, RequestFails(s) PROVE TypeOK' /\ Inv'
  BY <1>3, FailureStep DEF RequestFails
<1>4. ASSUME NEW s \in Task, Answer(s) PROVE TypeOK' /\ Inv'
  BY <1>4, AnswerStep
<1>5. ASSUME NEW s \in Task, StreamStep(s) PROVE TypeOK' /\ Inv'
  <2>1. CASE \E n \in 1 .. MaxChunk : Chunk(s, n)
    BY <2>1, ChunkStep
  <2>2. CASE WriteFails(s)
    BY <2>2, FailureStep DEF WriteFails, Reads
  <2>3. CASE StreamBreaks(s)
    BY <2>3, FailureStep DEF StreamBreaks
  <2>4. CASE EndOfStream(s)
    BY <2>4, EndOfStreamStep
  <2> QED BY <1>5, <2>1, <2>2, <2>3, <2>4 DEF StreamStep
<1>6. CASE Disk
  BY <1>6, WriteEndsStep, OrphanWriteEndsStep DEF Disk
<1>7. CASE TimeIsUp
  BY <1>7, ClockStep
<1>8. CASE Finish
  BY <1>8, FinishStep
<1>9. CASE UNCHANGED vars
  <2>1. UNCHANGED <<phase, attempt, max_bytes, framed, task, part, downloaded, deadline, last_error>>
    BY <1>9 DEF vars
  <2>2. Workers' /\ WithinBudget'
    BY <2>1 DEF Inv, Workers, WithinBudget
  <2> QED BY <2>1, <2>2, PhaseStep DEF TypeOK
<1> QED BY <1>1, <1>2, <1>3, <1>4, <1>5, <1>6, <1>7, <1>8, <1>9 DEF Next

-----------------------------------------------------------------------------
(* The theorems *)

LEMMA Invariant == Spec => [](TypeOK /\ Inv)
  BY InitInv, NextInv, PTL DEF Spec

\* Every variable keeps its type, and no task counts more than its range and
\* one chunk (segment_attempt gives up at the first byte too many).
THEOREM TypeCorrect == Spec => []TypeOK
  BY Invariant, PTL

\* For every size, number of segments, number of attempts and size of chunks, a
\* renamed file has no byte that was not handed to it.
THEOREM NoGap == Spec => []RenamedWithoutGap
<1>1. TypeOK /\ Inv => RenamedWithoutGap
  <2> SUFFICES ASSUME TypeOK, Inv, phase \in {"rename", "renamed"}, framed \/ task[0] = Idle, NEW o \in Byte
               PROVE  part[o] # "hole"
    BY DEF RenamedWithoutGap
  <2> USE TaskFacts
  <2>1. o \in Nat /\ o < Total /\ \A s \in Task : task[s] \in TaskState
    BY SizeAssumption DEF Byte, TypeOK
  <2>2. CASE \A s \in Segment : task[s].at = "ok"
    <3>1. PICK s \in Segment : Start(s) <= o /\ o <= End(s)
      BY Partition
    <3>2. s \in Task /\ s # 0
      BY <3>1
    <3>3. task[s].done + task[s].written = Size(s)
      BY <2>2, <3>1, <3>2 DEF Inv, Counted
    <3>4. Position(s) = End(s) + 1
      BY <2>1, <3>2, <3>3, Ranges DEF Position, From, TaskState
    <3>5. o < Position(s)
      BY <2>1, <3>1, <3>2, <3>4, Ranges
    <3> QED BY <3>1, <3>2, <3>5 DEF Inv, Handed
  <2>3. CASE task[0].at = "ok"
    <3>1. framed
      BY <2>3 DEF Idle
    <3>2. task[0].done + task[0].written = Total
      BY <2>3, <3>1 DEF Inv, Counted
    <3>3. Position(0) = Total
      BY <2>1, <3>2, SizeAssumption DEF Position, From, TaskState
    <3> QED BY <2>1, <3>3 DEF Inv, Handed
  <2> QED BY <2>2, <2>3 DEF Inv, Workers
<1> QED BY <1>1, Invariant, PTL

\* What the single stream fetched is on the disk when it is renamed.
THEOREM StreamWritten == Spec => []StreamIsWritten
<1>1. Inv => StreamIsWritten
  BY DEF Inv, StreamKnows, StreamIsWritten
<1> QED BY <1>1, Invariant, PTL

\* A file that is kept is within its budget.
THEOREM Budget == Spec => []BudgetHolds
<1>1. Inv => BudgetHolds
  <2> SUFFICES ASSUME Inv, phase \in {"rename", "renamed"}, task[0] # Idle PROVE task[0].written <= max_bytes
    BY DEF Inv, WithinBudget, BudgetHolds
  <2>1. task[0].at = "ok"
    BY DEF Inv, Workers
  <2> QED BY <2>1 DEF Inv, WithinBudget
<1> QED BY <1>1, Invariant, PTL

\* As long as the server keeps to the ranges, no written byte is written again.
THEOREM Once == Spec => WrittenOnce
<1> DEFINE Final == phase = "parallel" /\ ~Overran' =>
                        \A o \in Byte : part[o] \in {"data", "lost"} => part'[o] = part[o]
<1>1. TypeOK /\ Inv /\ [Next]_vars => [Final]_vars
  <2> SUFFICES ASSUME TypeOK, Inv, Next, phase = "parallel", ~Overran',
                      NEW o \in Byte, part[o] \in {"data", "lost"}, part'[o] # part[o]
               PROVE  FALSE
    OBVIOUS
  <2> USE TaskFacts
  <2>1. PICK s \in Task, n \in 1 .. MaxChunk : Chunk(s, n)
    <3>1. task[0] = Idle
      BY DEF Inv, Workers
    <3>2. ASSUME NEW s \in Task, Answer(s) PROVE part' = part
      BY <3>1, <3>2 DEF Answer, Idle
    <3>3. ~Disk
      BY DEF Disk, WriteEnds, OrphanWriteEnds, TypeOK
    <3>4. ~Begin
      BY DEF Begin, ProbeFails, Probe, Allocate
    <3>5. ~Finish /\ ~TimeIsUp
      BY DEF Finish, Join, StreamDone, Rename, TimeIsUp
    <3>6. PICK s \in Task : Resume(s) \/ RequestFails(s) \/ Answer(s) \/ StreamStep(s)
      BY <3>3, <3>4, <3>5 DEF Next
    <3>7. StreamStep(s)
      BY <3>2, <3>6 DEF Resume, RequestFails
    <3> QED BY <3>7 DEF StreamStep, WriteFails, StreamBreaks, EndOfStream
  <2>2. task[s].at = "stream" /\ Position(s) <= o /\ o < Position(s) + n
    BY <2>1 DEF Chunk, Reads
  <2>3. s \in Segment /\ o \in Nat /\ n \in Nat
    BY <2>2, AttemptAssumption DEF Inv, Workers, Idle, Byte
  <2>4. \A t \in Task : task[t].done \in Nat /\ task[t].written \in Nat
                       /\ task'[t].done \in Nat /\ task'[t].written \in Nat
    BY <2>1, ChunkStep DEF TypeOK, TaskState
  <2>5. Position(s)' = Position(s) + n
    <3>1. CASE task[s].written + n > Size(s) - task[s].done
      <4>1. Failure(s, n)
        BY <2>1, <2>3, <3>1, SegmentFailure DEF Chunk
      <4> QED BY <2>3, <2>4, <4>1 DEF Failure, Position, From
    <3>2. CASE ~(task[s].written + n > Size(s) - task[s].done)
      <4>1. task' = [task EXCEPT ![s].written = task[s].written + n]
        BY <2>1, <3>2 DEF Chunk
      <4>2. task'[s] = [task[s] EXCEPT !.written = task[s].written + n]
        BY <4>1 DEF TypeOK
      <4>3. task'[s].done = task[s].done /\ task'[s].written = task[s].written + n
        BY <4>2 DEF TypeOK, TaskState
      <4> QED BY <2>3, <2>4, <4>3 DEF Position, From
    <3> QED BY <3>1, <3>2
  <2>6. \A t \in Segment : Position(t)' <= Start(t) + Size(t) /\ Position(t)' \in Int
    BY <2>4 DEF Overran, Position, From
  <2>7. \A t \in Task : t # s => Position(t)' = Position(t)
    <3>1. \A t \in Task : t # s => task'[t] = task[t]
      <4>1. CASE task[s].written + n > Size(s) - task[s].done
        BY <2>1, <2>3, <4>1, SegmentFailure DEF Chunk, Failure, TypeOK
      <4>2. CASE ~(task[s].written + n > Size(s) - task[s].done)
        BY <2>1, <4>2 DEF Chunk, TypeOK
      <4> QED BY <4>1, <4>2
    <3> QED BY <3>1 DEF Position, From
  <2>8. ~Overran
    <3> SUFFICES ASSUME NEW t \in Segment, task[t].done + task[t].written > Size(t) PROVE FALSE
      BY DEF Overran
    <3>1. Position(t) > Start(t) + Size(t)
      BY <2>4 DEF Position, From
    <3>2. Position(t) \in Nat
      BY <2>4 DEF Position, From
    <3>3. Position(t)' >= Position(t)
      BY <2>3, <2>5, <2>7, <3>2
    <3> QED BY <2>6, <3>1, <3>2, <3>3
  <2>9. PICK t \in Segment : Start(t) <= o /\ o < Position(t)
    BY <2>8 DEF Inv, Covered
  <2>10. t # s
    BY <2>2, <2>3, <2>4, <2>9 DEF Position, From
  <2>11. Start(t) <= o /\ o <= End(t)
    BY <2>3, <2>6, <2>7, <2>9, <2>10, Ranges
  <2>12. Start(s) <= o /\ o <= End(s)
    <3>1. Start(s) <= Position(s) /\ Position(s) \in Nat
      BY <2>4 DEF Position, From
    <3> QED BY <2>2, <2>3, <2>5, <2>6, <3>1, Ranges
  <2>13. PICK u \in Segment : \A v \in Segment : Start(v) <= o /\ o <= End(v) => v = u
    BY Partition
  <2> QED BY <2>3, <2>9, <2>10, <2>11, <2>12, <2>13
<1> QED BY <1>1, Invariant, PTL DEF Spec, WrittenOnce

-----------------------------------------------------------------------------
(* The shared counter *)

\* What a segment counted, over all its attempts.
Tally(s) == task[s].done + task[s].written

\* One receipt for every byte that a segment counted.  The sum of the tallies
\* is the number of receipts, which a proof can reason about without recursion.
Receipts == {r \in Segment \X (0 .. Total + MaxChunk) : r[2] < Tally(r[1])}

CounterIsSum == downloaded = Cardinality(Receipts)

LEMMA TallyType ==
    TypeOK => \A s \in Segment : Tally(s) \in Nat /\ Tally(s) <= Total + MaxChunk
<1> SUFFICES ASSUME TypeOK, NEW s \in Segment
             PROVE  Tally(s) \in Nat /\ Tally(s) <= Total + MaxChunk
  OBVIOUS
<1>1. s \in Task /\ task[s] \in TaskState /\ Tally(s) <= Size(s) + MaxChunk
  BY TaskFacts DEF TypeOK, Tally
<1>2. Size(s) \in Nat /\ Size(s) <= Total /\ Total \in Nat /\ MaxChunk \in Nat
  BY <1>1, Ranges, SizeAssumption, AttemptAssumption
<1> QED BY <1>1, <1>2 DEF Tally, TaskState

LEMMA TallyTypeNext ==
    TypeOK' => (\A s \in Segment : Tally(s) \in Nat /\ Tally(s) <= Total + MaxChunk)'
  BY TallyType, PTL

LEMMA ReceiptsFinite == IsFiniteSet(Receipts)
<1>1. IsFiniteSet(Segment) /\ IsFiniteSet(0 .. Total + MaxChunk)
  BY FS_Interval, SegmentCount, SizeAssumption, AttemptAssumption DEF Segment
<1>2. IsFiniteSet(Segment \X (0 .. Total + MaxChunk))
  BY <1>1, FS_Product
<1>3. Receipts \in SUBSET (Segment \X (0 .. Total + MaxChunk))
  BY DEF Receipts
<1> QED BY <1>2, <1>3, FS_Subset

\* The receipts of one chunk are as many as its bytes.
ChunkOfReceipts(s, a, n) == {s} \X (a .. a + n - 1)

LEMMA ChunkReceipts ==
    ASSUME NEW s, NEW a \in Nat, NEW n \in Nat
    PROVE  /\ IsFiniteSet(ChunkOfReceipts(s, a, n))
           /\ Cardinality(ChunkOfReceipts(s, a, n)) = n
<1> DEFINE I == a .. a + n - 1
<1> DEFINE f == [k \in I |-> <<s, k>>]
<1>1. IsFiniteSet(I) /\ Cardinality(I) = n
  BY FS_Interval
<1>2. ChunkOfReceipts(s, a, n) = {s} \X I
  BY DEF ChunkOfReceipts
<1> HIDE DEF I
<1>3. f \in Bijection(I, {s} \X I)
  <2>1. f \in [I -> {s} \X I]
    OBVIOUS
  <2>2. \A x, y \in I : f[x] = f[y] => x = y
    OBVIOUS
  <2>3. \A t \in {s} \X I : \E x \in I : f[x] = t
    OBVIOUS
  <2> HIDE DEF f
  <2> QED BY <2>1, <2>2, <2>3, Fun_IsBij
<1>4. ExistsBijection(I, {s} \X I)
  BY <1>3 DEF ExistsBijection
<1> HIDE DEF f
<1> QED BY <1>1, <1>2, <1>4, FS_Bijection

\* Every step either counts nothing, or counts a chunk in the shared counter
\* and in the tally of one segment: a failed attempt moves its bytes from
\* `written` to `done`, and no later step counts them again.
LEMMA TallyStep ==
    ASSUME TypeOK, Inv, [Next]_vars
    PROVE  \/ downloaded' = downloaded /\ \A s \in Segment : Tally(s)' = Tally(s)
           \/ \E s \in Segment, n \in Nat :
                  /\ downloaded' = downloaded + n
                  /\ Tally(s)' = Tally(s) + n
                  /\ \A t \in Segment : t # s => Tally(t)' = Tally(t)
<1> USE TaskFacts
<1> DEFINE Quiet == downloaded' = downloaded /\ \A s \in Segment : Tally(s)' = Tally(s)
<1>t. task \in [Task -> TaskState] /\ downloaded \in Nat
  BY DEF TypeOK
<1>1. ASSUME UNCHANGED task, UNCHANGED downloaded PROVE Quiet
  BY <1>1 DEF Tally
<1>2. ASSUME NEW s \in Task, AttemptFailed(s), UNCHANGED downloaded PROVE Quiet
  <2>1. Failure(s, 0)
    BY <1>2, AttemptFailure
  <2>2. \A t \in Segment : t # s => task'[t] = task[t]
    BY <2>1, <1>t DEF Failure
  <2>3. s # 0 => task'[s].done + task'[s].written = task[s].done + task[s].written
    BY <2>1, <1>t DEF Failure, TaskState
  <2> QED BY <1>2, <2>2, <2>3 DEF Tally
<1>3. ASSUME Begin PROVE Quiet
  <2>1. CASE ProbeFails
    BY <1>1, <2>1 DEF ProbeFails
  <2>2. CASE \E known, ranged \in BOOLEAN : Probe(known, ranged)
    <3>1. UNCHANGED downloaded /\ \A t \in Segment : task'[t] = task[t]
      BY <2>2, <1>t DEF Probe
    <3> QED BY <3>1 DEF Tally
  <2>3. CASE Allocate
    <3>1. UNCHANGED downloaded /\ \A t \in Segment : task[t] = Idle
      BY <2>3 DEF Allocate, Inv, Workers
    <3>2. \A t \in Segment : task'[t] \in {Idle, Begun}
      BY <2>3, <3>1 DEF Allocate
    <3> QED BY <3>1, <3>2 DEF Tally, Idle, Begun
  <2> QED BY <1>3, <2>1, <2>2, <2>3 DEF Begin
<1>4. ASSUME NEW s \in Task, Resume(s) PROVE Quiet
  <2>1. task' = [task EXCEPT ![s] = [task[s] EXCEPT !.at = "request", !.attempt = task[s].attempt + 1]]
    BY <1>4, <1>t DEF Resume
  <2>2. task'[s] = [task[s] EXCEPT !.at = "request", !.attempt = task[s].attempt + 1]
    BY <2>1, <1>t
  <2>3. task'[s].done = task[s].done /\ task'[s].written = task[s].written
    BY <2>2, <1>t DEF TaskState
  <2>4. \A t \in Segment : t # s => task'[t] = task[t]
    BY <2>1, <1>t
  <2> QED BY <1>4, <2>3, <2>4 DEF Resume, Tally
<1>5. ASSUME NEW s \in Task, Answer(s) PROVE Quiet
  <2>1. task' = [task EXCEPT ![s] = [task[s] EXCEPT !.at = "stream"]]
    BY <1>5, <1>t DEF Answer, Goto
  <2>2. task'[s].done = task[s].done /\ task'[s].written = task[s].written
    BY <2>1, <1>t DEF TaskState
  <2>3. \A t \in Segment : t # s => task'[t] = task[t]
    BY <2>1, <1>t
  <2> QED BY <1>5, <2>2, <2>3 DEF Answer, Tally
<1>6. ASSUME NEW s \in Task, NEW n \in 1 .. MaxChunk, Chunk(s, n)
      PROVE  Quiet \/ /\ s \in Segment /\ n \in Nat /\ downloaded' = downloaded + n
                      /\ Tally(s)' = Tally(s) + n
                      /\ \A t \in Segment : t # s => Tally(t)' = Tally(t)
  <2>0. n \in Nat /\ task[s].done \in Nat /\ task[s].written \in Nat
    BY <1>t, AttemptAssumption DEF TaskState
  <2>1. CASE s # 0 /\ task[s].written + n > Size(s) - task[s].done
    <3>1. s \in Segment /\ Failure(s, n) /\ downloaded' = downloaded + n
      BY <1>6, <2>0, <2>1, SegmentFailure DEF Chunk
    <3>2. \A t \in Segment : t # s => task'[t] = task[t]
      BY <3>1, <1>t DEF Failure
    <3>3. task'[s].done + task'[s].written = task[s].done + task[s].written + n
      BY <2>0, <2>1, <3>1 DEF Failure
    <3> QED BY <2>0, <3>1, <3>2, <3>3 DEF Tally
  <2>2. CASE ~(s # 0 /\ task[s].written + n > Size(s) - task[s].done)
    <3>1. task' = [task EXCEPT ![s] = [task[s] EXCEPT !.written = task[s].written + n]]
      BY <1>6, <1>t, <2>2 DEF Chunk
    <3>2. task'[s] = [task[s] EXCEPT !.written = task[s].written + n]
      BY <3>1, <1>t
    <3>3. task'[s].done = task[s].done /\ task'[s].written = task[s].written + n
      BY <3>2, <1>t DEF TaskState
    <3>4. \A t \in Segment : t # s => task'[t] = task[t]
      BY <3>1, <1>t
    <3>5. downloaded' = IF s = 0 THEN downloaded ELSE downloaded + n
      BY <1>6 DEF Chunk
    <3>6. CASE s = 0
      BY <3>4, <3>5, <3>6 DEF Tally
    <3>7. CASE s # 0
      <4>1. task'[s].done + task'[s].written = task[s].done + task[s].written + n
        BY <2>0, <3>3
      <4> QED BY <2>0, <3>4, <3>5, <3>7, <4>1 DEF Tally
    <3> QED BY <3>6, <3>7
  <2> QED BY <2>1, <2>2
<1>7. ASSUME NEW s \in Task, EndOfStream(s) PROVE Quiet
  <2>1. UNCHANGED downloaded
    BY <1>7 DEF EndOfStream
  <2>2. CASE s = 0
    <3>1. \A t \in Segment : task'[t] = task[t]
      BY <1>7, <1>t, <2>2 DEF EndOfStream, StreamFailed, Goto
    <3> QED BY <2>1, <3>1 DEF Tally
  <2>3. CASE s # 0
    <3>1. task' = [task EXCEPT ![s] = [at |-> "ok", attempt |-> task[s].attempt, done |-> Size(s), written |-> 0]]
      BY <1>7, <1>t, <2>3 DEF EndOfStream
    <3>2. task'[s].done = Size(s) /\ task'[s].written = 0
      BY <3>1, <1>t
    <3>3. task[s].written = Size(s) - task[s].done
      BY <1>7, <2>3 DEF EndOfStream
    <3>4. task'[s].done + task'[s].written = task[s].done + task[s].written
      BY <1>t, <3>2, <3>3 DEF TaskState
    <3>5. \A t \in Segment : t # s => task'[t] = task[t]
      BY <3>1, <1>t
    <3> QED BY <2>1, <3>4, <3>5 DEF Tally
  <2> QED BY <2>2, <2>3
<1>8. ASSUME Disk \/ TimeIsUp \/ Finish \/ UNCHANGED vars PROVE Quiet
  <2>1. UNCHANGED task /\ UNCHANGED downloaded
    BY <1>8 DEF Disk, WriteEnds, OrphanWriteEnds, TimeIsUp, Finish, Join, StreamDone, Rename, vars
  <2> QED BY <1>1, <2>1
<1>9. ASSUME NEW s \in Task, StreamStep(s)
      PROVE  Quiet \/ \E n \in 1 .. MaxChunk : Chunk(s, n)
  <2>1. ASSUME WriteFails(s) \/ StreamBreaks(s) PROVE AttemptFailed(s) /\ UNCHANGED downloaded
    BY <2>1 DEF WriteFails, StreamBreaks
  <2> QED BY <1>2, <1>7, <1>9, <2>1 DEF StreamStep
<1>10. ASSUME NEW s \in Task, RequestFails(s) PROVE Quiet
  BY <1>2, <1>10 DEF RequestFails
<1> HIDE DEF Quiet
<1>11. Quiet \/ \E s \in Task, n \in 1 .. MaxChunk : Chunk(s, n)
  <2>0. CASE Begin
    BY <1>3, <2>0
  <2>1. CASE Disk \/ TimeIsUp \/ Finish \/ UNCHANGED vars
    <3>1. Quiet
      BY ONLY <1>8, <2>1
    <3> QED BY <3>1
  <2>2. CASE \E s \in Task : Resume(s) \/ RequestFails(s) \/ Answer(s) \/ StreamStep(s)
    <3>1. PICK s \in Task : Resume(s) \/ RequestFails(s) \/ Answer(s) \/ StreamStep(s)
      BY <2>2
    <3> QED BY <1>4, <1>5, <1>9, <1>10, <3>1
  <2> QED BY <2>0, <2>1, <2>2 DEF Next
<1>12. CASE Quiet
  BY <1>12 DEF Quiet
<1>13. CASE \E s \in Task, n \in 1 .. MaxChunk : Chunk(s, n)
  BY <1>6, <1>12, <1>13
<1> QED BY <1>11, <1>12, <1>13

LEMMA CounterInit == Init => CounterIsSum
<1> SUFFICES ASSUME Init PROVE CounterIsSum
  OBVIOUS
<1>1. \A s \in Segment : Tally(s) = 0
  BY TaskFacts DEF Init, Tally, Idle
<1>2. Receipts = {}
  <2> SUFFICES ASSUME NEW r \in Receipts PROVE FALSE
    OBVIOUS
  <2>1. r[1] \in Segment /\ r[2] \in Nat /\ r[2] < Tally(r[1])
    BY SizeAssumption, AttemptAssumption DEF Receipts
  <2> QED BY <1>1, <2>1
<1> QED BY <1>2, FS_EmptySet DEF Init, CounterIsSum

LEMMA CounterNext == TypeOK /\ Inv /\ CounterIsSum /\ [Next]_vars => CounterIsSum'
<1> SUFFICES ASSUME TypeOK, Inv, CounterIsSum, [Next]_vars PROVE CounterIsSum'
  OBVIOUS
<1>1. CASE downloaded' = downloaded /\ \A s \in Segment : Tally(s)' = Tally(s)
  <2>1. Receipts' = Receipts
    BY <1>1 DEF Receipts
  <2> QED BY <1>1, <2>1 DEF CounterIsSum
<1>2. ASSUME NEW s \in Segment, NEW n \in Nat, downloaded' = downloaded + n,
             Tally(s)' = Tally(s) + n, \A t \in Segment : t # s => Tally(t)' = Tally(t)
      PROVE  CounterIsSum'
  <2> DEFINE New == ChunkOfReceipts(s, Tally(s), n)
  <2>1. TypeOK'
    BY NextInv
  <2>2. Tally(s) \in Nat /\ Tally(s)' \in Nat /\ Tally(s)' <= Total + MaxChunk
    <3>1. (\A t \in Segment : Tally(t) \in Nat /\ Tally(t) <= Total + MaxChunk)'
      BY <2>1, TallyTypeNext
    <3> QED BY <3>1, TallyType
  <2>3. Total \in Nat /\ MaxChunk \in Nat
    BY SizeAssumption, AttemptAssumption
  <2>4. Receipts' = Receipts \cup New
    <3> SUFFICES ASSUME NEW t, NEW k PROVE <<t, k>> \in Receipts' <=> <<t, k>> \in Receipts \cup New
      BY DEF Receipts, ChunkOfReceipts
    <3>1. <<t, k>> \in Receipts' <=> t \in Segment /\ k \in 0 .. Total + MaxChunk /\ k < Tally(t)'
      BY DEF Receipts
    <3>2. <<t, k>> \in Receipts <=> t \in Segment /\ k \in 0 .. Total + MaxChunk /\ k < Tally(t)
      BY DEF Receipts
    <3>3. <<t, k>> \in New <=> t = s /\ k \in Tally(s) .. Tally(s) + n - 1
      BY DEF ChunkOfReceipts
    <3>4. CASE t = s
      BY <1>2, <2>2, <2>3, <3>1, <3>2, <3>3, <3>4
    <3>5. CASE t # s
      BY <1>2, <3>1, <3>2, <3>3, <3>5
    <3> QED BY <3>4, <3>5
  <2>5. Receipts \cap New = {}
    BY <2>2 DEF Receipts, ChunkOfReceipts
  <2>6. IsFiniteSet(New) /\ Cardinality(New) = n
    BY <2>2, ChunkReceipts
  <2> HIDE DEF New
  <2>7. Cardinality(Receipts \cup New) = Cardinality(Receipts) + n - 0
    BY <2>5, <2>6, ReceiptsFinite, FS_Union, FS_EmptySet
  <2>8. Cardinality(Receipts) \in Nat
    BY ReceiptsFinite, FS_CardinalityType
  <2> QED BY <1>2, <2>4, <2>7, <2>8 DEF CounterIsSum
<1> QED BY <1>1, <1>2, TallyStep

\* The shared counter is the sum of what the segments counted, in every state.
THEOREM CounterSum == Spec => []CounterIsSum
  BY CounterInit, CounterNext, Invariant, PTL DEF Spec

\* When every segment has ended well, there is one receipt for every byte.
LEMMA FullReceipts ==
    ASSUME TypeOK, \A s \in Segment : Tally(s) = Size(s)
    PROVE  Cardinality(Receipts) = Total
<1> DEFINE f == [r \in Receipts |-> Start(r[1]) + r[2]]
<1>0. Total \in Nat /\ MaxChunk \in Nat
  BY SizeAssumption, AttemptAssumption
<1>1. ASSUME NEW r \in Receipts
      PROVE  /\ r = <<r[1], r[2]>> /\ r[1] \in Segment /\ r[2] \in Nat
             /\ Start(r[1]) <= f[r] /\ f[r] <= End(r[1]) /\ f[r] \in Byte
  <2>1. r = <<r[1], r[2]>> /\ r[1] \in Segment /\ r[2] \in Nat /\ r[2] < Size(r[1])
    BY <1>0, <1>1 DEF Receipts
  <2>2. r[1] \in Task
    BY <2>1, TaskFacts
  <2> QED BY <2>1, <2>2, Ranges, SizeAssumption DEF Byte
<1>2. \A r, q \in Receipts : f[r] = f[q] => r = q
  <2> SUFFICES ASSUME NEW r \in Receipts, NEW q \in Receipts, f[r] = f[q] PROVE r = q
    OBVIOUS
  <2>1. r[1] = q[1]
    <3>1. PICK u \in Segment : \A t \in Segment : Start(t) <= f[r] /\ f[r] <= End(t) => t = u
      BY <1>1, Partition
    <3> QED BY <1>1, <3>1
  <2>2. Start(r[1]) \in Nat
    BY <1>1, TaskFacts
  <2>3. r[2] = q[2]
    BY <1>1, <2>1, <2>2
  <2> QED BY <1>1, <2>1, <2>3
<1>3. \A o \in Byte : \E r \in Receipts : f[r] = o
  <2> SUFFICES ASSUME NEW o \in Byte PROVE \E r \in Receipts : f[r] = o
    OBVIOUS
  <2>1. PICK s \in Segment : Start(s) <= o /\ o <= End(s)
    BY Partition
  <2>2. s \in Task /\ o \in Nat
    BY TaskFacts DEF Byte
  <2>3. o - Start(s) \in 0 .. Total + MaxChunk /\ o - Start(s) < Size(s)
    BY <1>0, <2>1, <2>2, Ranges
  <2>4. <<s, o - Start(s)>> \in Receipts
    BY <2>3 DEF Receipts
  <2>5. f[<<s, o - Start(s)>>] = o
    BY <2>2, <2>4, Ranges
  <2> QED BY <2>4, <2>5
<1>4. f \in [Receipts -> Byte]
  BY <1>1
<1> HIDE DEF f
<1>5. f \in Bijection(Receipts, Byte)
  BY <1>2, <1>3, <1>4, Fun_IsBij
<1>6. Cardinality(Byte) = Cardinality(Receipts)
  BY <1>5, ReceiptsFinite, FS_Bijection DEF ExistsBijection
<1>7. Cardinality(Byte) = Total
  BY FS_Interval, SizeAssumption DEF Byte
<1> QED BY <1>6, <1>7

\* Bytes counted by failed attempts are counted once, whatever the size of the
\* file, the number of segments and of attempts: the last check of
\* download_parallel refuses no download whose segments all ended well.
THEOREM Counter == Spec => []CounterAgrees
<1>1. TypeOK /\ Inv /\ CounterIsSum => CounterAgrees
  <2> SUFFICES ASSUME TypeOK, Inv, CounterIsSum, \A s \in Segment : task[s].at = "ok"
               PROVE  downloaded = Total
    BY DEF CounterAgrees
  <2>1. \A s \in Segment : Tally(s) = Size(s)
    BY TaskFacts DEF Inv, Counted, Tally
  <2> QED BY <2>1, FullReceipts DEF CounterIsSum
<1> QED BY <1>1, Invariant, CounterSum, PTL
-----------------------------------------------------------------------------
(* Progress: no step of a download goes back, so it cannot retry for ever *)

Attempts(s) == IF s = 0 THEN SingleStreamAttempts ELSE SegmentAttempts

\* No task begins more attempts than it is given, and one that pauses has
\* another attempt left.
Allowed(s, new) ==
    /\ new.attempt <= Attempts(s)
    /\ new.at = "pause" => new.attempt < Attempts(s)
AttemptsLeft == \A s \in Task : Allowed(s, task[s])

\* How far an attempt has come, smaller is further.
Stage(at) ==
    CASE at = "idle" -> 4 [] at = "request" -> 3 [] at = "stream" -> 2 [] at = "pause" -> 1
      [] OTHER -> 0

\* A task moves on to another attempt, within its attempt, or by a chunk.
Ahead(new, old) ==
    \/ old.attempt < new.attempt
    \/ old.attempt = new.attempt /\ Stage(new.at) < Stage(old.at)
    \/ old.attempt = new.attempt /\ new.at = old.at /\ old.written < new.written

\* How far the download is from its end.
Distance(p) ==
    CASE p = "probe" -> 4 [] p = "allocate" -> 3 [] p \in {"parallel", "single"} -> 2
      [] p = "rename" -> 1 [] OTHER -> 0

Pending == {o \in Byte : part[o] = "pending"}

\* Nothing goes back, and something moves on: the phase, the probe, the clock,
\* a task, or else a write that was pending is over.  Each of these is bounded
\* (TypeOK, AttemptsLeft), so no sequence of failures keeps a download busy
\* for ever.
Forward ==
    /\ Distance(phase') <= Distance(phase)
    /\ attempt <= attempt'
    /\ deadline => deadline'
    /\ \A s \in Task : task'[s] = task[s] \/ Ahead(task'[s], task[s])
    /\ \/ Distance(phase') < Distance(phase)
       \/ attempt < attempt'
       \/ deadline # deadline'
       \/ task' # task
       \/ Pending' \subseteq Pending /\ Pending' # Pending

Steady == UNCHANGED <<phase, attempt, deadline>>

LEMMA StageValues ==
    /\ Stage("idle") = 4 /\ Stage("request") = 3 /\ Stage("stream") = 2 /\ Stage("pause") = 1
    /\ Stage("ok") = 0 /\ Stage("failed") = 0
BY DEF Stage

LEMMA DistanceValues ==
    /\ Distance("probe") = 4 /\ Distance("allocate") = 3 /\ Distance("parallel") = 2
    /\ Distance("single") = 2 /\ Distance("rename") = 1
    /\ Distance("renamed") = 0 /\ Distance("failed") = 0
BY DEF Distance

\* A step that moves one task on.
LEMMA MovesOn ==
    ASSUME TypeOK, AttemptsLeft, Steady, NEW s \in Task,
           task' = [task EXCEPT ![s] = task'[s]],
           Allowed(s, task'[s]), Ahead(task'[s], task[s])
    PROVE  AttemptsLeft' /\ Forward
<1>1. task \in [Task -> TaskState] /\ task[s].attempt \in Nat /\ task[s].written \in Nat
  BY DEF TypeOK, TaskState
<1>2. \A t \in Task : t # s => task'[t] = task[t]
  BY <1>1
<1>3. AttemptsLeft'
  BY <1>2 DEF AttemptsLeft
<1>4. Stage(task[s].at) \in Nat
  BY DEF Stage
<1>5. task'[s] # task[s]
  BY <1>1, <1>4 DEF Ahead
<1>6. \A p : Distance(p) \in Nat
  BY DEF Distance
<1>7. attempt \in Nat
  BY AttemptAssumption DEF TypeOK
<1> QED BY <1>2, <1>3, <1>5, <1>6, <1>7 DEF Forward, Steady

\* A failed attempt keeps its number, and pauses only when it was not the last.
LEMMA FailedAttempt ==
    ASSUME TypeOK, AttemptsLeft, NEW s \in Task, NEW n \in Nat,
           \/ s # 0 /\ SegmentFailed(s, n)
           \/ s = 0 /\ StreamFailed
    PROVE  /\ task' = [task EXCEPT ![s] = task'[s]]
           /\ task'[s].attempt = task[s].attempt
           /\ task'[s].at \in {"pause", "ok", "failed"}
           /\ Allowed(s, task'[s])
<1>1. task \in [Task -> TaskState] /\ task[s].attempt \in Nat /\ Attempts(s) \in Nat
  BY AttemptAssumption DEF TypeOK, TaskState, Attempts
<1>2. task[s].attempt <= Attempts(s)
  BY DEF AttemptsLeft, Allowed
<1>3. \E at \in {"pause", "ok", "failed"} : \E done :
          /\ at = "pause" => task[s].attempt # Attempts(s)
          /\ task' = [task EXCEPT ![s] =
                 [at |-> at, attempt |-> task[s].attempt, done |-> done, written |-> 0]]
  <2>1. CASE s # 0 /\ SegmentFailed(s, n)
    BY <1>1, <2>1 DEF SegmentFailed, Attempts
  <2>2. CASE s = 0 /\ StreamFailed
    BY <1>1, <2>2 DEF StreamFailed, Attempts
  <2> QED BY <2>1, <2>2
<1>4. PICK at \in {"pause", "ok", "failed"} : \E done :
          /\ at = "pause" => task[s].attempt # Attempts(s)
          /\ task' = [task EXCEPT ![s] =
                 [at |-> at, attempt |-> task[s].attempt, done |-> done, written |-> 0]]
  BY <1>3
<1>5. task' = [task EXCEPT ![s] = task'[s]] /\ task'[s].at = at
      /\ task'[s].attempt = task[s].attempt
  BY <1>1, <1>4
<1> QED BY <1>1, <1>2, <1>4, <1>5 DEF Allowed

LEMMA FailureMovesOn ==
    ASSUME TypeOK, AttemptsLeft, Steady, NEW s \in Task, NEW n \in Nat,
           task[s].at \in {"request", "stream"},
           \/ s # 0 /\ SegmentFailed(s, n)
           \/ s = 0 /\ StreamFailed
    PROVE  AttemptsLeft' /\ Forward
<1>1. Stage(task'[s].at) < Stage(task[s].at)
  BY FailedAttempt, StageValues
<1>2. Ahead(task'[s], task[s])
  BY <1>1, FailedAttempt DEF Ahead
<1> QED BY <1>2, FailedAttempt, MovesOn

\* What a task does within its attempt.
LEMMA TaskMovesOn ==
    ASSUME TypeOK, Inv, AttemptsLeft, NEW s \in Task,
           Resume(s) \/ RequestFails(s) \/ Answer(s) \/ StreamStep(s)
    PROVE  AttemptsLeft' /\ Forward
<1>0. /\ task \in [Task -> TaskState] /\ task[s].attempt \in Nat /\ Attempts(s) \in Nat
      /\ task[s].written \in Nat /\ Allowed(s, task[s])
  BY AttemptAssumption DEF TypeOK, TaskState, Attempts, AttemptsLeft
<1>1. CASE Resume(s)
  <2>0. task' = [task EXCEPT ![s] = [task[s] EXCEPT !.at = "request", !.attempt = @ + 1]]
    BY <1>0, <1>1 DEF Resume
  <2>1. task' = [task EXCEPT ![s] = task'[s]] /\ task'[s].attempt = task[s].attempt + 1
        /\ task'[s].at = "request"
    BY <1>0, <2>0 DEF TaskState
  <2>2. Allowed(s, task'[s]) /\ Ahead(task'[s], task[s]) /\ Steady
    BY <1>0, <1>1, <2>1 DEF Resume, Allowed, Ahead, Steady
  <2> QED BY <2>1, <2>2, MovesOn
<1>2. ASSUME AttemptFailed(s), Steady, task[s].at \in {"request", "stream"}
      PROVE  AttemptsLeft' /\ Forward
  BY <1>2, FailureMovesOn DEF AttemptFailed
<1>3. CASE RequestFails(s)
  BY <1>2, <1>3 DEF RequestFails, Steady
<1>4. CASE Answer(s)
  <2>1. task' = [task EXCEPT ![s] = task'[s]] /\ task'[s].attempt = task[s].attempt
        /\ task'[s].at = "stream" /\ task[s].at = "request" /\ Steady
    BY <1>0, <1>4 DEF Answer, Goto, Steady
  <2>2. Allowed(s, task'[s]) /\ Ahead(task'[s], task[s])
    BY <1>0, <2>1, StageValues DEF Allowed, Ahead
  <2> QED BY <2>1, <2>2, MovesOn
<1>5. ASSUME NEW n \in 1 .. MaxChunk, Chunk(s, n) PROVE AttemptsLeft' /\ Forward
  <2>0. n \in Nat /\ 0 < n /\ Steady /\ task[s].at = "stream"
    BY <1>5, AttemptAssumption DEF Chunk, Reads, Steady
  <2>1. CASE s # 0 /\ SegmentFailed(s, n)
    BY <2>0, <2>1, FailureMovesOn
  <2>2. CASE task' = [task EXCEPT ![s].written = @ + n]
    <3>1. /\ task' = [task EXCEPT ![s] = task'[s]] /\ task'[s].attempt = task[s].attempt
          /\ task'[s].at = "stream" /\ task'[s].written = task[s].written + n
      BY <1>0, <2>0, <2>2
    <3>2. Allowed(s, task'[s]) /\ Ahead(task'[s], task[s])
      BY <1>0, <2>0, <3>1 DEF Allowed, Ahead
    <3> QED BY <2>0, <3>1, <3>2, MovesOn
  <2> QED BY <1>5, <2>1, <2>2 DEF Chunk
<1>6. CASE WriteFails(s) \/ StreamBreaks(s)
  BY <1>2, <1>6 DEF WriteFails, StreamBreaks, Reads, Steady
<1>7. CASE EndOfStream(s)
  <2>0. Steady /\ task[s].at = "stream"
    BY <1>7 DEF EndOfStream, Reads, Steady
  <2>1. CASE s = 0 /\ StreamFailed
    BY <1>2, <2>0, <2>1 DEF AttemptFailed
  <2>2. CASE \E done, written : task' = [task EXCEPT ![s] =
                 [at |-> "ok", attempt |-> task[s].attempt, done |-> done, written |-> written]]
    <3>1. /\ task' = [task EXCEPT ![s] = task'[s]] /\ task'[s].attempt = task[s].attempt
          /\ task'[s].at = "ok"
      BY <1>0, <2>2
    <3>2. Allowed(s, task'[s]) /\ Ahead(task'[s], task[s])
      BY <1>0, <2>0, <3>1, StageValues DEF Allowed, Ahead
    <3> QED BY <2>0, <3>1, <3>2, MovesOn
  <2>3. CASE s = 0 /\ Goto(s, "ok")
    <3>0. [task[s] EXCEPT !.at = "ok"] =
              [at |-> "ok", attempt |-> task[s].attempt, done |-> task[s].done, written |-> task[s].written]
      BY <1>0 DEF TaskState
    <3>1. task' = [task EXCEPT ![s] =
              [at |-> "ok", attempt |-> task[s].attempt, done |-> task[s].done, written |-> task[s].written]]
      BY <2>3, <3>0 DEF Goto
    <3> QED BY <2>2, <3>1
  <2>4. CASE s # 0
    <3>1. task' = [task EXCEPT ![s] =
              [at |-> "ok", attempt |-> task[s].attempt, done |-> Size(s), written |-> 0]]
      BY <1>0, <1>7, <2>4 DEF EndOfStream
    <3> QED BY <2>2, <3>1
  <2> QED BY <1>7, <2>1, <2>3, <2>4 DEF EndOfStream
<1> QED BY <1>1, <1>3, <1>4, <1>5, <1>6, <1>7 DEF StreamStep

\* The start, in which tasks begin that were idle before.
LEMMA BeginMovesOn ==
    ASSUME TypeOK, Inv, AttemptsLeft, Begin
    PROVE  AttemptsLeft' /\ Forward
<1> USE TaskFacts, DistanceValues
<1>0. /\ task \in [Task -> TaskState] /\ attempt \in Nat
      /\ \A s \in Task : Attempts(s) \in Nat /\ 1 <= Attempts(s)
  BY AttemptAssumption DEF TypeOK, Attempts
<1>1. /\ Begun.attempt = 1 /\ Begun.at = "request" /\ Idle.attempt = 0 /\ Idle.at = "idle"
      /\ Ahead(Begun, Idle) /\ \A s \in Task : Allowed(s, Begun)
  BY <1>0 DEF Begun, Idle, Ahead, Allowed
<1>2. CASE ProbeFails
  <2>1. task' = task /\ deadline' = deadline
    BY <1>2 DEF ProbeFails
  <2>2. AttemptsLeft'
    BY <2>1 DEF AttemptsLeft
  <2>3. \/ attempt < attempt' /\ phase' = phase
        \/ attempt' = attempt /\ Distance(phase') < Distance(phase)
    BY <1>0, <1>2 DEF ProbeFails
  <2>4. Distance(phase) \in Nat
    BY <1>2 DEF ProbeFails
  <2> QED BY <1>0, <2>1, <2>2, <2>3, <2>4, <1>2 DEF Forward, ProbeFails
<1>3. ASSUME phase \in {"probe", "allocate"}, Distance(phase') < Distance(phase),
             Distance(phase') \in Nat, attempt' = attempt, deadline' = deadline,
             \A s \in Task : task'[s] \in {task[s], Begun}
      PROVE  AttemptsLeft' /\ Forward
  <2>1. \A s \in Task : task[s] = Idle
    BY <1>3 DEF Inv, Workers
  <2>2. AttemptsLeft'
    BY <1>1, <1>3 DEF AttemptsLeft
  <2>3. \A s \in Task : task'[s] = task[s] \/ Ahead(task'[s], task[s])
    BY <1>1, <1>3, <2>1
  <2> QED BY <1>0, <1>3, <2>2, <2>3 DEF Forward
<1>4. ASSUME NEW known \in BOOLEAN, NEW ranged \in BOOLEAN, Probe(known, ranged)
      PROVE  AttemptsLeft' /\ Forward
  <2>1. phase = "probe" /\ phase' \in {"failed", "allocate", "single"}
    BY <1>4 DEF Probe
  <2>2. \A s \in Task : task'[s] \in {task[s], Begun}
    BY <1>0, <1>4 DEF Probe
  <2> QED BY <1>3, <1>4, <2>1, <2>2 DEF Probe
<1>5. CASE Allocate
  <2>1. phase = "allocate" /\ phase' \in {"failed", "parallel"}
    BY <1>5 DEF Allocate
  <2>2. \A s \in Task : task'[s] \in {task[s], Begun}
    <3>1. task[0] = Idle
      BY <2>1 DEF Inv, Workers
    <3> QED BY <1>5, <3>1 DEF Allocate
  <2> QED BY <1>3, <1>5, <2>1, <2>2 DEF Allocate
<1> QED BY <1>2, <1>4, <1>5 DEF Begin

\* A pending byte is settled, the clock runs out, the download ends.
LEMMA OthersMoveOn ==
    ASSUME TypeOK, AttemptsLeft, Disk \/ TimeIsUp \/ Finish
    PROVE  AttemptsLeft' /\ Forward
<1> USE DistanceValues
<1>0. attempt \in Nat /\ Distance(phase) \in Nat /\ part \in [Byte -> Cell]
  BY AttemptAssumption DEF TypeOK, Distance
<1>1. task' = task /\ attempt' = attempt
  BY DEF Disk, WriteEnds, OrphanWriteEnds, TimeIsUp, Finish, Join, StreamDone, Rename
<1>2. AttemptsLeft'
  BY <1>1 DEF AttemptsLeft
<1>3. ASSUME Steady, NEW o \in Byte, part[o] = "pending", part'[o] # "pending",
             \A q \in Byte : part'[q] = "pending" => part[q] = "pending"
      PROVE  Forward
  <2>1. Pending' \subseteq Pending /\ Pending' # Pending
    BY <1>3 DEF Pending
  <2> QED BY <1>0, <1>1, <1>3, <2>1 DEF Forward, Steady
<1>4. ASSUME NEW s \in Task, NEW lands \in BOOLEAN, WriteEnds(s, lands)
      PROVE  Forward
  <2>1. PICK o \in Byte : o \in Own(s) /\ part[o] = "pending"
    BY <1>4 DEF WriteEnds, WriteIsOver, Own
  <2>2. /\ part'[o] # "pending" /\ Steady
        /\ \A q \in Byte : part'[q] = "pending" => part[q] = "pending"
    BY <1>4, <2>1 DEF WriteEnds, Steady
  <2> QED BY <1>3, <2>1, <2>2
<1>5. ASSUME NEW o \in Byte, NEW lands \in BOOLEAN, OrphanWriteEnds(o, lands)
      PROVE  Forward
  <2>1. /\ part[o] = "pending" /\ part'[o] # "pending" /\ Steady
        /\ \A q \in Byte : part'[q] = "pending" => part[q] = "pending"
    BY <1>0, <1>5 DEF OrphanWriteEnds, Steady
  <2> QED BY <1>3, <2>1
<1>6. CASE TimeIsUp
  <2>1. (deadline => deadline') /\ deadline # deadline' /\ phase' = phase
    BY <1>6 DEF TimeIsUp
  <2>2. \A s \in Task : task'[s] = task[s]
    BY <1>1
  <2> QED BY <1>0, <1>1, <1>2, <2>1, <2>2 DEF Forward
<1>7. CASE Finish
  <2>1. deadline' = deadline /\ Distance(phase') < Distance(phase) /\ Distance(phase') \in Nat
    <3>1. CASE Join
      BY <3>1 DEF Join
    <3>2. CASE StreamDone
      BY <3>2 DEF StreamDone
    <3>3. CASE Rename
      BY <3>3 DEF Rename
    <3> QED BY <1>7, <3>1, <3>2, <3>3 DEF Finish
  <2>2. (deadline => deadline') /\ \A s \in Task : task'[s] = task[s]
    BY <1>1, <2>1
  <2> QED BY <1>0, <1>1, <1>2, <2>1, <2>2 DEF Forward
<1> QED BY <1>2, <1>4, <1>5, <1>6, <1>7 DEF Disk

LEMMA ForwardNext ==
    TypeOK /\ Inv /\ AttemptsLeft /\ [Next]_vars =>
        AttemptsLeft' /\ (Forward \/ UNCHANGED vars)
<1> SUFFICES ASSUME TypeOK, Inv, AttemptsLeft, [Next]_vars
             PROVE  AttemptsLeft' /\ (Forward \/ UNCHANGED vars)
  OBVIOUS
<1>1. CASE UNCHANGED vars
  BY <1>1 DEF vars, AttemptsLeft
<1> QED BY <1>1, BeginMovesOn, TaskMovesOn, OthersMoveOn DEF Next

LEMMA InitAttempts == Init => AttemptsLeft
BY AttemptAssumption DEF Init, AttemptsLeft, Allowed, Attempts, Idle

\* No task of a download begins more attempts than SINGLE_STREAM_ATTEMPTS or
\* SEGMENT_ATTEMPTS, and after the last one it does not sleep for another.
THEOREM BoundedAttempts == Spec => []AttemptsLeft
  BY InitAttempts, ForwardNext, Invariant, PTL DEF Spec

\* Every step of a download moves it forward and none moves any part of it
\* back, whatever fails in whatever order: retries never go in a circle.
THEOREM NeverBack == Spec => [][Forward]_vars
<1>1. TypeOK /\ Inv /\ AttemptsLeft /\ [Next]_vars => [Forward]_vars
  BY ForwardNext
<1> QED BY <1>1, Invariant, BoundedAttempts, PTL DEF Spec
=============================================================================
