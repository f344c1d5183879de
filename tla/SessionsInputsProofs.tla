------------------------ MODULE SessionsInputsProofs ------------------------
(***************************************************************************)
(* Two components that meet where a profile is launched.                   *)
(*                                                                         *)
(* Sessions: registry, mutex and processes agree, and a profile never gets *)
(* a second browser tree, for every set of profiles.                       *)
(*                                                                         *)
(* Inputs: what a rule has accepted it accepts again and the launch line   *)
(* made of it is isolated, a factor says what its URI says, and the        *)
(* options offered are the usable assets of the answers, for texts, lists, *)
(* queries and answers of every length.                                    *)
(***************************************************************************)
EXTENDS Sessions, Inputs, FiniteSetTheorems, TLAPS

\* A launch that has passed the registry is the only owner of its slot.
SlotsAreApart ==
    /\ sessions \cap leaked = {}
    /\ Launching \cap (sessions \cup leaked) = {}

\* What the launch knows about its profile before it starts the browser.
LaunchIsClean ==
    op.at \in {"mutex", "job", "spawn"} =>
        head[op.profile] = "none" /\ op.profile \notin children

LaunchHasMutex ==
    op.at \in {"job", "spawn", "assign", "insert"} => mutex[op.profile] = "ours"

IInv ==
    /\ TypeOK
    /\ SlotsAreAccounted
    /\ LockedWhileItRuns
    /\ SlotsAreApart
    /\ LaunchIsClean
    /\ LaunchHasMutex

\* The first state has no session, no slot and no process.
LEMMA InitIInv == Init => IInv
  BY DEF Init, IInv, TypeOK, SlotsAreAccounted, LockedWhileItRuns, SlotsAreApart,
         LaunchIsClean, LaunchHasMutex, Launching, Idle, Steps

\* The commands that drop sessions: the dropped ones own their slots alone,
\* and no launch is in progress.
LEMMA CommandsIInv ==
  ASSUME IInv, (\E p \in Profile : Launch(p) \/ Stop(p)) \/ RunningProfiles
  PROVE  IInv'
<1> USE DEF IInv, TypeOK, SlotsAreAccounted, LockedWhileItRuns, SlotsAreApart,
            LaunchIsClean, LaunchHasMutex, Launching, Idle, Steps
<1>1. ASSUME NEW p \in Profile, Launch(p)
      PROVE  IInv'
  BY <1>1 DEF Launch, Reap, Dead, Release, Return
<1>2. ASSUME NEW p \in Profile, Stop(p)
      PROVE  IInv'
  BY <1>2 DEF Stop, Release, Return
<1>3. CASE RunningProfiles
  BY <1>3 DEF RunningProfiles, Reap, Dead, Release, Return
<1> QED
  BY <1>1, <1>2, <1>3

\* The steps of a launch.
LEMMA LaunchIInv ==
  ASSUME IInv,
         Register \/ AcquireMutex \/ MutexFails \/ CreateJob \/ Spawn \/ AssignToJob
           \/ LaunchFails \/ InsertSession
  PROVE  IInv'
<1> USE DEF IInv, TypeOK, SlotsAreAccounted, LockedWhileItRuns, SlotsAreApart,
            LaunchIsClean, LaunchHasMutex, Launching, Idle, Steps
<1>1. CASE Register
  BY <1>1 DEF Register, Return, Goto
<1>2. CASE AcquireMutex
  BY <1>2 DEF AcquireMutex, Return, Goto
<1>3. CASE MutexFails
  BY <1>3 DEF MutexFails, Return
<1>4. CASE CreateJob
  BY <1>4 DEF CreateJob, Goto
<1>5. CASE Spawn
  BY <1>5 DEF Spawn, Goto
<1>6. CASE AssignToJob
  BY <1>6 DEF AssignToJob, Goto
<1>7. CASE LaunchFails
  BY <1>7 DEF LaunchFails, Release, Return
<1>8. CASE InsertSession
  BY <1>8 DEF InsertSession, Return
<1> QED
  BY <1>1, <1>2, <1>3, <1>4, <1>5, <1>6, <1>7, <1>8

\* Processes, other managers and a restart.
LEMMA SurroundingsIInv ==
  ASSUME IInv,
         \/ \E p \in Profile : Fork(p) \/ HeadExits(p) \/ OthersExit(p) \/ OtherManager(p)
         \/ Restart
  PROVE  IInv'
<1> USE DEF IInv, TypeOK, SlotsAreAccounted, LockedWhileItRuns, SlotsAreApart,
            LaunchIsClean, LaunchHasMutex, Launching, Idle, Steps
<1>1. ASSUME NEW p \in Profile, Fork(p)
      PROVE  IInv'
  BY <1>1 DEF Fork, Unassigned
<1>2. ASSUME NEW p \in Profile, HeadExits(p)
      PROVE  IInv'
  BY <1>2 DEF HeadExits
<1>3. ASSUME NEW p \in Profile, OthersExit(p)
      PROVE  IInv'
  BY <1>3 DEF OthersExit
<1>4. ASSUME NEW p \in Profile, OtherManager(p)
      PROVE  IInv'
  BY <1>4 DEF OtherManager
<1>5. CASE Restart
  BY <1>5 DEF Restart, Unassigned
<1> QED
  BY <1>1, <1>2, <1>3, <1>4, <1>5

\* Every step keeps the invariant.
LEMMA NextIInv == IInv /\ [Next]_vars => IInv'
<1> SUFFICES ASSUME IInv, [Next]_vars PROVE IInv'
  OBVIOUS
<1>1. CASE Next
  BY <1>1, CommandsIInv, LaunchIInv, SurroundingsIInv DEF Next
<1>2. CASE UNCHANGED vars
  BY <1>2 DEF vars, IInv, TypeOK, SlotsAreAccounted, LockedWhileItRuns, SlotsAreApart,
              LaunchIsClean, LaunchHasMutex, Launching
<1> QED
  BY <1>1, <1>2

\* The invariant holds in every state.
LEMMA Invariance == Spec => []IInv
  BY InitIInv, NextIInv, PTL DEF Spec

\* Every variable keeps its type, for every set of profiles.
THEOREM TypeCorrect == Spec => []TypeOK
<1>1. IInv => TypeOK
  BY DEF IInv
<1> QED
  BY <1>1, Invariance, PTL

\* The registry of `ProfileLock` holds the slots of the sessions and of the
\* launch in progress, and those a platform error left behind.
THEOREM SlotsAccounted == Spec => []SlotsAreAccounted
<1>1. IInv => SlotsAreAccounted
  BY DEF IInv
<1> QED
  BY <1>1, Invariance, PTL

\* A profile whose supervised processes run keeps its slot and its mutex.
THEOREM Locked == Spec => []LockedWhileItRuns
<1>1. IInv => LockedWhileItRuns
  BY DEF IInv
<1> QED
  BY <1>1, Invariance, PTL

\* `Session::launch` starts a browser only where no supervised one runs.
THEOREM OneTree == Spec => OneTreePerProfile
<1>1. IInv /\ [Next]_vars =>
        [op.at = "spawn" /\ op'.at = "assign" =>
            head[op.profile] = "none" /\ op.profile \notin children]_vars
  BY DEF IInv, LaunchIsClean
<1> QED
  BY <1>1, Invariance, PTL DEF Spec, OneTreePerProfile

\* A profile whose slot was lost to a platform error: it counts as running,
\* and nothing of it runs.
LostIsClean ==
    \A p \in leaked :
        /\ p \in held /\ p \notin sessions \cup Launching
        /\ head[p] = "none" /\ p \notin children

LEMMA LostNext == IInv /\ LostIsClean /\ [Next]_vars => LostIsClean'
<1> SUFFICES ASSUME IInv, LostIsClean, [Next]_vars PROVE LostIsClean'
  OBVIOUS
<1>0. IInv'
  BY NextIInv
<1>1. ASSUME NEW p \in leaked'
      PROVE  p \in held' /\ p \notin sessions' \cup Launching'
  BY <1>0, <1>1 DEF IInv, SlotsAreAccounted, SlotsAreApart
<1>2. ASSUME NEW p \in leaked' PROVE head'[p] = "none" /\ p \notin children'
  <2> USE DEF IInv, TypeOK, LostIsClean, Launching, LaunchIsClean, Idle, Steps
  <2>1. CASE \E q \in Profile : Launch(q) \/ Stop(q)
    BY <1>2, <2>1 DEF Launch, Stop, Reap, Release
  <2>2. CASE RunningProfiles
    BY <1>2, <2>2 DEF RunningProfiles, Reap, Release
  <2>3. CASE MutexFails
    BY <1>2, <2>3 DEF MutexFails
  <2>4. CASE Register \/ AcquireMutex \/ CreateJob \/ AssignToJob \/ LaunchFails \/ InsertSession
    BY <1>2, <2>4 DEF Register, AcquireMutex, CreateJob, AssignToJob, LaunchFails,
                      InsertSession, Release
  <2>5. CASE Spawn
    BY <1>2, <2>5 DEF Spawn
  <2>6. CASE \E q \in Profile : Fork(q) \/ HeadExits(q) \/ OthersExit(q) \/ OtherManager(q)
    BY <1>2, <2>6 DEF Fork, HeadExits, OthersExit, OtherManager
  <2>7. CASE Restart
    BY <1>2, <2>7 DEF Restart
  <2>8. CASE UNCHANGED vars
    BY <1>2, <2>8 DEF vars
  <2> QED BY <2>1, <2>2, <2>3, <2>4, <2>5, <2>6, <2>7, <2>8 DEF Next
<1> QED BY <1>1, <1>2 DEF LostIsClean

\* A slot that a platform error of the mutex left behind is lost until the
\* manager is started again: the profile is refused as running, although no
\* session, no launch and no process of it exists (`try_acquire`).
THEOREM LostSlot ==
    Spec => []LostIsClean /\ [][leaked \subseteq leaked' \/ Restart]_vars
<1>1. Init => LostIsClean
  BY DEF Init, LostIsClean
<1>2. Next => leaked \subseteq leaked' \/ Restart
  BY DEF Next, Launch, Stop, Fork, HeadExits, OthersExit, OtherManager, Register, AcquireMutex,
         MutexFails, CreateJob, Spawn, AssignToJob, LaunchFails, InsertSession, RunningProfiles
<1> QED
  BY <1>1, <1>2, LostNext, Invariance, PTL DEF Spec

-----------------------------------------------------------------------------
(* Inputs: numbers, extremes and sequences *)


\* Induction over the numbers for a set, from the pigeonhole theorem of the
\* library: adding one to the initial segments in S would map them into fewer.
LEMMA Induction ==
    ASSUME NEW S \in SUBSET Nat, 0 \in S, \A n \in S : n + 1 \in S
    PROVE  S = Nat
<1> SUFFICES ASSUME NEW k \in Nat, k \notin S PROVE FALSE
  OBVIOUS
<1> DEFINE A == {n \in 0 .. k : 0 .. n \subseteq S}
<1>1. IsFiniteSet(A)
  <2>1. IsFiniteSet(0 .. k)
    BY FS_Interval
  <2> QED BY <2>1, FS_Subset
<1>2. 0 \in A
  OBVIOUS
<1>3. \A n \in A : n + 1 \in A \ {0}
  OBVIOUS
<1>4. IsFiniteSet(A \ {0}) /\ Cardinality(A \ {0}) < Cardinality(A)
  <2>1. Cardinality(A \ {0}) = Cardinality(A) - 1
    BY <1>1, <1>2, FS_RemoveElement
  <2>2. Cardinality(A) \in Nat
    BY <1>1, FS_CardinalityType
  <2> QED BY <1>1, <2>1, <2>2, FS_RemoveElement
<1> DEFINE f == [n \in A |-> n + 1]
<1>5. f \in [A -> A \ {0}]
  BY <1>3
<1>6. \A m, n \in A : f[m] = f[n] => m = n
  OBVIOUS
<1> HIDE DEF f, A
<1> QED BY <1>1, <1>4, <1>5, <1>6, FS_PigeonHole

\* A bounded set has a greatest element.
LEMMA Greatest ==
    ASSUME NEW n \in Nat, NEW S \in SUBSET (0 .. n), S # {}
    PROVE  Max(S) \in S /\ \A m \in S : m <= Max(S)
<1> DEFINE T == {k \in Nat : \A R \in SUBSET (0 .. k) : R # {} => \E x \in R : \A m \in R : m <= x}
<1>1. 0 \in T
  <2> SUFFICES ASSUME NEW R \in SUBSET (0 .. 0), NEW r \in R
               PROVE  \E x \in R : \A m \in R : m <= x
    OBVIOUS
  <2>1. \A m \in R : m = 0
    OBVIOUS
  <2> QED BY <2>1
<1>2. \A k \in T : k + 1 \in T
  <2> SUFFICES ASSUME NEW k \in Nat, k \in T, NEW R \in SUBSET (0 .. k + 1), R # {}
               PROVE  \E x \in R : \A m \in R : m <= x
    OBVIOUS
  <2>1. CASE k + 1 \in R
    BY <2>1
  <2>2. CASE k + 1 \notin R
    <3>1. R \in SUBSET (0 .. k)
      BY <2>2
    <3> QED BY <3>1
  <2> QED BY <2>1, <2>2
<1>3. T = Nat
  <2> HIDE DEF T
  <2>1. T \in SUBSET Nat
    BY DEF T
  <2> QED BY <1>1, <1>2, <2>1, Induction
<1>4. PICK x \in S : \A m \in S : m <= x
  BY <1>3
<1> QED BY <1>4 DEF Max

\* A set of numbers has a smallest element.
LEMMA Smallest ==
    ASSUME NEW S \in SUBSET Nat, S # {}
    PROVE  Min(S) \in S /\ \A m \in S : Min(S) <= m
<1> DEFINE Low(n) == \A m \in S : n <= m
           T == {n \in Nat : Low(n)}
<1>1. \E n \in S : Low(n)
  <2> SUFFICES ASSUME \A n \in S : ~ Low(n) PROVE FALSE
    OBVIOUS
  <2>1. Low(0)
    OBVIOUS
  <2>2. ASSUME NEW n \in Nat, Low(n)
        PROVE  Low(n + 1)
    <3>1. n \notin S
      BY <2>2
    <3> QED BY <2>2, <3>1
  <2> HIDE DEF Low
  <2>3. T \in SUBSET Nat /\ 0 \in T /\ \A n \in T : n + 1 \in T
    BY <2>1, <2>2
  <2>4. T = Nat
    <3> HIDE DEF T
    <3> QED BY <2>3, Induction
  <2> QED BY <2>4
<1>2. PICK n \in S : \A m \in S : n <= m
  BY <1>1
<1> QED BY <1>2 DEF Min

\* A sequence with one more element.
LEMMA AppendText ==
    ASSUME NEW S, NEW s \in Seq(S), NEW x \in S
    PROVE  /\ Append(s, x) \in Seq(S)
           /\ Len(Append(s, x)) = Len(s) + 1
           /\ \A i \in 1 .. Len(s) : Append(s, x)[i] = s[i]
           /\ Append(s, x)[Len(s) + 1] = x
OBVIOUS

\* Two sequences, one after the other.
LEMMA Concatenation ==
    ASSUME NEW S, NEW s \in Seq(S), NEW t \in Seq(S)
    PROVE  /\ s \o t \in Seq(S) /\ Len(s \o t) = Len(s) + Len(t)
           /\ DOMAIN (s \o t) = 1 .. Len(s) + Len(t)
           /\ \A i \in 1 .. Len(s) : (s \o t)[i] = s[i]
           /\ \A i \in 1 .. Len(t) : (s \o t)[Len(s) + i] = t[i]
OBVIOUS

\* A sequence of one element.
LEMMA SingleSeq ==
    ASSUME NEW S, NEW s \in Seq(S), Len(s) = 1
    PROVE  s = <<s[1]>>
OBVIOUS

\* The length of two joined sequences.
LEMMA JoinedLen ==
    ASSUME NEW S, NEW s \in Seq(S), NEW t \in Seq(S)
    PROVE  Len(s \o t) = Len(s) + Len(t)
OBVIOUS

\* `FlattenSeq` joins the sequences one after the other.
LEMMA Flattening ==
    ASSUME NEW S, NEW s \in Seq(Seq(S))
    PROVE  \E f \in [0 .. Len(s) -> Seq(S)] :
              /\ f[0] = <<>>
              /\ \A i \in 1 .. Len(s) : f[i] = f[i - 1] \o s[i]
              /\ FlattenSeq(s) = f[Len(s)]
<1> DEFINE Step(f, i) == IF i = 1 THEN s[i] ELSE f[i - 1] \o s[i]
           Joined(N) == \E f : f = [i \in 1 .. N |-> Step(f, i)]
           T == {N \in Nat : Joined(N)}
<1>1. Joined(0)
  <2> DEFINE f == [i \in 1 .. 0 |-> <<>>]
  <2>1. f = [i \in 1 .. 0 |-> Step(f, i)]
    OBVIOUS
  <2> QED BY <2>1
<1>2. ASSUME NEW N \in Nat, Joined(N)
      PROVE  Joined(N + 1)
  <2>1. PICK f : f = [i \in 1 .. N |-> Step(f, i)]
    BY <1>2
  <2> DEFINE g == [i \in 1 .. N + 1 |-> IF i = N + 1 THEN Step(f, i) ELSE f[i]]
  <2>2. \A i \in 1 .. N : f[i] = Step(f, i)
    BY <2>1
  <2>3. ASSUME NEW i \in 1 .. N + 1
        PROVE  g[i] = Step(g, i)
    <3>1. CASE i = N + 1
      BY <3>1
    <3>2. CASE i \in 1 .. N
      BY <2>2, <3>2
    <3> QED BY <3>1, <3>2
  <2>4. g = [i \in 1 .. N + 1 |-> Step(g, i)]
    BY <2>3
  <2> QED BY <2>4
<1> HIDE DEF Joined
<1>3. T = Nat
  <2>1. T \in SUBSET Nat /\ 0 \in T /\ \A N \in T : N + 1 \in T
    BY <1>1, <1>2
  <2> HIDE DEF T
  <2> QED BY <2>1, Induction
<1> DEFINE flatten == CHOOSE f : f = [i \in 1 .. Len(s) |-> Step(f, i)]
<1>4. Len(s) \in Nat /\ DOMAIN s = 1 .. Len(s)
  OBVIOUS
<1>5. flatten = [i \in 1 .. Len(s) |-> Step(flatten, i)]
  BY <1>3, <1>4 DEF Joined
<1>6. FlattenSeq(s) = IF Len(s) = 0 THEN s ELSE flatten[Len(s)]
  BY DEF FlattenSeq
<1> HIDE DEF flatten
<1>7. \A i \in 1 .. Len(s) : flatten[i] = Step(flatten, i)
  BY <1>5
<1> DEFINE Typed(n) == n \in 1 .. Len(s) => flatten[n] \in Seq(S)
           P == {n \in Nat : Typed(n)}
<1>8. P = Nat
  <2>1. Typed(0)
    OBVIOUS
  <2>2. ASSUME NEW n \in Nat, Typed(n), n + 1 \in 1 .. Len(s)
        PROVE  flatten[n + 1] \in Seq(S)
    <3>1. flatten[n + 1] = IF n + 1 = 1 THEN s[n + 1] ELSE flatten[n] \o s[n + 1]
      BY <1>7, <2>2
    <3>2. s[n + 1] \in Seq(S)
      BY <2>2
    <3> HIDE DEF flatten
    <3> QED BY <1>4, <2>2, <3>1, <3>2
  <2>3. \A n \in Nat : Typed(n) => Typed(n + 1)
    BY <2>2
  <2> HIDE DEF Typed
  <2>4. P \in SUBSET Nat /\ 0 \in P /\ \A n \in P : n + 1 \in P
    BY <2>1, <2>3
  <2> HIDE DEF P
  <2> QED BY <2>4, Induction
<1> DEFINE f == [n \in 0 .. Len(s) |-> IF n = 0 THEN <<>> ELSE flatten[n]]
<1>9. f \in [0 .. Len(s) -> Seq(S)]
  <2>1. ASSUME NEW n \in 1 .. Len(s)
        PROVE  flatten[n] \in Seq(S)
    <3> HIDE DEF P
    <3>1. n \in P
      BY <1>4, <1>8
    <3> QED BY <3>1 DEF P
  <2>2. <<>> \in Seq(S)
    OBVIOUS
  <2> QED BY <1>4, <2>1, <2>2
<1>10. ASSUME NEW i \in 1 .. Len(s)
       PROVE  f[i] = f[i - 1] \o s[i]
  <2>1. s[i] \in Seq(S)
    OBVIOUS
  <2>2. CASE i = 1
    BY <1>4, <1>7, <2>1, <2>2
  <2>3. CASE i # 1
    <3>1. i - 1 \in 1 .. Len(s)
      BY <1>4, <2>3
    <3>2. f[i] = flatten[i] /\ f[i - 1] = flatten[i - 1]
      BY <1>4, <3>1
    <3>3. flatten[i] = flatten[i - 1] \o s[i]
      BY <1>7, <2>3
    <3> QED BY <3>2, <3>3
  <2> QED BY <2>2, <2>3
<1>11. f[0] = <<>> /\ FlattenSeq(s) = f[Len(s)]
  BY <1>4, <1>6
<1> QED BY <1>9, <1>10, <1>11

-----------------------------------------------------------------------------
(* One-time passwords: what a URI says is what is read out of it *)

\* ReadPairs is the function its definition describes.
LEMMA ReadPairsDef ==
    ASSUME NEW S, NEW q \in Seq(S)
    PROVE  ReadPairs(q) = [n \in 0 .. Len(q) |->
                             IF n = 0 THEN {Defaults} ELSE ReadPair(ReadPairs(q)[n - 1], q[n])]
<1> DEFINE Step(f, n) == IF n = 0 THEN {Defaults} ELSE ReadPair(f[n - 1], q[n])
           Reads(N) == \E f : f = [n \in 0 .. N |-> Step(f, n)]
           T == {N \in Nat : Reads(N)}
<1>1. Reads(0)
  <2> DEFINE f == [n \in 0 .. 0 |-> {Defaults}]
  <2>1. f = [n \in 0 .. 0 |-> Step(f, n)]
    OBVIOUS
  <2> QED BY <2>1
<1>2. ASSUME NEW N \in Nat, Reads(N)
      PROVE  Reads(N + 1)
  <2>1. PICK f : f = [n \in 0 .. N |-> Step(f, n)]
    BY <1>2
  <2> DEFINE g == [n \in 0 .. N + 1 |-> IF n = N + 1 THEN ReadPair(f[N], q[N + 1]) ELSE f[n]]
  <2>2. \A n \in 0 .. N : f[n] = Step(f, n)
    BY <2>1
  <2>3. ASSUME NEW n \in 0 .. N + 1
        PROVE  g[n] = Step(g, n)
    <3>1. CASE n = N + 1
      BY <3>1
    <3>2. CASE n \in 0 .. N
      BY <2>2, <3>2
    <3> QED BY <3>1, <3>2
  <2>4. g = [n \in 0 .. N + 1 |-> Step(g, n)]
    BY <2>3
  <2> QED BY <2>4
<1> HIDE DEF Reads
<1>3. T = Nat
  <2>1. T \in SUBSET Nat /\ 0 \in T /\ \A N \in T : N + 1 \in T
    BY <1>1, <1>2
  <2> HIDE DEF T
  <2> QED BY <2>1, Induction
<1>4. Reads(Len(q))
  BY <1>3
<1> QED BY <1>4 DEF ReadPairs, Reads

Latest(q, n, key) ==
    LET I == {i \in 1 .. n : q[i] # <<>> /\ q[i][1] = key}
    IN IF I = {} THEN {} ELSE Meaning(q[Max(I)])
\* A single value, kept folded so that the provers compare it as a whole.
One(v) == {v}

Params(secret, algorithm, digits, period, counter, issuer) ==
    [secret |-> secret, algorithm |-> algorithm, digits |-> digits, period |-> period,
     counter |-> counter, issuer |-> issuer]
Said(q, n) ==
    Params(Latest(q, n, "secret"), OrElse(Latest(q, n, "algorithm"), "SHA1"),
           OrElse(Latest(q, n, "digits"), 6), OrElse(Latest(q, n, "period"), 30),
           Latest(q, n, "counter"), Latest(q, n, "issuer"))

AlgorithmOf(value) == {Algorithm[v] : v \in {value} \cap DOMAIN Algorithm}

\* A value that is read replaces its parameter: the secret.
LEMMA ReadSecret ==
    ASSUME NEW a, NEW b, NEW c, NEW d, NEW e, NEW f, NEW value, NEW v,
           DecodeBase32(value) = One(v)
    PROVE  ReadValue(Params(a, b, c, d, e, f), "secret", value) =
             One(Params(One(v), b, c, d, e, f))
BY DEF ReadValue, Params, One

\* The algorithm.
LEMMA ReadAlgorithm ==
    ASSUME NEW a, NEW b, NEW c, NEW d, NEW e, NEW f, NEW value, NEW v,
           AlgorithmOf(value) = One(v)
    PROVE  ReadValue(Params(a, b, c, d, e, f), "algorithm", value) =
             One(Params(a, v, c, d, e, f))
BY DEF ReadValue, Params, One, AlgorithmOf

\* The digits.
LEMMA ReadDigits ==
    ASSUME NEW a, NEW b, NEW c, NEW d, NEW e, NEW f, NEW value, NEW v,
           NumberUpTo(value, MaxU8) = One(v)
    PROVE  ReadValue(Params(a, b, c, d, e, f), "digits", value) =
             One(Params(a, b, v, d, e, f))
BY DEF ReadValue, Params, One

\* The period.
LEMMA ReadPeriod ==
    ASSUME NEW a, NEW b, NEW c, NEW d, NEW e, NEW f, NEW value, NEW v,
           NumberUpTo(value, MaxU8 ^ 3) = One(v)
    PROVE  ReadValue(Params(a, b, c, d, e, f), "period", value) =
             One(Params(a, b, c, v, e, f))
BY DEF ReadValue, Params, One

\* The counter of HOTP.
LEMMA ReadCounter ==
    ASSUME NEW a, NEW b, NEW c, NEW d, NEW e, NEW f, NEW value, NEW v,
           NumberUpTo(value, MaxU8 ^ 3) = One(v)
    PROVE  ReadValue(Params(a, b, c, d, e, f), "counter", value) =
             One(Params(a, b, c, d, One(v), f))
BY DEF ReadValue, Params, One

\* The issuer is taken as it is.
LEMMA ReadIssuer ==
    ASSUME NEW a, NEW b, NEW c, NEW d, NEW e, NEW f, NEW value
    PROVE  ReadValue(Params(a, b, c, d, e, f), "issuer", value) =
             One(Params(a, b, c, d, e, One(value)))
BY DEF ReadValue, Params, One

\* A value that means nothing is an error.
LEMMA ReadNothing ==
    ASSUME NEW params, NEW value
    PROVE  /\ DecodeBase32(value) = {} => ReadValue(params, "secret", value) = {}
           /\ AlgorithmOf(value) = {} => ReadValue(params, "algorithm", value) = {}
           /\ NumberUpTo(value, MaxU8) = {} => ReadValue(params, "digits", value) = {}
           /\ NumberUpTo(value, MaxU8 ^ 3) = {} => ReadValue(params, "period", value) = {}
           /\ NumberUpTo(value, MaxU8 ^ 3) = {} => ReadValue(params, "counter", value) = {}
BY DEF ReadValue, AlgorithmOf

\* A name stands for one algorithm at most.
LEMMA AlgorithmOnce ==
    ASSUME NEW t
    PROVE  AlgorithmOf(t) = {} \/ \E v : AlgorithmOf(t) = One(v)
BY DEF AlgorithmOf, One

\* The latest word on a key after one more pair.
LEMMA LatestStep ==
    ASSUME NEW q, NEW n \in Nat, NEW key
    PROVE  Latest(q, n + 1, key) =
             IF q[n + 1] # <<>> /\ q[n + 1][1] = key THEN Meaning(q[n + 1]) ELSE Latest(q, n, key)
<1> DEFINE I(m) == {i \in 1 .. m : q[i] # <<>> /\ q[i][1] = key}
<1>1. CASE q[n + 1] # <<>> /\ q[n + 1][1] = key
  <2>1. n + 1 \in I(n + 1) /\ I(n + 1) \in SUBSET (0 .. n + 1) /\ n + 1 \in Nat
    BY <1>1
  <2>2. Max(I(n + 1)) \in I(n + 1) /\ \A m \in I(n + 1) : m <= Max(I(n + 1))
    <3> HIDE DEF I
    <3>1. I(n + 1) # {}
      BY <2>1
    <3> QED BY <2>1, <3>1, Greatest
  <2>3. Max(I(n + 1)) = n + 1
    <3> HIDE DEF I
    <3> QED BY <2>1, <2>2
  <2> QED BY <1>1, <2>1, <2>3 DEF Latest
<1>2. CASE ~ (q[n + 1] # <<>> /\ q[n + 1][1] = key)
  <2>1. I(n + 1) = I(n)
    BY <1>2
  <2> QED BY <1>2, <2>1 DEF Latest
<1> QED BY <1>1, <1>2

\* A text has one decoding at most.
LEMMA DecodedOnce ==
    ASSUME NEW t
    PROVE  PercentDecode(t) = {} \/ \E d : PercentDecode(t) = One(d)
BY DEF PercentDecode, One

\* A text stands for one number at most.
LEMMA NumberOnce ==
    ASSUME NEW t, NEW most
    PROVE  NumberUpTo(t, most) = {} \/ \E n : NumberUpTo(t, most) = One(n)
<1> HIDE DEF Number
<1> QED BY DEF NumberUpTo, One

\* A text stands for one secret at most.
LEMMA Base32Once ==
    ASSUME NEW t
    PROVE  DecodeBase32(t) = {} \/ \E s : DecodeBase32(t) = One(s)
BY DEF DecodeBase32, One

\* A pair means one thing at most.
LEMMA MeaningOnce ==
    ASSUME NEW pair \in Pair
    PROVE  Meaning(pair) = {} \/ \E v : Meaning(pair) = One(v)
<1>1. CASE PercentDecode(pair[2]) = {}
  BY <1>1 DEF Meaning
<1>2. ASSUME NEW d, PercentDecode(pair[2]) = One(d)
      PROVE  Meaning(pair) = {} \/ \E v : Meaning(pair) = One(v)
  BY <1>2, NumberOnce, Base32Once DEF Meaning, One
<1> QED BY <1>1, <1>2, DecodedOnce

\* One more pair: refused when it means nothing, the latest word on its key otherwise.
LEMMA SaidStep ==
    ASSUME NEW q \in Seq(Pair), NEW n \in Nat, n + 1 \in 1 .. Len(q)
    PROVE  ReadPair({Said(q, n)}, q[n + 1]) =
             IF Meaning(q[n + 1]) = {} THEN {} ELSE One(Said(q, n + 1))
<1> DEFINE pair == q[n + 1]
           key == pair[1]
           S == Latest(q, n, "secret")
           A == OrElse(Latest(q, n, "algorithm"), "SHA1")
           D == OrElse(Latest(q, n, "digits"), 6)
           P == OrElse(Latest(q, n, "period"), 30)
           C == Latest(q, n, "counter")
           I == Latest(q, n, "issuer")
<1>1. pair \in Pair
  OBVIOUS
<1>2. CASE pair = <<>>
  BY <1>2 DEF Meaning, ReadPair
<1>3. CASE pair # <<>> /\ PercentDecode(pair[2]) = {}
  BY <1>3 DEF Meaning, ReadPair
<1>4. ASSUME pair # <<>>, NEW d, PercentDecode(pair[2]) = One(d)
      PROVE  ReadPair({Said(q, n)}, pair) = IF Meaning(pair) = {} THEN {} ELSE One(Said(q, n + 1))
  <2>1. ReadPair({Said(q, n)}, pair) = ReadValue(Said(q, n), key, d)
    BY <1>4 DEF ReadPair, One
  <2>2. \A other : Latest(q, n + 1, other) =
                     IF key = other THEN Meaning(pair) ELSE Latest(q, n, other)
    BY <1>4, LatestStep
  <2> HIDE DEF pair, key
  <2>3. CASE key = "secret"
    <3>1. Meaning(pair) = DecodeBase32(d)
      BY <1>4, <2>3 DEF Meaning, One, key
    <3>2. CASE Meaning(pair) = {}
      BY <2>1, <2>3, <3>1, <3>2, ReadNothing
    <3>3. ASSUME NEW v, Meaning(pair) = One(v)
          PROVE  ReadPair({Said(q, n)}, pair) = One(Said(q, n + 1))
      <4>1. ReadValue(Said(q, n), "secret", d) = One(Params(One(v), A, D, P, C, I))
        <5>1. DecodeBase32(d) = One(v)
          BY <3>1, <3>3
        <5> QED BY <5>1, ReadSecret DEF Said
      <4>2. /\ Latest(q, n + 1, "secret") = One(v)
            /\ Latest(q, n + 1, "algorithm") = Latest(q, n, "algorithm")
            /\ Latest(q, n + 1, "digits") = Latest(q, n, "digits")
            /\ Latest(q, n + 1, "period") = Latest(q, n, "period")
            /\ Latest(q, n + 1, "counter") = Latest(q, n, "counter")
            /\ Latest(q, n + 1, "issuer") = Latest(q, n, "issuer")
        BY <2>2, <2>3, <3>3
      <4> QED BY <2>1, <2>3, <4>1, <4>2 DEF Said
    <3> QED BY <1>1, <3>2, <3>3, MeaningOnce
  <2>4. CASE key = "algorithm"
    <3>1. Meaning(pair) = AlgorithmOf(d)
      BY <1>4, <2>4 DEF Meaning, One, key, AlgorithmOf
    <3>2. CASE Meaning(pair) = {}
      BY <2>1, <2>4, <3>1, <3>2, ReadNothing
    <3>3. ASSUME NEW v, Meaning(pair) = One(v)
          PROVE  ReadPair({Said(q, n)}, pair) = One(Said(q, n + 1))
      <4>1. ReadValue(Said(q, n), "algorithm", d) = One(Params(S, v, D, P, C, I))
        <5>1. AlgorithmOf(d) = One(v)
          BY <3>1, <3>3
        <5> QED BY <5>1, ReadAlgorithm DEF Said
      <4>2. /\ Latest(q, n + 1, "algorithm") = One(v)
            /\ Latest(q, n + 1, "secret") = Latest(q, n, "secret")
            /\ Latest(q, n + 1, "digits") = Latest(q, n, "digits")
            /\ Latest(q, n + 1, "period") = Latest(q, n, "period")
            /\ Latest(q, n + 1, "counter") = Latest(q, n, "counter")
            /\ Latest(q, n + 1, "issuer") = Latest(q, n, "issuer")
        BY <2>2, <2>4, <3>3
      <4>3. OrElse(One(v), "SHA1") = v
        BY DEF OrElse, The, One
      <4> QED BY <2>1, <2>4, <4>1, <4>2, <4>3 DEF Said
    <3> QED BY <1>1, <3>2, <3>3, MeaningOnce
  <2>5. CASE key = "digits"
    <3>1. Meaning(pair) = NumberUpTo(d, MaxU8)
      BY <1>4, <2>5 DEF Meaning, One, key
    <3>2. CASE Meaning(pair) = {}
      BY <2>1, <2>5, <3>1, <3>2, ReadNothing
    <3>3. ASSUME NEW v, Meaning(pair) = One(v)
          PROVE  ReadPair({Said(q, n)}, pair) = One(Said(q, n + 1))
      <4>1. ReadValue(Said(q, n), "digits", d) = One(Params(S, A, v, P, C, I))
        <5>1. NumberUpTo(d, MaxU8) = One(v)
          BY <3>1, <3>3
        <5> QED BY <5>1, ReadDigits DEF Said
      <4>2. /\ Latest(q, n + 1, "digits") = One(v)
            /\ Latest(q, n + 1, "secret") = Latest(q, n, "secret")
            /\ Latest(q, n + 1, "algorithm") = Latest(q, n, "algorithm")
            /\ Latest(q, n + 1, "period") = Latest(q, n, "period")
            /\ Latest(q, n + 1, "counter") = Latest(q, n, "counter")
            /\ Latest(q, n + 1, "issuer") = Latest(q, n, "issuer")
        BY <2>2, <2>5, <3>3
      <4>3. OrElse(One(v), 6) = v
        BY DEF OrElse, The, One
      <4> QED BY <2>1, <2>5, <4>1, <4>2, <4>3 DEF Said
    <3> QED BY <1>1, <3>2, <3>3, MeaningOnce
  <2>6. CASE key = "period"
    <3>1. Meaning(pair) = NumberUpTo(d, MaxU8 ^ 3)
      BY <1>4, <2>6 DEF Meaning, One, key
    <3>2. CASE Meaning(pair) = {}
      BY <2>1, <2>6, <3>1, <3>2, ReadNothing
    <3>3. ASSUME NEW v, Meaning(pair) = One(v)
          PROVE  ReadPair({Said(q, n)}, pair) = One(Said(q, n + 1))
      <4>1. ReadValue(Said(q, n), "period", d) = One(Params(S, A, D, v, C, I))
        <5>1. NumberUpTo(d, MaxU8 ^ 3) = One(v)
          BY <3>1, <3>3
        <5> QED BY <5>1, ReadPeriod DEF Said
      <4>2. /\ Latest(q, n + 1, "period") = One(v)
            /\ Latest(q, n + 1, "secret") = Latest(q, n, "secret")
            /\ Latest(q, n + 1, "algorithm") = Latest(q, n, "algorithm")
            /\ Latest(q, n + 1, "digits") = Latest(q, n, "digits")
            /\ Latest(q, n + 1, "counter") = Latest(q, n, "counter")
            /\ Latest(q, n + 1, "issuer") = Latest(q, n, "issuer")
        BY <2>2, <2>6, <3>3
      <4>3. OrElse(One(v), 30) = v
        BY DEF OrElse, The, One
      <4> QED BY <2>1, <2>6, <4>1, <4>2, <4>3 DEF Said
    <3> QED BY <1>1, <3>2, <3>3, MeaningOnce
  <2>7. CASE key = "counter"
    <3>1. Meaning(pair) = NumberUpTo(d, MaxU8 ^ 3)
      BY <1>4, <2>7 DEF Meaning, One, key
    <3>2. CASE Meaning(pair) = {}
      BY <2>1, <2>7, <3>1, <3>2, ReadNothing
    <3>3. ASSUME NEW v, Meaning(pair) = One(v)
          PROVE  ReadPair({Said(q, n)}, pair) = One(Said(q, n + 1))
      <4>1. ReadValue(Said(q, n), "counter", d) = One(Params(S, A, D, P, One(v), I))
        <5>1. NumberUpTo(d, MaxU8 ^ 3) = One(v)
          BY <3>1, <3>3
        <5> QED BY <5>1, ReadCounter DEF Said
      <4>2. /\ Latest(q, n + 1, "counter") = One(v)
            /\ Latest(q, n + 1, "secret") = Latest(q, n, "secret")
            /\ Latest(q, n + 1, "algorithm") = Latest(q, n, "algorithm")
            /\ Latest(q, n + 1, "digits") = Latest(q, n, "digits")
            /\ Latest(q, n + 1, "period") = Latest(q, n, "period")
            /\ Latest(q, n + 1, "issuer") = Latest(q, n, "issuer")
        BY <2>2, <2>7, <3>3
      <4> QED BY <2>1, <2>7, <4>1, <4>2 DEF Said
    <3> QED BY <1>1, <3>2, <3>3, MeaningOnce
  <2>8. CASE key = "issuer"
    <3>1. Meaning(pair) = One(d)
      BY <1>4, <2>8 DEF Meaning, One, key
    <3>2. CASE Meaning(pair) = {}
      BY <2>1, <2>8, <3>1, <3>2, ReadNothing DEF One
    <3>3. ASSUME NEW v, Meaning(pair) = One(v)
          PROVE  ReadPair({Said(q, n)}, pair) = One(Said(q, n + 1))
      <4>1. ReadValue(Said(q, n), "issuer", d) = One(Params(S, A, D, P, C, One(v)))
        <5>1. d = v
          BY <3>1, <3>3 DEF One
        <5> QED BY <5>1, ReadIssuer DEF Said
      <4>2. /\ Latest(q, n + 1, "issuer") = One(v)
            /\ Latest(q, n + 1, "secret") = Latest(q, n, "secret")
            /\ Latest(q, n + 1, "algorithm") = Latest(q, n, "algorithm")
            /\ Latest(q, n + 1, "digits") = Latest(q, n, "digits")
            /\ Latest(q, n + 1, "period") = Latest(q, n, "period")
            /\ Latest(q, n + 1, "counter") = Latest(q, n, "counter")
        BY <2>2, <2>8, <3>3
      <4> QED BY <2>1, <2>8, <4>1, <4>2 DEF Said
    <3> QED BY <1>1, <3>2, <3>3, MeaningOnce
  <2>9. CASE key \notin {"secret", "algorithm", "digits", "period", "counter", "issuer"}
    <3>1. Meaning(pair) = One(d) /\ ReadValue(Said(q, n), key, d) = One(Said(q, n))
      BY <1>4, <2>9 DEF Meaning, ReadValue, One, key
    <3>2. Said(q, n) = Said(q, n + 1)
      BY <2>2, <2>9 DEF Said
    <3> QED BY <2>1, <3>1, <3>2 DEF One
  <2> QED BY <2>3, <2>4, <2>5, <2>6, <2>7, <2>8, <2>9 DEF pair
<1> QED BY <1>1, <1>2, <1>3, <1>4, DecodedOnce

\* The pairs read so far leave the parameters they say, or nothing once one
\* of them means nothing.
LEMMA ReadPairsSay ==
    ASSUME NEW q \in Seq(Pair)
    PROVE  \A n \in 0 .. Len(q) :
              ReadPairs(q)[n] = IF \A i \in 1 .. n : Meaning(q[i]) # {} THEN One(Said(q, n)) ELSE {}
<1> DEFINE Says(n) == ReadPairs(q)[n] =
                        IF \A i \in 1 .. n : Meaning(q[i]) # {} THEN One(Said(q, n)) ELSE {}
           T == {n \in Nat : n \in 0 .. Len(q) => Says(n)}
<1>0. /\ Len(q) \in Nat
      /\ \A n \in 0 .. Len(q) :
            ReadPairs(q)[n] = IF n = 0 THEN {Defaults} ELSE ReadPair(ReadPairs(q)[n - 1], q[n])
  <2>1. Len(q) \in Nat
    OBVIOUS
  <2> QED BY <2>1, ReadPairsDef
<1>1. Says(0)
  <2>1. \A key : Latest(q, 0, key) = {}
    BY DEF Latest
  <2>2. Said(q, 0) = Defaults
    BY <2>1 DEF Said, Params, OrElse, Defaults
  <2> QED BY <1>0, <2>2 DEF One
<1>2. ASSUME NEW n \in Nat, n + 1 \in 1 .. Len(q), Says(n)
      PROVE  Says(n + 1)
  <2>1. ReadPairs(q)[n + 1] = ReadPair(ReadPairs(q)[n], q[n + 1])
    BY <1>0, <1>2
  <2>2. CASE \A i \in 1 .. n : Meaning(q[i]) # {}
    <3>1. ReadPairs(q)[n + 1] = IF Meaning(q[n + 1]) = {} THEN {} ELSE One(Said(q, n + 1))
      BY <1>2, <2>1, <2>2, SaidStep DEF One
    <3>2. (\A i \in 1 .. n + 1 : Meaning(q[i]) # {}) <=> Meaning(q[n + 1]) # {}
      BY <2>2
    <3> QED BY <3>1, <3>2
  <2>3. CASE \E i \in 1 .. n : Meaning(q[i]) = {}
    <3>1. ReadPairs(q)[n + 1] = {}
      BY <1>2, <2>1, <2>3 DEF ReadPair
    <3> QED BY <2>3, <3>1
  <2> QED BY <2>2, <2>3
<1> HIDE DEF Says
<1>3. T = Nat
  <2>1. T \in SUBSET Nat /\ 0 \in T /\ \A n \in T : n + 1 \in T
    BY <1>0, <1>1, <1>2
  <2> HIDE DEF T
  <2> QED BY <2>1, Induction
<1>4. \A n \in 0 .. Len(q) : Says(n)
  BY <1>0, <1>3
<1> QED BY <1>4 DEF Says

\* The latest word on a key after all pairs is the last one of the query.
LEMMA LatestIsLast ==
    ASSUME NEW q \in Seq(Pair), NEW key
    PROVE  Latest(q, Len(q), key) = LastOf(q, key)
<1> DEFINE I == {i \in 1 .. Len(q) : q[i] # <<>> /\ q[i][1] = key}
<1>1. Len(q) \in Nat /\ I \in SUBSET (0 .. Len(q)) /\ 0 \notin I
  OBVIOUS
<1>2. I # {} => Max(I) # 0
  <2> HIDE DEF I
  <2> QED BY <1>1, Greatest
<1> QED BY <1>2 DEF Latest, LastOf, SelectLastInSeq

\* A query is refused or read as the parameters it says.
LEMMA ReadQuerySays ==
    ASSUME NEW query \in SUBSET Seq(Pair)
    PROVE  ReadQuery(query) =
             {Said(q, Len(q)) : q \in {r \in query : \A i \in DOMAIN r : Meaning(r[i]) # {}}}
<1>1. \A p : p \in ReadQuery(query) <=> \E q \in query : p \in ReadPairs(q)[Len(q)]
  BY DEF ReadQuery
<1>2. ASSUME NEW q \in query
      PROVE  ReadPairs(q)[Len(q)] =
               IF \A i \in DOMAIN q : Meaning(q[i]) # {} THEN One(Said(q, Len(q))) ELSE {}
  <2>1. q \in Seq(Pair) /\ Len(q) \in 0 .. Len(q) /\ DOMAIN q = 1 .. Len(q)
    OBVIOUS
  <2> QED BY <2>1, ReadPairsSay
<1> DEFINE Valid(q) == \A i \in DOMAIN q : Meaning(q[i]) # {}
<1>3. \A p : p \in ReadQuery(query) <=> \E q \in query : Valid(q) /\ p = Said(q, Len(q))
  BY <1>1, <1>2 DEF One
<1> HIDE DEF Valid
<1>4. ReadQuery(query) = {Said(q, Len(q)) : q \in {r \in query : Valid(r)}}
  BY <1>3
<1> QED BY <1>4 DEF Valid

\* What is read out of an URI is what it says.
LEMMA ParsedFactors ==
    ASSUME NEW uri \in UriType
    PROVE  ParseOtpAuthUri(uri) = FactorsOf(uri)
<1> DEFINE labels == UNION {PercentDecode(t) : t \in uri.label}
           Valid(q) == \A i \in DOMAIN q : Meaning(q[i]) # {}
           kind == Kind[uri.type]
           Known == uri.otpauth /\ uri.type \in DOMAIN Kind
<1>1. ASSUME NEW q \in uri.query
      PROVE  /\ q \in Seq(Pair)
             /\ Said(q, Len(q)) =
                 Params(LastOf(q, "secret"), OrElse(LastOf(q, "algorithm"), "SHA1"),
                        OrElse(LastOf(q, "digits"), 6), OrElse(LastOf(q, "period"), 30),
                        LastOf(q, "counter"), LastOf(q, "issuer"))
  BY LatestIsLast DEF Said, UriType
<1>2. ReadQuery(uri.query) = {Said(q, Len(q)) : q \in {r \in uri.query : Valid(r)}}
  BY ReadQuerySays DEF UriType
<1>5. ASSUME NEW q \in uri.query
      PROVE  Valid(q) /\ InRange(kind, Said(q, Len(q))) <=> GoodQuery(kind, q)
  BY <1>1 DEF GoodQuery, InRange, ValidateFactorParams, Params
<1>6. ASSUME NEW q \in uri.query, NEW l, LastOf(q, "secret") # {}
      PROVE  ParsedFactor(kind, l, Said(q, Len(q))) = FactorOf(kind, l, q)
  BY <1>1, <1>6 DEF Params, ParsedFactor, FactorOf, OrElse
<1>7. \A q : GoodQuery(kind, q) => LastOf(q, "secret") # {}
  BY DEF GoodQuery
<1> HIDE DEF labels, Valid, Known, kind
<1>3. \A f : f \in ParseOtpAuthUri(uri) <=>
         \E l \in labels, q \in uri.query :
            /\ Known /\ Valid(q) /\ InRange(kind, Said(q, Len(q)))
            /\ f = ParsedFactor(kind, l, Said(q, Len(q)))
  BY <1>2 DEF ParseOtpAuthUri, labels, Known, kind
<1>4. \A f : f \in FactorsOf(uri) <=>
         \E l \in labels, q \in uri.query : Known /\ GoodQuery(kind, q) /\ f = FactorOf(kind, l, q)
  BY DEF FactorsOf, labels, Known, kind
<1>8. \A f : f \in ParseOtpAuthUri(uri) <=> f \in FactorsOf(uri)
  BY <1>3, <1>4, <1>5, <1>6, <1>7
<1> QED BY <1>8

\* An image decodes to the payload of its one grid that has one.
LEMMA OnePayload ==
    ASSUME NEW S, NEW grids \in Seq(Seq(S)), \A i \in DOMAIN grids : Len(grids[i]) <= 1
    PROVE  LET payloads == FlattenSeq(grids)
               decoded == {i \in DOMAIN grids : grids[i] # <<>>}
           IN \A p : p \in ToSet(payloads) /\ Len(payloads) = 1 <=>
                     \E i \in decoded : decoded = {i} /\ p = grids[i][1]
<1> DEFINE decoded(n) == {i \in 1 .. n : grids[i] # <<>>}
<1>1. Len(grids) \in Nat
  OBVIOUS
<1>2. PICK f \in [0 .. Len(grids) -> Seq(S)] :
         /\ f[0] = <<>>
         /\ \A i \in 1 .. Len(grids) : f[i] = f[i - 1] \o grids[i]
         /\ FlattenSeq(grids) = f[Len(grids)]
  BY <1>1, Flattening
<1> DEFINE None(n) == decoded(n) = {} /\ f[n] = <<>>
           Unique(n) == \E i \in decoded(n) : decoded(n) = {i} /\ f[n] = <<grids[i][1]>>
           Many(n) == (\A i : decoded(n) # {i}) /\ decoded(n) # {} /\ Len(f[n]) \in Nat \ {0, 1}
           Counts(n) == n \in 0 .. Len(grids) => None(n) \/ Unique(n) \/ Many(n)
           T == {n \in Nat : Counts(n)}
<1>3. Counts(0)
  BY <1>2
<1>4. ASSUME NEW n \in Nat, n + 1 \in 1 .. Len(grids), None(n) \/ Unique(n) \/ Many(n)
      PROVE  None(n + 1) \/ Unique(n + 1) \/ Many(n + 1)
  <2>1. /\ f[n + 1] = f[n] \o grids[n + 1] /\ f[n] \in Seq(S)
        /\ grids[n + 1] \in Seq(S) /\ Len(grids[n + 1]) <= 1
    <3>1. n + 1 \in DOMAIN grids /\ n \in 0 .. Len(grids) /\ (n + 1) - 1 = n
      BY <1>1, <1>4
    <3>2. grids[n + 1] \in Seq(S) /\ Len(grids[n + 1]) <= 1
      BY <3>1
    <3>3. f[n + 1] = f[n] \o grids[n + 1] /\ f[n] \in Seq(S)
      BY <1>2, <1>4, <3>1
    <3> QED BY <3>2, <3>3
  <2>2. CASE grids[n + 1] = <<>>
    <3>1. f[n + 1] = f[n] /\ decoded(n + 1) = decoded(n)
      BY <2>1, <2>2
    <3> QED BY <1>4, <3>1
  <2>3. CASE grids[n + 1] # <<>>
    <3>1. decoded(n + 1) = decoded(n) \cup {n + 1} /\ n + 1 \notin decoded(n)
      BY <2>3
    <3>2. Len(grids[n + 1]) = 1 /\ grids[n + 1] = <<grids[n + 1][1]>>
      <4> DEFINE len == Len(grids[n + 1])
      <4>1. len \in Nat /\ len # 0 /\ len <= 1
        BY <2>1, <2>3
      <4>2. len = 1
        <5> HIDE DEF len
        <5> QED BY <4>1
      <4> QED BY <2>1, <4>2, SingleSeq
    <3>3. Len(f[n + 1]) = Len(f[n]) + 1 /\ Len(f[n]) \in Nat
      <4>1. Len(f[n] \o grids[n + 1]) = Len(f[n]) + Len(grids[n + 1]) /\ Len(f[n]) \in Nat
        BY <2>1, JoinedLen
      <4> QED BY <2>1, <3>2, <4>1
    <3>4. CASE None(n)
      <4>1. f[n + 1] = <<grids[n + 1][1]>>
        BY <2>1, <3>2, <3>4
      <4> QED BY <3>1, <3>4, <4>1
    <3>5. CASE Unique(n) \/ Many(n)
      <4>1. Len(f[n]) >= 1 /\ decoded(n) # {}
        <5>1. CASE Unique(n)
          BY <5>1
        <5>2. CASE Many(n)
          BY <3>3, <5>2
        <5> QED BY <3>5, <5>1, <5>2
      <4>2. Len(f[n + 1]) \in Nat \ {0, 1}
        BY <3>3, <4>1
      <4> HIDE DEF decoded
      <4> QED BY <3>1, <4>1, <4>2
    <3> QED BY <1>4, <3>4, <3>5
  <2> QED BY <2>2, <2>3
<1>5. Counts(Len(grids))
  <2> HIDE DEF None, Unique, Many
  <2>1. ASSUME NEW n \in Nat, Counts(n)
        PROVE  Counts(n + 1)
    <3>1. n + 1 \in 0 .. Len(grids) => n + 1 \in 1 .. Len(grids) /\ n \in 0 .. Len(grids)
      BY <1>1
    <3> QED BY <1>4, <2>1, <3>1
  <2> HIDE DEF Counts
  <2>2. T \in SUBSET Nat /\ 0 \in T /\ \A n \in T : n + 1 \in T
    BY <1>3, <2>1
  <2>3. T = Nat
    <3> HIDE DEF T
    <3> QED BY <2>2, Induction
  <2> QED BY <1>1, <2>3
<1>6. decoded(Len(grids)) = {i \in DOMAIN grids : grids[i] # <<>>}
  OBVIOUS
<1>7. None(Len(grids)) \/ Unique(Len(grids)) \/ Many(Len(grids))
  <2> HIDE DEF None, Unique, Many
  <2> QED BY <1>1, <1>5
<1> DEFINE payloads == FlattenSeq(grids)
           all == {i \in DOMAIN grids : grids[i] # <<>>}
<1>8. \/ all = {} /\ payloads = <<>>
      \/ \E i \in all : all = {i} /\ payloads = <<grids[i][1]>>
      \/ (\A i : all # {i}) /\ Len(payloads) # 1
  BY <1>2, <1>6, <1>7
<1> HIDE DEF payloads, all
<1>9. \A p : p \in ToSet(payloads) /\ Len(payloads) = 1 <=>
                \E i \in all : all = {i} /\ p = grids[i][1]
  <2>1. CASE all = {} /\ payloads = <<>>
    BY <2>1 DEF ToSet
  <2>2. ASSUME NEW i \in all, all = {i}, payloads = <<grids[i][1]>>
        PROVE  \A p : p \in ToSet(payloads) /\ Len(payloads) = 1 <=>
                         \E j \in all : all = {j} /\ p = grids[j][1]
    BY <2>2 DEF ToSet
  <2>3. CASE (\A i : all # {i}) /\ Len(payloads) # 1
    BY <2>3
  <2> QED BY <1>8, <2>1, <2>2, <2>3
<1> QED BY <1>9 DEF payloads, all

FactorsOfImage(image) ==
    LET decoded == {i \in DOMAIN image.grids : image.grids[i] # <<>>}
    IN UNION {FactorsOf(image.grids[i][1]) :
                i \in {j \in decoded : image.readable /\ decoded = {j}}}

\* An image gives the factor of its one payload.
LEMMA ImportedFactors ==
    ASSUME NEW image \in ImageType
    PROVE  ImportQrImage(image) = FactorsOfImage(image)
<1> DEFINE grids == image.grids
           decoded == {i \in DOMAIN grids : grids[i] # <<>>}
<1>1. /\ grids \in Seq(Seq(UriType)) /\ image.readable \in BOOLEAN
      /\ \A i \in DOMAIN grids : Len(grids[i]) <= 1
  BY DEF ImageType
<1>2. [i \in DOMAIN grids |-> grids[i]] = grids
  BY <1>1
<1>3. \A p : p \in DecodeSingle(image) <=>
               image.readable /\ \E i \in decoded : decoded = {i} /\ p = grids[i][1]
  <2>1. \A p : p \in DecodeSingle(image) <=>
                 image.readable /\ p \in ToSet(FlattenSeq(grids)) /\ Len(FlattenSeq(grids)) = 1
    BY <1>2 DEF DecodeSingle
  <2>2. \A p : p \in ToSet(FlattenSeq(grids)) /\ Len(FlattenSeq(grids)) = 1 <=>
                 \E i \in decoded : decoded = {i} /\ p = grids[i][1]
    <3> HIDE DEF grids
    <3> QED BY <1>1, OnePayload
  <2> HIDE DEF decoded, grids
  <2> QED BY <2>1, <2>2
<1>4. ASSUME NEW i \in decoded
      PROVE  ParseOtpAuthUri(grids[i][1]) = FactorsOf(grids[i][1])
  <2>1. grids[i] \in Seq(UriType) /\ grids[i] # <<>>
    BY <1>1
  <2>2. grids[i][1] \in UriType
    BY <2>1
  <2> QED BY <2>2, ParsedFactors
<1> HIDE DEF decoded, grids
<1>5. \A f : f \in ImportQrImage(image) <=>
         \E i \in decoded : image.readable /\ decoded = {i} /\ f \in FactorsOf(grids[i][1])
  BY <1>3, <1>4 DEF ImportQrImage
<1>6. \A f : f \in FactorsOfImage(image) <=>
         \E i \in decoded : image.readable /\ decoded = {i} /\ f \in FactorsOf(grids[i][1])
  BY DEF FactorsOfImage, decoded, grids
<1>7. \A f : f \in ImportQrImage(image) <=> f \in FactorsOfImage(image)
  BY <1>5, <1>6
<1> QED BY <1>7

GoodFactor(f) ==
    /\ f.kind \in {"totp", "hotp"}
    /\ f.digits \in {6, 8}
    /\ f.kind = "totp" => f.period \in 1 .. MaxPeriod
    /\ f.kind = "hotp" => \E c : f.counter = One(c)

\* What the query says of a key is one value.
LEMMA LastOnce ==
    ASSUME NEW q \in Seq(Pair), NEW key
    PROVE  LastOf(q, key) = {} \/ \E v : LastOf(q, key) = One(v)
<1> DEFINE I == {i \in 1 .. Len(q) : q[i] # <<>> /\ q[i][1] = key}
<1>1. Len(q) \in Nat /\ I \in SUBSET (0 .. Len(q))
  OBVIOUS
<1>2. I # {} => Max(I) \in I
  <2> HIDE DEF I
  <2> QED BY <1>1, Greatest
<1>3. I # {} => q[Max(I)] \in Pair
  <2>1. \A i \in I : q[i] \in Pair
    OBVIOUS
  <2> HIDE DEF I
  <2> QED BY <1>2, <2>1
<1>4. Latest(q, Len(q), key) = {} \/ \E i : q[i] \in Pair /\ Latest(q, Len(q), key) = Meaning(q[i])
  BY <1>3 DEF Latest
<1> QED BY <1>4, MeaningOnce, LatestIsLast

\* The factor of a URI satisfies the rules of the domain.
LEMMA FactorsAreGood ==
    ASSUME NEW uri \in UriType, NEW f \in FactorsOf(uri)
    PROVE  GoodFactor(f)
<1>1. PICK l \in UNION {PercentDecode(t) : t \in uri.label}, q \in uri.query :
         /\ uri.type \in DOMAIN Kind /\ GoodQuery(Kind[uri.type], q)
         /\ f = FactorOf(Kind[uri.type], l, q)
  BY DEF FactorsOf
<1>2. Kind[uri.type] \in {"totp", "hotp"}
  <2>1. /\ DOMAIN Kind = {"totp", "TOTP", "hotp"}
        /\ \A k \in {"totp", "TOTP", "hotp"} : Kind[k] \in {"totp", "hotp"}
    BY DEF Kind
  <2> QED BY <1>1, <2>1
<1>3. q \in Seq(Pair)
  BY DEF UriType
<1> QED BY <1>1, <1>2, <1>3, LastOnce DEF GoodQuery, FactorOf, GoodFactor, ValidateFactorParams

\* A number between two multiples.
LEMMA Quotient ==
    ASSUME NEW p \in Nat \ {0}, NEW k \in Nat, NEW r \in 0 .. p - 1
    PROVE  (k * p + r) \div p = k
OBVIOUS

\* The code changes after exactly the seconds that are left.
LEMMA CodeChanges ==
    ASSUME NEW p \in Nat \ {0}, NEW now \in Nat
    PROVE  LET left == p - (now % p) IN
           /\ left \in 1 .. p
           /\ (now + left - 1) \div p = now \div p
           /\ (now + left) \div p # now \div p
<1> DEFINE k == now \div p
           r == now % p
<1>1. k \in Nat /\ r \in 0 .. p - 1 /\ now = k * p + r
  OBVIOUS
<1>2. now + (p - r) - 1 = k * p + (p - 1) /\ now + (p - r) = (k + 1) * p + 0
  BY <1>1
<1>3. (k * p + (p - 1)) \div p = k
  <2> HIDE DEF k
  <2> QED BY <1>1, Quotient
<1>4. ((k + 1) * p + 0) \div p = k + 1
  <2> HIDE DEF k
  <2>1. k + 1 \in Nat /\ 0 \in 0 .. p - 1
    BY <1>1
  <2> QED BY <2>1, Quotient
<1> HIDE DEF k, r
<1> QED BY <1>1, <1>2, <1>3, <1>4 DEF k, r

ShownAsLong(factor, now, codes) ==
    \E shown \in codes :
       LET CodeAt(time) == {s[1] : s \in GenerateOtpCode(factor, time)}
       IN /\ codes = {shown}
          /\ factor.kind = "totp" =>
                /\ shown[2] \in 1 .. factor.period
                /\ CodeAt(now + shown[2] - 1) = {shown[1]}
                /\ CodeAt(now + shown[2]) # {shown[1]}

CodeOf(f, counter) ==
    [secret |-> f.secret, counter |-> counter, algorithm |-> f.algorithm, digits |-> f.digits]

\* A code is computed for every kept factor and shown as long as it holds.
LEMMA CodesAreShownAsLong ==
    ASSUME NEW f, GoodFactor(f), NEW now \in Nat
    PROVE  ShownAsLong(f, now, GenerateOtpCode(f, now))
<1>1. CASE f.kind = "totp"
  <2>1. f.period \in Nat \ {0} /\ f.digits \in {6, 8}
    BY <1>1 DEF GoodFactor, MaxPeriod
  <2>2. \A time : GenerateOtpCode(f, time) =
                    {<<CodeOf(f, time \div f.period), SecondsRemaining(time, f.period)>>}
    BY <1>1, <2>1 DEF GenerateOtpCode, Totp, Hotp, CodeOf
  <2> DEFINE left == SecondsRemaining(now, f.period)
  <2>3. /\ left \in 1 .. f.period
        /\ (now + left - 1) \div f.period = now \div f.period
        /\ (now + left) \div f.period # now \div f.period
    BY <2>1, CodeChanges DEF SecondsRemaining
  <2>4. \A m, n : m # n => CodeOf(f, m) # CodeOf(f, n)
    BY DEF CodeOf
  <2> DEFINE CodeAt(time) == {s[1] : s \in GenerateOtpCode(f, time)}
  <2>5. ASSUME NEW time
        PROVE  CodeAt(time) = {CodeOf(f, time \div f.period)}
    <3> DEFINE code == CodeOf(f, time \div f.period)
               seconds == SecondsRemaining(time, f.period)
    <3>1. GenerateOtpCode(f, time) = {<<code, seconds>>}
      BY <2>2
    <3> HIDE DEF code, seconds
    <3>2. CodeAt(time) = {code}
      BY <3>1
    <3> QED BY <3>2 DEF code
  <2> DEFINE shown == <<CodeOf(f, now \div f.period), left>>
  <2>6. GenerateOtpCode(f, now) = {shown}
    BY <2>2
  <2>7. /\ shown[2] \in 1 .. f.period
        /\ CodeAt(now + shown[2] - 1) = {shown[1]}
        /\ CodeAt(now + shown[2]) # {shown[1]}
    <3> HIDE DEF left, CodeAt
    <3> QED BY <2>3, <2>4, <2>5
  <2> HIDE DEF shown, CodeAt
  <2> QED BY <2>6, <2>7 DEF ShownAsLong, CodeAt
<1>2. CASE f.kind = "hotp"
  <2>1. PICK c : f.counter = {c}
    BY <1>2 DEF GoodFactor, One
  <2>2. f.digits \in {6, 8}
    BY DEF GoodFactor
  <2>3. GenerateOtpCode(f, now) = {<<CodeOf(f, c), 0>>}
    <3>1. Hotp(f.secret, c, f.algorithm, f.digits) = {CodeOf(f, c)}
      BY <2>2 DEF Hotp, CodeOf
    <3>2. UNION {Hotp(f.secret, d, f.algorithm, f.digits) :
                   d \in IF f.counter = {} THEN {0} ELSE f.counter} = {CodeOf(f, c)}
      <4>1. (IF f.counter = {} THEN {0} ELSE f.counter) = {c}
        BY <2>1
      <4> QED BY <3>1, <4>1
    <3> HIDE DEF CodeOf
    <3> QED BY <1>2, <3>2 DEF GenerateOtpCode
  <2> QED BY <1>2, <2>3 DEF ShownAsLong
<1> QED BY <1>1, <1>2 DEF GoodFactor

-----------------------------------------------------------------------------
\* A kept factor is what its URI or image stands for, a shown code that of
\* a kept factor.
FactorInv ==
    /\ given.kind = "uri" => given.input \in Uri /\ kept = ParseOtpAuthUri(given.input)
    /\ given.kind = "image" => given.input \in Image /\ kept = ImportQrImage(given.input)
    /\ given.kind = "code" =>
          /\ GoodFactor(given.input.factor) /\ given.input.now \in Nat
          /\ kept = GenerateOtpCode(given.input.factor, given.input.now)

\* At first nothing is given.
LEMMA FactorInvInit == InputsInit => FactorInv
BY DEF InputsInit, Nothing, FactorInv

\* Every kept factor is good.
LEMMA KeptIsGood ==
    ASSUME FactorInv, NEW f \in Kept("uri") \cup Kept("image")
    PROVE  GoodFactor(f)
<1>1. ASSUME NEW uri \in UriType, f \in ParseOtpAuthUri(uri)
      PROVE  GoodFactor(f)
  BY <1>1, ParsedFactors, FactorsAreGood
<1>2. CASE f \in Kept("uri")
  <2>1. given.input \in UriType /\ f \in ParseOtpAuthUri(given.input)
    BY <1>2, InputTypes DEF FactorInv, Kept
  <2> QED BY <1>1, <2>1
<1>3. CASE f \in Kept("image")
  <2> DEFINE image == given.input
  <2>1. image \in ImageType /\ f \in ImportQrImage(image)
    BY <1>3, InputTypes DEF FactorInv, Kept
  <2>2. f \in FactorsOfImage(image)
    <3> HIDE DEF image
    <3> QED BY <2>1, ImportedFactors
  <2>3. PICK i \in DOMAIN image.grids : image.grids[i] # <<>> /\ f \in FactorsOf(image.grids[i][1])
    BY <2>2 DEF FactorsOfImage
  <2>4. image.grids[i] \in Seq(UriType)
    BY <2>1 DEF ImageType
  <2>5. image.grids[i][1] \in UriType
    BY <2>3, <2>4
  <2> QED BY <2>3, <2>5, FactorsAreGood
<1> QED BY <1>2, <1>3

\* Every command keeps it.
LEMMA FactorInvStep ==
    ASSUME FactorInv, [InputsNext]_ivars
    PROVE  FactorInv'
<1> USE DEF FactorInv, Command
<1>1. ASSUME NEW uri \in Uri, ImportUri(uri)
      PROVE  FactorInv'
  BY <1>1 DEF ImportUri
<1>2. ASSUME NEW image \in Image, ImportImage(image)
      PROVE  FactorInv'
  BY <1>2 DEF ImportImage
<1>3. ASSUME NEW now \in Instant, ShowCode(now)
      PROVE  FactorInv'
  <2>1. PICK f \in Kept("uri") \cup Kept("image") :
           Command("code", [factor |-> f, now |-> now], GenerateOtpCode(f, now))
    BY <1>3 DEF ShowCode
  <2>2. GoodFactor(f)
    BY KeptIsGood
  <2>3. now \in Nat
    BY InputTypes
  <2> QED BY <2>1, <2>2, <2>3
<1> DEFINE Others ==
             {"profile", "account", "settings", "answers", "profile copy", "account copy",
              "launch", "download"}
<1>0. ASSUME NEW kind \in Others, NEW input, NEW value, Command(kind, input, value)
      PROVE  FactorInv'
  BY <1>0
<1> HIDE DEF FactorInv, Command
<1>4. ASSUME NEW input, \/ CreateProfile(input) \/ CreateAccount(input) \/ SaveSettings(input)
                        \/ Discover(input) \/ UpdateProfile(input) \/ UpdateAccount(input)
      PROVE  FactorInv'
  BY <1>0, <1>4 DEF CreateProfile, CreateAccount, SaveSettings, Discover, UpdateProfile,
                    UpdateAccount
<1>5. ASSUME NEW proxy, NEW answers, ProbeProxy(proxy, answers)
      PROVE  FactorInv'
  BY <1>5 DEF ProbeProxy, FactorInv, Command
<1>6. CASE ResaveProfile \/ ResaveAccount \/ LaunchProfile \/ StartDownload
  BY <1>0, <1>6 DEF ResaveProfile, ResaveAccount, LaunchProfile, StartDownload
<1>7. CASE Answered
  BY <1>7 DEF Answered, Nothing, FactorInv
<1>8. CASE UNCHANGED ivars
  BY <1>8 DEF ivars, FactorInv
<1> QED BY <1>1, <1>2, <1>3, <1>4, <1>5, <1>6, <1>7, <1>8 DEF InputsNext

\* A factor says what its URI or image says, and its code is shown for as long
\* as it holds, for queries and images of every length (parse_otpauth_uri,
\* decode_single, Workspace::generate_otp_code).
THEOREM FactorsAlwaysMatch == InputsSpec => []FactorsMatchTheirUri
<1>1. FactorInv => FactorsMatchTheirUri
  <2> SUFFICES ASSUME FactorInv PROVE FactorsMatchTheirUri
    OBVIOUS
  <2>1. given.kind = "uri" => kept = FactorsOf(given.input)
    BY ParsedFactors, InputTypes DEF FactorInv
  <2>2. given.kind = "image" => kept = FactorsOfImage(given.input)
    BY ImportedFactors, InputTypes DEF FactorInv
  <2>3. given.kind = "code" => ShownAsLong(given.input.factor, given.input.now, kept)
    BY CodesAreShownAsLong DEF FactorInv
  <2> QED BY <2>1, <2>2, <2>3 DEF FactorsMatchTheirUri, FactorsOfImage, ShownAsLong
<1> QED BY <1>1, FactorInvInit, FactorInvStep, PTL DEF InputsSpec

-----------------------------------------------------------------------------
(* Metadata: what a rule has accepted it accepts again *)

\* A trimmed text is empty or has no blank at its ends.
LEMMA TrimmedEnds ==
    ASSUME NEW t \in Text
    PROVE  /\ Trimmed(t) \in Text
           /\ Trimmed(t) # <<>> =>
                 Trimmed(t)[1] \notin Blank /\ Trimmed(t)[Len(Trimmed(t))] \notin Blank
<1> DEFINE I == {i \in 1 .. Len(t) : t[i] \notin Blank}
<1>1. Trimmed(t) = IF I = {} \/ Min(I) = 0 THEN <<>> ELSE SubSeq(t, Min(I), Max(I))
  BY DEF Trimmed, SelectInSeq, SelectLastInSeq, Text
<1>2. Len(t) \in Nat /\ I \in SUBSET Nat /\ I \in SUBSET (0 .. Len(t))
  BY DEF Text
<1>3. CASE I = {}
  BY <1>1, <1>3 DEF Text
<1>4. CASE I # {}
  <2>1. Min(I) \in I /\ Max(I) \in I /\ Min(I) <= Max(I)
    <3> HIDE DEF I
    <3> QED BY <1>2, <1>4, Smallest, Greatest
  <2> DEFINE a == Min(I)
             b == Max(I)
  <2>2. a \in 1 .. Len(t) /\ b \in a .. Len(t) /\ t[a] \notin Blank /\ t[b] \notin Blank
    BY <2>1
  <2>3. Trimmed(t) = SubSeq(t, a, b)
    <3>1. Min(I) # 0
      BY <2>2
    <3> HIDE DEF I
    <3> QED BY <1>1, <1>4, <3>1
  <2> HIDE DEF a, b
  <2>4. /\ SubSeq(t, a, b) \in Text
        /\ Len(SubSeq(t, a, b)) = b - a + 1
        /\ SubSeq(t, a, b)[1] = t[a] /\ SubSeq(t, a, b)[b - a + 1] = t[b]
    BY <1>2, <2>2 DEF Text
  <2> QED BY <2>2, <2>3, <2>4
<1> QED BY <1>3, <1>4

\* A text without blanks at its ends is trimmed.
LEMMA TrimmedFixed ==
    ASSUME NEW t \in Text, t = <<>> \/ (t[1] \notin Blank /\ t[Len(t)] \notin Blank)
    PROVE  Trimmed(t) = t
<1> DEFINE I == {i \in 1 .. Len(t) : t[i] \notin Blank}
<1>1. Trimmed(t) = IF I = {} \/ Min(I) = 0 THEN <<>> ELSE SubSeq(t, Min(I), Max(I))
  BY DEF Trimmed, SelectInSeq, SelectLastInSeq, Text
<1>2. Len(t) \in Nat /\ I \in SUBSET Nat /\ I \in SUBSET (0 .. Len(t))
  BY DEF Text
<1>3. CASE t = <<>>
  BY <1>1, <1>3
<1>4. CASE t # <<>>
  <2>1. 1 \in I /\ Len(t) \in I
    BY <1>2, <1>4 DEF Text
  <2>2. Min(I) \in I /\ Max(I) \in I /\ Min(I) <= 1 /\ Len(t) <= Max(I)
    <3> HIDE DEF I
    <3> QED BY <1>2, <2>1, Smallest, Greatest
  <2>3. Min(I) = 1 /\ Max(I) = Len(t)
    BY <1>2, <2>2
  <2>4. Trimmed(t) = SubSeq(t, 1, Len(t))
    <3> HIDE DEF I
    <3> QED BY <1>1, <2>1, <2>3
  <2> QED BY <2>4 DEF Text
<1> QED BY <1>3, <1>4

\* Trimming twice is trimming once.
LEMMA TrimmedTwice ==
    ASSUME NEW t \in Text
    PROVE  Trimmed(t) \in Text /\ Trimmed(Trimmed(t)) = Trimmed(t)
BY TrimmedEnds, TrimmedFixed

\* The rules keep a value they have accepted.
LEMMA RulesKeep ==
    ASSUME NEW t \in Text
    PROVE  /\ \A k \in Name(t) : k \in Text /\ Name(k) = {k}
           /\ \A k \in HttpUrl(t) : k \in Text /\ HttpUrl(k) = {k} /\ k # <<>> /\ Trimmed(k) = k
           /\ \A k \in LocaleTag(t) : k \in Text /\ LocaleTag(k) = {k}
           /\ \A k \in IanaTimeZone(t) : k \in Text /\ IanaTimeZone(k) = {k}
<1>1. Trimmed(t) \in Text /\ Trimmed(Trimmed(t)) = Trimmed(t)
  BY TrimmedTwice
<1>2. \A k \in Name(t) : k \in Text /\ Name(k) = {k}
  BY <1>1 DEF Name
<1>3. \A k \in HttpUrl(t) : k \in Text /\ HttpUrl(k) = {k} /\ k # <<>> /\ Trimmed(k) = k
  BY <1>1 DEF HttpUrl
<1>4. \A k \in LocaleTag(t) : k \in Text /\ LocaleTag(k) = {k}
  BY <1>1 DEF LocaleTag
<1>5. \A k \in IanaTimeZone(t) : k \in Text /\ IanaTimeZone(k) = {k}
  BY <1>1 DEF IanaTimeZone
<1> QED BY <1>2, <1>3, <1>4, <1>5

\* UrlsKept is the function its definition describes.
LEMMA UrlsKeptDef ==
    ASSUME NEW S, NEW s \in Seq(S)
    PROVE  \A n \in 0 .. Len(s) :
              UrlsKept(s)[n] = IF n = 0 THEN {<<>>} ELSE AddUrl(UrlsKept(s)[n - 1], s[n])
<1> DEFINE Step(f, n) == IF n = 0 THEN {<<>>} ELSE AddUrl(f[n - 1], s[n])
           Folds(N) == \E f : f = [n \in 0 .. N |-> Step(f, n)]
           T == {N \in Nat : Folds(N)}
<1>1. Folds(0)
  <2> DEFINE f == [n \in 0 .. 0 |-> {<<>>}]
  <2>1. f = [n \in 0 .. 0 |-> Step(f, n)]
    OBVIOUS
  <2> QED BY <2>1
<1>2. ASSUME NEW N \in Nat, Folds(N)
      PROVE  Folds(N + 1)
  <2>1. PICK f : f = [n \in 0 .. N |-> Step(f, n)]
    BY <1>2
  <2> DEFINE g == [n \in 0 .. N + 1 |-> IF n = N + 1 THEN AddUrl(f[N], s[N + 1]) ELSE f[n]]
  <2>2. \A n \in 0 .. N : f[n] = Step(f, n)
    BY <2>1
  <2>3. ASSUME NEW n \in 0 .. N + 1
        PROVE  g[n] = Step(g, n)
    <3>1. CASE n = N + 1
      BY <3>1
    <3>2. CASE n \in 0 .. N
      BY <2>2, <3>2
    <3> QED BY <3>1, <3>2
  <2>4. g = [n \in 0 .. N + 1 |-> Step(g, n)]
    BY <2>3
  <2> QED BY <2>4
<1> HIDE DEF Folds
<1>3. T = Nat
  <2>1. T \in SUBSET Nat /\ 0 \in T /\ \A N \in T : N + 1 \in T
    BY <1>1, <1>2
  <2> HIDE DEF T
  <2> QED BY <2>1, Induction
<1>4. Folds(Len(s))
  BY <1>3
<1>5. UrlsKept(s) = [n \in 0 .. Len(s) |-> Step(UrlsKept(s), n)]
  BY <1>4 DEF UrlsKept, Folds
<1> QED BY <1>5

\* TagsKept is the function its definition describes.
LEMMA TagsKeptDef ==
    ASSUME NEW S, NEW s \in Seq(S)
    PROVE  \A n \in 0 .. Len(s) :
              TagsKept(s)[n] = IF n = 0 THEN {<<>>} ELSE AddTag(TagsKept(s)[n - 1], s[n])
<1> DEFINE Step(f, n) == IF n = 0 THEN {<<>>} ELSE AddTag(f[n - 1], s[n])
           Folds(N) == \E f : f = [n \in 0 .. N |-> Step(f, n)]
           T == {N \in Nat : Folds(N)}
<1>1. Folds(0)
  <2> DEFINE f == [n \in 0 .. 0 |-> {<<>>}]
  <2>1. f = [n \in 0 .. 0 |-> Step(f, n)]
    OBVIOUS
  <2> QED BY <2>1
<1>2. ASSUME NEW N \in Nat, Folds(N)
      PROVE  Folds(N + 1)
  <2>1. PICK f : f = [n \in 0 .. N |-> Step(f, n)]
    BY <1>2
  <2> DEFINE g == [n \in 0 .. N + 1 |-> IF n = N + 1 THEN AddTag(f[N], s[N + 1]) ELSE f[n]]
  <2>2. \A n \in 0 .. N : f[n] = Step(f, n)
    BY <2>1
  <2>3. ASSUME NEW n \in 0 .. N + 1
        PROVE  g[n] = Step(g, n)
    <3>1. CASE n = N + 1
      BY <3>1
    <3>2. CASE n \in 0 .. N
      BY <2>2, <3>2
    <3> QED BY <3>1, <3>2
  <2>4. g = [n \in 0 .. N + 1 |-> Step(g, n)]
    BY <2>3
  <2> QED BY <2>4
<1> HIDE DEF Folds
<1>3. T = Nat
  <2>1. T \in SUBSET Nat /\ 0 \in T /\ \A N \in T : N + 1 \in T
    BY <1>1, <1>2
  <2> HIDE DEF T
  <2> QED BY <2>1, Induction
<1>4. Folds(Len(s))
  BY <1>3
<1>5. TagsKept(s) = [n \in 0 .. Len(s) |-> Step(TagsKept(s), n)]
  BY <1>4 DEF TagsKept, Folds
<1> QED BY <1>5

\* An address that is accepted as it is.
GoodUrl(u) == u \in Text /\ HttpUrl(u) = {u} /\ u # <<>> /\ Trimmed(u) = u

\* The addresses that are kept are good ones, not more than were given.
LEMMA UrlsAreGood ==
    ASSUME NEW urls \in Seq(Text)
    PROVE  \A kept_ \in StartupUrls(urls) :
              /\ kept_ \in Seq(Text) /\ Len(kept_) <= Limit.urls
              /\ \A i \in DOMAIN kept_ : GoodUrl(kept_[i])
<1> DEFINE Good(u, n) == u \in Seq(Text) /\ Len(u) <= n /\ \A i \in 1 .. Len(u) : GoodUrl(u[i])
           P(n) == n \in 0 .. Len(urls) => \A u \in UrlsKept(urls)[n] : Good(u, n)
           T == {n \in Nat : P(n)}
<1>1. Len(urls) \in Nat
  OBVIOUS
<1>2. P(0)
  <2>1. 0 \in 0 .. Len(urls) => UrlsKept(urls)[0] = {<<>>}
    BY UrlsKeptDef
  <2>2. Good(<<>>, 0)
    OBVIOUS
  <2> HIDE DEF Good
  <2> QED BY <2>1, <2>2
<1>3. ASSUME NEW n \in Nat, n + 1 \in 1 .. Len(urls), \A u \in UrlsKept(urls)[n] : Good(u, n),
             NEW v \in UrlsKept(urls)[n + 1]
      PROVE  Good(v, n + 1)
  <2>1. UrlsKept(urls)[n + 1] = AddUrl(UrlsKept(urls)[n], urls[n + 1]) /\ urls[n + 1] \in Text
    <3>1. n + 1 \in 0 .. Len(urls) /\ (n + 1) - 1 = n /\ n + 1 # 0
      BY <1>1, <1>3
    <3> QED BY <1>3, <3>1, UrlsKeptDef
  <2>2. CASE v \in UrlsKept(urls)[n]
    <3>1. Good(v, n)
      BY <1>3, <2>2
    <3>2. Len(v) \in Nat
      BY <3>1
    <3> QED BY <3>1, <3>2
  <2>3. ASSUME NEW u \in UrlsKept(urls)[n], NEW k \in HttpUrl(urls[n + 1]), v = Append(u, k)
        PROVE  Good(v, n + 1)
    <3>1. GoodUrl(k)
      BY <2>1, RulesKeep DEF GoodUrl
    <3>2. Good(u, n) /\ k \in Text
      BY <1>3, <3>1 DEF GoodUrl
    <3>3. /\ v \in Seq(Text) /\ Len(v) = Len(u) + 1 /\ v[Len(u) + 1] = k
          /\ \A i \in 1 .. Len(u) : v[i] = u[i]
      BY <2>3, <3>2, AppendText
    <3>4. Len(u) \in Nat
      BY <3>2
    <3>5. ASSUME NEW i \in 1 .. Len(v)
          PROVE  GoodUrl(v[i])
      <4>1. i \in 1 .. Len(u) \/ i = Len(u) + 1
        BY <3>3, <3>4
      <4> QED BY <3>1, <3>2, <3>3, <4>1
    <3> QED BY <3>2, <3>3, <3>4, <3>5
  <2> HIDE DEF Good
  <2> QED BY <2>1, <2>2, <2>3 DEF AddUrl
<1> HIDE DEF Good
<1>4. \A n \in Nat : P(n) => P(n + 1)
  <2> SUFFICES ASSUME NEW n \in Nat, P(n), n + 1 \in 0 .. Len(urls), NEW v \in UrlsKept(urls)[n + 1]
               PROVE  Good(v, n + 1)
    OBVIOUS
  <2>1. n + 1 \in 1 .. Len(urls) /\ n \in 0 .. Len(urls)
    BY <1>1
  <2> QED BY <1>3, <2>1
<1>5. P(Len(urls))
  <2> HIDE DEF P
  <2>1. T \in SUBSET Nat /\ 0 \in T /\ \A n \in T : n + 1 \in T
    BY <1>2, <1>4
  <2>2. T = Nat
    <3> HIDE DEF T
    <3> QED BY <2>1, Induction
  <2> QED BY <1>1, <2>2
<1> SUFFICES ASSUME NEW u \in StartupUrls(urls)
             PROVE  u \in Seq(Text) /\ Len(u) <= Limit.urls /\ \A i \in DOMAIN u : GoodUrl(u[i])
  OBVIOUS
<1>6. Good(u, Len(urls)) /\ Len(urls) <= Limit.urls
  <2>1. Limit.urls \in Nat
    BY LimitsAssumption
  <2> QED BY <1>1, <1>5, <2>1 DEF StartupUrls
<1> QED
  <2>1. Limit.urls \in Nat
    BY LimitsAssumption
  <2> QED BY <1>1, <1>6, <2>1 DEF Good

\* They are kept as they are when they are sent back.
LEMMA UrlsKeep ==
    ASSUME NEW u \in Seq(Text), Len(u) <= Limit.urls, \A i \in DOMAIN u : GoodUrl(u[i])
    PROVE  StartupUrls(u) = {u}
<1> DEFINE P(n) == n \in 0 .. Len(u) => UrlsKept(u)[n] = One(SubSeq(u, 1, n))
           T == {n \in Nat : P(n)}
<1>1. Len(u) \in Nat
  OBVIOUS
<1>2. P(0)
  <2>1. 0 \in 0 .. Len(u) => UrlsKept(u)[0] = {<<>>}
    BY UrlsKeptDef
  <2>2. SubSeq(u, 1, 0) = <<>>
    OBVIOUS
  <2> QED BY <2>1, <2>2 DEF One
<1>3. ASSUME NEW n \in Nat, n + 1 \in 1 .. Len(u), UrlsKept(u)[n] = One(SubSeq(u, 1, n))
      PROVE  UrlsKept(u)[n + 1] = One(SubSeq(u, 1, n + 1))
  <2>1. n + 1 \in 0 .. Len(u) /\ (n + 1) - 1 = n /\ n + 1 # 0
    BY <1>1, <1>3
  <2>2. UrlsKept(u)[n + 1] = AddUrl(One(SubSeq(u, 1, n)), u[n + 1])
    BY <1>3, <2>1, UrlsKeptDef
  <2>3. Trimmed(u[n + 1]) # <<>> /\ HttpUrl(u[n + 1]) = {u[n + 1]}
    BY <1>3 DEF GoodUrl
  <2>4. AddUrl(One(SubSeq(u, 1, n)), u[n + 1]) = {Append(SubSeq(u, 1, n), u[n + 1])}
    BY <2>3 DEF AddUrl, One
  <2>5. Append(SubSeq(u, 1, n), u[n + 1]) = SubSeq(u, 1, n + 1)
    BY <1>3
  <2> QED BY <2>2, <2>4, <2>5 DEF One
<1>4. \A n \in Nat : P(n) => P(n + 1)
  <2> SUFFICES ASSUME NEW n \in Nat, P(n), n + 1 \in 0 .. Len(u)
               PROVE  UrlsKept(u)[n + 1] = One(SubSeq(u, 1, n + 1))
    OBVIOUS
  <2>1. n + 1 \in 1 .. Len(u) /\ n \in 0 .. Len(u)
    BY <1>1
  <2> QED BY <1>3, <2>1
<1>5. P(Len(u))
  <2> HIDE DEF P
  <2>1. T \in SUBSET Nat /\ 0 \in T /\ \A n \in T : n + 1 \in T
    BY <1>2, <1>4
  <2>2. T = Nat
    <3> HIDE DEF T
    <3> QED BY <2>1, Induction
  <2> QED BY <1>1, <2>2
<1>6. SubSeq(u, 1, Len(u)) = u
  OBVIOUS
<1>7. UrlsKept(u)[Len(u)] = {u}
  BY <1>1, <1>5, <1>6 DEF One
<1>8. ~ (Len(u) > Limit.urls)
  BY <1>1, LimitsAssumption
<1> QED BY <1>7, <1>8 DEF StartupUrls

\* Optional values are kept as they are when they are sent back.
LEMMA OptionsKeep ==
    ASSUME NEW o \in SUBSET Text
    PROVE  /\ \A k \in Locales(o) : k \in SUBSET Text /\ Locales(k) = {k}
           /\ \A k \in Zones(o) : k \in SUBSET Text /\ Zones(k) = {k}
           /\ \A k \in Labels(o) : k \in SUBSET Text /\ Labels(k) = {k}
           /\ \A k \in Urls(o) : k \in SUBSET Text /\ Urls(k) = {k} /\ Given(k) = k
           /\ \A k \in PinnedVersion(o) : k \in SUBSET Text /\ PinnedVersion(k) = {k}
<1>1. \A k \in Locales(o) : k \in SUBSET Text /\ Locales(k) = {k}
  <2>1. ASSUME NEW v \in o, NEW t \in LocaleTag(v), NEW k, k = {t}
        PROVE  k \in SUBSET Text /\ Locales(k) = {k}
    <3>1. t \in Text /\ LocaleTag(t) = {t}
      BY RulesKeep
    <3>2. UNION {LocaleTag(value) : value \in k} = k /\ k # {}
      BY <2>1, <3>1
    <3>3. Locales(k) = {{x} : x \in k}
      BY <3>2 DEF Locales, Optional
    <3> QED BY <2>1, <3>1, <3>3
  <2>2. \A k \in Locales(o) : k = {} \/ \E v \in o : \E t \in LocaleTag(v) : k = {t}
    BY DEF Locales, Optional
  <2>3. \A k : k = {} => k \in SUBSET Text /\ Locales(k) = {k}
    BY DEF Locales, Optional
  <2> QED BY <2>1, <2>2, <2>3
<1>2. \A k \in Zones(o) : k \in SUBSET Text /\ Zones(k) = {k}
  <2>1. ASSUME NEW v \in o, NEW t \in IanaTimeZone(v), NEW k, k = {t}
        PROVE  k \in SUBSET Text /\ Zones(k) = {k}
    <3>1. t \in Text /\ IanaTimeZone(t) = {t}
      BY RulesKeep
    <3>2. UNION {IanaTimeZone(value) : value \in k} = k /\ k # {}
      BY <2>1, <3>1
    <3>3. Zones(k) = {{x} : x \in k}
      BY <3>2 DEF Zones, Optional
    <3> QED BY <2>1, <3>1, <3>3
  <2>2. \A k \in Zones(o) : k = {} \/ \E v \in o : \E t \in IanaTimeZone(v) : k = {t}
    BY DEF Zones, Optional
  <2>3. \A k : k = {} => k \in SUBSET Text /\ Zones(k) = {k}
    BY DEF Zones, Optional
  <2> QED BY <2>1, <2>2, <2>3
<1>3. \A k \in Labels(o) : k \in SUBSET Text /\ Labels(k) = {k}
  <2>1. ASSUME NEW v \in o, NEW t \in Name(v), NEW k, k = {t}
        PROVE  k \in SUBSET Text /\ Labels(k) = {k}
    <3>1. t \in Text /\ Name(t) = {t}
      BY RulesKeep
    <3>2. UNION {Name(value) : value \in k} = k /\ k # {}
      BY <2>1, <3>1
    <3>3. Labels(k) = {{x} : x \in k}
      BY <3>2 DEF Labels, Optional
    <3> QED BY <2>1, <3>1, <3>3
  <2>2. \A k \in Labels(o) : k = {} \/ \E v \in o : \E t \in Name(v) : k = {t}
    BY DEF Labels, Optional
  <2>3. \A k : k = {} => k \in SUBSET Text /\ Labels(k) = {k}
    BY DEF Labels, Optional
  <2> QED BY <2>1, <2>2, <2>3
<1>4. \A k \in Urls(o) : k \in SUBSET Text /\ Urls(k) = {k}
  <2>1. ASSUME NEW v \in o, NEW t \in HttpUrl(v), NEW k, k = {t}
        PROVE  k \in SUBSET Text /\ Urls(k) = {k}
    <3>1. t \in Text /\ HttpUrl(t) = {t}
      BY RulesKeep
    <3>2. UNION {HttpUrl(value) : value \in k} = k /\ k # {}
      BY <2>1, <3>1
    <3>3. Urls(k) = {{x} : x \in k}
      BY <3>2 DEF Urls, Optional
    <3> QED BY <2>1, <3>1, <3>3
  <2>2. \A k \in Urls(o) : k = {} \/ \E v \in o : \E t \in HttpUrl(v) : k = {t}
    BY DEF Urls, Optional
  <2>3. \A k : k = {} => k \in SUBSET Text /\ Urls(k) = {k}
    BY DEF Urls, Optional
  <2> QED BY <2>1, <2>2, <2>3
<1>5. \A k \in Urls(o) : Given(k) = k
  <2>1. \A k \in Urls(o) : k = {} \/ \E v \in o : \E t \in HttpUrl(v) : k = {t}
    BY DEF Urls, Optional
  <2>2. \A v \in o : \A t \in HttpUrl(v) : Trimmed(t) = t /\ t # <<>>
    BY RulesKeep
  <2> QED BY <2>1, <2>2 DEF Given
<1>6. \A k \in PinnedVersion(o) : k \in SUBSET Text /\ PinnedVersion(k) = {k}
  BY DEF PinnedVersion
<1> QED BY <1>1, <1>2, <1>3, <1>4, <1>5, <1>6

\* What is kept of a profile.
KeptProfile(p) ==
    /\ p \in ProfileType
    /\ Name(p.name) = {p.name} /\ PinnedVersion(p.version) = {p.version}
    /\ StartupUrls(p.urls) = {p.urls}
    /\ Locales(p.locale) = {p.locale} /\ Zones(p.timezone) = {p.timezone}
    /\ \A i \in DOMAIN p.urls : GoodUrl(p.urls[i])

\* What is kept of an entered profile is as the rules keep it.
LEMMA ValidProfileKeeps ==
    ASSUME NEW input \in ProfileType, NEW p \in ValidProfile(input)
    PROVE  KeptProfile(p)
<1>1. /\ p = [name |-> p.name, version |-> p.version, urls |-> p.urls, locale |-> p.locale,
              timezone |-> p.timezone]
      /\ p.name \in Name(input.name) /\ p.version \in PinnedVersion(input.version)
      /\ p.urls \in StartupUrls(input.urls)
      /\ p.locale \in Locales(input.locale) /\ p.timezone \in Zones(input.timezone)
  BY DEF ValidProfile
<1>2. /\ input.name \in Text /\ input.version \in SUBSET Text /\ input.urls \in Seq(Text)
      /\ input.locale \in SUBSET Text /\ input.timezone \in SUBSET Text
  BY DEF ProfileType
<1>3. p.name \in Text /\ Name(p.name) = {p.name}
  BY <1>1, <1>2, RulesKeep
<1>4. /\ p.urls \in Seq(Text) /\ Len(p.urls) <= Limit.urls
      /\ \A i \in DOMAIN p.urls : GoodUrl(p.urls[i])
  BY <1>1, <1>2, UrlsAreGood
<1>5. StartupUrls(p.urls) = {p.urls}
  BY <1>4, UrlsKeep
<1>6. p.version \in SUBSET Text /\ PinnedVersion(p.version) = {p.version}
  BY <1>1, <1>2, OptionsKeep
<1>7. p.locale \in SUBSET Text /\ Locales(p.locale) = {p.locale}
  BY <1>1, <1>2, OptionsKeep
<1>8. p.timezone \in SUBSET Text /\ Zones(p.timezone) = {p.timezone}
  BY <1>1, <1>2, OptionsKeep
<1>9. p \in ProfileType
  BY <1>1, <1>3, <1>4, <1>6, <1>7, <1>8 DEF ProfileType
<1> QED BY <1>3, <1>4, <1>5, <1>6, <1>7, <1>8, <1>9 DEF KeptProfile

\* A kept profile that is sent back: only its name can be refused.
LEMMA ProfileComesBack ==
    ASSUME NEW p, KeptProfile(p), NEW name
    PROVE  LET copy == [p EXCEPT !.name = name] IN
           ValidProfile(copy) = {[copy EXCEPT !.name = n] : n \in Name(copy.name)}
<1> DEFINE copy == [p EXCEPT !.name = name]
           With(n) == [name |-> n, version |-> p.version, urls |-> p.urls, locale |-> p.locale,
                       timezone |-> p.timezone]
<1>1. copy = With(name)
  BY DEF KeptProfile, ProfileType
<1>2. ASSUME NEW n
      PROVE  [copy EXCEPT !.name = n] = With(n)
  <2> HIDE DEF copy
  <2> QED BY <1>1
<1>3. \A q : q \in ValidProfile(copy) <=> \E n \in Name(name) : q = With(n)
  BY <1>1 DEF ValidProfile, KeptProfile
<1> HIDE DEF With
<1>4. ValidProfile(copy) = {With(n) : n \in Name(name)}
  BY <1>3
<1>5. copy.name = name
  BY <1>1 DEF With
<1> HIDE DEF copy
<1>6. {[copy EXCEPT !.name = n] : n \in Name(copy.name)} = {With(n) : n \in Name(name)}
  BY <1>2, <1>5
<1> QED BY <1>4, <1>6 DEF copy

-----------------------------------------------------------------------------
OkTag(t) == ~ Has(t, Control) /\ Bytes(t) <= Limit.tag

\* The first tags among the first n, and whether these n are good.
FirstsUpTo(tags, n) == {k \in FirstTags(tags) : k <= n}
GoodUpTo(tags, n) ==
    /\ \A i \in 1 .. n : Trimmed(tags[i]) = <<>> \/ OkTag(Trimmed(tags[i]))
    /\ Cardinality(FirstsUpTo(tags, n)) <= Limit.tags
ListsUpTo(list, tags, n) ==
    /\ list \in Seq(Text)
    /\ \E place \in [1 .. Len(list) -> FirstsUpTo(tags, n)] :
         /\ \A i, j \in 1 .. Len(list) : i < j => place[i] < place[j]
         /\ \A k \in FirstsUpTo(tags, n) : \E i \in 1 .. Len(list) : place[i] = k
         /\ \A i \in 1 .. Len(list) : list[i] = Trimmed(tags[place[i]])

\* A list has as many tags as there are firsts.
LEMMA ListLength ==
    ASSUME NEW tags \in Seq(Text), NEW n \in Nat, NEW list, ListsUpTo(list, tags, n)
    PROVE  /\ Cardinality(FirstsUpTo(tags, n)) = Len(list) /\ Len(list) \in Nat
           /\ IsFiniteSet(FirstsUpTo(tags, n))
<1> DEFINE F == FirstsUpTo(tags, n)
<1>1. list \in Seq(Text) /\ Len(list) \in Nat
  BY DEF ListsUpTo
<1>2. PICK place \in [1 .. Len(list) -> F] :
         /\ \A i, j \in 1 .. Len(list) : i < j => place[i] < place[j]
         /\ \A k \in F : \E i \in 1 .. Len(list) : place[i] = k
  BY DEF ListsUpTo
<1>3. F \in SUBSET Nat
  BY DEF FirstsUpTo, FirstTags
<1> HIDE DEF F
<1>4. \A i, j \in 1 .. Len(list) : place[i] = place[j] => i = j
  <2> SUFFICES ASSUME NEW i \in 1 .. Len(list), NEW j \in 1 .. Len(list), i < j, place[i] = place[j]
               PROVE  FALSE
    BY <1>1, <1>2, <1>3
  <2>1. place[i] < place[j] /\ place[i] \in Nat
    BY <1>2, <1>3
  <2> QED BY <2>1
<1>5. ExistsBijection(1 .. Len(list), F)
  <2>1. place \in Bijection(1 .. Len(list), F)
    BY <1>2, <1>4 DEF Bijection, Injection, Surjection, IsInjective
  <2> QED BY <2>1 DEF ExistsBijection
<1>6. IsFiniteSet(1 .. Len(list)) /\ Cardinality(1 .. Len(list)) = Len(list)
  <2>1. \A k \in Nat : IsFiniteSet(1 .. k) /\ Cardinality(1 .. k) = k
    BY FS_Interval
  <2> QED BY <1>1, <2>1
<1> QED BY <1>1, <1>5, <1>6, FS_Bijection DEF F

\* One more tag after good ones: it is blank, repeated, one more first, or
\* refuses them all.
LEMMA TagStep ==
    ASSUME NEW tags \in Seq(Text), NEW n \in Nat, n + 1 \in 1 .. Len(tags),
           NEW list, ListsUpTo(list, tags, n), GoodUpTo(tags, n),
           TagsKept(tags)[n] = One(list)
    PROVE  \/ /\ GoodUpTo(tags, n + 1)
              /\ \E new : ListsUpTo(new, tags, n + 1) /\ TagsKept(tags)[n + 1] = One(new)
           \/ ~ GoodUpTo(tags, n + 1) /\ TagsKept(tags)[n + 1] = {}
<1> DEFINE t == Trimmed(tags[n + 1])
           F == FirstsUpTo(tags, n)
           G == FirstsUpTo(tags, n + 1)
           repeated == \E i \in DOMAIN list : Folded(list[i]) = Folded(t)
<1>1. TagsKept(tags)[n + 1] = AddTag(One(list), tags[n + 1])
  <2>1. n + 1 \in 0 .. Len(tags) /\ (n + 1) - 1 = n /\ n + 1 # 0
    OBVIOUS
  <2> QED BY <2>1, TagsKeptDef
<1>2. t \in Text /\ list \in Seq(Text) /\ DOMAIN list = 1 .. Len(list) /\ Len(list) \in Nat
  BY TrimmedTwice DEF ListsUpTo
<1>3. PICK place \in [1 .. Len(list) -> F] :
         /\ \A i, j \in 1 .. Len(list) : i < j => place[i] < place[j]
         /\ \A k \in F : \E i \in 1 .. Len(list) : place[i] = k
         /\ \A i \in 1 .. Len(list) : list[i] = Trimmed(tags[place[i]])
  BY DEF ListsUpTo
<1>4. G = F \/ (G = F \cup {n + 1} /\ n + 1 \notin F)
  BY DEF FirstsUpTo, FirstTags
<1>5. CASE t = <<>>
  <2>1. G = F
    BY <1>5 DEF FirstsUpTo, FirstTags
  <2>2. GoodUpTo(tags, n + 1)
    BY <1>5, <2>1 DEF GoodUpTo
  <2>3. ListsUpTo(list, tags, n + 1)
    BY <2>1 DEF ListsUpTo
  <2>4. TagsKept(tags)[n + 1] = One(list)
    BY <1>1, <1>5 DEF AddTag
  <2> QED BY <2>2, <2>3, <2>4
<1>6. Cardinality(F) = Len(list) /\ IsFiniteSet(F) /\ Limit.tags \in Nat
  BY ListLength, LimitsAssumption
<1>7. t # <<>> => (GoodUpTo(tags, n + 1) <=> OkTag(t) /\ Cardinality(G) <= Limit.tags)
  <2>1. \A i \in 1 .. n + 1 : i \in 1 .. n \/ i = n + 1
    OBVIOUS
  <2>2. n + 1 \in 1 .. n + 1 /\ \A i \in 1 .. n : i \in 1 .. n + 1
    OBVIOUS
  <2> QED BY <2>1, <2>2 DEF GoodUpTo
<1>8. CASE t # <<>> /\ repeated
  <2>1. PICK i \in 1 .. Len(list) : Folded(list[i]) = Folded(t)
    BY <1>2, <1>8
  <2>2. place[i] \in 1 .. n /\ Folded(Trimmed(tags[place[i]])) = Folded(t)
    BY <1>3, <2>1 DEF FirstsUpTo, FirstTags
  <2>3. G = F
    BY <1>4, <2>2 DEF FirstsUpTo, FirstTags
  <2>4. TagsKept(tags)[n + 1] = IF OkTag(t) /\ Len(list) <= Limit.tags THEN One(list) ELSE {}
    BY <1>1, <1>8 DEF AddTag, OkTag, One
  <2>5. ListsUpTo(list, tags, n + 1)
    BY <2>3 DEF ListsUpTo
  <2>6. Len(list) <= Limit.tags
    BY <1>6 DEF GoodUpTo
  <2>7. GoodUpTo(tags, n + 1) <=> OkTag(t)
    BY <1>6, <1>7, <1>8, <2>3, <2>6
  <2>8. OkTag(t) \/ TagsKept(tags)[n + 1] = {}
    BY <2>4
  <2>9. OkTag(t) => TagsKept(tags)[n + 1] = One(list)
    BY <2>4, <2>6
  <2> HIDE DEF t
  <2> QED BY <2>5, <2>7, <2>8, <2>9
<1>9. CASE t # <<>> /\ ~ repeated
  <2>1. ASSUME NEW k \in 1 .. n, Folded(Trimmed(tags[k])) = Folded(t)
        PROVE  FALSE
    <3> DEFINE K == {j \in 1 .. n : Folded(Trimmed(tags[j])) = Folded(t)}
               first == Min(K)
    <3>1. K \in SUBSET Nat /\ k \in K
      BY <2>1
    <3>2. first \in K /\ \A j \in K : first <= j
      <4> HIDE DEF K
      <4> QED BY <3>1, Smallest
    <3> HIDE DEF first
    <3>3. \A j \in 1 .. first - 1 : Folded(Trimmed(tags[j])) # Folded(t)
      BY <3>2
    <3>4. Trimmed(tags[first]) # <<>>
      <4>1. Folded(t) # Folded(<<>>)
        BY <1>2, <1>9 DEF Folded, Text
      <4> QED BY <3>2, <4>1
    <3>5. first \in F
      BY <3>2, <3>3, <3>4 DEF FirstsUpTo, FirstTags
    <3>6. PICK i \in 1 .. Len(list) : place[i] = first
      BY <1>3, <3>5
    <3>7. Folded(list[i]) = Folded(t)
      BY <1>3, <3>2, <3>6
    <3> QED BY <1>2, <1>9, <3>7
  <2>2. n + 1 \in FirstTags(tags)
    BY <1>9, <2>1 DEF FirstTags
  <2>3. G = F \cup {n + 1} /\ n + 1 \notin F
    BY <1>4, <2>2 DEF FirstsUpTo
  <2>4. Cardinality(G) = Len(list) + 1
    <3> HIDE DEF F, G
    <3> QED BY <1>6, <2>3, FS_AddElement
  <2> DEFINE new == Append(list, t)
             at == [i \in 1 .. Len(list) + 1 |-> IF i = Len(list) + 1 THEN n + 1 ELSE place[i]]
  <2>5. /\ new \in Seq(Text) /\ Len(new) = Len(list) + 1 /\ new[Len(list) + 1] = t
        /\ \A i \in 1 .. Len(list) : new[i] = list[i]
    BY <1>2, AppendText
  <2>6. ListsUpTo(new, tags, n + 1)
    <3>1. at \in [1 .. Len(list) + 1 -> G]
      BY <1>2, <1>3, <2>3
    <3>2. \A i, j \in 1 .. Len(list) + 1 : i < j => at[i] < at[j]
      <4>1. \A i \in 1 .. Len(list) : place[i] \in Nat /\ place[i] <= n
        BY <1>3 DEF FirstsUpTo, FirstTags
      <4> SUFFICES ASSUME NEW i \in 1 .. Len(list) + 1, NEW j \in 1 .. Len(list) + 1, i < j
                   PROVE  at[i] < at[j]
        OBVIOUS
      <4>2. i \in 1 .. Len(list) /\ at[i] = place[i]
        BY <1>2
      <4>3. CASE j = Len(list) + 1
        <5>1. at[j] = n + 1
          BY <1>2, <4>3
        <5> HIDE DEF at
        <5> QED BY <4>1, <4>2, <5>1
      <4>4. CASE j \in 1 .. Len(list)
        <5>1. at[j] = place[j]
          BY <1>2, <4>4
        <5> HIDE DEF at
        <5> QED BY <1>3, <4>2, <4>4, <5>1
      <4> QED BY <1>2, <4>3, <4>4
    <3>3. \A k \in G : \E i \in 1 .. Len(list) + 1 : at[i] = k
      <4>1. at[Len(list) + 1] = n + 1 /\ \A i \in 1 .. Len(list) : at[i] = place[i]
        BY <1>2
      <4> QED BY <1>2, <1>3, <2>3, <4>1
    <3>4. \A i \in 1 .. Len(list) + 1 : new[i] = Trimmed(tags[at[i]])
      BY <1>2, <1>3, <2>5
    <3> HIDE DEF new, at
    <3> QED BY <2>5, <3>1, <3>2, <3>3, <3>4 DEF ListsUpTo
  <2>7. TagsKept(tags)[n + 1] = IF OkTag(t) /\ Len(new) <= Limit.tags THEN One(new) ELSE {}
    BY <1>1, <1>9 DEF AddTag, OkTag, One
  <2>8. GoodUpTo(tags, n + 1) <=> OkTag(t) /\ Len(new) <= Limit.tags
    BY <1>7, <1>9, <2>4, <2>5
  <2>9. CASE GoodUpTo(tags, n + 1)
    <3>1. TagsKept(tags)[n + 1] = One(new)
      BY <2>7, <2>8, <2>9
    <3> HIDE DEF new
    <3> QED BY <2>6, <2>9, <3>1
  <2>10. CASE ~ GoodUpTo(tags, n + 1)
    <3>1. TagsKept(tags)[n + 1] = {}
      BY <2>7, <2>8, <2>10
    <3> QED BY <2>10, <3>1
  <2> QED BY <2>9, <2>10
<1> QED BY <1>5, <1>8, <1>9

\* There are finitely many firsts, and no fewer among more tags.
LEMMA FirstsFinite ==
    ASSUME NEW tags \in Seq(Text), NEW n \in Nat
    PROVE  /\ IsFiniteSet(FirstsUpTo(tags, n)) /\ Cardinality(FirstsUpTo(tags, n)) \in Nat
           /\ FirstsUpTo(tags, n) \subseteq FirstsUpTo(tags, n + 1)
           /\ Cardinality(FirstsUpTo(tags, n)) <= Cardinality(FirstsUpTo(tags, n + 1))
<1>1. \A k \in Nat : IsFiniteSet(FirstsUpTo(tags, k))
  <2>1. \A k \in Nat : IsFiniteSet(1 .. k)
    BY FS_Interval
  <2>2. \A k \in Nat : FirstsUpTo(tags, k) \subseteq 1 .. k
    BY DEF FirstsUpTo, FirstTags
  <2> QED BY <2>1, <2>2, FS_Subset
<1>2. FirstsUpTo(tags, n) \subseteq FirstsUpTo(tags, n + 1)
  BY DEF FirstsUpTo, FirstTags
<1>3. n + 1 \in Nat
  OBVIOUS
<1> QED BY <1>1, <1>2, <1>3, FS_Subset, FS_CardinalityType

\* What makes a tag refused refuses the tags as a whole.
LEMMA RefusedForGood ==
    ASSUME NEW tags \in Seq(Text), NEW n \in Nat, n + 1 \in 1 .. Len(tags),
           ~ GoodUpTo(tags, n), TagsKept(tags)[n] = {}
    PROVE  ~ GoodUpTo(tags, n + 1) /\ TagsKept(tags)[n + 1] = {}
<1>1. n + 1 \in 0 .. Len(tags) /\ (n + 1) - 1 = n /\ n + 1 # 0
  OBVIOUS
<1>2. TagsKept(tags)[n + 1] = AddTag({}, tags[n + 1])
  BY <1>1, TagsKeptDef
<1>3. AddTag({}, tags[n + 1]) = {}
  BY DEF AddTag
<1>4. Cardinality(FirstsUpTo(tags, n)) <= Cardinality(FirstsUpTo(tags, n + 1))
      /\ Cardinality(FirstsUpTo(tags, n)) \in Nat /\ Cardinality(FirstsUpTo(tags, n + 1)) \in Nat
  <2>1. n + 1 \in Nat
    OBVIOUS
  <2> QED BY <2>1, FirstsFinite
<1>5. Limit.tags \in Nat /\ \A i \in 1 .. n : i \in 1 .. n + 1
  BY LimitsAssumption
<1> QED BY <1>2, <1>3, <1>4, <1>5 DEF GoodUpTo

\* Tags that are kept as they are.
KeptTags(list) ==
    /\ list \in Seq(Text) /\ Len(list) <= Limit.tags
    /\ \A i \in 1 .. Len(list) : Trimmed(list[i]) = list[i] /\ list[i] # <<>> /\ OkTag(list[i])
    /\ \A i, j \in 1 .. Len(list) : i < j => Folded(list[i]) # Folded(list[j])

\* Tags are accepted or refused as a whole, and the firsts of them are kept.
LEMMA TagsAreFirsts ==
    ASSUME NEW tags \in Seq(Text)
    PROVE  \/ ~ GoodTags(tags) /\ NormalizeTags(tags) = {}
           \/ /\ GoodTags(tags)
              /\ \E list : /\ NormalizeTags(tags) = One(list)
                           /\ ListsFirsts(list, tags) /\ KeptTags(list)
<1> DEFINE Kept_(n) == \E list : ListsUpTo(list, tags, n) /\ TagsKept(tags)[n] = One(list)
           P(n) == n \in 0 .. Len(tags) =>
                      \/ GoodUpTo(tags, n) /\ Kept_(n)
                      \/ ~ GoodUpTo(tags, n) /\ TagsKept(tags)[n] = {}
           T == {n \in Nat : P(n)}
<1>1. Len(tags) \in Nat
  OBVIOUS
<1>2. P(0)
  <2>1. TagsKept(tags)[0] = One(<<>>)
    <3>1. 0 \in 0 .. Len(tags)
      BY <1>1
    <3> QED BY <3>1, TagsKeptDef DEF One
  <2>2. FirstsUpTo(tags, 0) = {}
    BY DEF FirstsUpTo, FirstTags
  <2>3. GoodUpTo(tags, 0)
    <3>1. Limit.tags \in Nat /\ Cardinality({}) = 0
      BY LimitsAssumption, FS_EmptySet
    <3>2. Cardinality(FirstsUpTo(tags, 0)) <= Limit.tags
      <4>1. Cardinality(FirstsUpTo(tags, 0)) = Cardinality({})
        BY <2>2, Zenon
      <4> QED BY <3>1, <4>1
    <3> QED BY <3>2 DEF GoodUpTo
  <2>4. ListsUpTo(<<>>, tags, 0)
    <3>1. <<>> \in Seq(Text) /\ Len(<<>>) = 0
      OBVIOUS
    <3>2. \E place \in [1 .. 0 -> {}] : TRUE
      <4>1. [i \in 1 .. 0 |-> i] \in [1 .. 0 -> {}]
        OBVIOUS
      <4> QED BY <4>1
    <3> QED BY <2>2, <3>1, <3>2 DEF ListsUpTo
  <2> QED BY <2>1, <2>3, <2>4
<1>3. \A n \in Nat : P(n) => P(n + 1)
  <2> SUFFICES ASSUME NEW n \in Nat, P(n), n + 1 \in 0 .. Len(tags)
               PROVE  \/ GoodUpTo(tags, n + 1) /\ Kept_(n + 1)
                      \/ ~ GoodUpTo(tags, n + 1) /\ TagsKept(tags)[n + 1] = {}
    OBVIOUS
  <2>1. n + 1 \in 1 .. Len(tags) /\ n \in 0 .. Len(tags)
    BY <1>1
  <2>2. CASE GoodUpTo(tags, n) /\ Kept_(n)
    BY <2>1, <2>2, TagStep
  <2>3. CASE ~ GoodUpTo(tags, n) /\ TagsKept(tags)[n] = {}
    BY <2>1, <2>3, RefusedForGood
  <2> QED BY <2>1, <2>2, <2>3
<1>4. P(Len(tags))
  <2> HIDE DEF P
  <2>1. T \in SUBSET Nat /\ 0 \in T /\ \A n \in T : n + 1 \in T
    BY <1>2, <1>3
  <2>2. T = Nat
    <3> HIDE DEF T
    <3> QED BY <2>1, Induction
  <2> QED BY <1>1, <2>2
<1>5. DOMAIN tags = 1 .. Len(tags) /\ FirstsUpTo(tags, Len(tags)) = FirstTags(tags)
  BY DEF FirstsUpTo, FirstTags
<1>6. GoodUpTo(tags, Len(tags)) <=> GoodTags(tags)
  BY <1>5 DEF GoodUpTo, GoodTags, OkTag
<1>7. ASSUME NEW list, ListsUpTo(list, tags, Len(tags)), GoodTags(tags)
      PROVE  ListsFirsts(list, tags) /\ KeptTags(list)
  <2>1. list \in Seq(Text) /\ Len(list) \in Nat /\ DOMAIN list = 1 .. Len(list)
    BY <1>7 DEF ListsUpTo
  <2>2. PICK place \in [1 .. Len(list) -> FirstTags(tags)] :
           /\ \A i, j \in 1 .. Len(list) : i < j => place[i] < place[j]
           /\ \A k \in FirstTags(tags) : \E i \in 1 .. Len(list) : place[i] = k
           /\ \A i \in 1 .. Len(list) : list[i] = Trimmed(tags[place[i]])
    BY <1>5, <1>7 DEF ListsUpTo
  <2>3. ListsFirsts(list, tags)
    BY <2>1, <2>2 DEF ListsFirsts
  <2>4. Len(list) <= Limit.tags
    BY <1>1, <1>5, <1>7, ListLength DEF GoodTags
  <2>5. ASSUME NEW i \in 1 .. Len(list)
        PROVE  Trimmed(list[i]) = list[i] /\ list[i] # <<>> /\ OkTag(list[i])
    <3>1. place[i] \in DOMAIN tags /\ Trimmed(tags[place[i]]) # <<>> /\ tags[place[i]] \in Text
      BY <1>5, <2>2 DEF FirstTags
    <3>2. OkTag(Trimmed(tags[place[i]]))
      BY <1>7, <3>1 DEF GoodTags, OkTag
    <3> QED BY <2>2, <3>1, <3>2, TrimmedTwice
  <2>6. ASSUME NEW i \in 1 .. Len(list), NEW j \in 1 .. Len(list), i < j
        PROVE  Folded(list[i]) # Folded(list[j])
    <3>1. place[i] \in 1 .. Len(tags) /\ place[j] \in 1 .. Len(tags) /\ place[i] < place[j]
      BY <1>5, <2>2, <2>6 DEF FirstTags
    <3>2. place[i] \in 1 .. place[j] - 1
      BY <1>1, <3>1
    <3>3. Folded(Trimmed(tags[place[i]])) # Folded(Trimmed(tags[place[j]]))
      BY <2>2, <3>2 DEF FirstTags
    <3> QED BY <2>2, <3>3
  <2> QED BY <2>1, <2>3, <2>4, <2>5, <2>6 DEF KeptTags
<1>8. NormalizeTags(tags) = TagsKept(tags)[Len(tags)]
  BY DEF NormalizeTags
<1> QED BY <1>1, <1>4, <1>6, <1>7, <1>8

\* Kept tags that are sent back are kept as they are.
LEMMA TagsKeep ==
    ASSUME NEW u, KeptTags(u)
    PROVE  NormalizeTags(u) = {u}
<1> DEFINE P(n) == n \in 0 .. Len(u) => TagsKept(u)[n] = One(SubSeq(u, 1, n))
           T == {n \in Nat : P(n)}
<1>1. u \in Seq(Text) /\ Len(u) \in Nat /\ Len(u) <= Limit.tags /\ Limit.tags \in Nat
  BY LimitsAssumption DEF KeptTags
<1>2. P(0)
  <2>1. 0 \in 0 .. Len(u) => TagsKept(u)[0] = {<<>>}
    BY <1>1, TagsKeptDef
  <2>2. SubSeq(u, 1, 0) = <<>>
    BY <1>1
  <2> QED BY <2>1, <2>2 DEF One
<1>3. ASSUME NEW n \in Nat, n + 1 \in 1 .. Len(u), TagsKept(u)[n] = One(SubSeq(u, 1, n))
      PROVE  TagsKept(u)[n + 1] = One(SubSeq(u, 1, n + 1))
  <2>1. n + 1 \in 0 .. Len(u) /\ (n + 1) - 1 = n /\ n + 1 # 0
    BY <1>1, <1>3
  <2> DEFINE before == SubSeq(u, 1, n)
             t == u[n + 1]
  <2>2. TagsKept(u)[n + 1] = AddTag(One(before), t)
    BY <1>1, <1>3, <2>1, TagsKeptDef
  <2>3. Trimmed(t) = t /\ t # <<>> /\ OkTag(t)
    BY <1>3 DEF KeptTags
  <2>4. before \in Seq(Text) /\ Len(before) = n /\ \A i \in 1 .. n : before[i] = u[i]
    BY <1>1, <1>3
  <2>5. ~ \E i \in DOMAIN before : Folded(before[i]) = Folded(t)
    <3>1. \A i \in 1 .. n : i \in 1 .. Len(u) /\ i < n + 1
      BY <1>1, <1>3
    <3> HIDE DEF before
    <3>2. DOMAIN before = 1 .. n
      BY <2>4
    <3> QED BY <1>3, <2>4, <3>1, <3>2 DEF KeptTags
  <2>6. Append(before, t) = SubSeq(u, 1, n + 1) /\ Len(Append(before, t)) <= Limit.tags
    BY <1>1, <1>3
  <2> HIDE DEF before, t
  <2>7. AddTag(One(before), t) = {Append(before, t)}
    BY <2>3, <2>5, <2>6 DEF AddTag, One, OkTag
  <2> QED BY <2>2, <2>6, <2>7 DEF One
<1>4. \A n \in Nat : P(n) => P(n + 1)
  <2> SUFFICES ASSUME NEW n \in Nat, P(n), n + 1 \in 0 .. Len(u)
               PROVE  TagsKept(u)[n + 1] = One(SubSeq(u, 1, n + 1))
    OBVIOUS
  <2>1. n + 1 \in 1 .. Len(u) /\ n \in 0 .. Len(u)
    BY <1>1
  <2> QED BY <1>3, <2>1
<1>5. P(Len(u))
  <2> HIDE DEF P
  <2>1. T \in SUBSET Nat /\ 0 \in T /\ \A n \in T : n + 1 \in T
    BY <1>2, <1>4
  <2>2. T = Nat
    <3> HIDE DEF T
    <3> QED BY <2>1, Induction
  <2> QED BY <1>1, <2>2
<1>6. SubSeq(u, 1, Len(u)) = u
  BY <1>1
<1> QED BY <1>1, <1>5, <1>6 DEF One, NormalizeTags

-----------------------------------------------------------------------------
\* An optional value that counts as absent when it is blank.
LEMMA GivenKeep ==
    ASSUME NEW o \in SUBSET Text
    PROVE  /\ Given(o) \in SUBSET Text /\ Given(Given(o)) = Given(o)
           /\ \A k \in Urls(Given(o)) : k \in SUBSET Text /\ Urls(Given(k)) = {k}
<1>1. Given(o) \in SUBSET Text /\ Given(Given(o)) = Given(o)
  <2>1. \A t \in Given(o) : t \in Text /\ Trimmed(t) = t /\ t # <<>>
    BY TrimmedTwice DEF Given
  <2> DEFINE g == Given(o)
  <2> HIDE DEF g
  <2>2. Given(g) = g
    BY <2>1 DEF Given, g
  <2> QED BY <2>1, <2>2 DEF g
<1> QED BY <1>1, OptionsKeep

\* A user name or an address that was kept is kept again.
LEMMA ShortsKeep ==
    ASSUME NEW o \in SUBSET Text, NEW limit, NEW k \in Short(o, limit)
    PROVE  k \in SUBSET Text /\ Short(k, limit) = {k}
<1> DEFINE g == Given(o)
<1>1. k = g /\ \A t \in k : ~ Has(t, Control) /\ Bytes(t) <= limit
  BY DEF Short
<1>2. g \in SUBSET Text /\ Given(g) = g
  BY GivenKeep
<1> HIDE DEF g
<1> QED BY <1>1, <1>2 DEF Short

KeptAccount(a) ==
    /\ a \in AccountType
    /\ Name(a.name) = {a.name} /\ Labels(a.label) = {a.label}
    /\ Short(a.username, Limit.username) = {a.username}
    /\ Short(a.email, Limit.email) = {a.email}
    /\ Urls(Given(a.url)) = {a.url}
    /\ NormalizeTags(a.tags) = {a.tags} /\ Notes(a.notes) = {a.notes}

\* What is kept of an entered account is as the rules keep it.
LEMMA ValidAccountKeeps ==
    ASSUME NEW input \in AccountType, NEW a \in ValidAccount(input)
    PROVE  KeptAccount(a)
<1>1. /\ a = [name |-> a.name, label |-> a.label, username |-> a.username, email |-> a.email,
              url |-> a.url, tags |-> a.tags, notes |-> a.notes]
      /\ a.name \in Name(input.name) /\ a.label \in Labels(input.label)
      /\ a.username \in Short(input.username, Limit.username)
      /\ a.email \in Short(input.email, Limit.email)
      /\ a.url \in Urls(Given(input.url))
      /\ a.tags \in NormalizeTags(input.tags) /\ a.notes \in Notes(input.notes)
  BY DEF ValidAccount
<1>2. /\ input.name \in Text /\ input.label \in SUBSET Text /\ input.username \in SUBSET Text
      /\ input.email \in SUBSET Text /\ input.url \in SUBSET Text /\ input.tags \in Seq(Text)
      /\ input.notes \in Text
  BY DEF AccountType
<1>3. a.name \in Text /\ Name(a.name) = {a.name}
  BY <1>1, <1>2, RulesKeep
<1>4. a.label \in SUBSET Text /\ Labels(a.label) = {a.label}
  BY <1>1, <1>2, OptionsKeep
<1>5. a.username \in SUBSET Text /\ Short(a.username, Limit.username) = {a.username}
  <2>1. input.username \in SUBSET Text /\ a.username \in Short(input.username, Limit.username)
    BY <1>1, <1>2
  <2> QED BY <2>1, ShortsKeep, Zenon
<1>6. a.email \in SUBSET Text /\ Short(a.email, Limit.email) = {a.email}
  <2>1. input.email \in SUBSET Text /\ a.email \in Short(input.email, Limit.email)
    BY <1>1, <1>2
  <2> QED BY <2>1, ShortsKeep, Zenon
<1>7. a.url \in SUBSET Text /\ Urls(Given(a.url)) = {a.url}
  BY <1>1, <1>2, GivenKeep
<1>8. a.tags \in Seq(Text) /\ NormalizeTags(a.tags) = {a.tags}
  <2>1. KeptTags(a.tags)
    BY <1>1, <1>2, TagsAreFirsts DEF One
  <2> QED BY <2>1, TagsKeep DEF KeptTags
<1>9. a.notes \in Text /\ Notes(a.notes) = {a.notes}
  BY <1>1, <1>2 DEF Notes
<1>10. a \in AccountType
  BY <1>1, <1>3, <1>4, <1>5, <1>6, <1>7, <1>8, <1>9 DEF AccountType
<1> QED BY <1>3, <1>4, <1>5, <1>6, <1>7, <1>8, <1>9, <1>10 DEF KeptAccount

\* A kept account that is sent back: only its name can be refused.
LEMMA AccountComesBack ==
    ASSUME NEW a, KeptAccount(a), NEW name
    PROVE  LET copy == [a EXCEPT !.name = name] IN
           ValidAccount(copy) = {[copy EXCEPT !.name = n] : n \in Name(copy.name)}
<1> DEFINE copy == [a EXCEPT !.name = name]
           With(n) == [name |-> n, label |-> a.label, username |-> a.username, email |-> a.email,
                       url |-> a.url, tags |-> a.tags, notes |-> a.notes]
<1>1. copy = With(name)
  BY DEF KeptAccount, AccountType
<1>2. ASSUME NEW n
      PROVE  [copy EXCEPT !.name = n] = With(n)
  <2> HIDE DEF copy
  <2> QED BY <1>1
<1>3. \A b : b \in ValidAccount(copy) <=> \E n \in Name(name) : b = With(n)
  BY <1>1 DEF ValidAccount, KeptAccount
<1> HIDE DEF With
<1>4. ValidAccount(copy) = {With(n) : n \in Name(name)}
  BY <1>3
<1>5. copy.name = name
  BY <1>1 DEF With
<1> HIDE DEF copy
<1>6. {[copy EXCEPT !.name = n] : n \in Name(copy.name)} = {With(n) : n \in Name(name)}
  BY <1>2, <1>5
<1> QED BY <1>4, <1>6 DEF copy

\* The tags of an account are accepted or refused as a whole, whatever its
\* other values are.
TagsAsAWhole(input, accounts) ==
    LET tags == input.tags
        others == ValidAccount([input EXCEPT !.tags = <<>>])
    IN /\ \A a \in accounts :
             [a EXCEPT !.tags = <<>>] \in others /\ GoodTags(tags) /\ ListsFirsts(a.tags, tags)
       /\ GoodTags(tags) => others \subseteq {[a EXCEPT !.tags = <<>>] : a \in accounts}

\* It is so for every account that is entered.
LEMMA AccountTags ==
    ASSUME NEW input \in AccountType
    PROVE  TagsAsAWhole(input, ValidAccount(input))
<1> DEFINE tags == input.tags
           untagged == [input EXCEPT !.tags = <<>>]
           With(a, list) ==
             [name |-> a.name, label |-> a.label, username |-> a.username, email |-> a.email,
              url |-> a.url, tags |-> list, notes |-> a.notes]
           Rest(a) ==
             /\ a.name \in Name(input.name) /\ a.label \in Labels(input.label)
             /\ a.username \in Short(input.username, Limit.username)
             /\ a.email \in Short(input.email, Limit.email)
             /\ a.url \in Urls(Given(input.url)) /\ a.notes \in Notes(input.notes)
<1>1. tags \in Seq(Text)
  BY DEF AccountType
<1>2. NormalizeTags(<<>>) = {<<>>}
  <2>1. Limit.tags \in Nat /\ <<>> \in Seq(Text) /\ Len(<<>>) = 0
    BY LimitsAssumption
  <2>2. KeptTags(<<>>)
    BY <2>1 DEF KeptTags
  <2> QED BY <2>2, TagsKeep
<1>3. untagged = With(input, <<>>)
  BY DEF AccountType
<1>4. \A a : a \in ValidAccount(input) <=>
               a = With(a, a.tags) /\ Rest(a) /\ a.tags \in NormalizeTags(tags)
  BY DEF ValidAccount
<1>5. \A a : a \in ValidAccount(untagged) <=> a = With(a, <<>>) /\ Rest(a)
  <2> DEFINE u == With(input, <<>>)
  <2>1. \A a : a \in ValidAccount(u) <=> a = With(a, <<>>) /\ Rest(a)
    BY <1>2 DEF ValidAccount
  <2> QED BY <1>3, <2>1
<1>6. ASSUME NEW a, NEW l, NEW m
      PROVE  /\ [With(a, l) EXCEPT !.tags = m] = With(a, m)
             /\ With(With(a, l), m) = With(a, m)
             /\ Rest(With(a, l)) <=> Rest(a)
             /\ With(a, l).tags = l
  OBVIOUS
<1> HIDE DEF With, Rest, untagged
<1>7. ASSUME NEW a \in ValidAccount(input)
      PROVE  [a EXCEPT !.tags = <<>>] \in ValidAccount(untagged)
             /\ GoodTags(tags) /\ ListsFirsts(a.tags, tags)
  <2>1. a = With(a, a.tags) /\ Rest(a) /\ a.tags \in NormalizeTags(tags)
    BY <1>4
  <2>2. [a EXCEPT !.tags = <<>>] = With(a, <<>>)
    BY <1>6, <2>1
  <2>3. With(a, <<>>) \in ValidAccount(untagged)
    BY <1>5, <1>6, <2>1
  <2>4. GoodTags(tags) /\ ListsFirsts(a.tags, tags)
    BY <1>1, <2>1, TagsAreFirsts DEF One
  <2> QED BY <2>2, <2>3, <2>4
<1>8. ASSUME GoodTags(tags), NEW b \in ValidAccount(untagged)
      PROVE  \E a \in ValidAccount(input) : b = [a EXCEPT !.tags = <<>>]
  <2>1. b = With(b, <<>>) /\ Rest(b)
    BY <1>5
  <2>2. PICK list : list \in NormalizeTags(tags)
    BY <1>1, <1>8, TagsAreFirsts DEF One
  <2>3. With(b, list) \in ValidAccount(input)
    <3> DEFINE a == With(b, list)
    <3>1. a.tags = list /\ a = With(a, list) /\ Rest(a)
      BY <1>6, <2>1
    <3> HIDE DEF a
    <3>2. a \in ValidAccount(input)
      BY <1>4, <2>2, <3>1
    <3> QED BY <3>2 DEF a
  <2>4. [With(b, list) EXCEPT !.tags = <<>>] = With(b, <<>>)
    BY <1>6
  <2> QED BY <2>1, <2>3, <2>4
<1>9. GoodTags(tags) =>
        ValidAccount(untagged) \subseteq {[a EXCEPT !.tags = <<>>] : a \in ValidAccount(input)}
  BY <1>8
<1> QED BY <1>7, <1>9 DEF TagsAsAWhole, untagged

\* A kept profile has one line of arguments, an isolated one.
LEMMA LaunchesAreIsolated ==
    ASSUME NEW p, KeptProfile(p)
    PROVE  \E arguments : /\ Isolated(arguments)
                          /\ UNION {BuildArguments(Dir, p.urls, locale, <<>>) :
                                     locale \in Locales(p.locale)} = {arguments}
<1> DEFINE fixed == << <<"--user-data-dir=", Dir>>, <<"--no-first-run">>,
                       <<"--no-default-browser-check">> >>
           lang == [i \in 1 .. Cardinality(p.locale) |->
                       <<"--lang=">> \o (CHOOSE t \in p.locale : TRUE)]
           line == fixed \o lang \o <<>> \o p.urls
<1>1. p.urls \in Seq(Text) /\ p.locale \in SUBSET Text /\ Locales(p.locale) = {p.locale}
  BY DEF KeptProfile, ProfileType
<1>2. UNION {BuildArguments(Dir, p.urls, locale, <<>>) : locale \in Locales(p.locale)} = {line}
  <2>1. BuildArguments(Dir, p.urls, p.locale, <<>>) = {line}
    <3>1. ToSet(<<>>) \subseteq AllowedExtra
      BY DEF ToSet
    <3> HIDE DEF line
    <3>2. BuildArguments(Dir, p.urls, p.locale, <<>>) =
            {x \in {line} : ToSet(<<>>) \subseteq AllowedExtra}
      BY DEF BuildArguments, line
    <3> QED BY <3>1, <3>2
  <2> HIDE DEF line
  <2> QED BY <1>1, <2>1
<1>3. Cardinality(p.locale) \in Nat /\ \A i \in 1 .. Cardinality(p.locale) : lang[i][1] = "--lang="
  <2>1. CASE p.locale = {}
    BY <2>1, FS_EmptySet
  <2>2. ASSUME NEW t, p.locale = {t}
        PROVE  Cardinality(p.locale) \in Nat
               /\ \A i \in 1 .. Cardinality(p.locale) : lang[i][1] = "--lang="
    <3>1. Cardinality(p.locale) = 1
      BY <2>2, FS_Singleton
    <3>2. (CHOOSE x \in p.locale : TRUE) \in Text
      BY <1>1, <2>2
    <3>3. \A x \in Text : (<<"--lang=">> \o x)[1] = "--lang="
      BY DEF Text
    <3> QED BY <3>1, <3>2, <3>3
  <2>3. p.locale = {} \/ \E t : p.locale = {t}
    BY <1>1 DEF Locales, Optional
  <2> QED BY <2>1, <2>2, <2>3
<1>4. \A i \in DOMAIN p.urls : p.urls[i][1] \in WebScheme
  BY DEF KeptProfile, GoodUrl, HttpUrl
<1> DEFINE n == Cardinality(p.locale)
<1>5. /\ DOMAIN line = 1 .. 3 + n + Len(p.urls)
      /\ \A i \in 1 .. 3 : line[i] = fixed[i]
      /\ \A i \in 1 .. n : line[3 + i] = lang[i]
      /\ \A i \in 1 .. Len(p.urls) : line[3 + n + i] = p.urls[i]
  <2> DEFINE Args == {fixed[1], fixed[2], fixed[3]} \cup {lang[i] : i \in 1 .. n} \cup Text
  <2>1. fixed \in Seq(Args) /\ Len(fixed) = 3
    OBVIOUS
  <2>2. lang \in Seq(Args) /\ Len(lang) = n
    BY <1>3
  <2>3. p.urls \in Seq(Args)
    BY <1>1
  <2>4. n \in Nat
    BY <1>3
  <2> DEFINE start == fixed \o lang
             urls == p.urls
  <2> HIDE DEF fixed, lang, Args, n, urls
  <2>5. /\ start \in Seq(Args) /\ Len(start) = 3 + n
        /\ \A i \in 1 .. 3 : start[i] = fixed[i]
        /\ \A i \in 1 .. n : start[3 + i] = lang[i]
    <3>1. fixed \in Seq(Args) /\ lang \in Seq(Args)
      BY <2>1, <2>2
    <3>2. /\ start \in Seq(Args) /\ Len(start) = Len(fixed) + Len(lang)
          /\ \A i \in 1 .. Len(fixed) : start[i] = fixed[i]
          /\ \A i \in 1 .. Len(lang) : start[Len(fixed) + i] = lang[i]
      BY <3>1, Concatenation
    <3> HIDE DEF start
    <3> QED BY <2>1, <2>2, <3>2
  <2> HIDE DEF start
  <2>6. start \o <<>> = start
    BY <2>5
  <2>7. /\ DOMAIN (start \o p.urls) = 1 .. 3 + n + Len(p.urls)
        /\ \A i \in 1 .. 3 + n : (start \o p.urls)[i] = start[i]
        /\ \A i \in 1 .. Len(p.urls) : (start \o p.urls)[3 + n + i] = p.urls[i]
    <3> DEFINE all == start \o urls
    <3>1. start \in Seq(Args) /\ urls \in Seq(Args)
      BY <2>3, <2>5 DEF urls
    <3>2. /\ DOMAIN all = 1 .. Len(start) + Len(urls)
          /\ \A i \in 1 .. Len(start) : all[i] = start[i]
          /\ \A i \in 1 .. Len(urls) : all[Len(start) + i] = urls[i]
      BY <3>1, Concatenation
    <3> HIDE DEF all
    <3>3. /\ DOMAIN all = 1 .. 3 + n + Len(urls)
          /\ \A i \in 1 .. 3 + n : all[i] = start[i]
          /\ \A i \in 1 .. Len(urls) : all[3 + n + i] = urls[i]
      BY <2>5, <3>2
    <3> QED BY <3>3 DEF all, urls
  <2>8. line = start \o p.urls
    BY <2>6 DEF start
  <2> HIDE DEF line
  <2>9. \A i \in 1 .. 3 : i \in 1 .. 3 + n
    BY <2>4
  <2>10. \A i \in 1 .. n : 3 + i \in 1 .. 3 + n
    BY <2>4
  <2> QED BY <2>5, <2>7, <2>8, <2>9, <2>10
<1>6. Isolated(line)
  <2> SUFFICES ASSUME NEW i \in 1 .. 3 + n + Len(p.urls)
               PROVE  \/ i = 1 /\ line[i] = <<"--user-data-dir=", Dir>>
                      \/ line[i] \in {<<"--no-first-run">>, <<"--no-default-browser-check">>}
                      \/ line[i][1] = "--lang="
                      \/ line[i][1] \in WebScheme
    BY <1>5 DEF Isolated
  <2>1. CASE i \in 1 .. 3
    <3> HIDE DEF line
    <3> QED BY <1>5, <2>1
  <2>2. CASE i \in 4 .. 3 + n
    <3>1. i - 3 \in 1 .. n /\ 3 + (i - 3) = i
      BY <1>3, <2>2
    <3> HIDE DEF line, lang
    <3> QED BY <1>3, <1>5, <3>1
  <2>3. CASE i \in 4 + n .. 3 + n + Len(p.urls)
    <3>1. i - (3 + n) \in 1 .. Len(p.urls) /\ 3 + n + (i - (3 + n)) = i
      BY <1>1, <1>3, <2>3
    <3> HIDE DEF line
    <3> QED BY <1>1, <1>4, <1>5, <3>1
  <2> QED BY <1>1, <1>3, <2>1, <2>2, <2>3
<1> QED BY <1>2, <1>6

-----------------------------------------------------------------------------
\* What a launch and a download say of their input.
Fit(pinned, layout) == layout.installed \cap (IF pinned = {} THEN layout.current ELSE pinned)
LaunchOf(input, plans) ==
    /\ plans = {} <=> Fit(input.profile.version, input.layout) = {}
    /\ \A plan \in plans : /\ plan.version \in Fit(input.profile.version, input.layout)
                           /\ Isolated(plan.arguments)
RouteOf(option, routes) ==
    /\ routes \subseteq {Given(option)}
    /\ routes = {} => Given(option) \cap Unparsable # {}

LEMMA LaunchesFit ==
    ASSUME NEW p, KeptProfile(p), NEW layout
    PROVE  LaunchOf([profile |-> p, layout |-> layout], PlanLaunch(Dir, p, layout))
<1> DEFINE named == IF p.version = {} THEN layout.current ELSE p.version
           lines == UNION {BuildArguments(Dir, p.urls, locale, <<>>) : locale \in Locales(p.locale)}
<1>1. PICK arguments : Isolated(arguments) /\ lines = {arguments}
  BY LaunchesAreIsolated
<1>2. PlanLaunch(Dir, p, layout) =
        {[version |-> v, arguments |-> line] : v \in named \cap layout.installed, line \in lines}
  BY DEF PlanLaunch
<1>3. Fit(p.version, layout) = named \cap layout.installed
  BY DEF Fit
<1> HIDE DEF named, lines
<1>4. \A plan : plan \in PlanLaunch(Dir, p, layout) <=>
                 \E v \in Fit(p.version, layout) : plan = [version |-> v, arguments |-> arguments]
  BY <1>1, <1>2, <1>3
<1> DEFINE input == [profile |-> p, layout |-> layout]
           plans == PlanLaunch(Dir, p, layout)
<1>5. input.profile.version = p.version /\ input.layout = layout
  OBVIOUS
<1> HIDE DEF input, plans
<1>6. \A plan \in plans : plan.version \in Fit(p.version, layout) /\ Isolated(plan.arguments)
  BY <1>1, <1>4 DEF plans
<1>7. plans = {} <=> Fit(p.version, layout) = {}
  BY <1>4 DEF plans
<1>8. LaunchOf(input, plans)
  BY <1>5, <1>6, <1>7 DEF LaunchOf
<1> QED BY <1>8 DEF input, plans

\* What is kept is as its rules keep it, and what a command works on was kept.
UsableInv ==
    /\ given.kind = "profile" => \A p \in kept : KeptProfile(p)
    /\ given.kind = "account" =>
          /\ given.input \in AccountInput /\ kept = ValidAccount(given.input)
          /\ \A a \in kept : KeptAccount(a)
    /\ given.kind = "settings" => \A s \in kept : \A proxy \in s.proxy : ValidProxy(proxy)
    /\ given.kind = "profile copy" =>
          kept = {[given.input EXCEPT !.name = name] : name \in Name(given.input.name)}
    /\ given.kind = "account copy" =>
          kept = {[given.input EXCEPT !.name = name] : name \in Name(given.input.name)}
    /\ given.kind = "launch" => LaunchOf(given.input, kept)
    /\ given.kind = "download" => RouteOf(given.input.proxy, kept)
    /\ given.kind = "probe" /\ kept # {} =>
          /\ Given(given.input) \cap Unparsable = {}
          /\ \A p \in given.input : Trimmed(p) = <<>> \/ ValidProxy(p)

\* At first nothing is given.
LEMMA UsableInvInit == InputsInit => UsableInv
BY DEF InputsInit, Nothing, UsableInv

\* Every command keeps it.
LEMMA UsableInvStep ==
    ASSUME UsableInv, [InputsNext]_ivars
    PROVE  UsableInv'
<1> USE DEF UsableInv, Command
<1>1. ASSUME NEW input \in ProfileInput, CreateProfile(input)
      PROVE  UsableInv'
  <2>1. \A p \in ValidProfile(input) : KeptProfile(p)
    BY InputTypes, ValidProfileKeeps
  <2> QED BY <1>1, <2>1 DEF CreateProfile
<1>2. ASSUME NEW input \in AccountInput, CreateAccount(input)
      PROVE  UsableInv'
  <2>1. \A a \in ValidAccount(input) : KeptAccount(a)
    BY InputTypes, ValidAccountKeeps
  <2> QED BY <1>2, <2>1 DEF CreateAccount
<1>3. ASSUME NEW input \in SettingsInput, SaveSettings(input)
      PROVE  UsableInv'
  <2>1. \A s \in ValidSettings(input) : \A proxy \in s.proxy : ValidProxy(proxy)
    BY DEF ValidSettings
  <2> QED BY <1>3, <2>1 DEF SaveSettings
<1>4. ASSUME NEW proxy \in ProbedProxy, NEW answers \in ProbeAnswers, ProbeProxy(proxy, answers)
      PROVE  UsableInv'
  <2>1. TestProxy(proxy, answers) # {} =>
          /\ Given(proxy) \cap Unparsable = {}
          /\ \A p \in proxy : Trimmed(p) = <<>> \/ ValidProxy(p)
    BY DEF TestProxy, Route, Given
  <2> QED BY <1>4, <2>1 DEF ProbeProxy
<1>5. ASSUME NEW p, KeptProfile(p), NEW name,
             LET copy == [p EXCEPT !.name = name]
             IN Command("profile copy", copy, ValidProfile(copy))
      PROVE  UsableInv'
  <2> DEFINE copy == [p EXCEPT !.name = name]
  <2> HIDE DEF UsableInv, Command
  <2>1. ValidProfile(copy) = {[copy EXCEPT !.name = n] : n \in Name(copy.name)}
    BY <1>5, ProfileComesBack
  <2>2. Command("profile copy", copy, ValidProfile(copy))
    BY <1>5
  <2> HIDE DEF copy
  <2> QED BY <2>1, <2>2 DEF UsableInv, Command
<1>6. ASSUME NEW a, KeptAccount(a), NEW name,
             LET copy == [a EXCEPT !.name = name]
             IN Command("account copy", copy, ValidAccount(copy))
      PROVE  UsableInv'
  <2> DEFINE copy == [a EXCEPT !.name = name]
  <2>1. ValidAccount(copy) = {[copy EXCEPT !.name = n] : n \in Name(copy.name)}
    BY <1>6, AccountComesBack
  <2>2. Command("account copy", copy, ValidAccount(copy))
    BY <1>6
  <2> HIDE DEF copy
  <2> QED BY <2>1, <2>2
<1>7. ASSUME NEW p, KeptProfile(p), NEW layout,
             Command("launch", [profile |-> p, layout |-> layout], PlanLaunch(Dir, p, layout))
      PROVE  UsableInv'
  BY <1>7, LaunchesFit
<1>8. CASE StartDownload
  <2>1. PICK s \in Kept("settings") : Command("download", s, Route(s))
    BY <1>8 DEF StartDownload
  <2>2. \A proxy \in s.proxy : ValidProxy(proxy)
    BY <2>1 DEF Kept
  <2>3. RouteOf(s.proxy, Route(s))
    BY <2>2 DEF Route, RouteOf
  <2> QED BY <2>1, <2>3
<1>0. ASSUME NEW kind \in {"uri", "image", "answers", "code"}, NEW input, NEW value,
             Command(kind, input, value)
      PROVE  UsableInv'
  BY <1>0
<1>9. /\ \A p \in Kept("profile") : KeptProfile(p)
      /\ \A a \in Kept("account") : KeptAccount(a)
  BY DEF Kept
<1>10. CASE Answered
  BY <1>10 DEF Answered, Nothing
<1>11. CASE UNCHANGED ivars
  BY <1>11 DEF ivars
<1> HIDE DEF UsableInv, Command
<1>12. ASSUME NEW input,
              ImportUri(input) \/ ImportImage(input) \/ Discover(input) \/ ShowCode(input)
       PROVE  UsableInv'
  BY <1>0, <1>12 DEF ImportUri, ImportImage, Discover, ShowCode
<1>13. ASSUME NEW name, UpdateProfile(name)
       PROVE  UsableInv'
  BY <1>5, <1>9, <1>13 DEF UpdateProfile
<1>14. ASSUME NEW name, UpdateAccount(name)
       PROVE  UsableInv'
  BY <1>6, <1>9, <1>14 DEF UpdateAccount
<1>15. CASE ResaveProfile
  <2>1. PICK p \in Kept("profile") : Command("profile copy", p, ValidProfile(p))
    BY <1>15 DEF ResaveProfile
  <2>2. KeptProfile(p) /\ [p EXCEPT !.name = p.name] = p
    BY <1>9 DEF KeptProfile, ProfileType
  <2> QED BY <1>5, <2>1, <2>2
<1>16. CASE ResaveAccount
  <2>1. PICK a \in Kept("account") : Command("account copy", a, ValidAccount(a))
    BY <1>16 DEF ResaveAccount
  <2>2. KeptAccount(a) /\ [a EXCEPT !.name = a.name] = a
    BY <1>9 DEF KeptAccount, AccountType
  <2> QED BY <1>6, <2>1, <2>2
<1>17. CASE LaunchProfile
  BY <1>7, <1>9, <1>17 DEF LaunchProfile
<1> QED BY <1>1, <1>2, <1>3, <1>4, <1>8, <1>10, <1>11, <1>12, <1>13, <1>14, <1>15, <1>16, <1>17
        DEF InputsNext

\* The rules agree, for texts and lists of every length: copies come back
\* unharmed, a stored profile is launched, isolated, exactly when the version it
\* names is installed, a saved proxy is never passed by, and tags stand or fall
\* together (validation.rs, account.rs, profile.rs, settings.rs, services.rs).
THEOREM RulesAlwaysAgree == InputsSpec => []RulesAgree
<1>1. UsableInv => RulesAgree
  <2> SUFFICES ASSUME UsableInv PROVE RulesAgree
    OBVIOUS
  <2>1. given.kind = "account" => TagsAsAWhole(given.input, kept)
    BY AccountTags, InputTypes DEF UsableInv
  <2>2. given.kind = "launch" => LaunchOf(given.input, kept)
    BY DEF UsableInv
  <2>3. given.kind = "download" => RouteOf(given.input.proxy, kept)
    BY DEF UsableInv
  <2> QED BY <2>1, <2>2, <2>3 DEF UsableInv, RulesAgree, TagsAsAWhole, LaunchOf, Fit, RouteOf
<1> QED BY <1>1, UsableInvInit, UsableInvStep, PTL DEF InputsSpec

-----------------------------------------------------------------------------
(* The options offered *)

\* AssetsRead is the function its definition describes.
LEMMA AssetsReadDef ==
    ASSUME NEW S, NEW s \in Seq(S)
    PROVE  \A n \in 0 .. Len(s) :
              AssetsRead(s)[n] = IF n = 0 THEN {[version |-> {}, assets |-> <<>>]}
                                 ELSE ReadAsset(AssetsRead(s)[n - 1], s[n])
<1> DEFINE Base == {[version |-> {}, assets |-> <<>>]}
           Step(f, n) == IF n = 0 THEN Base ELSE ReadAsset(f[n - 1], s[n])
           Folds(N) == \E f : f = [n \in 0 .. N |-> Step(f, n)]
           T == {N \in Nat : Folds(N)}
<1> HIDE DEF Base
<1>1. Folds(0)
  <2> DEFINE f == [n \in 0 .. 0 |-> Base]
  <2>1. f = [n \in 0 .. 0 |-> Step(f, n)]
    OBVIOUS
  <2> QED BY <2>1
<1>2. ASSUME NEW N \in Nat, Folds(N)
      PROVE  Folds(N + 1)
  <2>1. PICK f : f = [n \in 0 .. N |-> Step(f, n)]
    BY <1>2
  <2> DEFINE g == [n \in 0 .. N + 1 |-> IF n = N + 1 THEN ReadAsset(f[N], s[N + 1]) ELSE f[n]]
  <2>2. \A n \in 0 .. N : f[n] = Step(f, n)
    BY <2>1
  <2>3. ASSUME NEW n \in 0 .. N + 1
        PROVE  g[n] = Step(g, n)
    <3>1. CASE n = N + 1
      BY <3>1
    <3>2. CASE n \in 0 .. N
      BY <2>2, <3>2
    <3> QED BY <3>1, <3>2
  <2>4. g = [n \in 0 .. N + 1 |-> Step(g, n)]
    BY <2>3
  <2> QED BY <2>4
<1> HIDE DEF Folds
<1>3. T = Nat
  <2>1. T \in SUBSET Nat /\ 0 \in T /\ \A N \in T : N + 1 \in T
    BY <1>1, <1>2
  <2> HIDE DEF T
  <2> QED BY <2>1, Induction
<1>4. Folds(Len(s))
  BY <1>3
<1>5. AssetsRead(s) = [n \in 0 .. Len(s) |-> Step(AssetsRead(s), n)]
  BY <1>4 DEF AssetsRead, Folds, Base
<1> QED BY <1>5 DEF Base

\* Found is the function its definition describes.
LEMMA FoundDef ==
    ASSUME NEW answers, Len(Sources) \in Nat
    PROVE  \A n \in 0 .. Len(Sources) :
              Found(answers)[n] =
                IF n = 0 THEN {<<>>}
                ELSE Ask(Found(answers)[n - 1], Sources[n], answers[Sources[n]])
<1> DEFINE Step(f, n) ==
             IF n = 0 THEN {<<>>} ELSE Ask(f[n - 1], Sources[n], answers[Sources[n]])
           Folds(N) == \E f : f = [n \in 0 .. N |-> Step(f, n)]
           T == {N \in Nat : Folds(N)}
<1>1. Folds(0)
  <2> DEFINE f == [n \in 0 .. 0 |-> {<<>>}]
  <2>1. f = [n \in 0 .. 0 |-> Step(f, n)]
    OBVIOUS
  <2> QED BY <2>1
<1>2. ASSUME NEW N \in Nat, Folds(N)
      PROVE  Folds(N + 1)
  <2>1. PICK f : f = [n \in 0 .. N |-> Step(f, n)]
    BY <1>2
  <2> DEFINE g == [n \in 0 .. N + 1 |-> IF n = N + 1 THEN Step(f, n) ELSE f[n]]
  <2>2. \A n \in 0 .. N : f[n] = Step(f, n)
    BY <2>1
  <2>3. ASSUME NEW n \in 0 .. N + 1
        PROVE  g[n] = Step(g, n)
    <3>1. CASE n = N + 1
      BY <3>1
    <3>2. CASE n \in 0 .. N
      BY <2>2, <3>2
    <3> QED BY <3>1, <3>2
  <2>4. g = [n \in 0 .. N + 1 |-> Step(g, n)]
    BY <2>3
  <2> QED BY <2>4
<1> HIDE DEF Folds
<1>3. T = Nat
  <2>1. T \in SUBSET Nat /\ 0 \in T /\ \A N \in T : N + 1 \in T
    BY <1>1, <1>2
  <2> HIDE DEF T
  <2> QED BY <2>1, Induction
<1>4. Folds(Len(Sources))
  BY <1>3
<1>5. Found(answers) = [n \in 0 .. Len(Sources) |-> Step(Found(answers), n)]
  BY <1>4 DEF Found, Folds
<1> QED BY <1>5

-----------------------------------------------------------------------------
\* What the name of an asset says, and what is kept of a portable one.
PortableOf(asset) == UNION {ParsePortableZip(name) : name \in asset.name}
ParsedOf(asset) == CHOOSE x \in PortableOf(asset) : TRUE
FoundOf(asset) == [variant |-> ParsedOf(asset).variant, url |-> asset.url, size |-> asset.size]
Reading(version, assets) == [version |-> version, assets |-> assets]

\* The name of an asset says at most one thing, with a variant of the list.
LEMMA PortableOnce ==
    ASSUME NEW asset \in AssetType
    PROVE  /\ PortableOf(asset) # {} =>
                PortableOf(asset) = One(ParsedOf(asset)) /\ ParsedOf(asset).variant \in Variant
           /\ asset.name = {} => PortableOf(asset) = {}
<1>1. asset.name = {} \/ \E x : asset.name = {x}
  BY DEF AssetType, Optionally
<1>2. CASE asset.name = {}
  BY <1>2 DEF PortableOf
<1>3. ASSUME NEW x, asset.name = {x}
      PROVE  PortableOf(asset) # {} =>
                PortableOf(asset) = One(ParsedOf(asset)) /\ ParsedOf(asset).variant \in Variant
  <2>1. PortableOf(asset) = ParsePortableZip(x)
    BY <1>3 DEF PortableOf
  <2>2. ParsePortableZip(x) # {} =>
          x.token \in Variant /\ ParsePortableZip(x) = {[version |-> x.parts, variant |-> x.token]}
    BY DEF ParsePortableZip
  <2> HIDE DEF Variant
  <2> QED BY <2>1, <2>2 DEF ParsedOf, One
<1> QED BY <1>1, <1>2, <1>3

\* One asset more: passed over, the end of the release, or one more option.
LEMMA ReadAssetSays ==
    ASSUME NEW asset \in AssetType, NEW v, NEW list
    PROVE  /\ ReadAsset({}, asset) = {}
           /\ asset.name # {} /\ PortableOf(asset) = {} =>
                ReadAsset(One(Reading(v, list)), asset) = One(Reading(v, list))
           /\ asset.name = {} \/ (PortableOf(asset) # {} /\ Fatal(asset)) =>
                ReadAsset(One(Reading(v, list)), asset) = {}
           /\ PortableOf(asset) # {} /\ ~ Fatal(asset) =>
                ReadAsset(One(Reading(v, list)), asset) =
                  One(Reading(IF v = {} THEN One(ParsedOf(asset).version) ELSE v,
                              IF Usable(asset) THEN Append(list, FoundOf(asset)) ELSE list))
<1> DEFINE p == ParsedOf(asset)
           r == Reading(v, list)
           portable == PortableOf(asset)
           Versioned(s, q) == IF s.version = {} THEN [s EXCEPT !.version = {q.version}] ELSE s
           Taken(q) == [variant |-> q.variant, url |-> asset.url, size |-> asset.size]
           Step(s, q) == IF Usable(asset)
                         THEN [Versioned(s, q) EXCEPT !.assets = Append(@, Taken(q))]
                         ELSE Versioned(s, q)
<1>1. asset.name = {} => portable = {}
  BY PortableOnce
<1>2. portable # {} => portable = {p} 
  BY PortableOnce DEF One
<1>3. \A read : ReadAsset(read, asset) =
         CASE asset.name # {} /\ portable = {} -> read
           [] portable # {} /\ Fatal(asset) -> {}
           [] OTHER -> {Step(s, q) : s \in read, q \in portable}
  BY DEF ReadAsset, PortableOf
<1>4. Step(r, p) = Reading(IF v = {} THEN One(p.version) ELSE v,
                            IF Usable(asset) THEN Append(list, FoundOf(asset)) ELSE list)
  <2> HIDE DEF p
  <2>1. CASE v = {}
    BY <2>1 DEF Reading, One, FoundOf, p
  <2>2. CASE v # {}
    BY <2>2 DEF Reading, FoundOf, p
  <2> QED BY <2>1, <2>2
<1> HIDE DEF Step, portable, p, r
<1>5. ReadAsset({}, asset) = {}
  BY <1>3
<1>6. asset.name # {} /\ portable = {} => ReadAsset(One(r), asset) = One(r)
  BY <1>3
<1>7. portable # {} /\ Fatal(asset) => ReadAsset(One(r), asset) = {}
  BY <1>3
<1>8. asset.name = {} => ReadAsset(One(r), asset) = {}
  BY <1>1, <1>3
<1>9. portable # {} /\ ~ Fatal(asset) => ReadAsset(One(r), asset) = One(Step(r, p))
  <2>1. \A s, q : {Step(a, b) : a \in {s}, b \in {q}} = {Step(s, q)}
    OBVIOUS
  <2> QED BY <1>2, <1>3, <2>1 DEF One
<1> QED BY <1>4, <1>5, <1>6, <1>7, <1>8, <1>9 DEF portable, p, r

\* A release after some of its assets: whether they take it away, which of
\* them become options, the version, and the list of the options.
BadUpTo(assets, n) ==
    \E k \in 1 .. n :
       assets[k].name = {} \/ (PortableOf(assets[k]) # {} /\ Fatal(assets[k]))
TakenUpTo(assets, n) == {k \in 1 .. n : PortableOf(assets[k]) # {} /\ Usable(assets[k])}
FirstVersion(v, assets, n) ==
    \/ v = {} /\ \A k \in 1 .. n : PortableOf(assets[k]) = {}
    \/ \E k \in 1 .. n :
          /\ v = One(ParsedOf(assets[k]).version) /\ PortableOf(assets[k]) # {}
          /\ \A o \in 1 .. k - 1 : PortableOf(assets[o]) = {}
ListsTaken(list, assets, n) ==
    /\ list \in Seq({FoundOf(assets[k]) : k \in DOMAIN assets})
    /\ \E place \in [1 .. Len(list) -> TakenUpTo(assets, n)] :
          /\ \A i, j \in 1 .. Len(list) : i < j => place[i] < place[j]
          /\ \A k \in TakenUpTo(assets, n) : \E i \in 1 .. Len(list) : place[i] = k
          /\ \A i \in 1 .. Len(list) : list[i] = FoundOf(assets[place[i]])

\* One asset more is passed over or adds its option to the list.
LEMMA TakenStep ==
    ASSUME NEW assets \in Seq(AssetType), NEW n \in Nat, n + 1 \in 1 .. Len(assets),
           NEW list, ListsTaken(list, assets, n)
    PROVE  /\ n + 1 \notin TakenUpTo(assets, n + 1) => ListsTaken(list, assets, n + 1)
           /\ n + 1 \in TakenUpTo(assets, n + 1) =>
                 ListsTaken(Append(list, FoundOf(assets[n + 1])), assets, n + 1)
<1> DEFINE F == TakenUpTo(assets, n)
           G == TakenUpTo(assets, n + 1)
           x == FoundOf(assets[n + 1])
           All == {FoundOf(assets[k]) : k \in DOMAIN assets}
<1>1. list \in Seq(All) /\ Len(list) \in Nat /\ x \in All
  <2>1. n + 1 \in DOMAIN assets
    OBVIOUS
  <2> QED BY <2>1 DEF ListsTaken
<1>2. PICK place \in [1 .. Len(list) -> F] :
         /\ \A i, j \in 1 .. Len(list) : i < j => place[i] < place[j]
         /\ \A k \in F : \E i \in 1 .. Len(list) : place[i] = k
         /\ \A i \in 1 .. Len(list) : list[i] = FoundOf(assets[place[i]])
  BY DEF ListsTaken
<1>3. CASE n + 1 \notin G
  <2>1. G = F
    BY <1>3 DEF TakenUpTo
  <2> QED BY <1>3, <2>1 DEF ListsTaken
<1>4. CASE n + 1 \in G
  <2>1. G = F \cup {n + 1} /\ n + 1 \notin F
    BY <1>4 DEF TakenUpTo
  <2> DEFINE new == Append(list, x)
             at == [i \in 1 .. Len(list) + 1 |-> IF i = Len(list) + 1 THEN n + 1 ELSE place[i]]
  <2>2. /\ new \in Seq(All) /\ Len(new) = Len(list) + 1 /\ new[Len(list) + 1] = x
        /\ \A i \in 1 .. Len(list) : new[i] = list[i]
    <3> HIDE DEF All, x
    <3> QED BY <1>1, AppendText
  <2>3. \A i \in 1 .. Len(list) : place[i] \in Nat /\ place[i] <= n
    BY <1>2 DEF TakenUpTo
  <2>4. at[Len(list) + 1] = n + 1 /\ \A i \in 1 .. Len(list) : at[i] = place[i]
    BY <1>1
  <2>5. at \in [1 .. Len(list) + 1 -> G]
    BY <1>1, <1>2, <2>1
  <2>6. \A i \in 1 .. Len(list) + 1 : i \in 1 .. Len(list) \/ i = Len(list) + 1
    BY <1>1
  <2> HIDE DEF at, new, F, G, x
  <2>7. ASSUME NEW i \in 1 .. Len(list) + 1, NEW j \in 1 .. Len(list) + 1, i < j
        PROVE  at[i] < at[j]
    <3>1. i \in 1 .. Len(list)
      BY <1>1, <2>7
    <3>2. CASE j \in 1 .. Len(list)
      BY <1>2, <2>4, <2>7, <3>1, <3>2
    <3>3. CASE j = Len(list) + 1
      BY <2>3, <2>4, <3>1, <3>3
    <3> QED BY <2>6, <3>2, <3>3
  <2>8. \A k \in G : \E i \in 1 .. Len(list) + 1 : at[i] = k
    <3>1. Len(list) + 1 \in 1 .. Len(list) + 1 /\ \A i \in 1 .. Len(list) : i \in 1 .. Len(list) + 1
      BY <1>1
    <3> QED BY <1>2, <2>1, <2>4, <3>1
  <2>9. \A i \in 1 .. Len(list) + 1 : new[i] = FoundOf(assets[at[i]])
    BY <1>2, <2>2, <2>4, <2>6 DEF x
  <2>10. new \in Seq({FoundOf(assets[k]) : k \in DOMAIN assets})
    BY <2>2
  <2>11. ListsTaken(new, assets, n + 1)
    <3> HIDE DEF All
    <3>1. at \in [1 .. Len(new) -> TakenUpTo(assets, n + 1)]
      BY <2>2, <2>5 DEF G
    <3>2. \A i, j \in 1 .. Len(new) : i < j => at[i] < at[j]
      BY <2>2, <2>7
    <3>3. \A k \in TakenUpTo(assets, n + 1) : \E i \in 1 .. Len(new) : at[i] = k
      BY <2>2, <2>8 DEF G
    <3>4. \A i \in 1 .. Len(new) : new[i] = FoundOf(assets[at[i]])
      BY <2>2, <2>9
    <3> QED BY <2>10, <3>1, <3>2, <3>3, <3>4 DEF ListsTaken
  <2> QED BY <1>4, <2>11 DEF new, x, G
<1> QED BY <1>3, <1>4

\* What is read of a release after each number of assets.
LEMMA AssetsReadSay ==
    ASSUME NEW assets \in Seq(AssetType)
    PROVE  \A n \in 0 .. Len(assets) :
              \/ BadUpTo(assets, n) /\ AssetsRead(assets)[n] = {}
              \/ /\ ~ BadUpTo(assets, n)
                 /\ \E v, list : /\ AssetsRead(assets)[n] = One(Reading(v, list))
                                 /\ FirstVersion(v, assets, n) /\ ListsTaken(list, assets, n)
<1> DEFINE Ends(n) == BadUpTo(assets, n) /\ AssetsRead(assets)[n] = {}
           Reads(n) == /\ ~ BadUpTo(assets, n)
                       /\ \E v, list : /\ AssetsRead(assets)[n] = One(Reading(v, list))
                                       /\ FirstVersion(v, assets, n)
                                       /\ ListsTaken(list, assets, n)
           P(n) == n \in 0 .. Len(assets) => Ends(n) \/ Reads(n)
           T == {n \in Nat : P(n)}
<1>1. Len(assets) \in Nat
  OBVIOUS
<1>2. P(0)
  <2>1. AssetsRead(assets)[0] = One(Reading({}, <<>>))
    <3>1. 0 \in 0 .. Len(assets)
      BY <1>1
    <3> QED BY <3>1, AssetsReadDef DEF One, Reading
  <2>2. ~ BadUpTo(assets, 0) /\ FirstVersion({}, assets, 0)
    BY DEF BadUpTo, FirstVersion
  <2>3. ListsTaken(<<>>, assets, 0)
    <3>1. \A S : <<>> \in Seq(S) /\ Len(<<>>) = 0
      OBVIOUS
    <3>2. TakenUpTo(assets, 0) = {}
      BY DEF TakenUpTo
    <3>3. [i \in 1 .. 0 |-> i] \in [1 .. 0 -> {}]
      OBVIOUS
    <3> QED BY <3>1, <3>2, <3>3 DEF ListsTaken
  <2> QED BY <2>1, <2>2, <2>3
<1>3. ASSUME NEW n \in Nat, n + 1 \in 1 .. Len(assets), Ends(n) \/ Reads(n)
      PROVE  Ends(n + 1) \/ Reads(n + 1)
  <2> DEFINE asset == assets[n + 1]
  <2>1. /\ asset \in AssetType
        /\ AssetsRead(assets)[n + 1] = ReadAsset(AssetsRead(assets)[n], asset)
    <3>1. n + 1 \in 0 .. Len(assets) /\ (n + 1) - 1 = n /\ n + 1 # 0
      BY <1>1, <1>3
    <3>2. AssetsRead(assets)[n + 1] = ReadAsset(AssetsRead(assets)[n], asset)
      BY <3>1, AssetsReadDef
    <3> QED BY <1>3, <3>2
  <2>2. BadUpTo(assets, n + 1) <=>
          \/ BadUpTo(assets, n)
          \/ asset.name = {} \/ (PortableOf(asset) # {} /\ Fatal(asset))
    <3>1. n + 1 \in 1 .. n + 1 /\ \A k \in 1 .. n : k \in 1 .. n + 1
      OBVIOUS
    <3>2. \A k \in 1 .. n + 1 : k \in 1 .. n \/ k = n + 1
      OBVIOUS
    <3> QED BY <3>1, <3>2 DEF BadUpTo
  <2> HIDE DEF asset
  <2>3. CASE Ends(n)
    BY <2>1, <2>2, <2>3, ReadAssetSays
  <2>4. CASE Reads(n)
    <3>1. PICK v, list : /\ AssetsRead(assets)[n] = One(Reading(v, list))
                         /\ FirstVersion(v, assets, n) /\ ListsTaken(list, assets, n)
      BY <2>4
    <3>2. CASE asset.name = {} \/ (PortableOf(asset) # {} /\ Fatal(asset))
      BY <2>1, <2>2, <3>1, <3>2, ReadAssetSays
    <3>3. CASE asset.name # {} /\ PortableOf(asset) = {}
      <4>1. AssetsRead(assets)[n + 1] = One(Reading(v, list)) /\ ~ BadUpTo(assets, n + 1)
        BY <2>1, <2>2, <2>4, <3>1, <3>3, ReadAssetSays
      <4>2. FirstVersion(v, assets, n + 1)
        <5>1. \A k \in 1 .. n + 1 : k \in 1 .. n \/ k = n + 1
          OBVIOUS
        <5>2. \A k \in 1 .. n : k \in 1 .. n + 1
          OBVIOUS
        <5> QED BY <3>1, <3>3, <5>1, <5>2 DEF FirstVersion, asset
      <4>3. ListsTaken(list, assets, n + 1)
        <5>1. n + 1 \notin TakenUpTo(assets, n + 1)
          BY <3>3 DEF TakenUpTo, asset
        <5> QED BY <1>3, <3>1, <5>1, TakenStep
      <4> QED BY <4>1, <4>2, <4>3
    <3>4. CASE asset.name # {} /\ PortableOf(asset) # {} /\ ~ Fatal(asset)
      <4> DEFINE w == IF v = {} THEN One(ParsedOf(asset).version) ELSE v
                 new == IF Usable(asset) THEN Append(list, FoundOf(asset)) ELSE list
      <4>1. AssetsRead(assets)[n + 1] = One(Reading(w, new)) /\ ~ BadUpTo(assets, n + 1)
        <5>1. ReadAsset(One(Reading(v, list)), asset) = One(Reading(w, new))
          BY <2>1, <3>4, ReadAssetSays
        <5> HIDE DEF w, new
        <5> QED BY <2>1, <2>2, <2>4, <3>1, <3>4, <5>1
      <4>2. FirstVersion(w, assets, n + 1)
        <5>1. \A k \in 1 .. n + 1 : k \in 1 .. n \/ k = n + 1
          OBVIOUS
        <5>2. n + 1 \in 1 .. n + 1 /\ \A k \in 1 .. n : k \in 1 .. n + 1
          OBVIOUS
        <5>3. CASE v = {}
          <6>1. \A k \in 1 .. n : PortableOf(assets[k]) = {}
            BY <3>1, <5>3 DEF FirstVersion, One
          <6>2. (n + 1) - 1 = n
            OBVIOUS
          <6> QED BY <3>4, <5>2, <5>3, <6>1, <6>2 DEF FirstVersion, asset
        <5>4. CASE v # {}
          BY <3>1, <5>2, <5>4 DEF FirstVersion
        <5> QED BY <5>3, <5>4
      <4>3. ListsTaken(new, assets, n + 1)
        <5>1. n + 1 \in TakenUpTo(assets, n + 1) <=> Usable(asset)
          BY <3>4 DEF TakenUpTo, asset
        <5> QED BY <1>3, <3>1, <5>1, TakenStep DEF asset
      <4> HIDE DEF w, new
      <4> QED BY <4>1, <4>2, <4>3
    <3> QED BY <3>2, <3>3, <3>4
  <2> QED BY <1>3, <2>3, <2>4
<1> HIDE DEF Ends, Reads
<1>4. \A n \in Nat : P(n) => P(n + 1)
  <2> SUFFICES ASSUME NEW n \in Nat, P(n), n + 1 \in 0 .. Len(assets)
               PROVE  Ends(n + 1) \/ Reads(n + 1)
    OBVIOUS
  <2>1. n + 1 \in 1 .. Len(assets) /\ n \in 0 .. Len(assets)
    BY <1>1
  <2> QED BY <1>3, <2>1
<1>5. T = Nat
  <2> HIDE DEF P
  <2>1. T \in SUBSET Nat /\ 0 \in T /\ \A n \in T : n + 1 \in T
    BY <1>2, <1>4
  <2> HIDE DEF T
  <2> QED BY <2>1, Induction
<1>6. \A n \in 0 .. Len(assets) : Ends(n) \/ Reads(n)
  BY <1>1, <1>5
<1> QED BY <1>6 DEF Ends, Reads

\* One sequence more is joined at the end.
LEMMA FlattenAppend ==
    ASSUME NEW S, NEW s \in Seq(Seq(S)), NEW t \in Seq(S)
    PROVE  /\ FlattenSeq(<<>>) = <<>>
           /\ FlattenSeq(s) \in Seq(S)
           /\ FlattenSeq(Append(s, t)) = FlattenSeq(s) \o t
<1> DEFINE new == Append(s, t)
           N == Len(s)
<1>1. N \in Nat /\ new \in Seq(Seq(S)) /\ Len(new) = N + 1
      /\ new[N + 1] = t /\ \A i \in 1 .. N : new[i] = s[i]
  <2> DEFINE All == Seq(S)
  <2>1. s \in Seq(All) /\ t \in All
    OBVIOUS
  <2> HIDE DEF All
  <2>2. N \in Nat
    BY <2>1
  <2>3. new \in Seq(All) /\ Len(new) = N + 1 /\ new[N + 1] = t
        /\ \A i \in 1 .. N : new[i] = s[i]
    BY <2>1, AppendText
  <2> QED BY <2>2, <2>3 DEF All
<1> HIDE DEF new
<1>2. PICK f \in [0 .. N -> Seq(S)] :
         /\ f[0] = <<>> /\ \A i \in 1 .. N : f[i] = f[i - 1] \o s[i]
         /\ FlattenSeq(s) = f[N]
  BY Flattening
<1>3. PICK g : /\ g[0] = <<>> /\ \A i \in 1 .. N + 1 : g[i] = g[i - 1] \o new[i]
               /\ FlattenSeq(new) = g[N + 1]
  <2>1. PICK g \in [0 .. Len(new) -> Seq(S)] :
           /\ g[0] = <<>> /\ \A i \in 1 .. Len(new) : g[i] = g[i - 1] \o new[i]
           /\ FlattenSeq(new) = g[Len(new)]
    BY <1>1, Flattening
  <2>2. /\ g[0] = <<>> /\ \A i \in 1 .. N + 1 : g[i] = g[i - 1] \o new[i]
        /\ FlattenSeq(new) = g[N + 1]
    BY <1>1, <2>1
  <2> QED BY <2>2
<1> HIDE DEF N
<1> DEFINE P(n) == n \in 0 .. N => g[n] = f[n]
           T == {n \in Nat : P(n)}
<1>4. T = Nat
  <2>1. P(0)
    BY <1>2, <1>3
  <2>2. ASSUME NEW n \in Nat, P(n), n + 1 \in 0 .. N
        PROVE  g[n + 1] = f[n + 1]
    <3>1. n + 1 \in 1 .. N /\ n + 1 \in 1 .. N + 1 /\ (n + 1) - 1 = n /\ n \in 0 .. N
      BY <1>1, <2>2
    <3>2. f[n + 1] = f[n] \o s[n + 1]
      BY <1>2, <3>1
    <3>3. g[n + 1] = g[n] \o new[n + 1]
      BY <1>3, <3>1
    <3> QED BY <1>1, <2>2, <3>1, <3>2, <3>3
  <2>3. \A n \in Nat : P(n) => P(n + 1)
    BY <2>2
  <2> HIDE DEF P
  <2>4. T \in SUBSET Nat /\ 0 \in T /\ \A n \in T : n + 1 \in T
    BY <2>1, <2>3
  <2> HIDE DEF T
  <2> QED BY <2>4, Induction
<1>5. g[N] = f[N]
  <2> HIDE DEF P
  <2>1. P(N)
    BY <1>1, <1>4
  <2> QED BY <1>1, <2>1 DEF P
<1>6. g[N + 1] = g[N] \o t
  <2>1. N + 1 \in 1 .. N + 1 /\ (N + 1) - 1 = N
    BY <1>1
  <2>2. g[N + 1] = g[N] \o new[N + 1]
    BY <1>3, <2>1
  <2> QED BY <1>1, <2>2
<1>7. f[N] \in Seq(S)
  BY <1>1, <1>2
<1>8. FlattenSeq(<<>>) = <<>>
  BY DEF FlattenSeq
<1> QED BY <1>2, <1>3, <1>5, <1>6, <1>7, <1>8 DEF new

\* The sequence of a set with no or one element.
LEMMA SetOfOne ==
    ASSUME NEW x
    PROVE  SetToSeq({}) = <<>> /\ SetToSeq(One(x)) = <<x>>
<1>1. SetToSeq({}) = <<>>
  <2>1. Cardinality({}) = 0
    BY FS_EmptySet
  <2>2. <<>> \in [1 .. 0 -> {}] /\ \A f \in [1 .. 0 -> {}] : f = <<>>
    <3>1. 1 .. 0 = {}
      OBVIOUS
    <3> QED BY <3>1
  <2>3. IsInjective(<<>>)
    BY DEF IsInjective
  <2>4. SetToSeq({}) = CHOOSE f \in [1 .. 0 -> {}] : IsInjective(f)
    BY <2>1 DEF SetToSeq
  <2> HIDE DEF IsInjective
  <2> QED BY <2>2, <2>3, <2>4
<1>2. SetToSeq(One(x)) = <<x>>
  <2>1. Cardinality({x}) = 1
    BY FS_Singleton
  <2>2. <<x>> \in [1 .. 1 -> {x}] /\ \A f \in [1 .. 1 -> {x}] : f = <<x>>
    OBVIOUS
  <2>3. IsInjective(<<x>>)
    BY DEF IsInjective
  <2>4. SetToSeq(One(x)) = CHOOSE f \in [1 .. 1 -> {x}] : IsInjective(f)
    BY <2>1 DEF SetToSeq, One
  <2> QED BY <2>2, <2>3, <2>4
<1> QED BY <1>1, <1>2

\* A list of the options of a set of places, in their order.
Options(answers) == {OptionFor(answers, p) : p \in Places(answers)}
Lists(list, A, answers) ==
    /\ list \in Seq(Options(answers))
    /\ \E place \in [1 .. Len(list) -> A] :
          /\ \A i, j \in 1 .. Len(list) : i < j => Before(place[i], place[j])
          /\ \A p \in A : \E i \in 1 .. Len(list) : place[i] = p
          /\ \A i \in 1 .. Len(list) : list[i] = OptionFor(answers, place[i])

\* No places have no options.
LEMMA ListsNone == \A answers : Lists(<<>>, {}, answers)
<1> SUFFICES ASSUME NEW answers PROVE Lists(<<>>, {}, answers)
  OBVIOUS
<1>1. <<>> \in Seq(Options(answers)) /\ Len(<<>>) = 0
  OBVIOUS
<1>2. [i \in 1 .. 0 |-> i] \in [1 .. 0 -> {}]
  OBVIOUS
<1> QED BY <1>1, <1>2 DEF Lists

\* The places of one list, all before those of another.
LEMMA ListsJoin ==
    ASSUME NEW answers, NEW u, NEW v, NEW A, NEW B,
           Lists(u, A, answers), Lists(v, B, answers),
           \A p \in A, q \in B : Before(p, q)
    PROVE  Lists(u \o v, A \cup B, answers)
<1> DEFINE All == Options(answers)
           new == u \o v
<1>2. PICK x \in [1 .. Len(u) -> A] :
          /\ \A i, j \in 1 .. Len(u) : i < j => Before(x[i], x[j])
          /\ \A p \in A : \E i \in 1 .. Len(u) : x[i] = p
          /\ \A i \in 1 .. Len(u) : u[i] = OptionFor(answers, x[i])
  BY DEF Lists
<1>3. PICK y \in [1 .. Len(v) -> B] :
          /\ \A i, j \in 1 .. Len(v) : i < j => Before(y[i], y[j])
          /\ \A p \in B : \E i \in 1 .. Len(v) : y[i] = p
          /\ \A i \in 1 .. Len(v) : v[i] = OptionFor(answers, y[i])
  BY DEF Lists
<1>4. u \in Seq(All) /\ v \in Seq(All)
  BY DEF Lists
<1> DEFINE m == Len(u)
           n == Len(v)
<1> HIDE DEF All
<1>5. /\ m \in Nat /\ n \in Nat /\ new \in Seq(All) /\ Len(new) = m + n
      /\ \A i \in 1 .. m : new[i] = u[i]
      /\ \A i \in 1 .. n : new[m + i] = v[i]
  BY <1>4, Concatenation
<1> DEFINE z == [i \in 1 .. m + n |-> IF i <= m THEN x[i] ELSE y[i - m]]
<1> HIDE DEF new, m, n
<1>6. \A i \in 1 .. m + n : i \in 1 .. m \/ \E k \in 1 .. n : i = m + k
  <2> SUFFICES ASSUME NEW i \in 1 .. m + n, i \notin 1 .. m
               PROVE  i - m \in 1 .. n /\ i = m + (i - m)
    OBVIOUS
  <2> QED BY <1>5
<1>7. /\ \A i \in 1 .. m : i \in 1 .. m + n /\ z[i] = x[i]
      /\ \A k \in 1 .. n : m + k \in 1 .. m + n /\ z[m + k] = y[k]
  <2>1. \A i \in 1 .. m : i \in 1 .. m + n /\ i <= m
    BY <1>5
  <2>2. \A k \in 1 .. n : m + k \in 1 .. m + n /\ ~ (m + k <= m) /\ (m + k) - m = k
    BY <1>5
  <2> QED BY <2>1, <2>2
<1>8. z \in [1 .. m + n -> A \cup B]
  <2>1. \A i \in 1 .. m + n : z[i] \in A \cup B
    <3>1. \A i \in 1 .. m : x[i] \in A
      BY <1>2 DEF m
    <3>2. \A k \in 1 .. n : y[k] \in B
      BY <1>3 DEF n
    <3> QED BY <1>6, <1>7, <3>1, <3>2
  <2>2. z = [i \in 1 .. m + n |-> z[i]]
    OBVIOUS
  <2> HIDE DEF z
  <2> QED BY <2>1, <2>2
<1> HIDE DEF z
<1>9. ASSUME NEW i \in 1 .. m + n, NEW j \in 1 .. m + n, i < j
      PROVE  Before(z[i], z[j])
  <2>1. CASE i \in 1 .. m /\ j \in 1 .. m
    BY <1>2, <1>7, <1>9, <2>1 DEF m
  <2>2. ASSUME i \in 1 .. m, NEW k \in 1 .. n, j = m + k
        PROVE  Before(z[i], z[j])
    <3>1. x[i] \in A /\ y[k] \in B
      BY <1>2, <1>3, <2>2 DEF m, n
    <3> QED BY <1>7, <2>2, <3>1
  <2>3. ASSUME NEW h \in 1 .. n, NEW k \in 1 .. n, i = m + h, j = m + k
        PROVE  Before(z[i], z[j])
    <3>1. h < k
      BY <1>5, <1>9, <2>3
    <3> QED BY <1>3, <1>7, <2>3, <3>1 DEF n
  <2>4. ASSUME NEW h \in 1 .. n, i = m + h, j \in 1 .. m
        PROVE  FALSE
    BY <1>5, <1>9, <2>4
  <2> QED BY <1>6, <2>1, <2>2, <2>3, <2>4
<1>10. \A p \in A \cup B : \E i \in 1 .. m + n : z[i] = p
  <2>1. \A p \in A : \E i \in 1 .. m : x[i] = p
    BY <1>2 DEF m
  <2>2. \A p \in B : \E i \in 1 .. n : y[i] = p
    BY <1>3 DEF n
  <2> QED BY <1>7, <2>1, <2>2
<1>11. \A i \in 1 .. m + n : new[i] = OptionFor(answers, z[i])
  <2>1. \A i \in 1 .. m : new[i] = OptionFor(answers, z[i])
    BY <1>2, <1>5, <1>7 DEF m
  <2>2. \A k \in 1 .. n : new[m + k] = OptionFor(answers, z[m + k])
    BY <1>3, <1>5, <1>7 DEF n
  <2> QED BY <1>6, <2>1, <2>2
<1>12. Lists(new, A \cup B, answers)
  <2>1. new \in Seq(Options(answers))
    BY <1>5 DEF All
  <2>2. /\ z \in [1 .. Len(new) -> A \cup B]
        /\ \A i, j \in 1 .. Len(new) : i < j => Before(z[i], z[j])
        /\ \A p \in A \cup B : \E i \in 1 .. Len(new) : z[i] = p
        /\ \A i \in 1 .. Len(new) : new[i] = OptionFor(answers, z[i])
    BY <1>5, <1>8, <1>9, <1>10, <1>11
  <2> QED BY <2>1, <2>2 DEF Lists
<1> QED BY <1>12 DEF new

\* The places, by source, release and asset.
LEMMA PlacesAre ==
    ASSUME NEW answers
    PROVE  \A p : p \in Places(answers) <=>
              \E s, r, assets, a :
                 /\ s \in DOMAIN Sources /\ r \in DOMAIN answers[Sources[s]].releases
                 /\ assets \in answers[Sources[s]].releases[r].assets
                 /\ a \in DOMAIN assets /\ p = <<s, r, a>>
BY DEF Places

\* The places of a release are those of its assets.
LEMMA PlacesOfRelease ==
    ASSUME NEW answers, NEW s \in DOMAIN Sources,
           NEW r \in DOMAIN answers[Sources[s]].releases,
           NEW assets, answers[Sources[s]].releases[r].assets = {assets}
    PROVE  /\ \A a : ReleaseAt(answers, <<s, r, a>>) = answers[Sources[s]].releases[r]
           /\ \A a : /\ AssetAt(answers, <<s, r, a>>) = assets[a]
                     /\ Portable(answers, <<s, r, a>>) = PortableOf(assets[a])
           /\ \A p : p \in Places(answers) /\ p[1] = s /\ p[2] = r
                       <=> \E a \in DOMAIN assets : p = <<s, r, a>>
           /\ \A a, q : q \in SameRelease(answers, <<s, r, a>>)
                          <=> \E b \in DOMAIN assets : q = <<s, r, b>>
<1> DEFINE rel == answers[Sources[s]].releases[r]
<1>1. \A a : ReleaseAt(answers, <<s, r, a>>) = rel
  BY DEF ReleaseAt
<1>2. \A a : AssetAt(answers, <<s, r, a>>) = assets[a]
  <2>1. (CHOOSE t \in {assets} : TRUE) = assets
    OBVIOUS
  <2>2. \A a : AssetAt(answers, <<s, r, a>>) = (CHOOSE t \in rel.assets : TRUE)[a]
    BY <1>1 DEF AssetAt
  <2> QED BY <2>1, <2>2
<1>3. \A a : Portable(answers, <<s, r, a>>) = PortableOf(assets[a])
  BY <1>2 DEF Portable, PortableOf
<1>4. \A p : p \in Places(answers) /\ p[1] = s /\ p[2] = r
                <=> \E a \in DOMAIN assets : p = <<s, r, a>>
  <2>1. ASSUME NEW p, p \in Places(answers), p[1] = s, p[2] = r
        PROVE  \E a \in DOMAIN assets : p = <<s, r, a>>
    <3>1. PICK t, q, list, a :
             /\ list \in answers[Sources[t]].releases[q].assets
             /\ a \in DOMAIN list /\ p = <<t, q, a>>
      BY <2>1, PlacesAre
    <3>2. t = s /\ q = r
      BY <2>1, <3>1
    <3> QED BY <3>1, <3>2
  <2>2. ASSUME NEW a \in DOMAIN assets
        PROVE  <<s, r, a>> \in Places(answers)
    <3>1. assets \in answers[Sources[s]].releases[r].assets
      OBVIOUS
    <3> QED BY <3>1, PlacesAre
  <2> QED BY <2>1, <2>2
<1>5. \A a, q : q \in SameRelease(answers, <<s, r, a>>)
                  <=> \E b \in DOMAIN assets : q = <<s, r, b>>
  BY <1>4 DEF SameRelease
<1> QED BY <1>1, <1>2, <1>3, <1>4, <1>5

\* What is offered of a release.
OfRelease(answers, s, r) == {p \in Offered(answers) : p[1] = s /\ p[2] = r}

\* The places offered of a release are those of the assets read from it.
LEMMA OfReleaseAre ==
    ASSUME NEW answers, NEW s \in DOMAIN Sources,
           NEW r \in DOMAIN answers[Sources[s]].releases,
           NEW assets \in Seq(AssetType), answers[Sources[s]].releases[r].assets = {assets}
    PROVE  \A p : p \in OfRelease(answers, s, r) <=>
              /\ answers[Sources[s]].releases[r].tag # {}
              /\ ~ BadUpTo(assets, Len(assets))
              /\ \E a \in TakenUpTo(assets, Len(assets)) : p = <<s, r, a>>
<1> DEFINE rel == answers[Sources[s]].releases[r]
           Sound(a) == /\ rel.tag # {} /\ PortableOf(assets[a]) # {} /\ Usable(assets[a])
                       /\ \A b \in DOMAIN assets :
                             /\ assets[b].name # {}
                             /\ PortableOf(assets[b]) # {} => ~ Fatal(assets[b])
<1>1. DOMAIN assets = 1 .. Len(assets)
  OBVIOUS
<1>2. ASSUME NEW a \in DOMAIN assets
      PROVE  <<s, r, a>> \in OfRelease(answers, s, r) <=> Sound(a)
  <2>1. /\ <<s, r, a>> \in Places(answers) /\ ReleaseAt(answers, <<s, r, a>>) = rel
        /\ Portable(answers, <<s, r, a>>) = PortableOf(assets[a])
        /\ AssetAt(answers, <<s, r, a>>) = assets[a]
    BY PlacesOfRelease
  <2>2. (\A q \in SameRelease(answers, <<s, r, a>>) :
             /\ AssetAt(answers, q).name # {}
             /\ Portable(answers, q) # {} => ~ Fatal(AssetAt(answers, q)))
          <=> \A b \in DOMAIN assets : /\ assets[b].name # {}
                                       /\ PortableOf(assets[b]) # {} => ~ Fatal(assets[b])
    <3> DEFINE Fair(q) == /\ AssetAt(answers, q).name # {}
                          /\ Portable(answers, q) # {} => ~ Fatal(AssetAt(answers, q))
               Whole(b) == /\ assets[b].name # {}
                           /\ PortableOf(assets[b]) # {} => ~ Fatal(assets[b])
    <3>1. \A b : Fair(<<s, r, b>>) <=> Whole(b)
      BY PlacesOfRelease
    <3>2. \A q : q \in SameRelease(answers, <<s, r, a>>)
                   <=> \E b \in DOMAIN assets : q = <<s, r, b>>
      BY PlacesOfRelease
    <3> HIDE DEF Fair, Whole
    <3>3. (\A q \in SameRelease(answers, <<s, r, a>>) : Fair(q))
            <=> \A b \in DOMAIN assets : Whole(b)
      BY <3>1, <3>2
    <3> QED BY <3>3 DEF Fair, Whole
  <2>3. <<s, r, a>> \in Offered(answers) <=> Sound(a)
    BY <2>1, <2>2 DEF Offered
  <2> QED BY <2>3 DEF OfRelease
<1>3. \A p : p \in OfRelease(answers, s, r) => \E a \in DOMAIN assets : p = <<s, r, a>>
  <2>1. \A p : p \in OfRelease(answers, s, r) => p \in Places(answers) /\ p[1] = s /\ p[2] = r
    BY DEF OfRelease, Offered
  <2> QED BY <2>1, PlacesOfRelease
<1>4. \A a \in DOMAIN assets :
         Sound(a) <=> /\ rel.tag # {} /\ ~ BadUpTo(assets, Len(assets))
                      /\ a \in TakenUpTo(assets, Len(assets))
  BY <1>1 DEF BadUpTo, TakenUpTo
<1>5. TakenUpTo(assets, Len(assets)) \subseteq DOMAIN assets
  BY <1>1 DEF TakenUpTo
<1> HIDE DEF Sound
<1> QED BY <1>2, <1>3, <1>4, <1>5

\* The first portable asset of a release, its tag, and an option of it.
FirstPortable(assets, k) ==
    /\ k \in DOMAIN assets /\ PortableOf(assets[k]) # {}
    /\ \A o \in 1 .. k - 1 : PortableOf(assets[o]) = {}
TagOf(release) == CHOOSE t \in release.tag : TRUE
Option(repo, tag, version, found) ==
    [repo |-> repo, tag |-> tag, version |-> version,
     variant |-> found.variant, url |-> found.url, size |-> found.size]

\* An option's version is that of the first portable asset of its release.
LEMMA OptionIs ==
    ASSUME NEW answers, NEW s \in DOMAIN Sources,
           NEW r \in DOMAIN answers[Sources[s]].releases,
           NEW assets \in Seq(AssetType), answers[Sources[s]].releases[r].assets = {assets},
           NEW k, FirstPortable(assets, k), NEW a \in DOMAIN assets
    PROVE  OptionFor(answers, <<s, r, a>>) =
             Option(Sources[s], TagOf(answers[Sources[s]].releases[r]),
                    ParsedOf(assets[k]).version, FoundOf(assets[a]))
<1> DEFINE p == <<s, r, a>>
           IsFirst(q) == /\ Portable(answers, q) # {}
                         /\ \A o \in SameRelease(answers, p) :
                               Portable(answers, o) # {} => q[3] <= o[3]
           first == CHOOSE q \in SameRelease(answers, p) : IsFirst(q)
           Parsed(q) == CHOOSE x \in Portable(answers, q) : TRUE
<1>1. DOMAIN assets = 1 .. Len(assets) /\ Len(assets) \in Nat
      /\ k \in DOMAIN assets /\ PortableOf(assets[k]) # {}
      /\ \A o \in 1 .. k - 1 : PortableOf(assets[o]) = {}
  <2>1. DOMAIN assets = 1 .. Len(assets) /\ Len(assets) \in Nat
    OBVIOUS
  <2>2. /\ k \in DOMAIN assets /\ PortableOf(assets[k]) # {}
        /\ \A o \in 1 .. k - 1 : PortableOf(assets[o]) = {}
    BY Zenon DEF FirstPortable
  <2> QED BY <2>1, <2>2
<1>2. \A q : q \in SameRelease(answers, p) <=> \E b \in DOMAIN assets : q = <<s, r, b>>
  BY PlacesOfRelease
<1>3. \A b : Portable(answers, <<s, r, b>>) = PortableOf(assets[b])
  BY PlacesOfRelease
<1>4. \A b \in DOMAIN assets : PortableOf(assets[b]) # {} => k <= b
  <2> SUFFICES ASSUME NEW b \in DOMAIN assets, ~ (k <= b)
               PROVE  PortableOf(assets[b]) = {}
    OBVIOUS
  <2>1. b \in 1 .. k - 1
    BY <1>1
  <2> QED BY <1>1, <2>1
<1>5. <<s, r, k>> \in SameRelease(answers, p) /\ IsFirst(<<s, r, k>>)
  <2>1. ASSUME NEW o \in SameRelease(answers, p), Portable(answers, o) # {}
        PROVE  k <= o[3]
    <3>1. PICK b \in DOMAIN assets : o = <<s, r, b>>
      BY <1>2
    <3>2. o[3] = b /\ PortableOf(assets[b]) # {}
      BY <1>3, <2>1, <3>1
    <3> QED BY <1>4, <3>2
  <2>2. <<s, r, k>>[3] = k
    OBVIOUS
  <2> QED BY <1>1, <1>2, <1>3, <2>1, <2>2
<1>6. \A q \in SameRelease(answers, p) : IsFirst(q) => q = <<s, r, k>>
  <2> SUFFICES ASSUME NEW q \in SameRelease(answers, p), IsFirst(q)
               PROVE  q = <<s, r, k>>
    OBVIOUS
  <2>1. PICK b \in DOMAIN assets : q = <<s, r, b>>
    BY <1>2
  <2>2. q[3] = b /\ <<s, r, k>>[3] = k
    BY <2>1
  <2>3. b <= k
    BY <1>5, <2>2
  <2>4. k <= b
    BY <1>3, <1>4, <2>1
  <2>5. b = k
    BY <1>1, <2>3, <2>4
  <2> QED BY <2>1, <2>5
<1>7. first = <<s, r, k>>
  <2> HIDE DEF IsFirst
  <2> QED BY <1>5, <1>6
<1>8. Parsed(<<s, r, k>>) = ParsedOf(assets[k]) /\ Parsed(p) = ParsedOf(assets[a])
  BY <1>3 DEF ParsedOf
<1>9. p[1] = s /\ ReleaseAt(answers, p) = answers[Sources[s]].releases[r]
      /\ AssetAt(answers, p) = assets[a]
  BY PlacesOfRelease
<1>10. OptionFor(answers, p) =
         [repo |-> Sources[p[1]], tag |-> CHOOSE t \in ReleaseAt(answers, p).tag : TRUE,
          version |-> Parsed(first).version, variant |-> Parsed(p).variant,
          url |-> AssetAt(answers, p).url, size |-> AssetAt(answers, p).size]
  BY DEF OptionFor
<1> HIDE DEF p, first, Parsed
<1> QED BY <1>7, <1>8, <1>9, <1>10 DEF p, TagOf, Option, FoundOf

\* A release is left out and nothing of it is offered, or it is read and its
\* options are those of the places offered.
LEMMA ReleaseOptions ==
    ASSUME NEW answers, NEW s \in DOMAIN Sources,
           NEW r \in DOMAIN answers[Sources[s]].releases,
           NEW rel \in ReleaseType, rel = answers[Sources[s]].releases[r]
    PROVE  \/ ParseRelease(rel) = {} /\ OfRelease(answers, s, r) = {}
           \/ \E x : /\ ParseRelease(rel) = One(x)
                     /\ Lists(OptionsOf(Sources[s], x), OfRelease(answers, s, r), answers)
<1> DEFINE Of == OfRelease(answers, s, r)
           Read == UNION {AssetsRead(assets)[Len(assets)] : assets \in rel.assets}
           Versioned == {x \in Read : x.version # {}}
           Parsed(t, x) == [tag |-> t, version |-> CHOOSE v \in x.version : TRUE,
                            assets |-> x.assets]
<1>1. ParseRelease(rel) = {Parsed(t, x) : t \in rel.tag, x \in Versioned}
  BY DEF ParseRelease
<1>2. (rel.tag = {} \/ \E t : rel.tag = {t}) /\ (rel.assets = {} \/ \E x : rel.assets = {x})
      /\ \A x \in rel.assets : x \in Seq(AssetType)
  <2>1. /\ rel.tag \in Optionally(STRING) /\ rel.assets \in Optionally(Seq(AssetType))
    BY DEF ReleaseType
  <2>2. ASSUME NEW S, NEW option \in Optionally(S)
        PROVE  (option = {} \/ \E x : option = {x}) /\ \A x \in option : x \in S
    <3>1. option \subseteq S /\ \A x, y \in option : x = y
      BY DEF Optionally
    <3>2. ASSUME NEW x \in option
          PROVE  option = {x}
      BY <3>1
    <3> QED BY <3>1, <3>2
  <2> QED BY <2>1, <2>2
<1>3. CASE rel.assets = {}
  <2>1. Read = {}
    BY <1>3
  <2>2. ParseRelease(rel) = {}
    <3> HIDE DEF Read, Parsed
    <3>1. Versioned = {}
      BY <2>1
    <3> QED BY <1>1, <3>1
  <2>3. Of = {}
    <3> SUFFICES ASSUME NEW p \in Of PROVE FALSE
      OBVIOUS
    <3>1. p \in Places(answers) /\ p[1] = s /\ p[2] = r
      BY DEF OfRelease, Offered
    <3>2. PICK t, q, list, a :
             list \in answers[Sources[t]].releases[q].assets /\ p = <<t, q, a>>
      BY <3>1, PlacesAre
    <3>3. t = s /\ q = r
      BY <3>1, <3>2
    <3> QED BY <1>3, <3>2, <3>3
  <2> QED BY <2>2, <2>3
<1>4. ASSUME NEW assets, rel.assets = {assets}
      PROVE  \/ ParseRelease(rel) = {} /\ Of = {}
             \/ \E x : ParseRelease(rel) = One(x) /\ Lists(OptionsOf(Sources[s], x), Of, answers)
  <2> DEFINE n == Len(assets)
             Taken == TakenUpTo(assets, n)
  <2>1. assets \in Seq(AssetType) /\ n \in Nat /\ DOMAIN assets = 1 .. n
    BY <1>2, <1>4
  <2>2. Read = AssetsRead(assets)[n]
    BY <1>4
  <2>3. \A p : p \in Of <=> /\ rel.tag # {} /\ ~ BadUpTo(assets, n)
                            /\ \E a \in Taken : p = <<s, r, a>>
    BY <1>4, <2>1, OfReleaseAre
  <2>4. \/ BadUpTo(assets, n) /\ Read = {}
        \/ /\ ~ BadUpTo(assets, n)
           /\ \E v, list : /\ Read = One(Reading(v, list))
                           /\ FirstVersion(v, assets, n) /\ ListsTaken(list, assets, n)
    BY <2>1, <2>2, AssetsReadSay
  <2> HIDE DEF n, Taken, Read, Of, Parsed
  <2>5. CASE BadUpTo(assets, n) /\ Read = {}
    <3>1. Versioned = {}
      BY <2>5
    <3> QED BY <1>1, <2>3, <2>5, <3>1
  <2>6. ASSUME NEW v, NEW list, ~ BadUpTo(assets, n), Read = One(Reading(v, list)),
               FirstVersion(v, assets, n), ListsTaken(list, assets, n)
        PROVE  \/ ParseRelease(rel) = {} /\ Of = {}
               \/ \E x : /\ ParseRelease(rel) = One(x)
                         /\ Lists(OptionsOf(Sources[s], x), Of, answers)
    <3>1. CASE rel.tag = {}
      BY <1>1, <2>3, <3>1
    <3>2. CASE v = {}
      <4>1. Versioned = {}
        BY <2>6, <3>2 DEF One, Reading
      <4>2. \A k \in 1 .. n : PortableOf(assets[k]) = {}
        BY <2>6, <3>2 DEF FirstVersion, One
      <4>3. Taken = {}
        BY <4>2 DEF TakenUpTo, Taken
      <4> QED BY <1>1, <2>3, <4>1, <4>3
    <3>3. ASSUME NEW t, rel.tag = {t}, v # {}
          PROVE  \E x : /\ ParseRelease(rel) = One(x)
                        /\ Lists(OptionsOf(Sources[s], x), Of, answers)
      <4>1. PICK k \in 1 .. n : /\ v = One(ParsedOf(assets[k]).version)
                                /\ PortableOf(assets[k]) # {}
                                /\ \A o \in 1 .. k - 1 : PortableOf(assets[o]) = {}
        BY <2>6, <3>3 DEF FirstVersion
      <4> DEFINE version == ParsedOf(assets[k]).version
                 x == [tag |-> t, version |-> version, assets |-> list]
                 options == OptionsOf(Sources[s], x)
                 All == {FoundOf(assets[i]) : i \in DOMAIN assets}
      <4>2. ParseRelease(rel) = One(x)
        <5>1. Versioned = {Reading(v, list)}
          BY <2>6, <3>3 DEF One, Reading
        <5>2. Parsed(t, Reading(v, list)) = x
          <6> HIDE DEF version
          <6>1. (CHOOSE w \in {version} : TRUE) = version
            OBVIOUS
          <6> QED BY <4>1, <6>1 DEF Parsed, Reading, One, version
        <5>3. \A a, b : {Parsed(c, d) : c \in {a}, d \in {b}} = {Parsed(a, b)}
          OBVIOUS
        <5> HIDE DEF x, Versioned
        <5> QED BY <1>1, <3>3, <5>1, <5>2, <5>3 DEF One
      <4>3. PICK place \in [1 .. Len(list) -> Taken] :
               /\ \A i, j \in 1 .. Len(list) : i < j => place[i] < place[j]
               /\ \A a \in Taken : \E i \in 1 .. Len(list) : place[i] = a
               /\ \A i \in 1 .. Len(list) : list[i] = FoundOf(assets[place[i]])
        BY <2>6 DEF ListsTaken, Taken
      <4>4. list \in Seq(All) /\ Len(list) \in Nat /\ DOMAIN list = 1 .. Len(list)
        BY <2>6 DEF ListsTaken
      <4>5. Taken \subseteq DOMAIN assets /\ k \in DOMAIN assets
        BY <2>1 DEF Taken, TakenUpTo
      <4> HIDE DEF All, version
      <4>6. \A p : p \in Of <=> \E a \in Taken : p = <<s, r, a>>
        BY <2>3, <2>6, <3>3
      <4>7. ASSUME NEW i \in 1 .. Len(list)
            PROVE  options[i] = OptionFor(answers, <<s, r, place[i]>>)
        <5>1. place[i] \in DOMAIN assets /\ list[i] = FoundOf(assets[place[i]])
          BY <4>3, <4>5
        <5>2. options[i] = Option(Sources[s], t, version, list[i])
          BY <4>4 DEF OptionsOf, Option
        <5>3. TagOf(rel) = t
          BY <3>3 DEF TagOf
        <5> HIDE DEF options
        <5>4. FirstPortable(assets, k)
          BY <4>1, <4>5 DEF FirstPortable
        <5>5. \A a \in DOMAIN assets :
                 OptionFor(answers, <<s, r, a>>) =
                   Option(Sources[s], TagOf(rel), ParsedOf(assets[k]).version,
                          FoundOf(assets[a]))
          BY <1>4, <2>1, <5>4, OptionIs
        <5> QED BY <5>1, <5>2, <5>3, <5>5 DEF version
      <4>8. DOMAIN options = 1 .. Len(list)
        BY <4>4 DEF OptionsOf
      <4>9. \A p \in Of : p \in Places(answers)
        BY DEF Of, OfRelease, Offered
      <4> DEFINE at == [i \in 1 .. Len(list) |-> <<s, r, place[i]>>]
      <4>10. at \in [1 .. Len(list) -> Of]
        BY <4>3, <4>6
      <4> HIDE DEF x, options
      <4>11. options \in Seq(Options(answers)) /\ Len(options) = Len(list)
        <5>1. \A i \in 1 .. Len(list) : options[i] \in Options(answers)
          <6>1. \A i \in 1 .. Len(list) : <<s, r, place[i]>> \in Of
            BY <4>3, <4>6
          <6> QED BY <4>7, <4>9, <6>1 DEF Options
        <5>2. options = [i \in 1 .. Len(list) |-> options[i]]
          BY <4>8 DEF options, OptionsOf
        <5> DEFINE m == Len(list)
        <5>3. \A S, f : (f = [i \in 1 .. m |-> f[i]] /\ \A i \in 1 .. m : f[i] \in S)
                           => f \in Seq(S) /\ Len(f) = m
          <6>1. m \in Nat
            BY <4>4
          <6> HIDE DEF m
          <6> QED BY <6>1
        <5> HIDE DEF m
        <5> QED BY <5>1, <5>2, <5>3 DEF m
      <4>12. ASSUME NEW i \in 1 .. Len(list), NEW j \in 1 .. Len(list), i < j
             PROVE  Before(at[i], at[j])
        <5>1. place[i] < place[j]
          BY <4>3, <4>12
        <5> QED BY <5>1 DEF Before
      <4>13. \A p \in Of : \E i \in 1 .. Len(list) : at[i] = p
        BY <4>3, <4>6
      <4>14. \A i \in 1 .. Len(list) : options[i] = OptionFor(answers, at[i])
        BY <4>7
      <4> HIDE DEF at
      <4>15. Lists(options, Of, answers)
        BY <4>10, <4>11, <4>12, <4>13, <4>14 DEF Lists
      <4> QED BY <4>2, <4>15 DEF options
    <3> QED BY <1>2, <3>1, <3>2, <3>3
  <2> QED BY <2>4, <2>5, <2>6
<1> QED BY <1>2, <1>3, <1>4

IsAppend(new, s, x) == new = Append(s, x)

\* What a function on one place more is, when it continues a sequence.
LEMMA AppendIs ==
    ASSUME NEW S, NEW m \in Seq(S), NEW y \in S, NEW new,
           new = [i \in 1 .. Len(m) + 1 |-> new[i]],
           \A i \in 1 .. Len(m) : new[i] = m[i], new[Len(m) + 1] = y
    PROVE  IsAppend(new, m, y)
<1> DEFINE t == Append(m, y)
           N == Len(m)
<1>1. /\ N \in Nat /\ t \in Seq(S) /\ Len(t) = N + 1
      /\ \A i \in 1 .. N : t[i] = m[i]
      /\ t[N + 1] = y
  BY AppendText
<1> HIDE DEF t, N
<1>2. t = [i \in 1 .. N + 1 |-> t[i]]
  BY <1>1
<1>3. \A i \in 1 .. N + 1 : i \in 1 .. N \/ i = N + 1
  BY <1>1
<1>4. \A i \in 1 .. N + 1 : t[i] = new[i]
  <2>1. \A i \in 1 .. N : t[i] = new[i]
    BY <1>1 DEF N
  <2>2. t[N + 1] = new[N + 1]
    BY <1>1 DEF N
  <2> QED BY <1>3, <2>1, <2>2
<1>5. [i \in 1 .. N + 1 |-> t[i]] = [i \in 1 .. N + 1 |-> new[i]]
  BY <1>4
<1> QED BY <1>2, <1>5 DEF IsAppend, t, N

\* A function on places with values in a set is a sequence.
LEMMA SeqIs ==
    ASSUME NEW n \in Nat, NEW S, NEW f, f = [i \in 1 .. n |-> f[i]],
           \A i \in 1 .. n : f[i] \in S
    PROVE  f \in Seq(S) /\ Len(f) = n
OBVIOUS

\* What is kept of an answer, and all options of releases.
Answers(answer) == answer.failures < Attempts /\ answer.array /\ answer.status = 200
KeptReleases(answer) ==
    FlattenSeq([i \in DOMAIN answer.releases |-> SetToSeq(ParseRelease(answer.releases[i]))])
OptionsOfAll(source, releases) ==
    FlattenSeq([j \in DOMAIN releases |-> OptionsOf(source, releases[j])])

JoinsRelease(source, l, x) ==
    OptionsOfAll(source, Append(l, x)) = OptionsOfAll(source, l) \o OptionsOf(source, x)

\* The sequences that the elements of a sequence are mapped to, one after the
\* other.
Mapped(g, l) == FlattenSeq([j \in DOMAIN l |-> g[l[j]]])
JoinsMapped(g, l, x) == Mapped(g, Append(l, x)) = Mapped(g, l) \o g[x]

\* One element more adds what it is mapped to at the end.
LEMMA OneMoreMapped ==
    ASSUME NEW S, NEW R, NEW g \in [R -> Seq(S)], NEW l \in Seq(R), NEW x \in R
    PROVE  JoinsMapped(g, l, x)
<1> DEFINE T == Seq(S)
           t == Append(l, x)
           N == Len(l)
           m == [j \in DOMAIN l |-> g[l[j]]]
           new == [j \in DOMAIN t |-> g[t[j]]]
<1>1. /\ N \in Nat /\ t \in Seq(R) /\ Len(t) = N + 1 /\ DOMAIN l = 1 .. N
      /\ \A i \in 1 .. N : t[i] = l[i] /\ l[i] \in R
      /\ t[N + 1] = x
  <2>1. N \in Nat /\ DOMAIN l = 1 .. N /\ \A i \in 1 .. N : l[i] \in R
    OBVIOUS
  <2> QED BY <2>1, AppendText
<1> HIDE DEF t
<1>2. DOMAIN t = 1 .. N + 1
  BY <1>1
<1> HIDE DEF N, T
<1>3. \A z \in R : g[z] \in T
  BY DEF T
<1>4. m \in Seq(T) /\ Len(m) = N
  <2>1. m = [j \in 1 .. N |-> m[j]] /\ \A j \in 1 .. N : m[j] \in T
    BY <1>1, <1>3
  <2> HIDE DEF m
  <2> QED BY <1>1, <2>1, SeqIs
<1>5. new = [j \in 1 .. N + 1 |-> new[j]]
  BY <1>2
<1>6. \A j \in 1 .. N + 1 : new[j] = g[t[j]]
  BY <1>2
<1>7. \A i \in 1 .. N : m[i] = g[l[i]]
  BY <1>1
<1> HIDE DEF m, new
<1>8. \A i \in 1 .. N : i \in 1 .. N + 1 /\ new[i] = m[i]
  BY <1>1, <1>6, <1>7
<1>9. new[N + 1] = g[x]
  <2>1. N + 1 \in 1 .. N + 1
    BY <1>1
  <2> QED BY <1>1, <1>6, <2>1
<1>10. new = Append(m, g[x])
  <2> DEFINE y == g[x]
  <2>1. m \in Seq(T) /\ y \in T
    BY <1>3, <1>4
  <2>2. /\ new = [j \in 1 .. Len(m) + 1 |-> new[j]]
        /\ \A i \in 1 .. Len(m) : new[i] = m[i]
        /\ new[Len(m) + 1] = y
    BY <1>4, <1>5, <1>8, <1>9
  <2> HIDE DEF y
  <2>3. IsAppend(new, m, y)
    BY <2>1, <2>2, AppendIs
  <2> QED BY <2>3 DEF IsAppend, y
<1>11. FlattenSeq(Append(m, g[x])) = FlattenSeq(m) \o g[x]
  BY <1>3, <1>4, FlattenAppend DEF T
<1> QED BY <1>10, <1>11 DEF JoinsMapped, Mapped, m, new, t

\* The options of releases are those of the first ones and of the last.
LEMMA OneMoreRelease ==
    ASSUME NEW S, NEW R, NEW source, \A z \in R : OptionsOf(source, z) \in Seq(S),
           NEW l \in Seq(R), NEW x \in R
    PROVE  JoinsRelease(source, l, x)
<1> DEFINE g == [z \in R |-> OptionsOf(source, z)]
<1>1. g \in [R -> Seq(S)] /\ g[x] = OptionsOf(source, x)
  OBVIOUS
<1>2. ASSUME NEW s \in Seq(R)
      PROVE  OptionsOfAll(source, s) = Mapped(g, s)
  <2>1. [j \in DOMAIN s |-> g[s[j]]] = [j \in DOMAIN s |-> OptionsOf(source, s[j])]
    OBVIOUS
  <2> QED BY <2>1 DEF OptionsOfAll, Mapped
<1> DEFINE t == Append(l, x)
<1>3. t \in Seq(R)
  OBVIOUS
<1> HIDE DEF g, t
<1>4. JoinsMapped(g, l, x)
  BY <1>1, OneMoreMapped
<1>5. Mapped(g, t) = Mapped(g, l) \o g[x]
  BY <1>4 DEF JoinsMapped, t
<1>6. OptionsOfAll(source, t) = OptionsOfAll(source, l) \o OptionsOf(source, x)
  BY <1>1, <1>2, <1>3, <1>5
<1> QED BY <1>6 DEF JoinsRelease, t

\* What the first n releases of a source and the first n sources offer.
OfReleases(answers, s, n) == {p \in Offered(answers) : p[1] = s /\ p[2] \in 1 .. n}
OfSources(answers, n) == {p \in Offered(answers) : p[1] \in 1 .. n}

\* What is offered has a source and a release.
LEMMA OfferedAt ==
    ASSUME NEW answers, NEW p \in Offered(answers)
    PROVE  /\ p \in Places(answers) /\ p[1] \in DOMAIN Sources
           /\ p[2] \in DOMAIN answers[Sources[p[1]]].releases
<1>1. p \in Places(answers)
  BY DEF Offered
<1>2. PICK s, r, assets, a :
         /\ s \in DOMAIN Sources /\ r \in DOMAIN answers[Sources[s]].releases
         /\ p = <<s, r, a>>
  BY <1>1, PlacesAre
<1>3. p[1] = s /\ p[2] = r
  BY <1>2
<1> QED BY <1>1, <1>2, <1>3

\* The options of a source that answers are those of its places, in order.
LEMMA SourceOptions ==
    ASSUME NEW answers, NEW s \in Nat, s \in DOMAIN Sources, answers[Sources[s]] \in AnswerType
    PROVE  Lists(OptionsOfAll(Sources[s], KeptReleases(answers[Sources[s]])),
                 {p \in Offered(answers) : p[1] = s}, answers)
<1> DEFINE rels == answers[Sources[s]].releases
           N == Len(rels)
           S == Options(answers)
           R == UNION {ParseRelease(rels[i]) : i \in 1 .. N}
           parts == [i \in DOMAIN rels |-> SetToSeq(ParseRelease(rels[i]))]
           All(l) == OptionsOfAll(Sources[s], l)
           Upto(n) == OfReleases(answers, s, n)
           Of(n) == OfRelease(answers, s, n)
           G(x) == OptionsOf(Sources[s], x)
<1>1. rels \in Seq(ReleaseType) /\ N \in Nat /\ DOMAIN rels = 1 .. N
  BY DEF AnswerType
<1>2. ASSUME NEW i \in 1 .. N
      PROVE  \/ parts[i] = <<>> /\ Of(i) = {}
             \/ \E x \in R : parts[i] = <<x>> /\ Lists(G(x), Of(i), answers)
  <2>1. rels[i] \in ReleaseType /\ i \in DOMAIN rels
    BY <1>1
  <2>2. parts[i] = SetToSeq(ParseRelease(rels[i]))
    BY <2>1
  <2> HIDE DEF R
  <2>3. CASE ParseRelease(rels[i]) = {} /\ Of(i) = {}
    BY <2>2, <2>3, SetOfOne
  <2>4. ASSUME NEW x, ParseRelease(rels[i]) = One(x), Lists(G(x), Of(i), answers)
        PROVE  \E y \in R : parts[i] = <<y>> /\ Lists(G(y), Of(i), answers)
    <3>1. x \in R
      BY <2>4 DEF R, One
    <3>2. parts[i] = <<x>>
      BY <2>2, <2>4, SetOfOne
    <3> QED BY <2>4, <3>1, <3>2
  <2>5. \/ ParseRelease(rels[i]) = {} /\ Of(i) = {}
        \/ \E x : ParseRelease(rels[i]) = One(x) /\ Lists(G(x), Of(i), answers)
    BY <2>1, ReleaseOptions
  <2> QED BY <2>3, <2>4, <2>5
<1>3. \A x \in R : G(x) \in Seq(S)
  <2> SUFFICES ASSUME NEW x \in R PROVE G(x) \in Seq(S)
    OBVIOUS
  <2>1. PICK i \in 1 .. N : x \in ParseRelease(rels[i])
    OBVIOUS
  <2>2. rels[i] \in ReleaseType /\ i \in DOMAIN rels
    BY <1>1
  <2>3. \/ ParseRelease(rels[i]) = {} /\ Of(i) = {}
        \/ \E y : ParseRelease(rels[i]) = One(y) /\ Lists(G(y), Of(i), answers)
    BY <2>2, ReleaseOptions
  <2>4. Lists(G(x), Of(i), answers)
    BY <2>1, <2>3 DEF One
  <2> QED BY <2>4 DEF Lists
<1> HIDE DEF R
<1>4. parts \in Seq(Seq(R)) /\ Len(parts) = N
  <2>1. \A i \in 1 .. N : parts[i] \in Seq(R)
    <3>1. <<>> \in Seq(R) /\ \A x \in R : <<x>> \in Seq(R)
      OBVIOUS
    <3> HIDE DEF parts, G, Of
    <3> QED BY <1>2, <3>1
  <2>2. parts = [i \in 1 .. N |-> parts[i]]
    BY <1>1
  <2> HIDE DEF parts, N
  <2> QED BY <1>1, <2>1, <2>2, SeqIs
<1>5. PICK f \in [0 .. N -> Seq(R)] :
         /\ f[0] = <<>> /\ \A i \in 1 .. N : f[i] = f[i - 1] \o parts[i]
         /\ FlattenSeq(parts) = f[N]
  <2>1. PICK f \in [0 .. Len(parts) -> Seq(R)] :
           /\ f[0] = <<>> /\ \A i \in 1 .. Len(parts) : f[i] = f[i - 1] \o parts[i]
           /\ FlattenSeq(parts) = f[Len(parts)]
    BY <1>4, Flattening
  <2>2. /\ f \in [0 .. N -> Seq(R)]
        /\ f[0] = <<>> /\ \A i \in 1 .. N : f[i] = f[i - 1] \o parts[i]
        /\ FlattenSeq(parts) = f[N]
    BY <1>4, <2>1
  <2> QED BY <2>2
<1> DEFINE P(n) == n \in 0 .. N => Lists(All(f[n]), Upto(n), answers)
           T == {n \in Nat : P(n)}
<1>6. Lists(<<>>, {}, answers)
  BY ListsNone
<1>7. P(0)
  <2>1. Upto(0) = {}
    BY DEF OfReleases
  <2>2. All(<<>>) = <<>>
    BY DEF OptionsOfAll, FlattenSeq
  <2> QED BY <1>5, <1>6, <2>1, <2>2
<1> HIDE DEF parts, N
<1>8. ASSUME NEW n \in Nat, n + 1 \in 1 .. N, Lists(All(f[n]), Upto(n), answers)
      PROVE  Lists(All(f[n + 1]), Upto(n + 1), answers)
  <2>1. f[n + 1] = f[n] \o parts[n + 1]
    <3>1. (n + 1) - 1 = n
      OBVIOUS
    <3> QED BY <1>5, <1>8, <3>1
  <2>2. f[n] \in Seq(R)
    <3>1. n \in 0 .. N
      BY <1>1, <1>8
    <3> QED BY <1>5, <3>1
  <2>3. \A p : p \in Upto(n + 1) <=> p \in Upto(n) \/ p \in Of(n + 1)
    <3>1. \A k : k \in 1 .. n + 1 <=> k \in 1 .. n \/ k = n + 1
      OBVIOUS
    <3> QED BY <3>1 DEF OfReleases, OfRelease
  <2>4. \A p \in Upto(n), q \in Of(n + 1) : Before(p, q)
    <3> SUFFICES ASSUME NEW p \in Upto(n), NEW q \in Of(n + 1)
                 PROVE  Before(p, q)
      OBVIOUS
    <3>1. p[1] = s /\ q[1] = s /\ p[2] \in 1 .. n /\ q[2] = n + 1
      BY DEF OfReleases, OfRelease
    <3>2. p[1] = q[1] /\ p[2] < q[2]
      BY <3>1
    <3> QED BY <3>2 DEF Before
  <2> HIDE DEF Upto, Of, All, G
  <2>5. Upto(n + 1) = Upto(n) \cup Of(n + 1)
    BY <2>3
  <2>6. CASE parts[n + 1] = <<>> /\ Of(n + 1) = {}
    <3>1. f[n + 1] = f[n]
      BY <2>1, <2>2, <2>6
    <3>2. Upto(n + 1) = Upto(n)
      BY <2>5, <2>6
    <3> QED BY <1>8, <3>1, <3>2
  <2>7. ASSUME NEW x \in R, parts[n + 1] = <<x>>, Lists(G(x), Of(n + 1), answers)
        PROVE  Lists(All(f[n + 1]), Upto(n + 1), answers)
    <3>1. f[n + 1] = Append(f[n], x)
      BY <2>1, <2>2, <2>7
    <3>2. JoinsRelease(Sources[s], f[n], x)
      BY <1>3, <2>2, <2>7, OneMoreRelease DEF G
    <3>4. All(Append(f[n], x)) = All(f[n]) \o G(x)
      BY <3>2 DEF JoinsRelease, All, G
    <3>3. Lists(All(f[n]) \o G(x), Upto(n) \cup Of(n + 1), answers)
      BY <1>8, <2>4, <2>7, ListsJoin
    <3> QED BY <2>5, <3>1, <3>3, <3>4
  <2> QED BY <1>2, <1>8, <2>6, <2>7
<1>9. T = Nat
  <2>1. \A n \in Nat : P(n) => P(n + 1)
    <3> SUFFICES ASSUME NEW n \in Nat, P(n), n + 1 \in 0 .. N
                 PROVE  Lists(All(f[n + 1]), Upto(n + 1), answers)
      OBVIOUS
    <3>1. n + 1 \in 1 .. N /\ n \in 0 .. N
      BY <1>1
    <3> QED BY <1>8, <3>1
  <2> HIDE DEF P
  <2>2. T \in SUBSET Nat /\ 0 \in T /\ \A n \in T : n + 1 \in T
    BY <1>7, <2>1
  <2> HIDE DEF T
  <2> QED BY <2>2, Induction
<1>10. Lists(All(f[N]), Upto(N), answers)
  <2> HIDE DEF P
  <2>1. P(N)
    BY <1>1, <1>9
  <2> QED BY <1>1, <2>1 DEF P
<1>11. KeptReleases(answers[Sources[s]]) = f[N]
  BY <1>5 DEF KeptReleases, parts
<1>12. {p \in Offered(answers) : p[1] = s} = Upto(N)
  <2>1. \A p \in Offered(answers) : p[1] = s => p[2] \in 1 .. N
    BY <1>1, OfferedAt
  <2> QED BY <2>1 DEF OfReleases
<1> QED BY <1>10, <1>11, <1>12

\* All options of what the sources gave.
OptionsOfFound(found) ==
    FlattenSeq([i \in DOMAIN found |-> OptionsOfAll(found[i].repo, found[i].releases)])
JoinsSource(l, x) ==
    OptionsOfFound(Append(l, x)) = OptionsOfFound(l) \o OptionsOfAll(x.repo, x.releases)

\* The options of one source more are added at the end.
LEMMA OneMoreSource ==
    ASSUME NEW S, NEW R, \A z \in R : OptionsOfAll(z.repo, z.releases) \in Seq(S),
           NEW l \in Seq(R), NEW x \in R
    PROVE  JoinsSource(l, x)
<1> DEFINE g == [z \in R |-> OptionsOfAll(z.repo, z.releases)]
<1>1. g \in [R -> Seq(S)] /\ g[x] = OptionsOfAll(x.repo, x.releases)
  OBVIOUS
<1>2. ASSUME NEW s \in Seq(R)
      PROVE  OptionsOfFound(s) = Mapped(g, s)
  <2>1. [j \in DOMAIN s |-> g[s[j]]]
          = [j \in DOMAIN s |-> OptionsOfAll(s[j].repo, s[j].releases)]
    OBVIOUS
  <2> QED BY <2>1 DEF OptionsOfFound, Mapped
<1> DEFINE t == Append(l, x)
<1>3. t \in Seq(R)
  OBVIOUS
<1> HIDE DEF g, t
<1>4. JoinsMapped(g, l, x)
  BY <1>1, OneMoreMapped
<1>5. Mapped(g, t) = Mapped(g, l) \o g[x]
  BY <1>4 DEF JoinsMapped, t
<1>6. OptionsOfFound(t) = OptionsOfFound(l) \o OptionsOfAll(x.repo, x.releases)
  BY <1>1, <1>2, <1>3, <1>5
<1> QED BY <1>6 DEF JoinsSource, t

\* What one source adds.
EntryOf(answers, s) == [repo |-> Sources[s], releases |-> KeptReleases(answers[Sources[s]])]

\* A source adds its releases, or ends the discovery when it fails.
LEMMA AskSays ==
    ASSUME NEW answers, NEW s, NEW l
    PROVE  /\ Ask({}, Sources[s], answers[Sources[s]]) = {}
           /\ ~ Answers(answers[Sources[s]]) =>
                 Ask(One(l), Sources[s], answers[Sources[s]]) = {}
           /\ Answers(answers[Sources[s]]) =>
                 Ask(One(l), Sources[s], answers[Sources[s]]) = One(Append(l, EntryOf(answers, s)))
<1> DEFINE answer == answers[Sources[s]]
           source == Sources[s]
           Added(f, r) == Append(f, [repo |-> source, releases |-> r])
<1>1. Releases(answer) = {KeptReleases(a) : a \in {b \in {answer} : Answers(b)}}
  BY DEF Releases, KeptReleases, Answers
<1> HIDE DEF answer
<1>2. ~ Answers(answer) => Releases(answer) = {}
  BY <1>1
<1>3. Answers(answer) => Releases(answer) = {KeptReleases(answer)}
  BY <1>1
<1>4. \A found : Ask(found, source, answer) = {Added(f, r) : f \in found, r \in Releases(answer)}
  BY DEF Ask
<1>5. Added(l, KeptReleases(answer)) = Append(l, EntryOf(answers, s))
  BY DEF EntryOf, answer
<1> HIDE DEF Added, source
<1>6. \A a, b : {Added(c, d) : c \in {a}, d \in {b}} = {Added(a, b)}
  OBVIOUS
<1>7. Ask({}, source, answer) = {}
  BY <1>4
<1>8. ~ Answers(answer) => Ask({l}, source, answer) = {}
  BY <1>2, <1>4
<1>9. Answers(answer) => Ask({l}, source, answer) = {Added(l, KeptReleases(answer))}
  BY <1>3, <1>4, <1>6
<1> QED BY <1>5, <1>7, <1>8, <1>9 DEF answer, source, One

\* All sources answer and the options of each are found, or nothing is.
LEMMA FoundOptions ==
    ASSUME NEW answers \in [ToSet(Sources) -> AnswerType], Sources \in Seq(STRING)
    PROVE  \/ /\ \E s \in DOMAIN Sources : ~ Answers(answers[Sources[s]])
              /\ DiscoverThoriumReleases(answers) = {}
           \/ /\ \A s \in DOMAIN Sources : Answers(answers[Sources[s]])
              /\ \E options : /\ DiscoverThoriumReleases(answers) = One(options)
                              /\ Lists(options, Offered(answers), answers)
<1> DEFINE N == Len(Sources)
           S == Options(answers)
           R == {EntryOf(answers, s) : s \in DOMAIN Sources}
           G(x) == OptionsOfAll(x.repo, x.releases)
           Of(s) == {p \in Offered(answers) : p[1] = s}
           Upto(n) == OfSources(answers, n)
           Silent(n) == /\ \E s \in 1 .. n : ~ Answers(answers[Sources[s]])
                        /\ Found(answers)[n] = {}
           Heard(n) == /\ \A s \in 1 .. n : Answers(answers[Sources[s]])
                       /\ \E l \in Seq(R) : /\ Found(answers)[n] = One(l)
                                            /\ Lists(OptionsOfFound(l), Upto(n), answers)
           P(n) == n \in 0 .. N => Silent(n) \/ Heard(n)
           T == {n \in Nat : P(n)}
<1>1. N \in Nat /\ DOMAIN Sources = 1 .. N
  OBVIOUS
<1>2. ASSUME NEW s \in DOMAIN Sources
      PROVE  Lists(G(EntryOf(answers, s)), Of(s), answers)
  <2>1. Sources[s] \in ToSet(Sources) /\ s \in Nat
    BY <1>1 DEF ToSet
  <2>2. answers[Sources[s]] \in AnswerType
    BY <2>1
  <2>3. Lists(OptionsOfAll(Sources[s], KeptReleases(answers[Sources[s]])), Of(s), answers)
    BY <2>1, <2>2, SourceOptions
  <2> QED BY <2>3 DEF EntryOf
<1>3. \A x \in R : G(x) \in Seq(S)
  BY <1>2 DEF Lists
<1>4. \A s \in DOMAIN Sources : EntryOf(answers, s) \in R
  OBVIOUS
<1> HIDE DEF R, N
<1>5. \A n \in 0 .. N : Found(answers)[n] =
         IF n = 0 THEN {<<>>} ELSE Ask(Found(answers)[n - 1], Sources[n], answers[Sources[n]])
  BY <1>1, FoundDef DEF N
<1>6. P(0)
  <2>1. Found(answers)[0] = One(<<>>)
    <3>1. 0 \in 0 .. N
      BY <1>1
    <3> QED BY <1>5, <3>1 DEF One
  <2>2. Upto(0) = {}
    BY DEF OfSources
  <2>3. OptionsOfFound(<<>>) = <<>>
    BY DEF OptionsOfFound, FlattenSeq
  <2>4. <<>> \in Seq(R)
    OBVIOUS
  <2>5. Lists(OptionsOfFound(<<>>), Upto(0), answers)
    BY <2>2, <2>3, ListsNone
  <2>6. Heard(0)
    <3>1. \A s \in 1 .. 0 : Answers(answers[Sources[s]])
      OBVIOUS
    <3> HIDE DEF Upto
    <3> QED BY <2>1, <2>4, <2>5, <3>1
  <2> QED BY <2>6
<1>7. ASSUME NEW n \in Nat, n + 1 \in 1 .. N, Silent(n) \/ Heard(n)
      PROVE  Silent(n + 1) \/ Heard(n + 1)
  <2> DEFINE answer == answers[Sources[n + 1]]
             e == EntryOf(answers, n + 1)
  <2>1. Found(answers)[n + 1] = Ask(Found(answers)[n], Sources[n + 1], answer)
    <3>1. n + 1 \in 0 .. N /\ n + 1 # 0 /\ (n + 1) - 1 = n
      BY <1>1, <1>7
    <3> QED BY <1>5, <3>1
  <2>2. n + 1 \in DOMAIN Sources
    BY <1>1, <1>7
  <2>3. \A s : s \in 1 .. n + 1 <=> s \in 1 .. n \/ s = n + 1
    OBVIOUS
  <2>4. \A l : /\ Ask({}, Sources[n + 1], answer) = {}
               /\ ~ Answers(answer) => Ask(One(l), Sources[n + 1], answer) = {}
               /\ Answers(answer) => Ask(One(l), Sources[n + 1], answer) = One(Append(l, e))
    BY AskSays
  <2> HIDE DEF answer, e
  <2>5. CASE Silent(n)
    BY <2>1, <2>3, <2>4, <2>5
  <2>6. ASSUME NEW l \in Seq(R), \A s \in 1 .. n : Answers(answers[Sources[s]]),
               Found(answers)[n] = One(l), Lists(OptionsOfFound(l), Upto(n), answers)
        PROVE  Silent(n + 1) \/ Heard(n + 1)
    <3>1. CASE ~ Answers(answer)
      <4>1. Found(answers)[n + 1] = {}
        BY <2>1, <2>4, <2>6, <3>1
      <4>2. n + 1 \in 1 .. n + 1 /\ ~ Answers(answers[Sources[n + 1]])
        BY <3>1 DEF answer
      <4> QED BY <4>1, <4>2
    <3>2. CASE Answers(answer)
      <4> DEFINE new == Append(l, e)
      <4>1. Found(answers)[n + 1] = One(new)
        BY <2>1, <2>4, <2>6, <3>2
      <4>2. e \in R
        BY <1>4, <2>2 DEF e
      <4>3. new \in Seq(R)
        BY <4>2
      <4>4. JoinsSource(l, e)
        BY <1>3, <4>2, OneMoreSource
      <4>5. OptionsOfFound(new) = OptionsOfFound(l) \o G(e)
        BY <4>4 DEF JoinsSource
      <4>6. \A p \in Upto(n), q \in Of(n + 1) : Before(p, q)
        <5> SUFFICES ASSUME NEW p \in Upto(n), NEW q \in Of(n + 1)
                     PROVE  p[1] < q[1]
          BY DEF Before
        <5>1. p[1] \in 1 .. n /\ q[1] = n + 1
          BY DEF OfSources
        <5> QED BY <5>1
      <4>7. Upto(n + 1) = Upto(n) \cup Of(n + 1)
        BY <2>3 DEF OfSources
      <4> HIDE DEF Upto, Of, new, G
      <4>8. Lists(G(e), Of(n + 1), answers)
        BY <1>2, <2>2 DEF e
      <4>9. Lists(OptionsOfFound(l) \o G(e), Upto(n) \cup Of(n + 1), answers)
        BY <2>6, <4>6, <4>8, ListsJoin
      <4>10. \A s \in 1 .. n + 1 : Answers(answers[Sources[s]])
        BY <2>3, <2>6, <3>2 DEF answer
      <4>11. Lists(OptionsOfFound(new), Upto(n + 1), answers)
        BY <4>5, <4>7, <4>9
      <4> QED BY <4>1, <4>3, <4>10, <4>11
    <3> QED BY <3>1, <3>2
  <2> QED BY <1>7, <2>5, <2>6
<1>8. T = Nat
  <2> HIDE DEF Silent, Heard
  <2>1. \A n \in Nat : P(n) => P(n + 1)
    <3> SUFFICES ASSUME NEW n \in Nat, P(n), n + 1 \in 0 .. N
                 PROVE  Silent(n + 1) \/ Heard(n + 1)
      OBVIOUS
    <3>1. n + 1 \in 1 .. N /\ n \in 0 .. N
      BY <1>1
    <3> QED BY <1>7, <3>1
  <2> HIDE DEF P
  <2>2. T \in SUBSET Nat /\ 0 \in T /\ \A n \in T : n + 1 \in T
    BY <1>6, <2>1
  <2> HIDE DEF T
  <2> QED BY <2>2, Induction
<1>9. Silent(N) \/ Heard(N)
  <2> HIDE DEF Silent, Heard, P
  <2>1. P(N)
    BY <1>1, <1>8
  <2> QED BY <1>1, <2>1 DEF P
<1>10. DiscoverThoriumReleases(answers) = {OptionsOfFound(l) : l \in Found(answers)[N]}
  BY DEF DiscoverThoriumReleases, OptionsOfFound, OptionsOfAll, DiscoverWindowsReleases, N
<1>11. Upto(N) = Offered(answers)
  <2>1. \A p \in Offered(answers) : p[1] \in 1 .. N
    BY <1>1, OfferedAt
  <2> QED BY <2>1 DEF OfSources
<1>12. CASE Silent(N)
  BY <1>1, <1>10, <1>12
<1>13. CASE Heard(N)
  <2>1. PICK l : Found(answers)[N] = One(l) /\ Lists(OptionsOfFound(l), Upto(N), answers)
    BY <1>13
  <2>2. DiscoverThoriumReleases(answers) = One(OptionsOfFound(l))
    BY <1>10, <2>1 DEF One
  <2> HIDE DEF Upto
  <2> QED BY <1>1, <1>11, <1>13, <2>1, <2>2
<1> QED BY <1>9, <1>12, <1>13

-----------------------------------------------------------------------------
\* Every option names a variant that an install accepts.
LEMMA OptionVariant ==
    ASSUME NEW answers, NEW p \in Offered(answers)
    PROVE  FromId(OptionFor(answers, p).variant) # {}
<1> DEFINE Parsed(q) == CHOOSE x \in Portable(answers, q) : TRUE
<1>1. Portable(answers, p) # {}
  BY DEF Offered
<1>2. Parsed(p) \in Portable(answers, p)
  BY <1>1
<1>3. \A x \in Portable(answers, p) : x.variant \in Variant
  <2>1. ASSUME NEW name, NEW x \in ParsePortableZip(name)
        PROVE  x.variant \in Variant
    BY DEF ParsePortableZip
  <2> HIDE DEF Variant
  <2> QED BY <2>1 DEF Portable
<1>4. OptionFor(answers, p).variant = Parsed(p).variant
  BY DEF OptionFor
<1> HIDE DEF Parsed
<1>5. OptionFor(answers, p).variant \in Variant
  BY <1>2, <1>3, <1>4
<1> QED BY <1>5 DEF FromId

\* Where a release has one version, an option has that of its own asset.
LEMMA OptionVersion ==
    ASSUME Sources \in Seq(STRING), NEW answers \in [ToSet(Sources) -> AnswerType],
           NEW p \in Offered(answers), OneVersion(answers, p)
    PROVE  OptionFor(answers, p).version = VersionAt(answers, p)
<1>1. PICK s, r, assets, a :
         /\ s \in DOMAIN Sources /\ r \in DOMAIN answers[Sources[s]].releases
         /\ assets \in answers[Sources[s]].releases[r].assets
         /\ a \in DOMAIN assets /\ p = <<s, r, a>>
  BY PlacesAre DEF Offered
<1> DEFINE rel == answers[Sources[s]].releases[r]
<1>2. rel \in ReleaseType
  <2>1. Sources[s] \in ToSet(Sources)
    BY <1>1 DEF ToSet
  <2>2. answers[Sources[s]].releases \in Seq(ReleaseType)
    BY <2>1 DEF AnswerType
  <2> QED BY <1>1, <2>2
<1>3. rel.assets = {assets} /\ assets \in Seq(AssetType)
  <2>1. rel.assets \in Optionally(Seq(AssetType))
    BY <1>2 DEF ReleaseType
  <2> QED BY <1>1, <2>1 DEF Optionally
<1>4. DOMAIN assets = 1 .. Len(assets) /\ Len(assets) \in 0 .. Len(assets)
  BY <1>3
<1>5. p \in OfRelease(answers, s, r)
  BY <1>1 DEF OfRelease
<1>6. ~ BadUpTo(assets, Len(assets)) /\ \E b \in TakenUpTo(assets, Len(assets)) : p = <<s, r, b>>
  BY <1>1, <1>3, <1>5, OfReleaseAre
<1>7. PortableOf(assets[a]) # {}
  BY <1>1, <1>6 DEF TakenUpTo
<1>8. PICK k : FirstPortable(assets, k)
  <2>1. PICK v : FirstVersion(v, assets, Len(assets))
    BY <1>3, <1>4, <1>6, AssetsReadSay
  <2> QED BY <1>1, <1>4, <1>7, <2>1 DEF FirstVersion, FirstPortable
<1>9. OptionFor(answers, p) =
        Option(Sources[s], TagOf(rel), ParsedOf(assets[k]).version, FoundOf(assets[a]))
  BY <1>1, <1>3, <1>8, OptionIs
<1>10. OptionFor(answers, p).version = ParsedOf(assets[k]).version
  BY <1>9 DEF Option
<1>11. \A b : /\ Portable(answers, <<s, r, b>>) = PortableOf(assets[b])
              /\ VersionAt(answers, <<s, r, b>>) = ParsedOf(assets[b]).version
  <2>1. \A b : Portable(answers, <<s, r, b>>) = PortableOf(assets[b])
    BY <1>1, <1>3, PlacesOfRelease
  <2>2. ASSUME NEW b
        PROVE  VersionAt(answers, <<s, r, b>>) = ParsedOf(assets[b]).version
    <3> DEFINE VersionOf(S) == (CHOOSE x \in S : TRUE).version
    <3>1. VersionAt(answers, <<s, r, b>>) = VersionOf(Portable(answers, <<s, r, b>>))
      BY DEF VersionAt
    <3>2. VersionOf(PortableOf(assets[b])) = ParsedOf(assets[b]).version
      BY DEF ParsedOf
    <3> HIDE DEF VersionOf
    <3> QED BY <2>1, <3>1, <3>2
  <2> QED BY <2>1, <2>2
<1>12. \A b \in DOMAIN assets : <<s, r, b>> \in SameRelease(answers, p)
  BY <1>1, <1>3, PlacesOfRelease
<1>13. k \in DOMAIN assets /\ PortableOf(assets[k]) # {}
  BY <1>8 DEF FirstPortable
<1>14. VersionAt(answers, <<s, r, k>>) = VersionAt(answers, <<s, r, a>>)
  BY <1>1, <1>7, <1>11, <1>12, <1>13 DEF OneVersion
<1> QED BY <1>1, <1>10, <1>11, <1>14

\* What is kept of answers is what the discovery returns.
AnswersInv ==
    given.kind = "answers" =>
        given.input \in ApiAnswers /\ kept = DiscoverThoriumReleases(given.input)

\* Every command keeps it.
LEMMA AnswersInvStep == AnswersInv /\ [InputsNext]_ivars => AnswersInv'
<1> SUFFICES ASSUME AnswersInv, [InputsNext]_ivars
             PROVE  AnswersInv'
  OBVIOUS
<1> USE DEF AnswersInv
<1>1. CASE UNCHANGED ivars
  BY <1>1 DEF ivars
<1>2. CASE \E answers \in ApiAnswers : Discover(answers)
  BY <1>2 DEF Discover, Command
<1>3. ASSUME NEW kind, NEW input, NEW value, Command(kind, input, value), kind # "answers"
      PROVE  AnswersInv'
  BY <1>3 DEF Command
<1>4. CASE \/ \E input \in ProfileInput : CreateProfile(input)
           \/ \E input \in AccountInput : CreateAccount(input)
           \/ \E input \in SettingsInput : SaveSettings(input)
           \/ \E proxy \in ProbedProxy, answers \in ProbeAnswers : ProbeProxy(proxy, answers)
           \/ \E uri \in Uri : ImportUri(uri)
           \/ \E image \in Image : ImportImage(image)
  BY <1>3, <1>4 DEF CreateProfile, CreateAccount, SaveSettings, ProbeProxy, ImportUri, ImportImage
<1>5. CASE \/ \E name \in Rename : UpdateProfile(name) \/ UpdateAccount(name)
           \/ ResaveProfile \/ ResaveAccount
  BY <1>3, <1>5 DEF UpdateProfile, UpdateAccount, ResaveProfile, ResaveAccount
<1>6. CASE LaunchProfile \/ StartDownload \/ \E now \in Instant : ShowCode(now)
  BY <1>3, <1>6 DEF LaunchProfile, StartDownload, ShowCode
<1>7. CASE Answered
  BY <1>7 DEF Answered, Nothing
<1> QED BY <1>1, <1>2, <1>4, <1>5, <1>6, <1>7 DEF InputsNext

\* The options offered are the usable portable assets of all sources, in
\* their order, each with the version of its own asset wherever the portable
\* assets of its release agree on one.  (catalog.rs, releases.rs, discover_thorium_releases.)
THEOREM OptionsAlwaysMatch == InputsSpec => []OptionsMatchTheirAssets
<1>1. InputsInit => AnswersInv
  BY DEF InputsInit, AnswersInv, Nothing
<1>2. AnswersInv => OptionsMatchTheirAssets
  <2> SUFFICES ASSUME AnswersInv, given.kind = "answers"
               PROVE  OptionsMatchTheirAssets
    BY DEF OptionsMatchTheirAssets
  <2> DEFINE answers == given.input
             Complete(s) == answers[s].failures < 3 /\ answers[s].array /\ answers[s].status = 200
  <2>1. answers \in [ToSet(Sources) -> AnswerType] /\ Sources \in Seq(STRING)
    BY InputTypes DEF AnswersInv
  <2>2. kept = DiscoverThoriumReleases(answers)
    BY DEF AnswersInv
  <2> HIDE DEF answers
  <2>3. (\A s \in ToSet(Sources) : Complete(s))
          <=> \A s \in DOMAIN Sources : Answers(answers[Sources[s]])
    <3>1. \A s : Complete(s) <=> Answers(answers[s])
      BY DEF Answers, Attempts
    <3>2. \A x : x \in ToSet(Sources) <=> \E s \in DOMAIN Sources : x = Sources[s]
      BY DEF ToSet
    <3> HIDE DEF Complete
    <3> QED BY <3>1, <3>2
  <2> HIDE DEF Complete
  <2>4. \/ /\ \E s \in DOMAIN Sources : ~ Answers(answers[Sources[s]])
           /\ kept = {}
        \/ /\ \A s \in DOMAIN Sources : Answers(answers[Sources[s]])
           /\ \E options : kept = One(options) /\ Lists(options, Offered(answers), answers)
    BY <2>1, <2>2, FoundOptions
  <2>5. ASSUME NEW options, Lists(options, Offered(answers), answers)
        PROVE  /\ ListsOffered(options, answers)
               /\ \A i \in DOMAIN options : FromId(options[i].variant) # {}
    <3>1. options \in Seq(Options(answers))
      BY <2>5 DEF Lists
    <3>2. DOMAIN options = 1 .. Len(options)
      BY <3>1
    <3>3. PICK place \in [DOMAIN options -> Offered(answers)] :
             /\ \A i, j \in DOMAIN options : i < j => Before(place[i], place[j])
             /\ \A p \in Offered(answers) : \E i \in DOMAIN options : place[i] = p
             /\ \A i \in DOMAIN options : options[i] = OptionFor(answers, place[i])
      BY <2>5, <3>2 DEF Lists
    <3>4. ListsOffered(options, answers)
      <4>1. \A i \in DOMAIN options : OneVersion(answers, place[i]) =>
                                        options[i].version = VersionAt(answers, place[i])
        BY <2>1, <3>3, OptionVersion
      <4> QED BY <3>3, <4>1 DEF ListsOffered
    <3>5. \A i \in DOMAIN options : FromId(options[i].variant) # {}
      BY <3>3, OptionVariant
    <3> QED BY <3>4, <3>5
  <2>6. (kept # {}) <=> \A s \in ToSet(Sources) : Complete(s)
    BY <2>3, <2>4 DEF One
  <2>7. \A options \in kept :
           /\ kept = {options} /\ ListsOffered(options, answers)
           /\ \A i \in DOMAIN options : FromId(options[i].variant) # {}
    BY <2>4, <2>5 DEF One
  <2> QED BY <2>6, <2>7 DEF OptionsMatchTheirAssets, answers, Complete
<1> QED BY <1>1, <1>2, AnswersInvStep, PTL DEF InputsSpec
=============================================================================
