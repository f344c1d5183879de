------------------------------ MODULE Sessions ------------------------------
(***************************************************************************)
(* Browser sessions: one supervised process tree per profile               *)
(* (crates/browser-profile, crates/windows-platform, and launch, stop and  *)
(* reap of controller/services.rs).                                        *)
(*                                                                         *)
(* A session owns a slot of the in-process registry, the profile's named   *)
(* mutex, a job object that kills its members when it is closed, and the   *)
(* head process.  The commands run on the main thread, one after the       *)
(* other; the processes, other programs and the end of this one come       *)
(* between any two of their steps.                                         *)
(*                                                                         *)
(* The mutex is held by the main thread and Windows lets a thread acquire  *)
(* again what it holds.  Closing the last handle frees it, whether the     *)
(* guard is dropped or the process stops.                                  *)
(***************************************************************************)
CONSTANT Profile

VARIABLES
    sessions,  \* profiles with an entry in Workspace::sessions
    held,      \* held_profiles: the in-process registry
    mutex,     \* who holds a profile's named mutex
    head,      \* the head process of a profile's session or launch
    children,  \* profiles with live processes in their job, besides the head
    strays,    \* profiles with live processes that belong to no job
    op,        \* the launch in progress
    reply,     \* what the last command returned
    leaked     \* history: profiles whose slot was lost to a platform error

vars == <<sessions, held, mutex, head, children, strays, op, reply, leaked>>

Idle == [at |-> "idle"]
Steps == {"register", "mutex", "job", "spawn", "assign", "insert"}

Return(answer) ==
    /\ op' = Idle
    /\ reply' = answer

Goto(step) ==
    /\ op' = [op EXCEPT !.at = step]
    /\ UNCHANGED reply

Init ==
    /\ sessions = {}
    /\ held = {}
    /\ mutex = [p \in Profile |-> "free"]
    /\ head = [p \in Profile |-> "none"]
    /\ children = {}
    /\ strays = {}
    /\ op = Idle
    /\ reply = "started"
    /\ leaked = {}

-----------------------------------------------------------------------------
(* Sessions that end *)

\* Variant with a mistake: the lock is released and the job is not closed.
ReleaseLockOnly(P) ==
    /\ held' = held \ P
    /\ mutex' = [p \in Profile |-> IF p \in P THEN "free" ELSE mutex[p]]
    /\ head' = [p \in Profile |-> IF p \in P THEN "none" ELSE head[p]]
    /\ UNCHANGED children

\* `Session` or its parts are dropped: the tree is terminated, the registry
\* slot and the mutex are released, the job is closed.  No step of this
\* process comes between, so the drop is one step.
Release(P) ==
    /\ held' = held \ P
    /\ mutex' = [p \in Profile |-> IF p \in P THEN "free" ELSE mutex[p]]
    /\ head' = [p \in Profile |-> IF p \in P THEN "none" ELSE head[p]]
    /\ children' = children \ P

\* `is_running` looks at the head process only.
Dead == {p \in sessions : head[p] = "ended"}

\* `reap_dead_sessions` drops them.
Reap ==
    /\ sessions' = sessions \ Dead
    /\ Release(Dead)

-----------------------------------------------------------------------------
(* Launching *)

\* `launch_profile` reaps, resolves the plan, and checks the executable and
\* the directory; each may refuse.
Launch(p) ==
    /\ op = Idle
    /\ Reap
    /\ \/ op' = [at |-> "register", profile |-> p] /\ reply' = "none"
       \/ Return("error")
    /\ UNCHANGED <<strays, leaked>>

\* Variant with a mistake: the registry is not asked.
RegisterAlways ==
    /\ op.at = "register"
    /\ held' = held \cup {op.profile}
    /\ Goto("mutex")
    /\ UNCHANGED <<sessions, mutex, head, children, strays, leaked>>

Register ==
    /\ op.at = "register"
    /\ IF op.profile \in held
       THEN Return("running") /\ UNCHANGED held
       ELSE held' = held \cup {op.profile} /\ Goto("mutex")
    /\ UNCHANGED <<sessions, mutex, head, children, strays, leaked>>

\* Variant with a mistake: the slot is kept when another process has the mutex.
AcquireMutexKeepingSlot ==
    /\ op.at = "mutex"
    /\ IF mutex[op.profile] = "other"
       THEN Return("running") /\ UNCHANGED mutex
       ELSE mutex' = [mutex EXCEPT ![op.profile] = "ours"] /\ Goto("job")
    /\ UNCHANGED <<sessions, held, head, children, strays, leaked>>

\* The second layer; a mutex of this thread is acquired again.
AcquireMutex ==
    /\ op.at = "mutex"
    /\ IF mutex[op.profile] = "other"
       THEN Return("running") /\ held' = held \ {op.profile} /\ UNCHANGED mutex
       ELSE mutex' = [mutex EXCEPT ![op.profile] = "ours"] /\ Goto("job") /\ UNCHANGED held
    /\ UNCHANGED <<sessions, head, children, strays, leaked>>

\* An error of CreateMutexW or of the wait: `?` returns past the slot.
MutexFails ==
    /\ op.at = "mutex"
    /\ Return("error")
    /\ leaked' = leaked \cup {op.profile}
    /\ UNCHANGED <<sessions, held, mutex, head, children, strays>>

CreateJob ==
    /\ op.at = "job"
    /\ Goto("spawn")
    /\ UNCHANGED <<sessions, held, mutex, head, children, strays, leaked>>

\* The process starts running outside of the job.
Spawn ==
    /\ op.at = "spawn"
    /\ head' = [head EXCEPT ![op.profile] = "alive"]
    /\ Goto("assign")
    /\ UNCHANGED <<sessions, held, mutex, children, strays, leaked>>

AssignToJob ==
    /\ op.at = "assign"
    /\ Goto("insert")
    /\ UNCHANGED <<sessions, held, mutex, head, children, strays, leaked>>

\* The job, the process or the assignment fails: the head is killed and the
\* lock dropped.
LaunchFails ==
    /\ op.at \in {"job", "spawn", "assign"}
    /\ Release({op.profile})
    /\ Return("error")
    /\ UNCHANGED <<sessions, strays, leaked>>

\* Variant with a mistake: the launch is not forgotten.
InsertOnly ==
    /\ op.at = "insert"
    /\ sessions' = sessions \cup {op.profile}
    /\ op' = [op EXCEPT !.at = "idle"]
    /\ reply' = "ok"
    /\ UNCHANGED <<held, mutex, head, children, strays, leaked>>

InsertSession ==
    /\ op.at = "insert"
    /\ sessions' = sessions \cup {op.profile}
    /\ Return("ok")
    /\ UNCHANGED <<held, mutex, head, children, strays, leaked>>

-----------------------------------------------------------------------------
(* The other commands *)

\* `stop_profile`; an error of the termination drops the session as well.
Stop(p) ==
    /\ op = Idle
    /\ IF p \in sessions
       THEN /\ sessions' = sessions \ {p}
            /\ Release({p})
            /\ Return("ok") \/ Return("error")
       ELSE /\ Return("error")
            /\ UNCHANGED <<sessions, held, mutex, head, children>>
    /\ UNCHANGED <<strays, leaked>>

RunningProfiles ==
    /\ op = Idle
    /\ Reap
    /\ Return("ok")
    /\ UNCHANGED <<strays, leaked>>

-----------------------------------------------------------------------------
(* The surroundings *)

\* The head is outside of the job until it is assigned.
Unassigned(p) == op.at = "assign" /\ op.profile = p

\* A process of a job starts another one in the same job.
Fork(p) ==
    /\ head[p] = "alive" \/ p \in children
    /\ IF Unassigned(p)
       THEN strays' = strays \cup {p} /\ UNCHANGED children
       ELSE children' = children \cup {p} /\ UNCHANGED strays
    /\ UNCHANGED <<sessions, held, mutex, head, op, reply, leaked>>

HeadExits(p) ==
    /\ head[p] = "alive"
    /\ head' = [head EXCEPT ![p] = "ended"]
    /\ UNCHANGED <<sessions, held, mutex, children, strays, op, reply, leaked>>

OthersExit(p) ==
    /\ \/ children' = children \ {p} /\ UNCHANGED strays
       \/ strays' = strays \ {p} /\ UNCHANGED children
    /\ UNCHANGED <<sessions, held, mutex, head, op, reply, leaked>>

\* A manager that runs on a copy of the workspace has the same profile ids.
OtherManager(p) ==
    /\ \/ mutex[p] = "free" /\ mutex' = [mutex EXCEPT ![p] = "other"]
       \/ mutex[p] = "other" /\ mutex' = [mutex EXCEPT ![p] = "free"]
    /\ UNCHANGED <<sessions, held, head, children, strays, op, reply, leaked>>

\* The process stops anywhere: its jobs close, its mutexes are abandoned.
Restart ==
    /\ sessions' = {}
    /\ held' = {}
    /\ mutex' = [p \in Profile |-> IF mutex[p] = "ours" THEN "free" ELSE mutex[p]]
    /\ head' = [p \in Profile |-> "none"]
    /\ children' = {}
    /\ strays' = strays \cup {p \in Profile : Unassigned(p) /\ head[p] = "alive"}
    /\ op' = Idle
    /\ reply' = "started"
    /\ leaked' = {}

Next ==
    \/ \E p \in Profile :
          Launch(p) \/ Stop(p) \/ Fork(p) \/ HeadExits(p) \/ OthersExit(p) \/ OtherManager(p)
    \/ Register \/ AcquireMutex \/ MutexFails \/ CreateJob \/ Spawn \/ AssignToJob
    \/ LaunchFails \/ InsertSession
    \/ RunningProfiles
    \/ Restart

Spec == Init /\ [][Next]_vars

-----------------------------------------------------------------------------
(* Properties *)

\* Every variable keeps its type.
TypeOK ==
    /\ sessions \in SUBSET Profile
    /\ held \in SUBSET Profile
    /\ mutex \in [Profile -> {"free", "ours", "other"}]
    /\ head \in [Profile -> {"none", "alive", "ended"}]
    /\ children \in SUBSET Profile
    /\ strays \in SUBSET Profile
    /\ op \in {Idle} \cup [at : Steps, profile : Profile]
    /\ reply \in {"started", "none", "ok", "error", "running"}
    /\ leaked \in SUBSET Profile

\* The profile of the launch that has passed the registry.
Launching == IF op.at \in Steps \ {"register"} THEN {op.profile} ELSE {}

\* A slot of the registry belongs to a session, to the launch in progress,
\* or was lost to a platform error: no other path through `try_acquire`,
\* `launch`, `shutdown` or a reap keeps a profile from being launched again.
SlotsAreAccounted == held = sessions \cup Launching \cup leaked

\* As long as a process of its job runs, a profile keeps its slot and its
\* mutex, and so nobody else may launch it: "While the session exists, the
\* lock is held".
LockedWhileItRuns ==
    \A p \in Profile :
        head[p] # "none" \/ p \in children => p \in held /\ mutex[p] = "ours"

\* A browser is started for a profile only when no process of an earlier
\* session's job still works on its directory.
OneTreePerProfile ==
    [][op.at = "spawn" /\ op'.at = "assign" =>
           head[op.profile] = "none" /\ op.profile \notin children]_vars
=============================================================================
