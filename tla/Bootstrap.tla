----------------------------- MODULE Bootstrap -----------------------------
(***************************************************************************)
(* Who may open a workspace (crates/controller/src/workspace.rs, the named *)
(* mutex of crates/windows-platform, Store::open of crates/storage): one   *)
(* directory, several processes, each bootstrapping and dropping it.       *)
(*                                                                         *)
(* A Call is one use of Workspace::bootstrap, with the workspace it        *)
(* returns until that is dropped.  The spellings of the directory differ   *)
(* in letter case only: the name of the mutex depends on it, the key of    *)
(* the in-process registry does not (root_key lowercases).  Paths that     *)
(* differ in more meet in neither, as nothing canonicalises them.          *)
(*                                                                         *)
(* The kernel object behind a name exists while a handle of it is open; it *)
(* belongs to a thread, not to a handle, and closing does not release it.  *)
(***************************************************************************)
EXTENDS Integers, FiniteSets

CONSTANTS Call, Thread, Process, Spelling,
          thread_of,   \* the thread that runs a call
          process_of,  \* the process of a thread
          Latest,      \* migrations::LATEST
          MaxLeaks,    \* bound: handles left by failed waits at a time
          Nobody       \* a model value

ASSUME CallAssumption ==
    /\ thread_of \in [Call -> Thread]
    /\ process_of \in [Thread -> Process]
    /\ Nobody \notin Thread \cup Call
ASSUME BoundAssumption == MaxLeaks \in Nat
ASSUME LatestAssumption == Latest \in Nat \ {0}

VARIABLES
    at,         \* where each call is
    spelling,   \* the root it was given
    handles,    \* of each name: the calls with an open handle
    leaked,     \* of each name: the processes with a handle nobody will close
    owner,      \* of each name: the owning thread
    registry,   \* processes with an entry in open_workspaces
    probes,     \* processes whose write probe exists
    applied,    \* how often each migration was committed
    version,    \* MAX(version) of schema_migrations, 0 without rows
    next,       \* the migration each call applies next
    writer,     \* the call in a transaction
    selecting   \* calls that are between current.tmp and its rename

object == <<handles, leaked, owner>>
vars == <<at, spelling, handles, leaked, owner, registry, probes, applied, version, next,
          writer, selecting>>

Version == 1 .. Latest
home(c) == process_of[thread_of[c]]

\* Between the registration and the drop.
Working == {"recover", "store", "migrate", "vault"}
Inside == Working \cup {"open"}
\* A failed bootstrap drops the slot, then the mutex; a dropped workspace the
\* mutex, then the slot, then the store.
Refusals == {"unwritable", "refused"}
Leaving == Refusals \cup {"failed", "unregistered", "unlocked", "closing"}
At == {"out", "probe", "layout", "wait", "owned"} \cup Inside \cup Leaving

Init ==
    /\ at = [c \in Call |-> "out"]
    /\ \E n \in Spelling : spelling = [c \in Call |-> n]
    /\ handles = [n \in Spelling |-> {}]
    /\ leaked = [n \in Spelling |-> {}]
    /\ owner = [n \in Spelling |-> Nobody]
    /\ registry = {}
    /\ probes = {}
    /\ applied = [v \in Version |-> 0]
    /\ version \in {0, Latest + 1}
    /\ next = [c \in Call |-> 1]
    /\ writer = Nobody
    /\ selecting = {}

Goto(c, where) == at' = [at EXCEPT ![c] = where]

\* A thread does one thing at a time.
Free(c) == \A d \in Call \ {c} : thread_of[d] = thread_of[c] => at[d] \in {"out", "open"}

-----------------------------------------------------------------------------
(* The kernel *)

\* Variant with a mistake: the handle stays open.
CloseNoHandle(c) == UNCHANGED object

\* The last handle destroys the object, and with it its ownership.
CloseHandle(c) ==
    LET n == spelling[c] IN
    /\ handles' = [handles EXCEPT ![n] = @ \ {c}]
    /\ owner' = [owner EXCEPT ![n] = IF handles[n] = {c} /\ leaked[n] = {} THEN Nobody ELSE @]
    /\ UNCHANGED leaked

Leaks == Cardinality(UNION {{n} \X leaked[n] : n \in Spelling})

\* The call returns without closing its handle.
LeakHandle(c) ==
    LET n == spelling[c] IN
    /\ handles' = [handles EXCEPT ![n] = @ \ {c}]
    /\ leaked' = [leaked EXCEPT ![n] = @ \cup {home(c)}]
    /\ UNCHANGED owner

-----------------------------------------------------------------------------
(* Workspace::bootstrap *)

\* The write probe is named by the process: one that is there already, of a
\* thread at the same point or of a dead process with this id, refuses the
\* directory.  verify_writable runs twice in a row; the two are one here.
Begin(c, n) ==
    /\ at[c] = "out"
    /\ Free(c)
    /\ spelling' = [spelling EXCEPT ![c] = n]
    /\ IF home(c) \in probes
       THEN Goto(c, "unwritable") /\ UNCHANGED probes
       ELSE Goto(c, "probe") /\ probes' = probes \cup {home(c)}
    /\ UNCHANGED <<object, registry, applied, version, next, writer, selecting>>

RemoveProbe(c) ==
    /\ at[c] = "probe"
    /\ \/ Goto(c, "layout") /\ probes' = probes \ {home(c)}
       \/ Goto(c, "out") /\ UNCHANGED probes
    /\ UNCHANGED <<spelling, object, registry, applied, version, next, writer, selecting>>

\* initialize_layout and CreateMutexW, each of which may fail.
CreateMutex(c) ==
    /\ at[c] = "layout"
    /\ \/ Goto(c, "out") /\ UNCHANGED handles
       \/ Goto(c, "wait") /\ handles' = [handles EXCEPT ![spelling[c]] = @ \cup {c}]
    /\ UNCHANGED <<spelling, leaked, owner, registry, probes, applied, version, next, writer, selecting>>

\* A free or abandoned object, or one that this thread owns already, is taken.
\* WAIT_TIMEOUT closes the handle, an error of the wait does not.
Wait(c) ==
    LET n == spelling[c] IN
    /\ at[c] = "wait"
    /\ \/ /\ owner[n] \in {Nobody, thread_of[c]}
          /\ Goto(c, "owned")
          /\ owner' = [owner EXCEPT ![n] = thread_of[c]]
          /\ UNCHANGED <<handles, leaked>>
       \/ owner[n] \notin {Nobody, thread_of[c]} /\ Goto(c, "refused") /\ CloseHandle(c)
       \/ Leaks < MaxLeaks /\ Goto(c, "out") /\ LeakHandle(c)
    /\ UNCHANGED <<spelling, registry, probes, applied, version, next, writer, selecting>>

\* Variant with a mistake: the named mutex is trusted alone.
RegisterAlways(c) ==
    /\ at[c] = "owned"
    /\ registry' = registry \cup {home(c)}
    /\ Goto(c, "recover")
    /\ UNCHANGED <<spelling, object, probes, applied, version, next, writer, selecting>>

Register(c) ==
    /\ at[c] = "owned"
    /\ IF home(c) \in registry
       THEN Goto(c, "refused") /\ CloseHandle(c) /\ UNCHANGED registry
       ELSE Goto(c, "recover") /\ registry' = registry \cup {home(c)} /\ UNCHANGED object
    /\ UNCHANGED <<spelling, probes, applied, version, next, writer, selecting>>

\* Recovery removes workspace.tmp and vault/vault.tmp, which nothing writes, and
\* current.tmp, which is a stale one only if nobody selects a version.
Recover(c) ==
    /\ at[c] = "recover"
    /\ Goto(c, "store")
    /\ UNCHANGED <<spelling, object, registry, probes, applied, version, next, writer, selecting>>

\* Connection::open to `pending`: the version is read once, and a version that
\* the program does not know is refused (SchemaTooNew).
OpenStore(c) ==
    /\ at[c] = "store"
    /\ \/ Goto(c, "failed") /\ UNCHANGED next
       \/ /\ version <= Latest
          /\ Goto(c, "migrate")
          /\ next' = [next EXCEPT ![c] = version + 1]
    /\ UNCHANGED <<spelling, object, registry, probes, applied, version, writer, selecting>>

\* Variant with a mistake: a script that was applied does not fail.
BeginMigrationAgain(c) ==
    /\ at[c] = "migrate"
    /\ next[c] <= Latest
    /\ writer = Nobody
    /\ writer' = c
    /\ UNCHANGED <<at, spelling, object, registry, probes, applied, version, next, selecting>>

\* The first statement of the script takes the write lock, or fails: another
\* connection keeps it for too long, or has applied the script meanwhile.
BeginMigration(c) ==
    /\ at[c] = "migrate"
    /\ next[c] <= Latest
    /\ writer # c
    /\ \/ writer = Nobody /\ applied[next[c]] = 0 /\ writer' = c /\ UNCHANGED at
       \/ Goto(c, "failed") /\ UNCHANGED writer
    /\ UNCHANGED <<spelling, object, registry, probes, applied, version, next, selecting>>

\* Variant with a mistake: the loop skips a migration.
CommitSkips(c) ==
    /\ writer = c
    /\ writer' = Nobody
    /\ applied' = [applied EXCEPT ![next[c]] = @ + 1]
    /\ version' = next[c]
    /\ next' = [next EXCEPT ![c] = @ + 2]
    /\ UNCHANGED <<at, spelling, object, registry, probes, selecting>>

\* The script and its row become visible together, or not at all.
Commit(c) ==
    /\ writer = c
    /\ writer' = Nobody
    /\ \/ /\ applied' = [applied EXCEPT ![next[c]] = @ + 1]
          /\ version' = next[c]
          /\ next' = [next EXCEPT ![c] = @ + 1]
          /\ UNCHANGED at
       \/ Goto(c, "failed") /\ UNCHANGED <<applied, version, next>>
    /\ UNCHANGED <<spelling, object, registry, probes, selecting>>

Migrated(c) ==
    /\ at[c] = "migrate"
    /\ next[c] > Latest
    /\ Goto(c, "vault")
    /\ UNCHANGED <<spelling, object, registry, probes, applied, version, next, writer, selecting>>

\* Vault::open and load_settings.
OpenVault(c) ==
    /\ at[c] = "vault"
    /\ Goto(c, "open") \/ Goto(c, "failed")
    /\ UNCHANGED <<spelling, object, registry, probes, applied, version, next, writer, selecting>>

Bootstrap(c) ==
    \/ RemoveProbe(c)
    \/ CreateMutex(c)
    \/ Wait(c)
    \/ Register(c)
    \/ Recover(c)
    \/ OpenStore(c)
    \/ BeginMigration(c)
    \/ Commit(c)
    \/ Migrated(c)
    \/ OpenVault(c)

-----------------------------------------------------------------------------
(* A failed bootstrap drops its variables in reverse order *)

\* Variant with a mistake: the entry of a failed bootstrap stays.
KeepSlot(c) ==
    /\ at[c] = "failed"
    /\ Goto(c, "unregistered")
    /\ UNCHANGED <<spelling, object, registry, probes, applied, version, next, writer, selecting>>

FailDropsSlot(c) ==
    /\ at[c] = "failed"
    /\ Goto(c, "unregistered")
    /\ registry' = registry \ {home(c)}
    /\ UNCHANGED <<spelling, object, probes, applied, version, next, writer, selecting>>

FailDropsMutex(c) ==
    /\ at[c] = "unregistered"
    /\ Goto(c, "out")
    /\ CloseHandle(c)
    /\ UNCHANGED <<spelling, registry, probes, applied, version, next, writer, selecting>>

-----------------------------------------------------------------------------
(* The open workspace; its fields are dropped in the order of the struct *)

\* `set_current`, from current.tmp to its rename.
Select(c) ==
    /\ at[c] = "open"
    /\ selecting' = IF c \in selecting THEN selecting \ {c} ELSE selecting \cup {c}
    /\ UNCHANGED <<at, spelling, object, registry, probes, applied, version, next, writer>>

Drop(c) ==
    /\ at[c] = "open"
    /\ c \notin selecting
    /\ Free(c)
    /\ Goto(c, "unlocked")
    /\ CloseHandle(c)
    /\ UNCHANGED <<spelling, registry, probes, applied, version, next, writer, selecting>>

DropSlot(c) ==
    /\ at[c] = "unlocked"
    /\ Goto(c, "closing")
    /\ registry' = registry \ {home(c)}
    /\ UNCHANGED <<spelling, object, probes, applied, version, next, writer, selecting>>

\* The caller gets the error: WorkspaceInUse, or that the root is not writable.
Return(c) ==
    /\ at[c] \in Refusals
    /\ Goto(c, "out")
    /\ UNCHANGED <<spelling, object, registry, probes, applied, version, next, writer, selecting>>

DropStore(c) ==
    /\ at[c] = "closing"
    /\ Goto(c, "out")
    /\ UNCHANGED <<spelling, object, registry, probes, applied, version, next, writer, selecting>>

Cleanup(c) == Return(c) \/ FailDropsSlot(c) \/ FailDropsMutex(c) \/ DropSlot(c) \/ DropStore(c)

\* A process ends anywhere: its handles are closed, what its threads owned is
\* abandoned, its transaction is rolled back, its files stay.  The next process
\* may get the same id.
Stop(p) ==
    LET mine == {c \in Call : home(c) = p}
        Closed(n) == handles[n] \subseteq mine /\ leaked[n] \subseteq {p}
    IN
    /\ (\E c \in mine : at[c] # "out") \/ (\E n \in Spelling : p \in leaked[n])
    /\ at' = [c \in Call |-> IF c \in mine THEN "out" ELSE at[c]]
    /\ handles' = [n \in Spelling |-> handles[n] \ mine]
    /\ leaked' = [n \in Spelling |-> leaked[n] \ {p}]
    /\ owner' = [n \in Spelling |->
           IF owner[n] # Nobody /\ (process_of[owner[n]] = p \/ Closed(n))
           THEN Nobody ELSE owner[n]]
    /\ registry' = registry \ {p}
    /\ probes' \in {probes, probes \ {p}}
    /\ writer' = IF writer \in mine THEN Nobody ELSE writer
    /\ selecting' = selecting \ mine
    /\ UNCHANGED <<spelling, applied, version, next>>

Next ==
    \/ \E c \in Call, n \in Spelling : Begin(c, n)
    \/ \E c \in Call : Bootstrap(c) \/ Cleanup(c) \/ Select(c) \/ Drop(c)
    \/ \E p \in Process : Stop(p)

Spec == Init /\ [][Next]_vars

\* A bootstrap that has begun and a drop go on; nobody has to begin either.
Fairness == \A c \in Call : WF_vars(Bootstrap(c)) /\ WF_vars(Cleanup(c))

FairSpec == Spec /\ Fairness

-----------------------------------------------------------------------------
(* What must hold *)

TypeOK ==
    /\ at \in [Call -> At]
    /\ spelling \in [Call -> Spelling]
    /\ handles \in [Spelling -> SUBSET Call]
    /\ leaked \in [Spelling -> SUBSET Process]
    /\ owner \in [Spelling -> Thread \cup {Nobody}]
    /\ registry \subseteq Process
    /\ probes \subseteq Process
    /\ applied \in [Version -> Nat]
    /\ version \in 0 .. Latest + 1
    /\ next \in [Call -> 1 .. Latest + 1]
    /\ writer \in Call \cup {Nobody}
    /\ selecting \subseteq Call

\* A workspace is open once for each spelling of its directory, and once in a
\* process whatever the letter case of the spelling: the mutex and the registry together keep out
\* other processes, other threads, and the thread that owns the mutex already
\* (Workspace::bootstrap).
OnePerSpelling ==
    \A c, d \in Call : c # d /\ at[c] \in Inside /\ at[d] \in Inside =>
        spelling[c] # spelling[d] /\ home(c) # home(d)

\* One thing is left over, a handle whose wait failed, and it stays for the life
\* of its process.  Whichever other step a bootstrap fails at, handles and registry
\* entries belong to calls that still run or are open, and an object belongs to
\* no thread once every handle of it, a leaked one included, is closed.
OnlyFailedWaitsLeak ==
    /\ \A n \in Spelling :
           /\ handles[n] = {c \in Call : /\ spelling[c] = n
                                         /\ at[c] \in {"wait", "owned", "failed", "unregistered"} \cup Inside}
           /\ handles[n] = {} /\ leaked[n] = {} => owner[n] = Nobody
    /\ registry = {home(c) : c \in {d \in Call : at[d] \in {"failed", "unlocked"} \cup Inside}}

\* Every migration up to the recorded version was committed once and no other,
\* also when two processes (with two spellings) read the version before either
\* applied one, and whichever process stops (Store::apply_migrations).
AppliedOnce ==
    version <= Latest => \A v \in Version : applied[v] = IF v <= version THEN 1 ELSE 0

\* Startup recovery takes current.tmp away from no selection under way in a
\* workspace of the same spelling or of the same process.  One of another process
\* with another spelling loses it.
RecoverySparesSelections ==
    [][\A c, d \in Call : at[c] = "recover" /\ at'[c] = "store" /\ d \in selecting =>
           spelling[d] # spelling[c] /\ home(d) # home(c)]_vars

\* What refuses c although nobody bootstraps or has the workspace open: a write
\* probe of its process whose removal failed or whose process died, or an object
\* that a leaked handle keeps alive, and owned by the thread of a dropped workspace.
LeftoverRefuses(c) ==
    \/ home(c) \in probes /\ \A d \in Call : at[d] = "probe" => home(d) # home(c)
    \/ leaked[spelling[c]] # {} /\ owner[spelling[c]] \notin {Nobody, thread_of[c]}

\* A call is refused again and again only while others bootstrap or have the
\* workspace open again and again, or one of the two leftovers stays; no other
\* failure of an earlier start or drop keeps a start out.
NoLockout ==
    \A c \in Call : []<>(at[c] \in Refusals) =>
        []<>(LeftoverRefuses(c) \/ \E d \in Call \ {c} : at[d] # "out")

\* What the documentation of bootstrap says: it fails when the workspace is
\* already open, in this process or another.
OneOwner ==
    \A c, d \in Call : at[c] = "open" /\ at[d] = "open" => c = d
=============================================================================
