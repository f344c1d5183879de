------------------------------ MODULE Installs ------------------------------
(***************************************************************************)
(* Thorium versions on disk (crates/thorium/src/install.rs) and the        *)
(* commands that change them (crates/controller/src/thorium_mgmt.rs).      *)
(*                                                                         *)
(* Installs are asynchronous commands and run beside the main thread, on   *)
(* which versions are selected and deleted and browsers launched.  They    *)
(* share the version directories, one extraction directory per version,    *)
(* the marker `current` with its temporary file, and the registry rows     *)
(* behind the store mutex.  A session is reduced to the version it runs;   *)
(* see Sessions.                                                           *)
(***************************************************************************)
EXTENDS Naturals

CONSTANTS Version,
          Installer,  \* bound: installs that run at the same time
          Profile,
          Main,       \* the main thread
          None,       \* no version; no directory
          MaxInstalls \* bound: installs begun

\* Files of a tree: BIN/thorium.exe, a thorium.exe elsewhere, all others.
File == {"exe", "other", "rest"}
Archives == {{"exe", "rest"}, {"other"}}
Tree == {None} \cup SUBSET File

Thread == Installer \cup {Main}

ASSUME DistinctValues ==
    /\ None \notin Version
    /\ \A files \in SUBSET File : None # files
    /\ Main \notin Installer
ASSUME BoundAssumption == MaxInstalls \in Nat

VARIABLES
    dir,      \* versions/<version>
    staging,  \* staging/extract-<version>-<pid>
    current,  \* the version named by the marker
    tmp,      \* the version named by current.tmp
    rows,     \* versions with a row in thorium_installs
    pin,      \* the version a profile asks for, None for the current one
    running,  \* the version a profile's browser runs
    deleted,  \* profiles whose row is gone
    step,     \* what each thread is doing
    begun,    \* number of installs begun
    raced,    \* history: a version was selected while it was deleted
    shared    \* history: versions that two installs extracted at once

vars == <<dir, staging, current, tmp, rows, pin, running, deleted, step, begun, raced, shared>>

\* What a thread does: nothing, an installation, or another command's work.
AtRest == [at |-> "rest"]
InstallStep ==
    [at : {"check", "prepare", "extract", "promote", "record", "readCurrent", "select"},
     version : Version,
     left : SUBSET File]  \* files of the archive that are not extracted yet
SelectStep == [at : {"writeTmp", "renameTmp"}, version : Version]
DeleteStep ==
    [at : {"recheck", "remove", "dropRows", "stuck"},
     version : Version,
     unplanned : SUBSET Profile]  \* running profiles whose plan failed

IsInstalled(v) == dir[v] # None /\ "exe" \in dir[v]

\* A command of thread t returns, with or without an error.
Return(t) == step' = [step EXCEPT ![t] = AtRest]
Goto(t, at) == step' = [step EXCEPT ![t].at = at]

Init ==
    /\ dir = [v \in Version |-> None]
    /\ staging = [v \in Version |-> None]
    /\ current = None
    /\ tmp = None
    /\ rows = {}
    /\ pin = [p \in Profile |-> None]
    /\ running = [p \in Profile |-> None]
    /\ deleted = {}
    /\ step = [t \in Thread |-> AtRest]
    /\ begun = 0
    /\ raced = FALSE
    /\ shared = {}

-----------------------------------------------------------------------------
(* Selecting the current version: `set_current` *)

Select(t, v) ==
    IF IsInstalled(v)
    THEN step' = [step EXCEPT ![t] = [at |-> "writeTmp", version |-> v]]
    ELSE Return(t)

WriteTmp(t) ==
    /\ step[t].at = "writeTmp"
    /\ tmp' = step[t].version
    /\ Goto(t, "renameTmp")
    /\ UNCHANGED <<dir, staging, current, rows, pin, running, deleted, begun>>

\* The rename fails when another thread has taken current.tmp away.
RenameTmp(t) ==
    /\ step[t].at = "renameTmp"
    /\ current' = IF tmp = None THEN current ELSE tmp
    /\ tmp' = None
    /\ Return(t)
    /\ UNCHANGED <<dir, staging, rows, pin, running, deleted, begun>>

\* Variant with a mistake: whether the version is installed is not checked.
SetCurrentUnchecked(v) ==
    /\ step[Main] = AtRest
    /\ step' = [step EXCEPT ![Main] = [at |-> "writeTmp", version |-> v]]
    /\ UNCHANGED <<dir, staging, current, tmp, rows, pin, running, deleted, begun>>

SetCurrent(v) ==
    /\ step[Main] = AtRest
    /\ Select(Main, v)
    /\ UNCHANGED <<dir, staging, current, tmp, rows, pin, running, deleted, begun>>

-----------------------------------------------------------------------------
(* Installing: `install_thorium` *)

\* The download has put an archive into staging (see Download).
Downloaded(i, v, archive) ==
    /\ step[i] = AtRest
    /\ begun < MaxInstalls
    /\ begun' = begun + 1
    /\ step' = [step EXCEPT ![i] = [at |-> "check", version |-> v, left |-> archive]]
    /\ UNCHANGED <<dir, staging, current, tmp, rows, pin, running, deleted>>

CheckNotInstalled(i) ==
    /\ step[i].at = "check"
    /\ IF IsInstalled(step[i].version) THEN Return(i) ELSE Goto(i, "prepare")
    /\ UNCHANGED <<dir, staging, current, tmp, rows, pin, running, deleted, begun>>

\* What can be left of a tree whose removal may fail halfway.
Leftovers(tree) == IF tree = None THEN {} ELSE SUBSET tree

\* What an earlier attempt left is removed as far as possible; the directory
\* is made if it is not there.
Prepare(i) ==
    /\ step[i].at = "prepare"
    /\ \E files \in {{}} \cup Leftovers(staging[step[i].version]) :
          staging' = [staging EXCEPT ![step[i].version] = files]
    /\ Goto(i, "extract")
    /\ UNCHANGED <<dir, current, tmp, rows, pin, running, deleted, begun>>

ExtractFile(i, f) ==
    /\ step[i].at = "extract"
    /\ f \in step[i].left
    /\ staging[step[i].version] # None
    /\ staging' = [staging EXCEPT ![step[i].version] = @ \cup {f}]
    /\ step' = [step EXCEPT ![i].left = @ \ {f}]
    /\ UNCHANGED <<dir, current, tmp, rows, pin, running, deleted, begun>>

\* Variant with a mistake: an entry that cannot be written is skipped.
ValidateAnyway(i) ==
    /\ step[i].at = "extract"
    /\ staging[step[i].version] # None
    /\ staging[step[i].version] \cap {"exe", "other"} # {}
    /\ Goto(i, "promote")
    /\ UNCHANGED <<dir, staging, current, tmp, rows, pin, running, deleted, begun>>

\* A thorium.exe at any depth will do.
Validate(i) ==
    /\ step[i].at = "extract"
    /\ step[i].left = {}
    /\ staging[step[i].version] # None
    /\ staging[step[i].version] \cap {"exe", "other"} # {}
    /\ Goto(i, "promote")
    /\ UNCHANGED <<dir, staging, current, tmp, rows, pin, running, deleted, begun>>

\* A bad archive, a file that cannot be written, a directory that another
\* install removed, a tree without thorium.exe.
ExtractFails(i) ==
    /\ step[i].at = "extract"
    /\ \E tree \in {None} \cup Leftovers(staging[step[i].version]) :
          staging' = [staging EXCEPT ![step[i].version] = tree]
    /\ Return(i)
    /\ UNCHANGED <<dir, current, tmp, rows, pin, running, deleted, begun>>

\* Variant with a mistake: a directory in the way is replaced.
PromoteOver(i) ==
    /\ step[i].at = "promote"
    /\ staging[step[i].version] # None
    /\ dir' = [dir EXCEPT ![step[i].version] = staging[step[i].version]]
    /\ staging' = [staging EXCEPT ![step[i].version] = None]
    /\ Goto(i, "record")
    /\ UNCHANGED <<current, tmp, rows, pin, running, deleted, begun>>

\* The rename needs its source, and a target that is absent or an empty
\* directory.
Promote(i) ==
    /\ step[i].at = "promote"
    /\ staging[step[i].version] # None
    /\ dir[step[i].version] \in {None, {}}
    /\ dir' = [dir EXCEPT ![step[i].version] = staging[step[i].version]]
    /\ staging' = [staging EXCEPT ![step[i].version] = None]
    /\ Goto(i, "record")
    /\ UNCHANGED <<current, tmp, rows, pin, running, deleted, begun>>

\* The store mutex is held for good by a thread that waits for it.
StoreIsFree == step[Main].at # "stuck"

\* Variant with a mistake: the row names the current version.
RecordCurrent(i) ==
    /\ step[i].at = "record"
    /\ StoreIsFree
    /\ rows' = rows \cup {current}
    /\ Goto(i, "readCurrent")
    /\ UNCHANGED <<dir, staging, current, tmp, pin, running, deleted, begun>>

Record(i) ==
    /\ step[i].at = "record"
    /\ StoreIsFree
    /\ rows' = rows \cup {step[i].version}
    /\ Goto(i, "readCurrent")
    /\ UNCHANGED <<dir, staging, current, tmp, pin, running, deleted, begun>>

ReadCurrent(i) ==
    /\ step[i].at = "readCurrent"
    /\ IF current = None THEN Goto(i, "select") ELSE Return(i)
    /\ UNCHANGED <<dir, staging, current, tmp, rows, pin, running, deleted, begun>>

SelectInstalled(i) ==
    /\ step[i].at = "select"
    /\ Select(i, step[i].version)
    /\ UNCHANGED <<dir, staging, current, tmp, rows, pin, running, deleted, begun>>

-----------------------------------------------------------------------------
(* Launching and pinning, on the main thread *)

\* `plan_launch`: the pinned version or the current one, of a profile that
\* still has a row.
Planned(p) == IF pin[p] = None THEN current ELSE pin[p]
CanPlan(p) == p \notin deleted /\ Planned(p) # None /\ IsInstalled(Planned(p))

LaunchProfile(p) ==
    /\ step[Main] = AtRest
    /\ running[p] = None
    /\ CanPlan(p)
    /\ running' = [running EXCEPT ![p] = Planned(p)]
    /\ UNCHANGED <<dir, staging, current, tmp, rows, pin, deleted, step, begun>>

UpdateProfile(p, v) ==
    /\ step[Main] = AtRest
    /\ p \notin deleted
    /\ pin' = [pin EXCEPT ![p] = v]
    /\ UNCHANGED <<dir, staging, current, tmp, rows, running, deleted, step, begun>>

\* `delete_profile` does not ask whether the browser runs.
DeleteProfile(p) ==
    /\ step[Main] = AtRest
    /\ deleted' = deleted \cup {p}
    /\ UNCHANGED <<dir, staging, current, tmp, rows, pin, running, step, begun>>

\* The browser ends by itself, or `stop_profile` ends it.
BrowserEnds(p) ==
    /\ running' = [running EXCEPT ![p] = None]
    /\ UNCHANGED <<dir, staging, current, tmp, rows, pin, deleted, step, begun>>

-----------------------------------------------------------------------------
(* Deleting: `delete_thorium_version`, on the main thread *)

\* Variant with a mistake: running profiles are not looked at.
ProtectCurrentOnly(unplanned) == {current}

\* The current version, and what running profiles would launch now.  A
\* profile whose plan fails protects nothing.
Protected(unplanned) ==
    {current} \cup
    {Planned(p) : p \in {q \in Profile \ unplanned : running[q] # None /\ CanPlan(q)}}

\* `if let Ok(plan)`: an error of the store or of the marker while a running
\* profile is planned goes unnoticed.
Delete(v) ==
    /\ step[Main] = AtRest
    /\ \E unplanned \in SUBSET {p \in Profile : running[p] # None} :
          /\ v \notin Protected(unplanned)
          /\ step' = [step EXCEPT ![Main] =
                         [at |-> "recheck", version |-> v, unplanned |-> unplanned]]
    /\ UNCHANGED <<dir, staging, current, tmp, rows, pin, running, deleted, begun>>

\* `delete_version` reads the marker once more.
Recheck ==
    /\ step[Main].at = "recheck"
    /\ IF current = step[Main].version \/ dir[step[Main].version] = None
       THEN Return(Main)
       ELSE Goto(Main, "remove")
    /\ UNCHANGED <<dir, staging, current, tmp, rows, pin, running, deleted, begun>>

\* `remove_dir_all`, file by file; the image of a running browser stays.
RemoveFile(f) ==
    /\ step[Main].at = "remove"
    /\ dir[step[Main].version] # None
    /\ f \in dir[step[Main].version]
    /\ f = "exe" => \A p \in Profile : running[p] # step[Main].version
    /\ dir' = [dir EXCEPT ![step[Main].version] = @ \ {f}]
    /\ UNCHANGED <<staging, current, tmp, rows, pin, running, deleted, step, begun>>

RemoveDirectory ==
    /\ step[Main].at = "remove"
    /\ dir[step[Main].version] = {}
    /\ dir' = [dir EXCEPT ![step[Main].version] = None]
    /\ Goto(Main, "dropRows")
    /\ UNCHANGED <<staging, current, tmp, rows, pin, running, deleted, begun>>

\* The guard of the store that listed the rows lives as long as the loop
\* over them; the first row to remove locks the store again.
DropRows ==
    /\ step[Main].at = "dropRows"
    /\ IF step[Main].version \in rows THEN Goto(Main, "stuck") ELSE Return(Main)
    /\ UNCHANGED <<dir, staging, current, tmp, rows, pin, running, deleted, begun>>

-----------------------------------------------------------------------------
(* Failures *)

\* An I/O or database error of the next call; files stay as they are.
Fail(t) ==
    /\ step[t].at \notin {"rest", "extract", "stuck"}
    /\ step[t].at = "record" => StoreIsFree
    /\ Return(t)
    /\ UNCHANGED <<dir, staging, current, tmp, rows, pin, running, deleted, begun>>

\* The process stops anywhere: browsers end with it; recovery removes
\* current.tmp; the new process has extraction directories of its own.
Restart ==
    /\ staging' = [v \in Version |-> None]
    /\ tmp' = None
    /\ running' = [p \in Profile |-> None]
    /\ step' = [t \in Thread |-> AtRest]
    /\ UNCHANGED <<dir, current, rows, pin, deleted, begun>>

-----------------------------------------------------------------------------
(* The threads *)

Install(i) ==
    \/ CheckNotInstalled(i) \/ Prepare(i) \/ Validate(i) \/ ExtractFails(i) \/ Promote(i)
    \/ \E f \in File : ExtractFile(i, f)
    \/ Record(i) \/ ReadCurrent(i) \/ SelectInstalled(i)

FinishDelete == Recheck \/ RemoveDirectory \/ DropRows \/ \E f \in File : RemoveFile(f)

Finish(t) == WriteTmp(t) \/ RenameTmp(t) \/ Fail(t)

Command ==
    \/ \E v \in Version : SetCurrent(v) \/ Delete(v)
    \/ \E p \in Profile : LaunchProfile(p) \/ BrowserEnds(p) \/ DeleteProfile(p)
    \/ \E p \in Profile, v \in Version \cup {None} : UpdateProfile(p, v)

Step ==
    \/ \E i \in Installer, v \in Version, archive \in Archives : Downloaded(i, v, archive)
    \/ \E i \in Installer : Install(i)
    \/ \E t \in Thread : Finish(t)
    \/ FinishDelete
    \/ Command
    \/ Restart

\* A version on its way into the marker, past the check of `set_current`.
Selecting(v) ==
    \/ tmp = v
    \/ \E t \in Thread : step[t].at = "writeTmp" /\ step[t].version = v

Deleting(v) == step[Main].at \in {"recheck", "remove"} /\ step[Main].version = v

Extracting(i, v) == step[i].at \in {"extract", "promote"} /\ step[i].version = v

Next ==
    /\ Step
    /\ raced' = (raced \/ \E v \in Version : (Selecting(v) /\ Deleting(v))')
    /\ shared' = shared \cup
          {v \in Version : \E i, j \in Installer :
              i # j /\ Extracting(i, v)' /\ Extracting(j, v)'}

Spec == Init /\ [][Next]_vars

\* A command or an install that has begun goes on.
FairSpec ==
    /\ Spec
    /\ WF_vars(Next /\ FinishDelete)
    /\ \A t \in Thread : WF_vars(Next /\ Finish(t))
    /\ \A i \in Installer : WF_vars(Next /\ Install(i))

-----------------------------------------------------------------------------
(* Properties *)

\* Every variable keeps its type.
TypeOK ==
    /\ dir \in [Version -> Tree]
    /\ staging \in [Version -> Tree]
    /\ current \in Version \cup {None}
    /\ tmp \in Version \cup {None}
    /\ rows \in SUBSET Version
    /\ pin \in [Profile -> Version \cup {None}]
    /\ running \in [Profile -> Version \cup {None}]
    /\ deleted \in SUBSET Profile
    /\ step \in [Thread -> {AtRest} \cup InstallStep \cup SelectStep \cup DeleteStep]
    /\ begun \in 0..MaxInstalls
    /\ raced \in BOOLEAN
    /\ shared \in SUBSET Version

\* An installed version keeps its files until it is deleted: installs, failed
\* ones included, never touch it ("a download or extraction failure leaves
\* versions/ untouched").
InstalledIsUntouched ==
    [][\A v \in Version : IsInstalled(v) => dir'[v] = dir[v] \/ Deleting(v)]_vars

\* The marker names an installed version, unless that version was once
\* selected while it was being deleted: "current" survives every failure,
\* every restart and every install.
CurrentIsInstalled == current # None /\ ~raced => IsInstalled(current)

\* The version a running profile uses is deleted in these cases only: the
\* row of the profile is gone, its plan failed when the deletion collected the
\* versions in use, it was pinned to another version since its launch, or it
\* follows the marker and the marker has moved on (or moves back while the
\* deletion is under way).
VersionInUseIsKept ==
    \A p \in Profile : running[p] # None /\ Deleting(running[p]) =>
        \/ p \in deleted \cup step[Main].unplanned
        \/ pin[p] \notin {None, running[p]}
        \/ pin[p] = None /\ (current # running[p] \/ raced)

\* A version appears with every file of an archive, unless two installs
\* extracted it at the same time: promotion comes after the last file, also
\* over what an earlier attempt left.
VersionAppearsWhole ==
    [][\A v \in Version \ shared :
           dir[v] \in {None, {}} /\ dir'[v] \notin {None, {}} =>
               \E archive \in Archives : archive \subseteq dir'[v]]_vars

-----------------------------------------------------------------------------
(* What comments of the code claim and the code does not do *)

\* "Drop matching registry rows (all variants of the version)."
DeletionEnds == step[Main].at = "dropRows" ~> step[Main] = AtRest
=============================================================================
