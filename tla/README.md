# Thorium Workspace: verification project

TLA+ models of the core of Thorium Workspace, a desktop program that keeps
profiles, accounts, passwords, one-time-password factors and recovery codes,
and launches one Thorium browser per profile.  The models are written from the
Rust code in `src/crates` and `src/src-tauri`; TLC checks them on small
instances and TLAPS proves every safety property of the state machines for all
instances.

How to run, inside this directory:

    tlc -workers 2 -config MCVaultFile.cfg MCVaultFile
    tlapm VaultFileProofs.tla

## 1. Inventory

| Component | Code | State | Operations | Talks to |
|---|---|---|---|---|
| vault | `crates/vault` | `vault.bin`, `.tmp`, `.bak`; `VaultState` (missing, locked, unlocked with the key) | open, create, unlock, lock, load, save, mutate_payload, change_master_password | the file system; held in one mutex of the controller |
| secrets services | `crates/controller/src/services.rs` | none of its own | every command about profiles, accounts, passwords, factors, codes | vault mutex, store mutex, one after the other |
| SQLite store | `crates/storage` | rows of `profiles`, `accounts`, `factors`, `recovery_codes`, `thorium_installs`, `settings` | one statement per call, with WHERE, UNIQUE, CASCADE | store mutex |
| clipboard scheduler | `controller/src/clipboard.rs`, `windows-platform/src/clipboard.rs` | one pending clear; the system clipboard | copy_scheduled, tick | clipboard_state mutex; every other program |
| idle auto-lock | `controller/src/idle.rs`, `services.rs` | last activity, threshold | record_activity, disarm, set_threshold, is_idle | idle mutex, vault mutex, settings row |
| shell | `src-tauri/src/lib.rs` | the threads | 39 commands, window events, the housekeeping thread | the controller |
| workspace bootstrap | `controller/src/workspace.rs`, `windows-platform/src/mutex.rs` | named mutex, in-process registry, write probe, schema version | bootstrap, stale-file recovery, migrations, drop | all stores, other processes |
| sessions | `crates/browser-profile` | map of running sessions, per-profile lock, job object | launch, stop, reap, shutdown | processes, installs |
| Thorium installs | `crates/thorium/src/install.rs`, `controller/src/thorium_mgmt.rs` | version directories, `current` marker, registry rows | install, set_current, delete | downloads, sessions, store |
| downloads | `crates/thorium/src/releases.rs` | `.part` file, segments, shared counter, budgets | download_bounded: probe, segments, resume, retry, single stream | network, file system |
| one-time passwords, QR | `crates/otp`, `crates/qr` | none | totp, hotp, otpauth parsing, decode | secrets services |
| domain rules | `crates/domain` | none | validation | every command that keeps input |
| release catalog, proxy | `crates/thorium/src/catalog.rs`, `proxy.rs`, `releases.rs` | none | discover, route, test | the release API |
| secret containers, diagnostics, ids | several | none | zeroization, snapshots, text forms | |
| user interface | `app/src` | React state: copies of what it was shown | renders what commands return, sends copies back | the shell |

**Interaction.**  A command runs on the main thread of the shell, takes one
mutex of the controller, releases it, takes the next.  No mutex is held over a
whole command, so a command has *steps*, and three kinds of event fall between
them: the housekeeping thread (every second: clear the clipboard, lock an idle
vault), an error that `?` returns, and the end of the process.  Installs are
the only commands that run beside the main thread.

**What is hard here.**

- *Two stores without a transaction.*  A row names a secret, the vault holds
  it; a service changes first one, then the other.
- *One file that must not be lost.*  Every password is in `vault.bin`, which
  each change rewrites as a whole, header and key included.
- *Two timers in one thread.*  A clear takes its slot first and the clipboard
  second; a lock decides, locks and disarms under separate mutexes.
- *Shared resources outside the program*: the clipboard, the browser
  processes, the network.
- *Files and directories shared by concurrent installs.*
- *Downloads that resume*: offsets of retried ranges, a counter shared by all
  segments, writes that are still under way when their handle is dropped.
- *Two guards for one workspace*: a kernel object that belongs to a thread and
  a registry that belongs to a process, under two different keys.
- *Copies*: a page edits what it read earlier and sends everything back.
- *Values that are kept*: what a rule accepted once is validated again, launched
  and computed with later.

`PROJECT.json` lists every hazard at its line with the properties that watch
it; a hazard without a property says why.

**What makes each component correct.**

| Component | Correct when |
|---|---|
| vault | after any failure the file is whole and opens under the password it was acknowledged for; the backup holds a file before that is replaced; only a key that opens the file unlocks |
| services and store | a reference has a row exactly when it has a value, up to interrupted services and edits from stale copies; nothing else makes a row forget a reference whose value remains; no HOTP code twice; new recovery codes take free positions; an account appears, changes and disappears whole; an edit from a current copy keeps the password |
| clipboard | every copied password has its own pending clear; no clear comes early; it does come |
| idle lock | an armed idle vault locks |
| installs | the current version is installed; a version in use is not deleted, up to four cases; operations end |
| sessions | at most one browser on a profile directory; a profile whose browser ended can be launched again |
| downloads | a renamed file has no gap; what the stream fetched is on the disk; a complete download is not refused; it ends |
| bootstrap | a workspace is open once; a failed bootstrap leaves nothing held but the handle of a wait that failed; every migration is applied once; a refused start can be repeated |
| rules, URIs, releases | what is kept is what was entered, in range; what one rule accepted no later rule refuses |

## 2. Modules

| Module | What it is |
|---|---|
| `AtomicVault` | abstract specification: one pair (password, payload), replaced as a whole |
| `VaultFile` | the vault down to the system calls of `atomic_write`; implements `AtomicVault` |
| `Secrets` | rows, vault and the services between them |
| `Housekeeping` | clipboard clear and idle lock, commands against the tick |
| `Sessions` | browser sessions: registry, named mutex, job, processes |
| `Installs` | Thorium versions on disk: install, select, delete, launch |
| `Download` | one download: probe, segments with resume or one stream, disk, budgets |
| `Bootstrap` | who may open a workspace: processes, threads, kernel object, registry, migrations |
| `AccountBook` | abstract specification: a profile is one value, an account one value with its factors and codes |
| `Records` | the four tables, their statements and cascades, edits from copies; implements `AccountBook` |
| `Rules`, `OtpAuth`, `Releases` | pure parts: rules for text fields, launch line and download route; otpauth URIs and codes; asset names and release answers |
| `Inputs` | composes the three: commands that keep a value, and the later commands that use it |
| `MC*` | instances for TLC |
| `*Proofs` | theorems about the module of that name; `SessionsInputsProofs` about `Sessions` and `Inputs` |

The state machines are kept apart where the code is: `Installs` sees a download
as its end, `Secrets` sees the vault file as one atomic store, which `VaultFile`
shows it to be, and `Records` leaves the values behind references to `Secrets`.

Definitions headed "Variant with a mistake" are not part of a specification:
each is a plausible error in the definition it precedes, and shows that the
property that watches the definition can fail.

### VaultFile

| Model | Code |
|---|---|
| `path`, `tmp`, `bak` | `vault.bin`, `vault.bin.tmp`, `vault.bin.bak`: absent, torn, or a sealed image |
| `mem` | `Vault::state` |
| `op` | the running operation and the system call it is at |
| `Create`, `Unlock`, `Lock`, `Mutate`, `ChangePassword` | the public operations, up to their first write |
| `CreateTmp` ... `Promote` | `atomic_write`, call by call |
| `Finish` | what follows it: `create` and `change_master_password` read the header back and derive the key again |
| `IoError` | a call fails, `?` returns, files stay as they are |
| `Restart` | the process stops at any point; startup recovery, `Vault::open` |

Encryption is ideal: an image opens under the key and the header it was sealed
with and under nothing else.  A header stands for salt, parameters and nonce.
A crash of the machine, which may lose what `sync_all` did not cover, is not
modelled: the process stops, the operating system does not.

### Secrets

`entries` is the vault, seen through the atomicity that `VaultFile`
establishes: a `mutate_payload` happens entirely or not at all.  Everything
else is rows.  `op` is the service between its vault step and its row step;
at that point `Fail`, `Lock` and `Restart` may come.  The ids are random
UUIDs: an id that left a trace is not drawn again (`Fresh`).  `unsettled` and
`shown` are history variables: which references an interrupted service left
half done, and which HOTP counters reached the user.

`copies` are the rows that pages show.  `UpdateAccount` sends such a copy back,
and `update_account` writes the password reference in it, without a vault step.
A copy read before a password was set or deleted therefore makes the row forget
a value, or name one that is gone; `overwritten` is the history of such edits.
`StoresAgree` says that the two stores disagree about exactly these references,
`RefDroppedOnlyAfterPurge` that only such an edit drops one early.  When a
recovery code was used is a column of the row alone, so marking one is in
`Records`.

Commands are serial because the shell runs every synchronous command on the
main thread; the housekeeping thread only locks the vault.

### Housekeeping

Instants are ages: `Elapse` makes everything one unit older.  `lag` is the
time since the running tick read its `now`, because the tick judges both
timers by that instant.  `main` and `tick` are the two threads; a step of
either is what happens under one mutex.  A `Foreign` clipboard content may
appear at any moment, also between the two accesses with which a match is
compared and cleared.  `lost` records that the clear of the last copy failed or
was forgotten with the process.

### Sessions

| Model | Code |
|---|---|
| `sessions` | `Workspace::sessions` |
| `held` | `held_profiles`, the in-process registry |
| `mutex` | the named mutex of a profile: free, ours, another manager's |
| `head`, `children` | the processes of a profile's job |
| `strays` | processes started before the head was assigned to the job |
| `op` | the launch in progress and its next call |

`Launch` reaps and plans; `Register`, `AcquireMutex`, `CreateJob`, `Spawn`,
`AssignToJob`, `InsertSession` follow, each of which may fail.  Between any two
of them a browser may end, start another process, or the manager stop.
Dropping a session is one step (`Release`): no other step of this process comes
between its parts, and `TerminateJobObject` is taken to work.  `is_running` sees
the head only, so a reap drops a session whose children still run; they are
terminated with it.

### Installs

`dir` and `staging` are the files of `versions/<version>` and of the extraction
directory; a tree is its `BIN/thorium.exe`, a `thorium.exe` elsewhere, and all
the rest.  `current`, `tmp` are the marker and `current.tmp`, `rows` the
registry, `step` what each thread does next: any number of installs beside the
main thread, which selects, launches, pins and deletes.

The download is reduced to its end.  The variants of a version are one version;
directories of earlier process ids are ignored, as only a reused id would find
one; `BINARY_LAYOUT.txt` is left out, since nothing reads it.  Writing
`current.tmp` is one step, the rename another, so two selections may take each
other's temporary file away.  A removal may stop halfway and leave any subset
of the files.  `raced` and `shared` are history variables: a version was
selected while being deleted; two installs extracted the same version.

`deleted` are the profiles without a row: `DeleteProfile` does not ask whether
the browser runs.  `Delete` collects the versions in use by planning every
running profile again, and `if let Ok(plan)` drops a profile whose plan fails:
for want of a row or of an installed version (`CanPlan`), or by an error of the
store or the marker, which is the choice of `unplanned`.  `VersionInUseIsKept`
names the four cases in which a version in use is deleted, and says there is no
other.

`DropRows` models the guard in the head of the `for` loop of
`delete_thorium_version`: the store stays locked while the body locks it again.

### Download

| Model | Code |
|---|---|
| `phase`, `attempt`, `max_bytes`, `framed` | where `download_bounded` is; its probe, its parameter; whether answers say how long they are |
| `task` | the segment tasks (1, 2, ...) and the single stream (0): attempt, `done` of earlier attempts, `written` of this one |
| `part` | the `.part` file, byte by byte: hole, pending, data, lost |
| `downloaded` | the atomic counter the segments share |
| `deadline` | `max_duration` is used up |
| `last_error` | tokio file handles that know of a failed write they have not reported |

`ProbeFails`, `Probe`, `Allocate` are the head of `download_bounded`; `Answer`,
`Chunk`, `WriteFails`, `StreamBreaks`, `EndOfStream` are one attempt, which
`SegmentFailed` and `StreamFailed` repeat; `Join`, `StreamDone`, `Rename` end
it.  The server may answer anything: too little, too much, nothing.  A write of
tokio returns before the bytes are on the disk; `WriteEnds` and
`OrphanWriteEnds` let it land or fail later, seen or unseen by its handle.

One download uses a `.part` file; two installs of one version would share it.
Stale contents of an earlier `.part` are holes, which is the worst they can be.

### Bootstrap

A `Call` is one use of `Workspace::bootstrap` with the workspace it returns;
`thread_of` and `process_of` say where it runs.  The kernel object behind a
name (`handles`, `owner`) exists while a handle of it is open and belongs to a
thread, which may wait for it again; closing a handle releases nothing unless it
is the last.  `registry` is `open_workspaces`, keyed by the folded path;
`spelling`, the letter case of the path, decides the name of the kernel object.
Nothing canonicalises paths, so those that differ in more meet in neither guard.
`leaked` are handles that nobody will close: `try_acquire_named_mutex` closes
its handle on a timeout, but not when the wait itself fails.  `Leaks` of them at
most `MaxLeaks` at a time.  `probes` are write probes on
the disk, named by process.  `applied` counts how often each migration was
committed, `version` is what the store reads.  A leftover probe of the process
makes its starts fail as *not writable*, a foreign owner as *in use*; both are
`Refusals`.  `selecting` are the workspaces between `current.tmp` and its rename
(`Select`), which startup recovery may take away.

A failed bootstrap drops registry slot and mutex in the reverse order of their
creation (`FailDropsSlot`, `FailDropsMutex`); an open workspace drops its
fields in the order of the struct (`Drop`, `DropSlot`, `DropStore`).  A process
may stop anywhere; its handles close, its objects are abandoned, its transaction
is rolled back, its probe stays.

### Records

`profiles`, `accounts`, `factors`, `codes` are the tables.  Every statement is an
action: what it encodes (`FactorColumns`, `AccountUpdated`, ...), what the schema
refuses (UNIQUE, CHECK, foreign keys), what it cascades to, and what the readers
decode again (`GetAccount`, `ListProfiles`, ...).  `create_account` is the only
one with a transaction: `WriteAccount`, `WriteFactor`, `WriteCode` fill a copy of
the tables that `Commit` installs, `Rollback` or `Stop` drops.  The services pass
empty lists of factors and codes; the store takes full ones, as its tests do.

`copies` are the accounts that pages show.  `UpdateAccount` sends such a copy
back, the password reference included; `touched` records that the reference
was changed since.

Columns that go in and out unchanged count as one.  Which kind of error a refused
statement becomes is not modelled.  `AccountBook` has no tables: the refinement
decodes the rows as the readers do.

### Rules, OtpAuth, Releases, Inputs

A text is a sequence of tokens: a character, or a scheme with its "://", or the
name of a switch.  A rule yields the value that is kept, or nothing.  A URI is
given as the pieces between its separators, a release as its JSON fields, an
optional field as a set of at most one element.  What the HTTP client refuses
as a proxy is the constant `Unparsable`: `new_with_proxy` answers
*ProxyConfig* for it, although validation may have accepted it.  A launch meets
a `Layout`, the installed versions and the marker.  Codes are ideal: the record of
the key, counter and digits they are computed from.

`Inputs` is a small state machine (`InputsSpec`): a command keeps a value or
refuses it, later ones rename it, save it again unchanged, launch it, show its
code or download with it.  Its properties compare the kept value with references that are not
written in the order of the code: a URI's factor is described by the last
parameter of each kind, an option by the assets of its release, a list of tags
by the places of the first ones, a field by what a valid one looks like.

What the code loops over is a recursive function of the number of elements read
so far (`TagsKept`, `UrlsKept`, `ReadPairs`, `AssetsRead`, `Found`), so that the
loops can be reasoned about element by element (section 4).  `InputTypes` says
what shape an input has: a JSON object has a field at most once, a grid of an
image at most one payload.

## 3. Runs

| Run | Question | Bounds, and why they are enough |
|---|---|---|
| `vault_file` | does the file survive every error and stop, and implement `AtomicVault`? | two passwords and two payloads tell a rotation from a save; five headers are one more than files and memory hold at once, so a fresh one always exists |
| `secrets` | do rows and vault agree, whatever comes between two steps? | two accounts of one profile (deleting one must leave the other alone), one page whose copy may be out of date, one factor, two codes (a batch of two, deletion of the lower or the higher one), counters up to one past the largest; at most three references in play at a time (`FewReferences`), as every property is about one reference, one account or one batch of two |
| `housekeeping` | does every copy keep its clear, and none come early? | two passwords and two copies (one may supersede the other), two delays and lag 1 (a tick may be late), one failure and one restart anywhere |
| `housekeeping_live` | does the password go, and does an idle vault lock? | as above; a copy whose clear was lost is excepted |
| `sessions` | do registry, mutex and processes agree, one browser per profile? | two profiles: the launch of one meets the session of the other; every failure, exit and restart at every step |
| `installs` | is the current version installed, an installed one untouched, a new one whole, the one in use kept? | two versions and two installs (of the same or of different versions) beside the main thread, one profile that runs, is pinned, unpinned and deleted, and whose plan may fail; an install may follow a failed one, a deletion or a restart |
| `download` | has a renamed file no gap, is the stream on the disk, does the counter agree, does it end? | five bytes in a segment of two and one of three, so the remainder of the division matters; two attempts; chunks of up to two bytes, so an answer may be overlong; a budget that fits and one that does not |
| `bootstrap` | one workspace per spelling and process, nothing left over but the handle of a failed wait, migrations once, no lockout? | two calls on one thread (the object is re-entrant) and one in another process; two spellings; one leaked handle, which is enough to keep an object; one migration, as the code has, and a version the program does not know |
| `records` | is the store whole, do edits keep passwords, do the tables implement the book? | two profiles and two accounts (a cascade must leave the other alone), one factor and two codes (two positions), one page, largest integer 1 so that counters reach and pass it, at most three rows below profiles |
| `inputs` | does what is kept equal its reference, and do the rules agree? | all texts of up to three tokens (five where a rule counts parts) in one field at a time, queries of up to three pieces, releases of up to two assets; a launch without a version, with the current one and with a marker that names a deleted one; a proxy the client refuses (a port of two digits stands for one beyond 65535); limits of two or three so that every length lies on both sides |
| `installs_hang`, `bootstrap_spelling` | one statement of a comment each, which the code does not keep (section 6) | the smallest instance that shows it |

Deadlock is checked in every run but `download`, where the program ends.  The
symmetry sets permute constants that the specifications only compare; the runs
with liveness properties use none.

**Fairness** (`FairSpec` of `Housekeeping`): the housekeeping thread wakes every
second and does nothing but tick, so weak fairness of `Tick`; time passes, so
weak fairness of `Elapse`; a command that started finishes, because it waits
only for mutexes that are held for one call, so weak fairness of
`FinishCommand`.  Nothing is assumed of the user, who may keep copying, or of
other programs.

`FairSpec` of `Installs`: a deletion, a selection or an install that has begun
takes its next step, or fails, because its thread is running.  It serves one
counterexample, in which the main thread waits for a mutex it holds itself, so
that no step is left to be fair to.

`FairSpec` of `Download`: the probe has a timeout, the read loop a stall timer,
sleeps and joins end, a write to the disk ends.  The wait for an answer to a
request (`send().await`) is bounded by nothing, so neither `Answer` nor
`RequestFails` is fair, and `DownloadEnds` says: it ends or waits there forever.

`FairSpec` of `Bootstrap`: a bootstrap or a drop that has begun goes on.  Nobody
has to begin one; `NoLockout` does not ask that a start succeeds, only that it
is not refused for good: by others that use the workspace, or by one of two
leftovers, a write probe of the same process and a leaked handle.

The other specifications are checked for safety only.

## 4. Proofs

TLAPS proves, for every value of the constants that satisfies the named
assumptions:

| Module | Theorems | Inductive invariant |
|---|---|---|
| `VaultFileProofs` | `TypeCorrect`, `Openable`, `Backup`, `UnlockVerified`, `Refinement` | the file is absent or well sealed (its key was derived from its own header); the running operation's image is well sealed and fits the file it found; what the temporary file, the backup and the file hold at each step.  Without `RequestFits` a promotion could change password and payload together, which `AtomicVault` forbids |
| `SecretsProofs` | `TypeCorrect`, `Agreement`, `PositionsFree`, `PurgedFirst`, `NoCodeTwice` | `StoresAgree`, with `overwritten` for the edits; what the service in progress knows about its own id (`OpInv`); every counter whose code was shown is below the counter of its row.  The row conditions are needed because a service computes its references before the vault step and uses them after it |
| `HousekeepingProofs` | `TypeCorrect`, `CopyHasClear`, `ThresholdApplied`, `ClearNotEarly` | the pending clear belongs to the last copy, with its delay, and is at least as young; a clear under way is for a copy whose delay has passed |
| `SessionsInputsProofs`, on `Sessions` | `TypeCorrect`, `SlotsAccounted`, `Locked`, `OneTree`, `LostSlot` | the three sets that own slots are disjoint; a launch that has not spawned finds no process, because every process has its slot; past the mutex it holds it |
| `SessionsInputsProofs`, on `Inputs` | `FactorsAlwaysMatch`, `RulesAlwaysAgree`, `OptionsAlwaysMatch` | what is kept is what the command makes of the given input (`FactorInv`, `AnswersInv`); every kept profile and account is a fixed point of its rules, since a copy of it may come back (`UsableInv`) |
| `InstallsProofs` | `TypeCorrect`, `CurrentInstalled`, `InUseKept`, `Untouched`, `AppearsWhole`, `HangIsFinal` | only the removal of a file uninstalls, and a running browser's image is not removed (`RunningIsInstalled`); the version being removed is in use in the listed cases only; what is current, selected and removed are apart unless they raced; the extraction directory and the files left to extract make up an archive unless two installs share it |
| `DownloadProofs` | `Partition`, `TypeCorrect`, `NoGap`, `StreamWritten`, `Budget`, `Once`, `CounterSum`, `Counter`, `BoundedAttempts`, `NeverBack` | a byte below the resume offset of a segment was handed to the file; a task counts no more than its range and one chunk; only the task the phase has started runs; the stream's handle knows of every write of its own that was lost; the counter is the number of receipts (below); a task that pauses has an attempt left |
| `BootstrapProofs` | `TypeCorrect`, `MutualExclusion`, `OnlyWaitsLeak`, `Migrations`, `RecoverySparesThem`, `SoleOwner` | a call past the wait owns the object with its thread; handles and slots are those of the calls at the places where they hold one, and no owner is left without a handle, a leaked one included; a migration was committed once if the version has reached it, and the one being applied comes right after it or will be refused |
| `RecordsProofs` | `RoundTrip`, `TypeCorrect`, `Wholeness`, `PasswordsKept`, `RowsDecodable`, `Refinement` | the copy of the tables a transaction works on is as whole as the tables, its account is a new one and all other accounts are those of the tables; an untouched copy of an account has the password reference of its row; every stored row is one a command encoded, its id is on record, and the copy of a transaction adds only its own account (`BookInv`) |

`Partition` (the segments partition the file, for every size and number of
segments) and `RoundTrip` (what a column stores is decoded to the same value)
are theorems about operators; the others are about the specification of their
module.  `UnlockVerified`,
`Budget`, `Once`, `RecoverySparesThem`, `CounterSum`, `BoundedAttempts`, `NeverBack`,
`RowsDecodable`, `LostSlot` and `HangIsFinal` state properties that no run repeats.

Two theorems delimit the counterexamples of section 6.  `SoleOwner` has a
hypothesis, that there is one spelling of the root: then nobody shares a
workspace, so a second spelling is all that `bootstrap_spelling` needs.
`HangIsFinal` says that `installs_hang` is no matter of patience: once the main
thread waits for the store it holds, nothing but a restart ends it, and no row
is recorded or dropped before.  `LostSlot` says the same of a profile whose
slot was lost to an error of the named mutex: nothing of it runs, and it counts
as running until the manager restarts.

**Assumptions**: `PayloadAssumption` (the empty payload is a payload);
`DisjointIds` (ids of different kinds differ, as UUIDs do) and
`BoundAssumption`; `LimitsAssumption` and `InputTypes` (limits are numbers;
inputs have the types of their commands, layouts and unparsable proxies are made
of texts, the URI and the JSON have their shape);
`TimeAssumption` (thresholds and delays are positive, as the
validation of settings demands, and ages are counted far enough to see them
pass) and `DistinctValues`; in `Installs`, that "no version" and the main thread
are not versions and installs, and that the bound is a number;
`SizeAssumption` and `AttemptAssumption` (sizes and numbers of attempts are
positive numbers; the thresholds of the code are constants); `CallAssumption`,
`LatestAssumption` and, in `Bootstrap`, `BoundAssumption` (every call has a thread
and every thread a process; there is a migration; leaked handles have a bound); `NamesAssumption`, `NumbersAssumption`, `IdsAssumption`,
`NoneAssumption` and `ValuesAssumption` (absent values are no values, there are
finitely many ids).

The refinement of `AtomicVault` is proved step by step: a step of `VaultFile`
maps to the step of `AtomicVault` that its effect on `Reader(path)` shows -
`Promote` to `Apply`, the beginning of a write to `Ask`, the end of an operation
to one of the answers - and to a stutter while the temporary file and the backup
are written.

The refinement of `AccountBook` maps the tables to what the readers return
(`ReadProfiles`, `ReadAccounts`).  It has three layers.  An account is read from
its row, its factors and its codes (lemmas on decoding, and on which rows a
reader joins); a statement changes the rows of one account, so all others read
as before; and what a deletion cascades to is exactly what the readers of the
owner returned, because no row lacks an owner (`Wholeness`).  The statements of
a transaction are stutters, as readers see the committed tables; its `Commit` is
one `NewAccount`, because the copy it installs adds one account and nothing else
has changed since: the command holds the store.

`Counter` counts receipts: for each segment one for each byte it was handed.
The shared counter is their number in every state, because every chunk adds to
both.  When all segments ended well, "start of the segment plus number of the
receipt" is a bijection from the receipts to the bytes of the file, by
`Partition`; so their number is the size of the file.

`BoundedAttempts` and `NeverBack` are the safety half of `DownloadEnds`: every
step moves the phase, the number of a probe or an attempt, the stage or the
bytes of an attempt, or the clock forward, or settles a write, and none moves
back: the order is lexicographic, so bytes may start from zero with the next
attempt, and a new write with the next chunk.  All of them are bounded.  What is
left to fairness is that steps are taken.

The theorems on `Inputs` are about texts, lists, queries and answers of every
length.  The library's induction rules cannot be instantiated here, but
induction over the natural numbers has a first-order form: a set of numbers that
holds 0 and every successor of its elements is `Nat`.  Lemma `Induction` proves
it from the theorem of the library that no finite set maps one to one into a
smaller one, and what a loop has done after n elements is shown with it:

- *Factors.*  After n pairs of the query each field of the factor is the meaning
  of the last pair with its key, or its default, and nothing is left once a pair
  means nothing (`ReadPairsSay`).  With the rules of a factor this is
  `FactorOf`; an image gives what its one payload gives.  That a TOTP code holds
  exactly as long as shown is arithmetic: the counter, the quotient of time and
  period, changes at the end of the seconds shown and not before.
- *Kept input.*  Trimming a trimmed text changes nothing (`TrimmedTwice`), so
  each rule accepts its own results; addresses are kept one by one
  (`UrlsKeep`); after n tags the list holds those of the first places below n,
  or nothing for good after a bad or a superfluous one (`TagsAreFirsts`).
- *Options.*  Where the portable assets of a release agree on a version, the
  first one's is every one's (`OptionVersion`).  After n assets a release is gone, or has the version of the first
  portable asset and lists the assets taken, in order (`AssetsReadSay`).  A list
  of options "lists" a set of places if it is their options in the order of the
  places; two such lists with all places of one before those of the other are
  joined to one (`ListsJoin`).  So the options of a release, of the first n
  releases of a source and of the first n sources list what these offer
  (`ReleaseOptions`, `SourceOptions`, `FoundOptions`).

**Only model-checked**:

- `CopiedSecretIsCleared`, `ArmedIdleVaultLocks`, `DownloadEnds`, `NoLockout`:
  liveness under fairness, out of the prover's reach.

Every other property of a passing run is the statement of a theorem.

## 5. Not modelled

- Byte layouts, JSON, base64, key derivation and HMACs: pure codecs and
  algorithms, tested against vectors.
- The text form of ids and references, zeroization, the diagnostics snapshot
  (read-only), rendering.
- Finding QR codes in pixels, HTTP redirects, TLS, SQLite's own durability
  (libraries).  A crash of the machine, which may lose what was not synced.
- Which kind of error a refused SQL statement becomes, beyond whether it is
  refused.
- Two installs that download into one `.part` file (`Download` has one download).
- User data directories: `delete_profile` does not look at running sessions, and
  only the directory is at stake.

Every component and its status is in `PROJECT.json`.

## 6. Where code and comments disagree

Each is a run that TLC ends with a counterexample:

- `installs_hang`: deleting a version that has a registry row waits for the
  store mutex it holds, and the main thread with it.
- `bootstrap_spelling`: two processes that spell the root differently have one
  workspace open at once.

Seen while modelling, without a run.  Vault, secrets and housekeeping:

- Startup recovery looks for `vault.tmp`; the writer leaves `vault.bin.tmp`.
- `save` seals under the nonce that is already in the file; the format's comment
  says the nonce is random per save.
- A password change whose read-back fails leaves the vault *Unlocked* under a
  key that no longer opens the file; `create` whose read-back fails says
  *Missing* although the file exists.
- A password stored by an interrupted `set_password` survives the deletion of
  its account.
- One failed clipboard access at the time of the clear and the password stays.
- An unlock between the lock and the disarm of a tick leaves an unlocked vault
  that is never idle.  Creating a vault records no activity, so the next tick may
  lock it.
- The comparison and the clear of the clipboard are two accesses.
- The tick's result says *cleared or locked*.

Sessions and installs:

- An error of the named mutex leaves the profile in the registry; it is *already
  running* until the manager restarts.
- What a browser starts before it is assigned to its job, and the browser
  itself when the manager stops there, outlives the session (`strays`), although
  `session.rs` says that shutdown cannot orphan children.
- "Deletes an installed version unless it is current or used by a running
  profile" (`thorium_mgmt.rs:215`): protected are the versions that the running
  profiles would launch now, as far as that can be found out.  A version in use
  is deleted when the row of its profile is gone, when an error while planning
  it goes unnoticed (`if let Ok(plan)`, line 224), when the profile was pinned to
  another one since, or when it follows the marker and that has moved on.  The
  running image itself resists, so such a deletion stops halfway.
- Two installs of one version can promote an incomplete tree: one of them
  clears the directory the other is still writing into.
- A release with `thorium.exe` elsewhere than in `BIN` is promoted and recorded,
  but never counts as installed; the note about its layout is written for every
  release, because the prefix it strips is the wrong one, and nothing reads it.
- A selection that races a deletion can leave the marker naming a deleted
  version; of two selections one may fail to rename.
- The list of installed versions shows one record per version, whichever comes
  last; another variant of an installed version is refused only after its
  download.

Downloads:

- Nothing bounds the wait for an answer to a request, although `releases.rs`
  calls the budgets the authoritative bounds.
- The archive is renamed, and opened, before the last write of a segment is done;
  a loss of that write is reported to nobody.  A reported one was counted when
  it was handed over, so the segment resumes behind the lost bytes.
- A segment whose last attempt breaks after its last byte is reported as failed.
- After an overlong answer the next attempt computes its length from an inverted
  range.

Bootstrap:

- An open workspace gives up the named mutex before its store, vault and
  sessions are dropped.
- A second handle opened by a refused start keeps the object alive, and owned by
  the thread of a workspace that was dropped, until that start closes it: a start
  in between is refused although nobody has the workspace open.
- The guard is declared free of thread affinity, but the ownership of the object
  belongs to a thread.
- When `WaitForSingleObject` fails, `try_acquire_named_mutex` returns without
  closing its handle.  The object then outlives the workspace that owns it and
  stays with its thread: other threads and processes are refused, although nobody
  has the workspace open, until the process that leaked the handle or the one of
  the owner ends.
- The write probe is named by the process id: a leftover of a dead process with
  the same id, one whose removal failed, or another thread at the same point,
  makes the directory appear not writable to every later start of that process.
- Startup recovery may remove the `current.tmp` of a selection in another process
  that spelled the root differently.

Records and inputs:

- `update_account` writes the password reference of the copy it is given; an
  out-of-date copy forgets or resurrects it (modelled in `Secrets` and
  `Records`).  `delete_account`, which "deletes an account and purges its secrets
  from the vault" (`services.rs:410`), purges what rows name: a value that a row
  has forgotten stays in the vault without an account.
- Marking a used recovery code again answers NotFound although its comment calls
  it idempotent.
- `update_profile` to a name that exists ends in the SQL error, `create_profile`
  in *Conflict*.  `create_profile` writes the row first and the directory after it.
- An imported counter that no column holds, or an import for an account that is
  gone, leaves the seed in the vault without a row.
- The settings call an absent or *empty* proxy a direct connection; validation
  refuses the empty one.  Ports up to 99999 pass, but the client refuses those
  beyond 65535 (`proxy.rs:39`), so that every download fails; an "@" in the path
  is taken for the end of the user name, the URL is stored untrimmed.
- A pinned version is kept untrimmed; one with a blank at its end is never the
  name of an installed version, and the profile is never launched.
- A TOTP factor keeps a counter parameter, a HOTP factor a period.
- `percent_decode` stops with a panic when "%" comes before a character of
  several bytes, because it slices the text inside of it.
- An error answer of the release API that is a JSON object is reported as
  unreadable JSON, not with its status, because it is decoded first.
- "Browser version parsed from the asset" (`thorium_mgmt.rs:52`): the version of a
  release option is that of the first portable asset of its release, also when
  that asset was passed over.  `OptionsMatchTheirAssets` requires the asset's own
  wherever the portable assets of the release agree.

## 7. Plan

What is left, in order:

1. An abstract specification of `Sessions` (the set of profiles in use) and the
   refinement.
2. `Sessions` and `Installs` composed, so that the versions that running
   profiles use are those of real sessions.
3. Two downloads into one `.part` file, composed with two installs of one
   version.
4. The lock indicator's polling of the user interface against the housekeeping
   thread.
