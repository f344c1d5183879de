---------------------------- MODULE Housekeeping ----------------------------
(***************************************************************************)
(* The two timers of the workspace: the clipboard is cleared some time     *)
(* after a password was copied, and an idle vault is locked.               *)
(*                                                                         *)
(* Both are driven by one thread that wakes every second                   *)
(* (src-tauri/src/lib.rs, spawn_housekeeping) and calls housekeeping_tick; *)
(* the commands and window events run on the main thread.  The two meet in *)
(* three mutexes - clipboard_state, idle, vault - each held for one call,  *)
(* and so between two calls of one thread the other may run.  The system   *)
(* clipboard is shared with every other program.                           *)
(*                                                                         *)
(* Instants are modelled by the time since: `Elapse` makes everything one  *)
(* unit older, and `lag` is how long ago the running tick read its `now`.  *)
(***************************************************************************)
EXTENDS Integers

CONSTANTS Secret,      \* passwords that can be copied
          Nothing,     \* the clipboard is empty
          Foreign,     \* what another program put on the clipboard
          NoClear,     \* no clear is pending
          Never,       \* no activity is recorded: the tracker is disarmed
          Disabled,    \* the idle lock is switched off
          Thresholds,  \* bound: idle thresholds a user may choose
          Delays,      \* bound: clear delays a user may choose
          MaxAge,      \* bound: ages are counted up to here
          MaxLag,      \* bound: how much older than its `now` a tick gets
          MaxCopies,   \* bound: passwords copied
          MaxFailures, \* bound: clipboard accesses that fail
          MaxRestarts  \* bound: times the process stops and starts again

ASSUME TimeAssumption ==
    /\ Thresholds \subseteq Nat \ {0}
    /\ Delays \subseteq Nat \ {0}
    /\ MaxAge \in Nat /\ MaxLag \in Nat
    /\ \A t \in Thresholds \cup Delays : t + MaxLag <= MaxAge
ASSUME BoundAssumption == MaxCopies \in Nat /\ MaxFailures \in Nat /\ MaxRestarts \in Nat
ASSUME DistinctValues ==
    /\ Nothing # Foreign /\ {Nothing, Foreign} \cap Secret = {}
    /\ Never \notin Nat
    /\ Disabled \notin Nat
    /\ NoClear \notin [value : Secret, delay : Delays, age : 0..MaxAge]

VARIABLES
    board,     \* what is on the system clipboard
    pending,   \* ClipboardScheduler::pending
    activity,  \* time since IdleTracker::last_activity
    threshold, \* IdleTracker::threshold
    settings,  \* the settings row: idle minutes and clear delay
    vault,     \* lock state of the vault
    main,      \* the command of the main thread between two of its steps
    tick,      \* where the housekeeping tick is
    lag,       \* time since the tick read its `now`
    taken,     \* the value the tick is clearing
    cleared,   \* what the clipboard tick returned
    result,    \* what the last tick returned
    copy,      \* history: age of the last copy, since its call, and its delay
    lost,      \* history: the clear of the last copy was lost
    spent      \* counters of the bounds

clipboardVars == <<board, pending, copy, lost>>
idleVars == <<activity, threshold, settings>>
tickVars == <<tick, lag, taken, cleared, result>>
vars == <<board, pending, activity, threshold, settings, vault, main, tick, lag, taken,
          cleared, result, copy, lost, spent>>

Minutes == Thresholds \cup {Disabled}
AtRest == [at |-> "rest"]

\* One more unit of time, up to the bound.
Older(age) == IF age < MaxAge THEN age + 1 ELSE age

Spend(what) == spent' = [spent EXCEPT ![what] = @ + 1]

\* Bootstrap: the threshold is the saved one and the tracker starts armed.
Init ==
    /\ board = Nothing
    /\ pending = NoClear
    /\ activity = 0
    /\ settings \in [minutes : Minutes, delay : Delays]
    /\ threshold = settings.minutes
    /\ vault \in {"missing", "locked"}
    /\ main = AtRest
    /\ tick = "sleep"
    /\ lag = 0
    /\ taken = Nothing
    /\ cleared = FALSE
    /\ result = "none"
    /\ copy = [age |-> 0, delay |-> 0]
    /\ lost = FALSE
    /\ spent = [copies |-> 0, failures |-> 0, restarts |-> 0]

-----------------------------------------------------------------------------
(* Commands and window events, on the main thread *)

\* A window that gains the focus, and the commands that count as activity.
RecordActivity ==
    /\ main = AtRest
    /\ activity' = 0
    /\ UNCHANGED <<clipboardVars, threshold, settings, vault, main, tickVars, spent>>

CreateVault ==
    /\ main = AtRest
    /\ vault = "missing"
    /\ vault' = "unlocked"
    /\ UNCHANGED <<clipboardVars, idleVars, main, tickVars, spent>>

\* `vault_unlock` records activity before it asks for the vault.
UnlockVault ==
    /\ main = AtRest
    /\ vault # "missing"
    /\ activity' = 0
    /\ main' = [at |-> "unlock"]
    /\ UNCHANGED <<clipboardVars, threshold, settings, vault, tickVars, spent>>

FinishUnlock ==
    /\ main.at = "unlock"
    /\ vault' \in {"unlocked", vault}  \* the right password, or a wrong one
    /\ main' = AtRest
    /\ UNCHANGED <<clipboardVars, idleVars, tickVars, spent>>

\* `Vault::lock`: a vault that does not exist stays missing.
Locked == IF vault = "missing" THEN "missing" ELSE "locked"

\* The lock command, and a window that is minimized.
LockVault ==
    /\ main = AtRest
    /\ vault' = Locked
    /\ UNCHANGED <<clipboardVars, idleVars, main, tickVars, spent>>

\* `save_settings` writes the row under the store mutex ...
SaveSettings(saved) ==
    /\ main = AtRest
    /\ settings' = saved
    /\ main' = [at |-> "apply", minutes |-> saved.minutes]
    /\ UNCHANGED <<clipboardVars, activity, threshold, vault, tickVars, spent>>

\* ... and then hands the threshold to the tracker under its own.
ApplyThreshold ==
    /\ main.at = "apply"
    /\ threshold' = main.minutes
    /\ main' = AtRest
    /\ UNCHANGED <<clipboardVars, activity, settings, vault, tickVars, spent>>

\* Variant with a mistake: the delay is not read from the settings.
CopyAtOnce(s) ==
    /\ main = AtRest
    /\ vault = "unlocked"
    /\ spent.copies < MaxCopies
    /\ Spend("copies")
    /\ main' = [at |-> "copy", value |-> s, delay |-> 0, age |-> 0]
    /\ UNCHANGED <<clipboardVars, idleVars, vault, tickVars>>

\* `copy_password` takes the instant it was called at, reads the delay and
\* the password; only an unlocked vault gives it out.
CopyPassword(s) ==
    /\ main = AtRest
    /\ vault = "unlocked"
    /\ spent.copies < MaxCopies
    /\ Spend("copies")
    /\ main' = [at |-> "copy", value |-> s, delay |-> settings.delay, age |-> 0]
    /\ UNCHANGED <<clipboardVars, idleVars, vault, tickVars>>

\* Variant with a mistake: a pending clear keeps its deadline.
KeepDeadline ==
    /\ main.at = "copy"
    /\ tick # "clear"
    /\ board' = main.value
    /\ pending' = IF pending = NoClear
                  THEN [value |-> main.value, delay |-> main.delay, age |-> main.age]
                  ELSE [pending EXCEPT !.value = main.value]
    /\ copy' = [age |-> main.age, delay |-> main.delay]
    /\ lost' = FALSE
    /\ main' = AtRest
    /\ UNCHANGED <<idleVars, vault, tickVars, spent>>

\* Variant with a mistake: a clear that is pending is kept.
KeepPending ==
    /\ main.at = "copy"
    /\ tick # "clear"
    /\ board' = main.value
    /\ pending' = IF pending = NoClear
                  THEN [value |-> main.value, delay |-> main.delay, age |-> main.age]
                  ELSE pending
    /\ copy' = [age |-> main.age, delay |-> main.delay]
    /\ lost' = FALSE
    /\ main' = AtRest
    /\ UNCHANGED <<idleVars, vault, tickVars, spent>>

\* `copy_scheduled`, under the clipboard_state mutex: a new copy supersedes
\* the pending clear of an earlier one.  The delay counts from the call.
CopyScheduled ==
    /\ main.at = "copy"
    /\ tick # "clear"
    /\ board' = main.value
    /\ pending' = [value |-> main.value, delay |-> main.delay, age |-> main.age]
    /\ copy' = [age |-> main.age, delay |-> main.delay]
    /\ lost' = FALSE
    /\ main' = AtRest
    /\ UNCHANGED <<idleVars, vault, tickVars, spent>>

\* The clipboard could not be written: `?` leaves the pending clear alone.
CopyFails ==
    /\ main.at = "copy"
    /\ tick # "clear"
    /\ spent.failures < MaxFailures
    /\ Spend("failures")
    /\ main' = AtRest
    /\ UNCHANGED <<clipboardVars, idleVars, vault, tickVars>>

-----------------------------------------------------------------------------
(* The housekeeping tick *)

\* The thread wakes and reads `now`.
StartTick ==
    /\ tick = "sleep"
    /\ tick' = "clipboard"
    /\ lag' = 0
    /\ cleared' = FALSE
    /\ UNCHANGED <<clipboardVars, idleVars, vault, main, taken, result, spent>>

Due == pending # NoClear /\ pending.delay <= pending.age - lag

\* Nothing is due: on to the idle check.
NothingDue ==
    /\ tick = "clipboard"
    /\ ~Due
    /\ tick' = "idle"
    /\ UNCHANGED <<clipboardVars, idleVars, vault, main, lag, taken, cleared, result, spent>>

\* Variant with a mistake: the clear is cancelled instead of carried out.
TakeWithoutClear ==
    /\ tick = "clipboard"
    /\ Due
    /\ pending' = NoClear
    /\ cleared' = TRUE
    /\ tick' = "idle"
    /\ UNCHANGED <<board, copy, lost, idleVars, vault, main, lag, taken, result, spent>>

\* The slot is consumed and the clipboard read; a match is about to be
\* cleared.  The tick holds the clipboard_state mutex until then.
TakeDue ==
    /\ tick = "clipboard"
    /\ Due
    /\ pending' = NoClear
    /\ cleared' = TRUE
    /\ IF board = pending.value
       THEN tick' = "clear" /\ taken' = pending.value
       ELSE tick' = "idle" /\ UNCHANGED taken
    /\ UNCHANGED <<board, copy, lost, idleVars, vault, main, lag, result, spent>>

\* `clipboard.clear()`, in a second access to the clipboard.
ClearBoard ==
    /\ tick = "clear"
    /\ board' = Nothing
    /\ taken' = Nothing
    /\ tick' = "idle"
    /\ UNCHANGED <<pending, copy, lost, idleVars, vault, main, lag, cleared, result, spent>>

\* The clipboard cannot be opened or cleared: `?` ends the tick, idle check
\* included, with the slot already consumed.
ClearFails ==
    /\ spent.failures < MaxFailures
    /\ Spend("failures")
    /\ \/ /\ tick = "clipboard" /\ Due
          /\ pending' = NoClear
          /\ lost' = (board = pending.value)
       \/ /\ tick = "clear"
          /\ lost' = (board = taken)
          /\ UNCHANGED pending
    /\ taken' = Nothing
    /\ tick' = "sleep"
    /\ result' = "error"
    /\ UNCHANGED <<board, copy, idleVars, vault, main, lag, cleared>>

\* The text cannot be read: the tick takes it for foreign content and goes
\* on, with the slot consumed.
ReadFails ==
    /\ tick = "clipboard"
    /\ Due
    /\ spent.failures < MaxFailures
    /\ Spend("failures")
    /\ pending' = NoClear
    /\ lost' = (board = pending.value)
    /\ cleared' = TRUE
    /\ tick' = "idle"
    /\ UNCHANGED <<board, copy, idleVars, vault, main, lag, taken, result>>

\* `is_idle(now)`, at the `now` of the tick.
IsIdle ==
    /\ threshold # Disabled
    /\ activity # Never
    /\ threshold <= activity - lag

\* `maybe_auto_lock` decides under the idle and vault mutexes, and releases
\* both.
StayUnlocked ==
    /\ tick = "idle"
    /\ ~(vault = "unlocked" /\ IsIdle)
    /\ tick' = "sleep"
    /\ result' = IF cleared THEN "true" ELSE "false"
    /\ UNCHANGED <<clipboardVars, idleVars, vault, main, lag, taken, cleared, spent>>

\* Variant with a mistake: a tick with nothing to clear returns early.
DecideAfterClear ==
    /\ tick = "idle"
    /\ vault = "unlocked" /\ IsIdle
    /\ tick' = IF cleared THEN "lock" ELSE "sleep"
    /\ UNCHANGED <<clipboardVars, idleVars, vault, main, lag, taken, cleared, result, spent>>

DecideToLock ==
    /\ tick = "idle"
    /\ vault = "unlocked" /\ IsIdle
    /\ tick' = "lock"
    /\ UNCHANGED <<clipboardVars, idleVars, vault, main, lag, taken, cleared, result, spent>>

AutoLock ==
    /\ tick = "lock"
    /\ vault' = Locked
    /\ tick' = "disarm"
    /\ UNCHANGED <<clipboardVars, idleVars, main, lag, taken, cleared, result, spent>>

Disarm ==
    /\ tick = "disarm"
    /\ activity' = Never
    /\ tick' = "sleep"
    /\ result' = "true"
    /\ UNCHANGED <<clipboardVars, threshold, settings, vault, main, lag, taken, cleared, spent>>

-----------------------------------------------------------------------------
(* The surroundings *)

\* Another program writes to the clipboard, at any moment.
ForeignCopy ==
    /\ board' = Foreign
    /\ UNCHANGED <<pending, copy, lost, idleVars, vault, main, tickVars, spent>>

Elapse ==
    /\ tick # "sleep" => lag < MaxLag
    /\ lag' = IF tick = "sleep" THEN lag ELSE lag + 1
    /\ activity' = IF activity = Never THEN Never ELSE Older(activity)
    /\ pending' = IF pending = NoClear THEN NoClear
                  ELSE [pending EXCEPT !.age = Older(pending.age)]
    /\ copy' = [copy EXCEPT !.age = Older(copy.age)]
    /\ main' = IF main.at = "copy" THEN [main EXCEPT !.age = Older(main.age)] ELSE main
    /\ UNCHANGED <<board, threshold, settings, vault, tick, taken, cleared, result, lost,
                   spent>>

\* The process stops anywhere and starts again; the pending clear was only
\* in memory.
Restart ==
    /\ spent.restarts < MaxRestarts
    /\ Spend("restarts")
    /\ lost' = (lost \/ pending # NoClear \/ tick = "clear")
    /\ pending' = NoClear
    /\ activity' = 0
    /\ threshold' = settings.minutes
    /\ vault' = Locked
    /\ main' = AtRest
    /\ tick' = "sleep"
    /\ lag' = 0
    /\ taken' = Nothing
    /\ cleared' = FALSE
    /\ result' = "none"
    /\ UNCHANGED <<board, settings, copy>>

Tick ==
    StartTick \/ NothingDue \/ TakeDue \/ ClearBoard \/ ClearFails \/ ReadFails
      \/ StayUnlocked \/ DecideToLock \/ AutoLock \/ Disarm

FinishCommand == FinishUnlock \/ ApplyThreshold \/ CopyScheduled \/ CopyFails

Next ==
    \/ RecordActivity \/ CreateVault \/ UnlockVault \/ LockVault
    \/ \E saved \in [minutes : Minutes, delay : Delays] : SaveSettings(saved)
    \/ \E s \in Secret : CopyPassword(s)
    \/ FinishCommand
    \/ Tick
    \/ ForeignCopy \/ Elapse \/ Restart

Spec == Init /\ [][Next]_vars

\* The thread keeps ticking, time passes, and a command that started ends.
\* Nothing is assumed of the user, of other programs, or of failures.
FairSpec ==
    Spec /\ WF_vars(Tick) /\ WF_vars(Elapse) /\ WF_vars(FinishCommand)

-----------------------------------------------------------------------------
(* Properties *)

\* Every variable keeps its type.
TypeOK ==
    /\ board \in Secret \cup {Nothing, Foreign}
    /\ pending \in {NoClear} \cup [value : Secret, delay : Delays, age : 0..MaxAge]
    /\ activity \in 0..MaxAge \cup {Never}
    /\ threshold \in Minutes
    /\ settings \in [minutes : Minutes, delay : Delays]
    /\ vault \in {"missing", "locked", "unlocked"}
    /\ main \in {AtRest, [at |-> "unlock"]}
                  \cup [at : {"apply"}, minutes : Minutes]
                  \cup [at : {"copy"}, value : Secret, delay : Delays, age : 0..MaxAge]
    /\ tick \in {"sleep", "clipboard", "clear", "idle", "lock", "disarm"}
    /\ lag \in 0..MaxLag
    /\ taken \in Secret \cup {Nothing}
    /\ cleared \in BOOLEAN
    /\ result \in {"none", "true", "false", "error"}
    /\ copy \in [age : 0..MaxAge, delay : Delays \cup {0}]
    /\ lost \in BOOLEAN
    /\ spent \in [copies : 0..MaxCopies, failures : 0..MaxFailures, restarts : 0..MaxRestarts]

\* A password on the clipboard is the one the pending clear is for, or the
\* one the tick is clearing, unless its clear failed or the process stopped.
EveryCopyHasItsClear ==
    board \in Secret /\ ~lost =>
        \/ pending # NoClear /\ pending.value = board
        \/ tick = "clear" /\ taken = board

\* A password is not cleared before the delay in force at the call that
\* copied it has passed since that call: the clear of an earlier copy never takes a later one away.
NoEarlyClear ==
    [][(board \in Secret /\ board' = Nothing) => (copy.age >= copy.delay)]_vars

\* Outside of a save, the tracker works with the threshold that is stored.
SettingsApplied == main.at = "apply" \/ threshold = settings.minutes

\* A password that was copied leaves the clipboard, unless a clear of it
\* failed or the process stopped: later copies, locks, restarts and a clipboard
\* that fails for other copies do not keep it there.
CopiedSecretIsCleared == \A s \in Secret : board = s ~> (board # s \/ lost)

\* An unlocked vault that is left alone is locked, as long as its tracker is
\* armed.
ArmedIdleVaultLocks ==
    []<>(vault # "unlocked" \/ threshold = Disabled \/ activity \in {0, Never})
=============================================================================
