------------------------- MODULE HousekeepingProofs -------------------------
(***************************************************************************)
(* Every copied password has its clear, no clear comes early, and the idle *)
(* tracker follows the stored settings: for every set of secrets, every    *)
(* threshold and delay, and every number of copies, failures and restarts. *)
(***************************************************************************)
EXTENDS Housekeeping, TLAPS

\* The pending clear is the one of the last copy: same age, same delay, not
\* lost.
PendingIsLast ==
    pending # NoClear => pending.age = copy.age /\ pending.delay = copy.delay /\ ~lost

\* While the tick is clearing, its slot is empty, nothing newer was copied
\* and the last copy is due.
ClearingIsDue ==
    tick = "clear" =>
        /\ pending = NoClear /\ ~lost
        /\ board \in {taken, Nothing, Foreign}
        /\ copy.delay <= copy.age

\* The minutes about to be applied are the stored ones.
ApplyIsStored == main.at = "apply" => main.minutes = settings.minutes

IInv ==
    /\ TypeOK
    /\ EveryCopyHasItsClear
    /\ SettingsApplied
    /\ PendingIsLast
    /\ ClearingIsDue
    /\ ApplyIsStored

-----------------------------------------------------------------------------

\* Ages start at zero, and delays are numbers.
LEMMA Bounds ==
  /\ 0 \in 0..MaxAge /\ 0 \in 0..MaxLag
  /\ MaxAge \in Nat /\ MaxLag \in Nat
  /\ \A d \in Delays \cup {0} : d \in Nat
BY TimeAssumption

\* The fields of the command in progress and of the pending clear.
LEMMA Fields ==
  ASSUME TypeOK
  PROVE  /\ main.at = "apply" => main.minutes \in Minutes
         /\ main.at = "copy" =>
               /\ main \in [at : {"copy"}, value : Secret, delay : Delays, age : 0..MaxAge]
               /\ main.value \in Secret /\ main.delay \in Delays /\ main.age \in 0..MaxAge
         /\ main.at \in {"rest", "unlock", "apply", "copy"}
         /\ pending # NoClear =>
               /\ pending \in [value : Secret, delay : Delays, age : 0..MaxAge]
               /\ pending.value \in Secret /\ pending.delay \in Delays
               /\ pending.age \in 0..MaxAge
         /\ copy.age \in 0..MaxAge /\ copy.delay \in Delays \cup {0}
BY DEF TypeOK, AtRest

\* Ageing stays within the bound.
LEMMA OlderType ==
  ASSUME NEW age \in 0..MaxAge
  PROVE  Older(age) \in 0..MaxAge /\ age <= Older(age)
BY TimeAssumption DEF Older

\* A counter that is below its bound may be spent.
LEMMA SpendType ==
  ASSUME TypeOK
  PROVE  /\ spent.copies < MaxCopies /\ Spend("copies") =>
              spent' \in [copies : 0..MaxCopies, failures : 0..MaxFailures,
                          restarts : 0..MaxRestarts]
         /\ spent.failures < MaxFailures /\ Spend("failures") =>
              spent' \in [copies : 0..MaxCopies, failures : 0..MaxFailures,
                          restarts : 0..MaxRestarts]
         /\ spent.restarts < MaxRestarts /\ Spend("restarts") =>
              spent' \in [copies : 0..MaxCopies, failures : 0..MaxFailures,
                          restarts : 0..MaxRestarts]
BY BoundAssumption DEF TypeOK, Spend

\* The workspace just started satisfies the inductive invariant.
LEMMA InitIInv == Init => IInv
<1> SUFFICES ASSUME Init PROVE IInv
  OBVIOUS
<1>1. TypeOK
  <2>1. spent \in [copies : 0..MaxCopies, failures : 0..MaxFailures, restarts : 0..MaxRestarts]
    BY BoundAssumption DEF Init
  <2>2. copy \in [age : 0..MaxAge, delay : Delays \cup {0}] /\ activity \in 0..MaxAge
        /\ lag \in 0..MaxLag
    BY Bounds DEF Init
  <2>3. threshold \in Minutes
    BY DEF Init
  <2> QED
    BY <2>1, <2>2, <2>3 DEF Init, TypeOK, AtRest
<1>2. EveryCopyHasItsClear /\ SettingsApplied /\ PendingIsLast /\ ClearingIsDue /\ ApplyIsStored
  BY DistinctValues
     DEF Init, EveryCopyHasItsClear, SettingsApplied, PendingIsLast, ClearingIsDue,
         ApplyIsStored, AtRest
<1> QED
  BY <1>1, <1>2 DEF IInv

-----------------------------------------------------------------------------
(* Commands *)

\* Activity, unlocking, creating and locking touch neither the clipboard nor
\* the settings.
LEMMA VaultCommandIInv ==
  ASSUME IInv, RecordActivity \/ CreateVault \/ UnlockVault \/ FinishUnlock \/ LockVault
  PROVE  IInv'
<1>1. main.at # "apply" /\ main'.at # "apply"
  BY DEF RecordActivity, CreateVault, UnlockVault, FinishUnlock, LockVault, AtRest
<1>2. TypeOK'
  BY Bounds
     DEF IInv, TypeOK, RecordActivity, CreateVault, UnlockVault, FinishUnlock, LockVault,
         Locked, clipboardVars, idleVars, tickVars, AtRest
<1>3. EveryCopyHasItsClear' /\ PendingIsLast' /\ ClearingIsDue'
  BY DEF IInv, EveryCopyHasItsClear, PendingIsLast, ClearingIsDue, RecordActivity,
         CreateVault, UnlockVault, FinishUnlock, LockVault, clipboardVars, tickVars
<1>4. SettingsApplied' /\ ApplyIsStored'
  BY <1>1 DEF IInv, SettingsApplied, ApplyIsStored, RecordActivity, CreateVault,
              UnlockVault, FinishUnlock, LockVault, idleVars
<1> QED
  BY <1>2, <1>3, <1>4 DEF IInv

\* Settings are stored and then applied.
LEMMA SettingsIInv ==
  ASSUME IInv,
         \/ \E saved \in [minutes : Minutes, delay : Delays] : SaveSettings(saved)
         \/ ApplyThreshold
  PROVE  IInv'
<1>1. TypeOK'
  BY Fields DEF IInv, TypeOK, SaveSettings, ApplyThreshold, clipboardVars, tickVars, AtRest
<1>2. EveryCopyHasItsClear' /\ PendingIsLast' /\ ClearingIsDue'
  BY DEF IInv, EveryCopyHasItsClear, PendingIsLast, ClearingIsDue, SaveSettings,
         ApplyThreshold, clipboardVars, tickVars
<1>3. SettingsApplied' /\ ApplyIsStored'
  BY DEF IInv, SettingsApplied, ApplyIsStored, SaveSettings, ApplyThreshold, AtRest
<1> QED
  BY <1>1, <1>2, <1>3 DEF IInv

\* A copy: the delay is read first, the clipboard written later.
LEMMA CopyIInv ==
  ASSUME IInv, (\E s \in Secret : CopyPassword(s)) \/ CopyScheduled \/ CopyFails
  PROVE  IInv'
<1>1. ASSUME NEW s \in Secret, CopyPassword(s) PROVE IInv'
  <2>1. TypeOK'
    BY <1>1, SpendType, Bounds DEF IInv, TypeOK, CopyPassword, clipboardVars, idleVars, tickVars
  <2>2. EveryCopyHasItsClear' /\ PendingIsLast' /\ ClearingIsDue'
    BY <1>1 DEF IInv, EveryCopyHasItsClear, PendingIsLast, ClearingIsDue, CopyPassword,
                clipboardVars, tickVars
  <2>3. SettingsApplied' /\ ApplyIsStored'
    BY <1>1 DEF IInv, SettingsApplied, ApplyIsStored, CopyPassword, idleVars, AtRest
  <2> QED
    BY <2>1, <2>2, <2>3 DEF IInv
<1>2. CASE CopyScheduled
  <2>1. main.value \in Secret /\ main.delay \in Delays /\ main.age \in 0..MaxAge
    BY <1>2, Fields, Bounds DEF IInv, CopyScheduled
  <2>2. TypeOK'
    BY <1>2, <2>1 DEF IInv, TypeOK, CopyScheduled, idleVars, tickVars
  <2>3. pending' # NoClear
    BY <1>2, <2>1, DistinctValues DEF CopyScheduled
  <2>4. EveryCopyHasItsClear' /\ PendingIsLast' /\ ClearingIsDue'
    BY <1>2, <2>3 DEF EveryCopyHasItsClear, PendingIsLast, ClearingIsDue, CopyScheduled,
                      tickVars
  <2>5. SettingsApplied' /\ ApplyIsStored'
    BY <1>2 DEF IInv, SettingsApplied, ApplyIsStored, CopyScheduled, idleVars, AtRest
  <2> QED
    BY <2>2, <2>4, <2>5 DEF IInv
<1>3. CASE CopyFails
  <2>1. TypeOK'
    BY <1>3, SpendType DEF IInv, TypeOK, CopyFails, clipboardVars, idleVars, tickVars
  <2>2. EveryCopyHasItsClear' /\ PendingIsLast' /\ ClearingIsDue'
    BY <1>3 DEF IInv, EveryCopyHasItsClear, PendingIsLast, ClearingIsDue, CopyFails,
                clipboardVars, tickVars
  <2>3. SettingsApplied' /\ ApplyIsStored'
    BY <1>3 DEF IInv, SettingsApplied, ApplyIsStored, CopyFails, idleVars, AtRest
  <2> QED
    BY <2>1, <2>2, <2>3 DEF IInv
<1> QED
  BY <1>1, <1>2, <1>3

-----------------------------------------------------------------------------
(* The tick *)

\* The clipboard half of a tick.
LEMMA ClipboardTickIInv ==
  ASSUME IInv, StartTick \/ NothingDue \/ TakeDue \/ ClearBoard \/ ClearFails \/ ReadFails
  PROVE  IInv'
<1>1. SettingsApplied' /\ ApplyIsStored'
  BY DEF IInv, SettingsApplied, ApplyIsStored, StartTick, NothingDue, TakeDue, ClearBoard,
         ClearFails, ReadFails, idleVars
<1>2. CASE StartTick \/ NothingDue
  <2>1. TypeOK'
    BY <1>2, Bounds DEF IInv, TypeOK, StartTick, NothingDue, clipboardVars, idleVars
  <2>2. EveryCopyHasItsClear' /\ PendingIsLast' /\ ClearingIsDue'
    BY <1>2 DEF IInv, EveryCopyHasItsClear, PendingIsLast, ClearingIsDue, StartTick,
                NothingDue, clipboardVars
  <2> QED
    BY <1>1, <2>1, <2>2 DEF IInv
<1>3. CASE TakeDue
  <2>1. TypeOK'
    BY <1>3, Fields DEF IInv, TypeOK, TakeDue, Due, idleVars
  <2>2. EveryCopyHasItsClear' /\ PendingIsLast'
    BY <1>3 DEF IInv, EveryCopyHasItsClear, PendingIsLast, TakeDue
  <2>3. copy.delay <= copy.age
    <3>1. /\ pending.delay <= pending.age - lag
          /\ pending.age \in Nat /\ lag \in Nat /\ pending.delay \in Nat
          /\ pending.age = copy.age /\ pending.delay = copy.delay
      BY <1>3, Fields, Bounds DEF IInv, TypeOK, TakeDue, Due, PendingIsLast
    <3> QED
      BY <3>1
  <2>4. ClearingIsDue'
    BY <1>3, <2>3 DEF IInv, PendingIsLast, ClearingIsDue, TakeDue, Due
  <2> QED
    BY <1>1, <2>1, <2>2, <2>4 DEF IInv
<1>4. CASE ClearBoard
  <2>1. TypeOK'
    BY <1>4 DEF IInv, TypeOK, ClearBoard, idleVars
  <2>2. EveryCopyHasItsClear' /\ PendingIsLast' /\ ClearingIsDue'
    BY <1>4, DistinctValues
       DEF IInv, EveryCopyHasItsClear, PendingIsLast, ClearingIsDue, ClearBoard
  <2> QED
    BY <1>1, <2>1, <2>2 DEF IInv
<1>5. CASE ClearFails
  <2>1. TypeOK'
    BY <1>5, SpendType DEF IInv, TypeOK, ClearFails, idleVars
  <2>2. EveryCopyHasItsClear' /\ PendingIsLast' /\ ClearingIsDue'
    <3>1. CASE tick = "clipboard" /\ Due
      <4>1. board' = board /\ pending' = NoClear /\ tick' = "sleep"
            /\ (lost' <=> board = pending.value)
        BY <1>5, <3>1 DEF ClearFails
      <4>2. lost \in BOOLEAN /\ pending # NoClear /\ tick # "clear"
        BY <3>1 DEF IInv, TypeOK, Due
      <4> QED
        BY <4>1, <4>2 DEF IInv, EveryCopyHasItsClear, PendingIsLast, ClearingIsDue
    <3>2. CASE tick = "clear"
      <4>1. pending' = pending /\ board' = board /\ tick' = "sleep"
            /\ (lost' <=> board = taken)
        BY <1>5, <3>2 DEF ClearFails
      <4> QED
        BY <3>2, <4>1 DEF IInv, EveryCopyHasItsClear, PendingIsLast, ClearingIsDue
    <3> QED
      BY <1>5, <3>1, <3>2 DEF ClearFails
  <2> QED
    BY <1>1, <2>1, <2>2 DEF IInv
<1>6. CASE ReadFails
  <2>1. TypeOK'
    BY <1>6, SpendType DEF IInv, TypeOK, ReadFails, idleVars
  <2>2. lost \in BOOLEAN /\ pending # NoClear
    BY <1>6 DEF IInv, TypeOK, ReadFails, Due
  <2>3. EveryCopyHasItsClear' /\ PendingIsLast' /\ ClearingIsDue'
    BY <1>6, <2>2 DEF IInv, EveryCopyHasItsClear, PendingIsLast, ClearingIsDue, ReadFails
  <2> QED
    BY <1>1, <2>1, <2>3 DEF IInv
<1> QED
  BY <1>2, <1>3, <1>4, <1>5, <1>6

\* The idle half of a tick.
LEMMA IdleTickIInv ==
  ASSUME IInv, StayUnlocked \/ DecideToLock \/ AutoLock \/ Disarm
  PROVE  IInv'
<1>1. TypeOK'
  BY DEF IInv, TypeOK, StayUnlocked, DecideToLock, AutoLock, Disarm, Locked,
         clipboardVars, idleVars
<1>2. EveryCopyHasItsClear' /\ PendingIsLast' /\ ClearingIsDue'
  BY DEF IInv, EveryCopyHasItsClear, PendingIsLast, ClearingIsDue, StayUnlocked,
         DecideToLock, AutoLock, Disarm, clipboardVars
<1>3. SettingsApplied' /\ ApplyIsStored'
  BY DEF IInv, SettingsApplied, ApplyIsStored, StayUnlocked, DecideToLock, AutoLock,
         Disarm, idleVars
<1> QED
  BY <1>1, <1>2, <1>3 DEF IInv

-----------------------------------------------------------------------------
(* The surroundings *)

\* Other programs, the passing of time, and a restart.
LEMMA SurroundingsIInv ==
  ASSUME IInv, ForeignCopy \/ Elapse \/ Restart
  PROVE  IInv'
<1>1. CASE ForeignCopy
  <2>1. TypeOK'
    BY <1>1 DEF IInv, TypeOK, ForeignCopy, idleVars, tickVars
  <2>2. EveryCopyHasItsClear' /\ PendingIsLast' /\ ClearingIsDue'
    BY <1>1, DistinctValues
       DEF IInv, EveryCopyHasItsClear, PendingIsLast, ClearingIsDue, ForeignCopy, tickVars
  <2>3. SettingsApplied' /\ ApplyIsStored'
    BY <1>1 DEF IInv, SettingsApplied, ApplyIsStored, ForeignCopy, idleVars
  <2> QED
    BY <2>1, <2>2, <2>3 DEF IInv
<1>2. CASE Elapse
  <2>1. /\ pending = NoClear => pending' = NoClear
        /\ pending # NoClear =>
              /\ pending' \in [value : Secret, delay : Delays, age : 0..MaxAge]
              /\ pending' # NoClear
              /\ pending'.age = Older(pending.age)
              /\ pending'.delay = pending.delay /\ pending'.value = pending.value
    BY <1>2, Fields, OlderType, DistinctValues DEF IInv, Elapse
  <2>2. /\ copy' \in [age : 0..MaxAge, delay : Delays \cup {0}]
        /\ copy'.age = Older(copy.age) /\ copy'.delay = copy.delay /\ copy.age <= copy'.age
    BY <1>2, Fields, OlderType DEF IInv, TypeOK, Elapse
  <2>3. lag' \in 0..MaxLag
    BY <1>2, Bounds DEF IInv, TypeOK, Elapse
  <2>4. activity' \in 0..MaxAge \cup {Never}
    BY <1>2, OlderType DEF IInv, TypeOK, Elapse
  <2>9. /\ main.at # "copy" => main' = main
        /\ main.at = "copy" =>
              main' \in [at : {"copy"}, value : Secret, delay : Delays, age : 0..MaxAge]
        /\ main'.at = main.at /\ (main.at = "apply" => main'.minutes = main.minutes)
    BY <1>2, Fields, OlderType DEF IInv, Elapse
  <2>5. TypeOK'
    <3>1. main' \in {AtRest, [at |-> "unlock"]}
                  \cup [at : {"apply"}, minutes : Minutes]
                  \cup [at : {"copy"}, value : Secret, delay : Delays, age : 0..MaxAge]
      BY <2>9 DEF IInv, TypeOK
    <3> QED
      BY <1>2, <2>1, <2>2, <2>3, <2>4, <3>1 DEF IInv, TypeOK, Elapse
  <2>6. EveryCopyHasItsClear' /\ PendingIsLast'
    BY <1>2, <2>1, <2>2 DEF IInv, EveryCopyHasItsClear, PendingIsLast, Elapse
  <2>7. ClearingIsDue'
    <3>1. copy.age \in Nat /\ copy'.age \in Nat /\ copy.delay \in Nat
      BY <2>2, Fields, Bounds DEF IInv
    <3> QED
      BY <1>2, <2>1, <2>2, <3>1 DEF IInv, ClearingIsDue, Elapse
  <2>8. SettingsApplied' /\ ApplyIsStored'
    BY <1>2, <2>9 DEF IInv, SettingsApplied, ApplyIsStored, Elapse
  <2> QED
    BY <2>5, <2>6, <2>7, <2>8 DEF IInv
<1>3. CASE Restart
  <2>1. TypeOK'
    BY <1>3, SpendType, Bounds DEF IInv, TypeOK, Restart, Locked, AtRest
  <2>2. EveryCopyHasItsClear' /\ PendingIsLast' /\ ClearingIsDue'
    BY <1>3 DEF IInv, EveryCopyHasItsClear, PendingIsLast, ClearingIsDue, Restart
  <2>3. SettingsApplied' /\ ApplyIsStored'
    BY <1>3 DEF SettingsApplied, ApplyIsStored, Restart, AtRest
  <2> QED
    BY <2>1, <2>2, <2>3 DEF IInv
<1> QED
  BY <1>1, <1>2, <1>3

-----------------------------------------------------------------------------
(* The theorems *)

\* Every step of either thread keeps the inductive invariant.
LEMMA NextIInv == IInv /\ [Next]_vars => IInv'
<1> SUFFICES ASSUME IInv, [Next]_vars PROVE IInv'
  OBVIOUS
<1>1. CASE UNCHANGED vars
  BY <1>1 DEF vars, IInv, TypeOK, EveryCopyHasItsClear, SettingsApplied, PendingIsLast,
              ClearingIsDue, ApplyIsStored
<1> QED
  BY <1>1, VaultCommandIInv, SettingsIInv, CopyIInv, ClipboardTickIInv, IdleTickIInv,
     SurroundingsIInv DEF Next, Tick, FinishCommand

\* The inductive invariant holds in every reachable state.
LEMMA Invariance == Spec => []IInv
BY InitIInv, NextIInv, PTL DEF Spec

\* Every variable keeps its type; no age and no counter passes its bound.
THEOREM TypeCorrect == Spec => []TypeOK
<1>1. IInv => TypeOK
  BY DEF IInv
<1> QED
  BY <1>1, Invariance, PTL

\* A password on the clipboard has its pending clear, unless the clear
\* failed or the process stopped.
THEOREM CopyHasClear == Spec => []EveryCopyHasItsClear
<1>1. IInv => EveryCopyHasItsClear
  BY DEF IInv
<1> QED
  BY <1>1, Invariance, PTL

\* Outside of a save, the idle tracker works with the stored threshold.
THEOREM ThresholdApplied == Spec => []SettingsApplied
<1>1. IInv => SettingsApplied
  BY DEF IInv
<1> QED
  BY <1>1, Invariance, PTL

\* No clear takes a password away before its delay has passed.
THEOREM ClearNotEarly == Spec => NoEarlyClear
<1> DEFINE A == (board \in Secret /\ board' = Nothing) => (copy.age >= copy.delay)
<1>1. ASSUME IInv, [Next]_vars PROVE [A]_vars
  <2>1. copy.age \in Nat /\ copy.delay \in Nat
    BY <1>1, Fields, Bounds DEF IInv
  <2>2. CASE ClearBoard
    BY <1>1, <2>1, <2>2 DEF IInv, ClearingIsDue, ClearBoard
  <2>3. CASE CopyScheduled
    BY <1>1, <2>3, Fields, DistinctValues DEF IInv, CopyScheduled
  <2>4. CASE board' = board \/ board' = Foreign
    BY <2>4, DistinctValues
  <2> QED
    BY <1>1, <2>2, <2>3, <2>4
       DEF Next, Tick, FinishCommand, vars, clipboardVars, RecordActivity, CreateVault,
           UnlockVault, FinishUnlock, LockVault, SaveSettings, ApplyThreshold, CopyPassword,
           CopyFails, StartTick, NothingDue, TakeDue, ClearFails, ReadFails, StayUnlocked,
           DecideToLock, AutoLock, Disarm, ForeignCopy, Elapse, Restart
<1> QED
  BY <1>1, Invariance, PTL DEF Spec, NoEarlyClear
=============================================================================
