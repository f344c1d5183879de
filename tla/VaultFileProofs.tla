-------------------------- MODULE VaultFileProofs --------------------------
(***************************************************************************)
(* The vault file stays openable, its backup is taken before it is         *)
(* replaced, and it implements AtomicVault, for every set of passwords,    *)
(* payloads and headers.                                                   *)
(***************************************************************************)
EXTENDS VaultFile, TLAPS

\* An image sealed under a key derived from its own header.
WellSealed(image) ==
    /\ image \in Sealed
    /\ image.key.header = image.header

FileInv == path = Absent \/ WellSealed(path)

RequestInv == op # Idle => WellSealed(op.image)

TmpInv == op.at \in {"copyBackup", "copying", "promote"} => tmp = op.image

BackupInv == op.at = "promote" /\ path # Absent => bak = path

FinishInv == op.at = "finish" => path = op.image

\* What a running operation may write, given the file it found.
RequestFits ==
    op # Idle /\ op.at # "finish" =>
        IF path = Absent
        THEN op.image.content = EmptyPayload
        ELSE \/ op.image.content = path.content
             \/ op.image.key = path.key

IInv ==
    /\ TypeOK
    /\ FileInv
    /\ RequestInv
    /\ TmpInv
    /\ BackupInv
    /\ FinishInv
    /\ RequestFits

-----------------------------------------------------------------------------

\* The first state has no file and no operation in progress.
LEMMA InitIInv == Init => IInv
<1> USE DEF IInv, TypeOK, FileInv, RequestInv, TmpInv, BackupInv, FinishInv, RequestFits
<1> QED
  BY DEF Init, Image, Absent, Mem, MemMissing, Op, Idle

\* Refusing an operation, and starting one with an image that fits the file,
\* keep the invariant.
LEMMA RefuseIInv == IInv /\ Refuse => IInv'
<1> QED
  BY DEF IInv, TypeOK, FileInv, RequestInv, TmpInv, BackupInv, FinishInv, RequestFits,
         Refuse, Return, files, Op, Idle

\* Beginning a write of a well-sealed image, of the current content or under
\* the current key, keeps the invariant.
LEMMA BeginIInv ==
  ASSUME NEW kind \in Kinds, NEW image, IInv, Begin(kind, image), WellSealed(image),
         IF path = Absent THEN image.content = EmptyPayload
         ELSE image.content = path.content \/ image.key = path.key
  PROVE  IInv'
<1>1. op' \in Op /\ op' # Idle /\ op'.at = "createTmp" /\ op'.image = image
  BY DEF Begin, Write, Op, Idle, Steps, WellSealed
<1>2. TypeOK'
  BY <1>1 DEF IInv, TypeOK, Begin, files
<1> QED
  BY <1>1, <1>2 DEF IInv, FileInv, RequestInv, TmpInv, BackupInv, FinishInv,
     RequestFits, Begin, files

\* Sealing under a key derived from the same header gives a well sealed image.
LEMMA SealWellSealed ==
  ASSUME NEW p \in Password, NEW h \in Header, NEW c \in Payload
  PROVE  WellSealed(Seal(h, Derive(p, h), c))
BY DEF WellSealed, Seal, Sealed, Derive, Key

-----------------------------------------------------------------------------

\* Every step of every operation keeps the inductive invariant.
LEMMA NextIInv == IInv /\ [Next]_vars => IInv'
<1> SUFFICES ASSUME IInv, [Next]_vars PROVE IInv'
  OBVIOUS
<1> USE PayloadAssumption
<1>1. ASSUME NEW p \in Password, Create(p) PROVE IInv'
  <2>1. CASE Refuse
    BY <2>1, RefuseIInv
  <2>2. ASSUME path = Absent, NEW h \in FreshHeaders,
               Begin("create", Seal(h, Derive(p, h), EmptyPayload))
        PROVE  IInv'
    <3>1. WellSealed(Seal(h, Derive(p, h), EmptyPayload))
      BY SealWellSealed DEF FreshHeaders
    <3>2. Seal(h, Derive(p, h), EmptyPayload).content = EmptyPayload
      BY DEF Seal
    <3>3. "create" \in Kinds
      BY DEF Kinds
    <3> QED
      BY <2>2, <3>1, <3>2, <3>3, BeginIInv
  <2> QED
    BY <1>1, <2>1, <2>2 DEF Create
<1>2. ASSUME NEW p \in Password, Unlock(p) PROVE IInv'
  <2>1. CASE Refuse
    BY <2>1, RefuseIInv
  <2>2. CASE /\ path.kind = "sealed"
             /\ mem' = MemUnlocked(Derive(p, path.header))
             /\ Return("ok")
             /\ UNCHANGED files
    <3>1. path \in Sealed
      BY <2>2 DEF IInv, FileInv, WellSealed, Absent
    <3>2. mem' \in Mem
      BY <2>2, <3>1 DEF Sealed, Mem, MemUnlocked, Derive, Key
    <3> QED
      BY <2>2, <3>2 DEF IInv, TypeOK, FileInv, RequestInv, TmpInv, BackupInv, FinishInv,
         RequestFits, Return, files, Op, Idle
  <2> QED
    BY <1>2, <2>1, <2>2 DEF Unlock
<1>3. ASSUME NEW p \in Password, NEW q \in Password, ChangePassword(p, q) PROVE IInv'
  <2>1. CASE Refuse
    BY <2>1, RefuseIInv
  <2>2. ASSUME path.kind = "sealed", NEW h \in FreshHeaders,
               Begin("change", Seal(h, Derive(q, h), path.content))
        PROVE  IInv'
    <3>1. path # Absent /\ path \in Sealed
      BY <2>2 DEF IInv, FileInv, WellSealed, Absent
    <3>2. WellSealed(Seal(h, Derive(q, h), path.content))
      BY <3>1, SealWellSealed DEF FreshHeaders, Sealed
    <3>3. Seal(h, Derive(q, h), path.content).content = path.content
      BY DEF Seal
    <3>4. "change" \in Kinds
      BY DEF Kinds
    <3> QED
      BY <2>2, <3>1, <3>2, <3>3, <3>4, BeginIInv
  <2> QED
    BY <1>3, <2>1, <2>2 DEF ChangePassword
<1>4. ASSUME NEW c \in Payload, Mutate(c) PROVE IInv'
  <2>1. CASE Refuse
    BY <2>1, RefuseIInv
  <2>2. CASE Loads /\ Begin("save", Seal(path.header, mem.key, c))
    <3>1. path # Absent /\ WellSealed(path) /\ mem.key = path.key
      BY <2>2 DEF Loads, Opens, IInv, FileInv, Absent
    <3>2. WellSealed(Seal(path.header, mem.key, c))
      BY <3>1 DEF WellSealed, Seal, Sealed
    <3>3. Seal(path.header, mem.key, c).key = path.key
      BY <3>1 DEF Seal
    <3>4. "save" \in Kinds
      BY DEF Kinds
    <3> QED
      BY <2>2, <3>1, <3>2, <3>3, <3>4, BeginIInv
  <2> QED
    BY <1>4, <2>1, <2>2 DEF Mutate
<1>5. CASE Lock
  BY <1>5 DEF Lock, IInv, TypeOK, FileInv, RequestInv, TmpInv, BackupInv, FinishInv,
     RequestFits, Return, files, Op, Idle, Mem, MemLocked
<1>6. CASE CreateTmp
  <2>1. op # Idle /\ op' = [op EXCEPT !.at = "writeTmp"] /\ op \in Op
    BY <1>6 DEF CreateTmp, Goto, Idle, IInv, TypeOK
  <2>2. op' \in Op /\ op' # Idle /\ op'.at = "writeTmp" /\ op'.image = op.image
    BY <2>1 DEF Op, Idle, Steps
  <2>3. TypeOK'
    BY <1>6, <2>2 DEF CreateTmp, Goto, IInv, TypeOK, Image
  <2> QED
    BY <1>6, <2>1, <2>2, <2>3 DEF CreateTmp, Goto, IInv, FileInv, RequestInv, TmpInv,
       BackupInv, FinishInv, RequestFits
<1>7. CASE WriteTmp
  <2> DEFINE step == IF path = Absent THEN "promote" ELSE "copyBackup"
  <2>1. op # Idle /\ op' = [op EXCEPT !.at = step] /\ op \in Op /\ op.at # "finish"
    BY <1>7 DEF WriteTmp, Goto, Idle, IInv, TypeOK
  <2>2. op' \in Op /\ op' # Idle /\ op'.at = step /\ op'.image = op.image
    BY <2>1 DEF Op, Idle, Steps
  <2>3. TypeOK'
    BY <1>7, <2>1, <2>2 DEF WriteTmp, Goto, IInv, TypeOK, Image, RequestInv, WellSealed
  <2> QED
    BY <1>7, <2>1, <2>2, <2>3 DEF WriteTmp, Goto, IInv, FileInv, RequestInv, TmpInv,
       BackupInv, FinishInv, RequestFits
<1>8. CASE StartBackup
  <2>1. op # Idle /\ op' = [op EXCEPT !.at = "copying"] /\ op \in Op
    BY <1>8 DEF StartBackup, Goto, Idle, IInv, TypeOK
  <2>2. op' \in Op /\ op' # Idle /\ op'.at = "copying" /\ op'.image = op.image
    BY <2>1 DEF Op, Idle, Steps
  <2>3. TypeOK'
    BY <1>8, <2>2 DEF StartBackup, Goto, IInv, TypeOK, Image
  <2> QED
    BY <1>8, <2>1, <2>2, <2>3 DEF StartBackup, Goto, IInv, FileInv, RequestInv, TmpInv,
       BackupInv, FinishInv, RequestFits
<1>9. CASE FinishBackup
  <2>1. op # Idle /\ op' = [op EXCEPT !.at = "promote"] /\ op \in Op
    BY <1>9 DEF FinishBackup, Goto, Idle, IInv, TypeOK
  <2>2. op' \in Op /\ op' # Idle /\ op'.at = "promote" /\ op'.image = op.image
    BY <2>1 DEF Op, Idle, Steps
  <2>3. TypeOK'
    BY <1>9, <2>2 DEF FinishBackup, Goto, IInv, TypeOK
  <2> QED
    BY <1>9, <2>1, <2>2, <2>3 DEF FinishBackup, Goto, IInv, FileInv, RequestInv, TmpInv,
       BackupInv, FinishInv, RequestFits
<1>10. CASE Promote
  <2>1. op # Idle /\ op' = [op EXCEPT !.at = "finish"] /\ op \in Op
    BY <1>10 DEF Promote, Goto, Idle, IInv, TypeOK
  <2>2. op' \in Op /\ op' # Idle /\ op'.at = "finish" /\ op'.image = op.image
    BY <2>1 DEF Op, Idle, Steps
  <2>3. path' = op.image /\ WellSealed(op.image)
    BY <1>10, <2>1 DEF Promote, IInv, TmpInv, RequestInv
  <2>4. TypeOK'
    BY <1>10, <2>2 DEF Promote, Goto, IInv, TypeOK, Image
  <2> QED
    BY <1>10, <2>1, <2>2, <2>3, <2>4 DEF Promote, Goto, IInv, FileInv, RequestInv, TmpInv,
       BackupInv, FinishInv, RequestFits
<1>11. CASE Finish
  <2>1. op # Idle /\ path = op.image /\ path \in Sealed
    BY <1>11 DEF Finish, Idle, IInv, FinishInv, RequestInv, WellSealed
  <2>2. mem' \in Mem
    BY <1>11, <2>1 DEF Finish, IInv, TypeOK, Sealed, Key, Mem, MemUnlocked, Derive
  <2> QED
    BY <1>11, <2>2 DEF Finish, IInv, TypeOK, FileInv, RequestInv, TmpInv, BackupInv,
       FinishInv, RequestFits, Return, files, Op, Idle
<1>12. CASE IoError
  BY <1>12, RefuseIInv DEF IoError
<1>13. CASE Restart
  BY <1>13 DEF Restart, IInv, TypeOK, FileInv, RequestInv, TmpInv, BackupInv,
     FinishInv, RequestFits, Op, Idle, Mem, MemMissing, MemLocked, Image, Absent
<1>14. CASE UNCHANGED vars
  BY <1>14 DEF vars, IInv, TypeOK, FileInv, RequestInv, TmpInv, BackupInv, FinishInv,
     RequestFits
<1> QED
  BY <1>1, <1>2, <1>3, <1>4, <1>5, <1>6, <1>7, <1>8, <1>9, <1>10, <1>11, <1>12,
     <1>13, <1>14 DEF Next

\* The inductive invariant holds in every reachable state.
LEMMA Invariance == Spec => []IInv
BY InitIInv, NextIInv, PTL DEF Spec

-----------------------------------------------------------------------------

\* Type correctness; a locked vault holds no key.
THEOREM TypeCorrect == Spec => []TypeOK
<1>1. IInv => TypeOK
  BY DEF IInv
<1> QED
  BY <1>1, Invariance, PTL

\* vault.bin is never partial, never sealed under a foreign header.
THEOREM Openable == Spec => []FileStaysOpenable
<1>1. IInv => FileStaysOpenable
  <2> SUFFICES ASSUME IInv, path # Absent PROVE FileStaysOpenable
    BY DEF FileStaysOpenable
  <2>1. WellSealed(path)
    BY DEF IInv, FileInv
  <2>2. path.key.password \in Password /\ path.key = Derive(path.key.password, path.header)
    BY <2>1 DEF WellSealed, Sealed, Key, Derive
  <2> QED
    BY <2>1, <2>2 DEF FileStaysOpenable, Opens, WellSealed, Sealed
<1> QED
  BY <1>1, Invariance, PTL

\* The file is replaced only by a step that finds it in the backup.
THEOREM Backup == Spec => BackedUpBeforeReplaced
<1>1. IInv /\ [Next]_vars => [path' # path /\ path # Absent => bak' = path]_vars
  <2> SUFFICES ASSUME IInv, Next, path' # path, path # Absent PROVE bak' = path
    BY DEF vars
  <2>1. CASE Promote
    BY <2>1 DEF Promote, IInv, BackupInv
  <2>2. CASE ~Promote
    BY <2>2 DEF Next, Create, Unlock, ChangePassword, Mutate, Lock, CreateTmp, WriteTmp,
       StartBackup, FinishBackup, Finish, IoError, Restart, Refuse, Begin, files
  <2> QED
    BY <2>1, <2>2
<1> QED
  BY <1>1, Invariance, PTL DEF Spec, BackedUpBeforeReplaced

\* A key is kept only when it opens the file.
THEOREM UnlockVerified == Spec => UnlockedOnlyByTheFile
<1>1. IInv /\ [Next]_vars =>
        [mem.state # "unlocked" /\ mem'.state = "unlocked" => Opens(mem'.key, path')]_vars
  <2> SUFFICES ASSUME IInv, Next, mem.state # "unlocked", mem'.state = "unlocked"
               PROVE  Opens(mem'.key, path')
    BY DEF vars
  <2>1. ASSUME NEW p \in Password, Unlock(p) PROVE Opens(mem'.key, path')
    BY <2>1 DEF Unlock, Refuse, files, MemUnlocked
  <2>2. CASE Finish
    <3>1. path = op.image /\ WellSealed(path)
      BY <2>2 DEF Finish, IInv, FinishInv, RequestInv, Idle
    <3>2. mem' = MemUnlocked(Derive(op.image.key.password, path.header)) /\ path' = path
      BY <2>2 DEF Finish, files
    <3>3. Derive(path.key.password, path.header) = path.key
      BY <3>1 DEF Derive, WellSealed, Sealed, Key
    <3> QED
      BY <3>1, <3>2, <3>3 DEF MemUnlocked, Opens, WellSealed, Sealed
  <2>3. CASE Lock \/ Restart
    BY <2>3 DEF Lock, Restart, MemMissing, MemLocked
  <2>4. CASE mem' = mem
    BY <2>4
  <2> QED
    BY <2>1, <2>2, <2>3, <2>4 DEF Next, Create, ChangePassword, Mutate, CreateTmp, WriteTmp,
       StartBackup, FinishBackup, Promote, IoError, Refuse, Begin, Goto
<1> QED
  BY <1>1, Invariance, PTL DEF Spec, UnlockedOnlyByTheFile

-----------------------------------------------------------------------------
(* The refinement *)

\* A well sealed image reads as the pair of its password and its payload.
LEMMA ReaderOfSealed ==
  ASSUME NEW image, WellSealed(image)
  PROVE  Reader(image) = Abstract!Pair(image.key.password, image.content)
<1>1. Opens(Derive(image.key.password, image.header), image)
  BY DEF WellSealed, Opens, Derive, Sealed, Key
<1> QED
  BY <1>1 DEF WellSealed, Sealed, Reader, Abstract!Pair

\* The file reads as nothing or as a pair; the pair that a running write
\* will leave is a successor of the pair the file holds.
LEMMA RequestIsSuccessor ==
  ASSUME NEW image, NEW file, WellSealed(image), file = Absent \/ WellSealed(file),
         IF file = Absent THEN image.content = EmptyPayload
         ELSE image.content = file.content \/ image.key = file.key
  PROVE  Reader(image) \in Abstract!Successors(Reader(file))
<1>1. Reader(image) = Abstract!Pair(image.key.password, image.content)
  BY ReaderOfSealed
<1>2. image.key.password \in Password /\ image.content \in Payload
  BY DEF WellSealed, Sealed, Key
<1>3. CASE file = Absent
  <2>1. Reader(file) = Abstract!Nothing /\ image.content = EmptyPayload
    BY <1>3 DEF Reader, Absent, Abstract!Nothing
  <2> QED
    BY <1>1, <1>2, <2>1 DEF Abstract!Successors
<1>4. CASE file # Absent
  <2>1. Reader(file) = Abstract!Pair(file.key.password, file.content)
    BY <1>4, ReaderOfSealed
  <2>2. Reader(file) # Abstract!Nothing
    BY <2>1 DEF Abstract!Pair, Abstract!Nothing
  <2>3. /\ Reader(file).password = file.key.password
        /\ Reader(file).content = file.content
    BY <2>1 DEF Abstract!Pair
  <2>4. image.content = file.content \/ image.key.password = file.key.password
    BY <1>4
  <2> QED
    BY <1>1, <1>2, <2>2, <2>3, <2>4 DEF Abstract!Successors
<1> QED
  BY <1>3, <1>4

\* Every behaviour of the file and the memory is, to a reader, a behaviour
\* of the one-cell store.
THEOREM Refinement == Spec => ImplementsAtomicVault
<1> DEFINE stored == Reader(path)
           request == IF op = Idle THEN [kind |-> "nothing"] ELSE Reader(op.image)
<1>1. Init => Abstract!Init
  BY DEF Init, Abstract!Init, Reader, Absent, Abstract!Nothing
<1>2. ASSUME IInv, [Next]_vars PROVE [Abstract!Next]_(Abstract!avars)
  <2>1. CASE Refuse
    BY <2>1 DEF Refuse, Return, files, Abstract!Next, Abstract!AnswerError, Abstract!Nothing
  <2>2. ASSUME NEW kind, NEW image, op = Idle, Begin(kind, image), IInv'
        PROVE  Abstract!Ask
    <3>1. op' # Idle /\ op'.image = image /\ op'.at = "createTmp" /\ path' = path
      BY <2>2 DEF Begin, Write, Idle, files
    <3>2. /\ WellSealed(image)
          /\ path = Absent \/ WellSealed(path)
          /\ IF path = Absent THEN image.content = EmptyPayload
             ELSE image.content = path.content \/ image.key = path.key
      BY <2>2, <3>1 DEF IInv, FileInv, RequestInv, RequestFits
    <3>3. Reader(image) \in Abstract!Successors(Reader(path))
      BY <3>2, RequestIsSuccessor
    <3> QED
      BY <2>2, <3>1, <3>3 DEF Abstract!Ask, Abstract!Nothing, Begin
  <2>3. IInv'
    BY <1>2, NextIInv
  <2>4. ASSUME NEW p \in Password, Create(p) PROVE [Abstract!Next]_(Abstract!avars)
    BY <2>1, <2>2, <2>3, <2>4 DEF Create, Abstract!Next
  <2>5. ASSUME NEW p \in Password, NEW q \in Password, ChangePassword(p, q)
        PROVE  [Abstract!Next]_(Abstract!avars)
    BY <2>1, <2>2, <2>3, <2>5 DEF ChangePassword, Abstract!Next
  <2>6. ASSUME NEW c \in Payload, Mutate(c) PROVE [Abstract!Next]_(Abstract!avars)
    BY <2>1, <2>2, <2>3, <2>6 DEF Mutate, Abstract!Next
  <2>7. ASSUME NEW p \in Password, Unlock(p) PROVE [Abstract!Next]_(Abstract!avars)
    <3>1. CASE Return("ok") /\ UNCHANGED files
      BY <2>7, <3>1 DEF Unlock, Return, files, Abstract!Next, Abstract!AnswerOther,
         Abstract!Nothing
    <3> QED
      BY <2>1, <2>7, <3>1 DEF Unlock
  <2>8. CASE Lock
    BY <2>8 DEF Lock, Return, files, Abstract!Next, Abstract!AnswerOther, Abstract!Nothing
  <2>9. CASE CreateTmp \/ WriteTmp \/ StartBackup \/ FinishBackup
    <3>1. /\ path' = path /\ reply' = reply
          /\ op # Idle /\ op \in Op /\ \E step \in Steps : op' = [op EXCEPT !.at = step]
      BY <1>2, <2>9 DEF CreateTmp, WriteTmp, StartBackup, FinishBackup, Goto, Idle, IInv,
         TypeOK, Steps
    <3>2. op' # Idle /\ op'.image = op.image
      BY <3>1 DEF Op, Idle, Steps
    <3> QED
      BY <3>1, <3>2 DEF Abstract!avars
  <2>10. CASE Promote
    <3>1. /\ path' = op.image /\ reply' = reply
          /\ op # Idle /\ op \in Op /\ op' = [op EXCEPT !.at = "finish"]
      BY <1>2, <2>10 DEF Promote, Goto, Idle, IInv, TypeOK, TmpInv
    <3>2. op' # Idle /\ op'.image = op.image
      BY <3>1 DEF Op, Idle, Steps
    <3>3. Reader(op.image) # Abstract!Nothing
      BY <1>2, <3>1, ReaderOfSealed DEF IInv, RequestInv, Abstract!Pair, Abstract!Nothing
    <3> QED
      BY <3>1, <3>2, <3>3 DEF Abstract!Next, Abstract!Apply
  <2>11. CASE Finish
    <3>1. path = op.image /\ op # Idle /\ WellSealed(op.image)
      BY <1>2, <2>11 DEF Finish, Idle, IInv, FinishInv, RequestInv
    <3>2. Reader(op.image) # Abstract!Nothing
      BY <3>1, ReaderOfSealed DEF Abstract!Pair, Abstract!Nothing
    <3> QED
      BY <2>11, <3>1, <3>2 DEF Finish, Return, files, Abstract!Next, Abstract!AnswerOk,
         Abstract!Nothing
  <2>12. CASE IoError
    BY <2>1, <2>12 DEF IoError
  <2>13. CASE Restart
    BY <2>13 DEF Restart, Abstract!Next, Abstract!Restart, Abstract!Nothing
  <2>14. CASE UNCHANGED vars
    BY <2>14 DEF vars, Abstract!avars
  <2> QED
    BY <1>2, <2>4, <2>5, <2>6, <2>7, <2>8, <2>9, <2>10, <2>11, <2>12, <2>13, <2>14 DEF Next
<1> QED
  BY <1>1, <1>2, Invariance, PTL DEF Spec, ImplementsAtomicVault, Abstract!Spec
=============================================================================
