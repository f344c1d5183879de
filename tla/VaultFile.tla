----------------------------- MODULE VaultFile -----------------------------
(***************************************************************************)
(* The encrypted vault of crates/vault: the file vault.bin with its        *)
(* temporary and backup copies, the lock state kept in memory, and the     *)
(* operations of `Vault`, step by step down to the system calls of         *)
(* `atomic_write`.  Any step may fail with an I/O error, and the process   *)
(* may stop between any two steps and open the vault again.                *)
(*                                                                         *)
(* Every operation runs under the workspace's vault mutex, so at most one  *)
(* is in progress; `op` is that operation.                                 *)
(*                                                                         *)
(* A header stands for the salt, the key-derivation parameters and the     *)
(* nonce, which are always generated together.  Encryption is ideal: an    *)
(* image opens only under the key it was sealed with and with the header   *)
(* it was sealed under.                                                    *)
(***************************************************************************)
CONSTANTS Password,      \* master passwords
          Payload,       \* decrypted payloads
          EmptyPayload,  \* VaultPayload::empty
          Header         \* salt and nonce pairs

ASSUME PayloadAssumption == EmptyPayload \in Payload

VARIABLES path,   \* vault.bin
          tmp,    \* vault.bin.tmp
          bak,    \* vault.bin.bak
          mem,    \* VaultState
          op,     \* the operation in progress
          reply   \* what the last operation returned

files == <<path, tmp, bak>>
vars == <<path, tmp, bak, mem, op, reply>>

-----------------------------------------------------------------------------
(* Keys and file images *)

Derive(p, h) == [password |-> p, header |-> h]
Key == [password : Password, header : Header]

Absent == [kind |-> "absent"]
Torn == [kind |-> "torn"]
Seal(h, k, c) == [kind |-> "sealed", header |-> h, key |-> k, content |-> c]
Sealed == [kind : {"sealed"}, header : Header, key : Key, content : Payload]
Image == {Absent, Torn} \cup Sealed

\* The authenticated decryption of an image: the key, and through it the
\* header it was derived from, must be the ones the image was sealed with.
Opens(k, image) ==
    /\ image.kind = "sealed"
    /\ image.key = k
    /\ image.header = k.header

MemMissing == [state |-> "missing"]
MemLocked == [state |-> "locked"]
MemUnlocked(k) == [state |-> "unlocked", key |-> k]
Mem == {MemMissing, MemLocked} \cup [state : {"unlocked"}, key : Key]

\* vault.bin.tmp is `tmp_path_for(vault.bin)`, which appends to the file
\* name; startup recovery names its victims with `with_extension`, which
\* replaces the extension.
TmpName == "vault.bin.tmp"
StaleNames == {"workspace.tmp", "vault.tmp", "current.tmp"}

-----------------------------------------------------------------------------
(* Operations in progress *)

Steps == {"createTmp", "writeTmp", "copyBackup", "copying", "promote",
          "finish"}
Kinds == {"create", "save", "change"}

Idle == [at |-> "idle"]
Write(kind, image) == [at |-> "createTmp", kind |-> kind, image |-> image]
Op == {Idle} \cup [at : Steps, kind : Kinds, image : Sealed]

Return(answer) ==
    /\ op' = Idle
    /\ reply' = answer

Refuse ==
    /\ Return("error")
    /\ UNCHANGED <<files, mem>>

Begin(kind, image) ==
    /\ op' = Write(kind, image)
    /\ reply' = "none"
    /\ UNCHANGED <<files, mem>>

\* A freshly generated salt and nonce meet none that is still around.
FreshHeaders ==
    {h \in Header :
        /\ \A image \in {path, tmp, bak} : image.kind = "sealed" => image.header # h
        /\ mem.state = "unlocked" => mem.key.header # h}

-----------------------------------------------------------------------------
(* The operations of `Vault` *)

Init ==
    /\ path = Absent
    /\ tmp = Absent
    /\ bak = Absent
    /\ mem = MemMissing
    /\ op = Idle
    /\ reply = "started"

Create(p) ==
    /\ op = Idle
    /\ IF path = Absent /\ mem.state = "missing"
       THEN \E h \in FreshHeaders :
               Begin("create", Seal(h, Derive(p, h), EmptyPayload))
       ELSE Refuse

\* `unlock` decrypts the file before it keeps the key.
Unlock(p) ==
    /\ op = Idle
    /\ \/ /\ mem.state # "unlocked"
          /\ path.kind = "sealed"
          /\ Opens(Derive(p, path.header), path)
          /\ mem' = MemUnlocked(Derive(p, path.header))
          /\ Return("ok")
          /\ UNCHANGED files
       \/ /\ \/ mem.state = "unlocked"
             \/ path.kind # "sealed"
             \/ ~Opens(Derive(p, path.header), path)
          /\ Refuse

\* Variant with a mistake: the key outlives the lock.
LockKeepsKey ==
    /\ op = Idle
    /\ mem' = [mem EXCEPT !.state = IF @ = "missing" THEN @ ELSE "locked"]
    /\ Return("ok")
    /\ UNCHANGED files

Lock ==
    /\ op = Idle
    /\ mem' = IF mem.state = "missing" THEN mem ELSE MemLocked
    /\ Return("ok")
    /\ UNCHANGED files

\* `load` under the key in memory.
Loads == mem.state = "unlocked" /\ Opens(mem.key, path)

\* Variant with a mistake: `save` without the `load` before it.
MutateWithoutLoad(c) ==
    /\ op = Idle
    /\ IF mem.state = "unlocked" /\ path.kind = "sealed"
       THEN Begin("save", Seal(path.header, mem.key, c))
       ELSE Refuse

\* `mutate_payload`: load, change, and `save` under the header that is
\* already in the file.
Mutate(c) ==
    /\ op = Idle
    /\ IF Loads
       THEN Begin("save", Seal(path.header, mem.key, c))
       ELSE Refuse

ChangePassword(current, new) ==
    /\ op = Idle
    /\ \/ /\ mem.state = "unlocked"
          /\ path.kind = "sealed"
          /\ Opens(Derive(current, path.header), path)
          /\ \E h \in FreshHeaders :
                Begin("change", Seal(h, Derive(new, h), path.content))
       \/ /\ \/ mem.state # "unlocked"
             \/ path.kind # "sealed"
             \/ ~Opens(Derive(current, path.header), path)
          /\ Refuse

-----------------------------------------------------------------------------
(* The steps of `atomic_write` and what follows it *)

Goto(step) ==
    /\ op' = [op EXCEPT !.at = step]
    /\ UNCHANGED <<mem, reply>>

\* File::create truncates what an earlier attempt left.
CreateTmp ==
    /\ op.at = "createTmp"
    /\ tmp' = Torn
    /\ Goto("writeTmp")
    /\ UNCHANGED <<path, bak>>

\* Variant with a mistake: no copy of the file is taken.
WriteTmpWithoutBackup ==
    /\ op.at = "writeTmp"
    /\ tmp' = op.image
    /\ Goto("promote")
    /\ UNCHANGED <<path, bak>>

\* Both writes and sync_all have returned.
WriteTmp ==
    /\ op.at = "writeTmp"
    /\ tmp' = op.image
    /\ Goto(IF path = Absent THEN "promote" ELSE "copyBackup")
    /\ UNCHANGED <<path, bak>>

\* std::fs::copy is not atomic.
StartBackup ==
    /\ op.at = "copyBackup"
    /\ bak' = Torn
    /\ Goto("copying")
    /\ UNCHANGED <<path, tmp>>

\* Variant with a mistake: the temporary file is never promoted.
FinishWithoutPromote ==
    /\ op.at = "copying"
    /\ bak' = path
    /\ Goto("finish")
    /\ UNCHANGED <<path, tmp>>

FinishBackup ==
    /\ op.at = "copying"
    /\ bak' = path
    /\ Goto("promote")
    /\ UNCHANGED <<path, tmp>>

Promote ==
    /\ op.at = "promote"
    /\ path' = tmp
    /\ tmp' = Absent
    /\ Goto("finish")
    /\ UNCHANGED bak

\* `save` returns; `create` and `change_master_password` read the header
\* back and derive the key they keep from it.
Finish ==
    /\ op.at = "finish"
    /\ Return("ok")
    /\ mem' = IF op.kind = "save"
              THEN mem
              ELSE MemUnlocked(Derive(op.image.key.password, path.header))
    /\ UNCHANGED files

-----------------------------------------------------------------------------
(* Failures *)

\* A system call of the operation fails and `?` returns; the files stay as
\* the earlier calls left them.  A failed read refuses an operation before
\* its first write.
IoError ==
    /\ op.at = "finish" => op.kind # "save"
    /\ Refuse

\* The process stops at any point; the next one removes the temporary files
\* it knows the names of, which those of the vault are not among, and opens
\* the vault, looking only at whether the file exists.
Restart ==
    /\ op' = Idle
    /\ reply' = "started"
    /\ mem' = IF path = Absent THEN MemMissing ELSE MemLocked
    /\ tmp' = IF TmpName \in StaleNames THEN Absent ELSE tmp
    /\ UNCHANGED <<path, bak>>

Next ==
    \/ \E p \in Password : Create(p) \/ Unlock(p)
    \/ \E p, q \in Password : ChangePassword(p, q)
    \/ \E c \in Payload : Mutate(c)
    \/ Lock
    \/ CreateTmp \/ WriteTmp \/ StartBackup \/ FinishBackup \/ Promote \/ Finish
    \/ IoError
    \/ Restart

Spec == Init /\ [][Next]_vars

-----------------------------------------------------------------------------
(* Properties *)

\* Every variable keeps its type; in particular no key stays in a locked
\* state (`Vault::lock` drops it).
TypeOK ==
    /\ path \in Image
    /\ tmp \in Image
    /\ bak \in Image
    /\ mem \in Mem
    /\ op \in Op
    /\ reply \in {"started", "none", "ok", "error"}

\* Whatever fails or stops, and in whatever order, vault.bin is either not
\* there or a whole image that the password it was sealed under opens:
\* `atomic_write` never exposes a partial file, and `save` never seals under
\* a header that does not belong to its key.
FileStaysOpenable ==
    path = Absent \/ \E p \in Password : path.kind = "sealed" /\ Opens(Derive(p, path.header), path)

\* The file is replaced only when the backup already holds it whole: "the
\* previous good file is kept as `<vault>.bak` before the replacement is
\* promoted".
BackedUpBeforeReplaced ==
    [][path' # path /\ path # Absent => bak' = path]_vars

\* A vault gets unlocked only by a key that opens the file of that moment:
\* `unlock` verifies by decrypting, and `create` and
\* `change_master_password` derive from the header they read back.
UnlockedOnlyByTheFile ==
    [][mem.state # "unlocked" /\ mem'.state = "unlocked" => Opens(mem'.key, path')]_vars

\* A rotation that is not acknowledged leaves the payload, and one of the
\* two passwords, in place; every acknowledged write is in the file; every
\* other operation leaves the file alone: the vault file implements the
\* one-cell store of AtomicVault.
Reader(image) ==
    IF image.kind # "sealed" THEN [kind |-> "nothing"]
    ELSE IF Opens(Derive(image.key.password, image.header), image)
    THEN [kind |-> "pair", password |-> image.key.password, content |-> image.content]
    ELSE [kind |-> "unreadable"]

Abstract == INSTANCE AtomicVault
    WITH stored <- Reader(path),
         request <- IF op = Idle THEN [kind |-> "nothing"] ELSE Reader(op.image)

ImplementsAtomicVault == Abstract!Spec
=============================================================================
