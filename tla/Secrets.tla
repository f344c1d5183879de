------------------------------ MODULE Secrets ------------------------------
(***************************************************************************)
(* Accounts, passwords, factors and recovery codes: metadata rows in       *)
(* workspace.db, values in the vault, and the services of                  *)
(* controller/services.rs that keep the two together.                      *)
(*                                                                         *)
(* The two stores share no transaction.  A service reads rows, changes the *)
(* vault under its mutex, then changes rows under the store's; between the *)
(* two the process may stop, the row change may fail, and the housekeeping *)
(* thread may lock the vault.  The commands themselves run one after       *)
(* another on the main thread, so `op` is the one between its steps.       *)
(*                                                                         *)
(* A SecretRef is computed from the id of what it belongs to, so the id    *)
(* stands for it: the vault is the set of ids whose value it holds.        *)
(*                                                                         *)
(* A page that edits an account sends back the whole row it read, with its *)
(* password reference, however old that copy is.                           *)
(***************************************************************************)
EXTENDS Naturals, FiniteSetsExt

CONSTANTS Profile, Account, Factor, Code,  \* ids, never reused
          Page,        \* what shows an account and can edit it
          NoRow,       \* owner of an id that has no row
          MaxCounter,  \* i64::MAX, the largest counter a row can hold
          MaxBatch,    \* bound: recovery codes added by one call
          MaxPosition  \* bound: the position a batch may reach

ASSUME DisjointIds ==
    /\ Account \cap Factor = {}
    /\ Account \cap Code = {}
    /\ Factor \cap Code = {}
    /\ NoRow \notin Profile \cup Account
ASSUME BoundAssumption == MaxCounter \in Nat /\ MaxBatch \in Nat /\ MaxPosition \in Nat

VARIABLES
    profiles,     \* rows of `profiles`
    owner,        \* accounts.profile_id
    passwordRef,  \* accounts with a password_secret_ref
    factorOf,     \* factors.account_id
    kind,         \* factors.kind
    counter,      \* factors.counter
    codeOf,       \* recovery_codes.account_id
    position,     \* recovery_codes.position
    entries,      \* references the vault holds a value for
    unlocked,     \* whether the vault is unlocked
    op,           \* the service between two of its steps
    copies,       \* the row each page read: the account, and whether it names a password
    unsettled,    \* history: references whose service stopped halfway
    overwritten,  \* history: references that an edit from a stale copy changed
    shown         \* history: HOTP counters whose code reached the user

accountRows == <<profiles, owner, passwordRef>>
factorRows == <<factorOf, kind, counter>>
codeRows == <<codeOf, position>>
rows == <<profiles, owner, passwordRef, factorOf, kind, counter, codeOf, position>>
vars == <<profiles, owner, passwordRef, factorOf, kind, counter, codeOf, position,
          entries, unlocked, op, copies, unsettled, overwritten, shown>>
histories == <<copies, unsettled, overwritten>>

-----------------------------------------------------------------------------
(* References *)

Ref == Account \cup Factor \cup Code
Kinds == {"totp", "hotp", "external"}

SeedRefs == {f \in Factor : factorOf[f] # NoRow /\ kind[f] # "external"}
CodeRefs == {c \in Code : codeOf[c] # NoRow}

\* Every reference some row carries.
RowRefs == passwordRef \cup SeedRefs \cup CodeRefs

\* Variant with a mistake: recovery codes are forgotten.
RefsWithoutCodes(owners) ==
    (passwordRef \cap owners) \cup {f \in SeedRefs : factorOf[f] \in owners}

\* The references `delete_account` and `delete_profile` collect.
RefsOf(owners) ==
    (passwordRef \cap owners)
      \cup {f \in SeedRefs : factorOf[f] \in owners}
      \cup {c \in CodeRefs : codeOf[c] \in owners}

AccountsOf(p) == {a \in Account : owner[a] = p}

\* Ids are random UUIDs: a new one meets no trace of an earlier one.
Fresh(id) ==
    /\ id \notin entries \cup unsettled \cup overwritten
    /\ \A s \in shown : s[1] # id

PositionsOf(a) == {position[c] : c \in {d \in Code : codeOf[d] = a}}

\* Variant with a mistake: the number of codes instead of the last position.
NumberOfCodes(a) == Cardinality(PositionsOf(a))

\* `max + 1` of the positions in use, 0 when there is none.
NextPosition(a) == IF PositionsOf(a) = {} THEN 0 ELSE Max(PositionsOf(a)) + 1

-----------------------------------------------------------------------------
(* Services in progress *)

Idle == [at |-> "idle", refs |-> {}]

\* What a page holds that shows no account.
NoCopy == [id |-> NoRow, named |-> FALSE]

Finished == op' = Idle

\* `mutate_payload`: load, change, save, under the vault mutex.  The save is
\* atomic (see VaultFile); it is the first change the service makes.
MutatePayload(newEntries, newOp) ==
    /\ unlocked
    /\ entries' = newEntries
    /\ op' = newOp
    /\ UNCHANGED <<rows, unlocked, histories, shown>>

\* The row change of the service in progress succeeds; its references are
\* settled.
RowsWritten ==
    /\ Finished
    /\ unsettled' = unsettled \ op.refs
    /\ overwritten' = overwritten \ op.refs
    /\ UNCHANGED <<entries, unlocked, shown>>

Init ==
    /\ profiles = {}
    /\ owner = [a \in Account |-> NoRow]
    /\ passwordRef = {}
    /\ factorOf = [f \in Factor |-> NoRow]
    /\ kind = [f \in Factor |-> "external"]
    /\ counter = [f \in Factor |-> 0]
    /\ codeOf = [c \in Code |-> NoRow]
    /\ position = [c \in Code |-> 0]
    /\ entries = {}
    /\ unlocked = FALSE
    /\ op = Idle
    /\ copies = [g \in Page |-> NoCopy]
    /\ unsettled = {}
    /\ overwritten = {}
    /\ shown = {}

-----------------------------------------------------------------------------
(* Profiles and accounts *)

\* The row comes first; preparing the User Data directory may fail after it.
CreateProfile(p) ==
    /\ op = Idle
    /\ p \notin profiles
    /\ profiles' = profiles \cup {p}
    /\ Finished
    /\ UNCHANGED <<owner, passwordRef, factorRows, codeRows, entries, unlocked, histories, shown>>

CreateAccount(a, p) ==
    /\ op = Idle
    /\ owner[a] = NoRow /\ Fresh(a)
    /\ p \in profiles
    /\ owner' = [owner EXCEPT ![a] = p]
    /\ Finished
    /\ UNCHANGED <<profiles, passwordRef, factorRows, codeRows, entries, unlocked, histories,
                   shown>>

\* The rows that go with a set of accounts (ON DELETE CASCADE).
DropAccounts(owners) ==
    /\ owner' = [a \in Account |-> IF a \in owners THEN NoRow ELSE owner[a]]
    /\ passwordRef' = passwordRef \ owners
    /\ factorOf' = [f \in Factor |-> IF factorOf[f] \in owners THEN NoRow ELSE factorOf[f]]
    /\ kind' = [f \in Factor |-> IF factorOf[f] \in owners THEN "external" ELSE kind[f]]
    /\ counter' = [f \in Factor |-> IF factorOf[f] \in owners THEN 0 ELSE counter[f]]
    /\ codeOf' = [c \in Code |-> IF codeOf[c] \in owners THEN NoRow ELSE codeOf[c]]
    /\ position' = [c \in Code |-> IF codeOf[c] \in owners THEN 0 ELSE position[c]]

\* Variant with a mistake: a locked vault skips the purge.
PurgeIfUnlocked(refs, newOp) ==
    IF refs = {} \/ ~unlocked
    THEN /\ op' = newOp
         /\ UNCHANGED <<rows, entries, unlocked, histories, shown>>
    ELSE MutatePayload(entries \ refs, newOp)

\* `delete_account` and `delete_profile` purge the vault first, and touch it
\* only when there is something to purge.
Purge(refs, newOp) ==
    IF refs = {}
    THEN /\ op' = newOp
         /\ UNCHANGED <<rows, entries, unlocked, histories, shown>>
    ELSE MutatePayload(entries \ refs, newOp)

DeleteAccount(a) ==
    /\ op = Idle
    /\ owner[a] # NoRow
    /\ Purge(RefsOf({a}), [at |-> "deleteAccounts", owners |-> {a}, refs |-> RefsOf({a}),
                           profiles |-> {}])

DeleteProfile(p) ==
    /\ op = Idle
    /\ p \in profiles
    /\ Purge(RefsOf(AccountsOf(p)),
             [at |-> "deleteAccounts", owners |-> AccountsOf(p),
              refs |-> RefsOf(AccountsOf(p)), profiles |-> {p}])

DeleteAccountRows ==
    /\ op.at = "deleteAccounts"
    /\ DropAccounts(op.owners)
    /\ profiles' = profiles \ op.profiles
    /\ copies' = [g \in Page |-> IF copies[g].id \in op.owners THEN NoCopy ELSE copies[g]]
    /\ RowsWritten

-----------------------------------------------------------------------------
(* Editing an account *)

\* Whether the row of a names a password.
Named(a) == a \in passwordRef

\* A page loads an account.  A copy of a row that is gone is forgotten: an
\* edit from it only returns NotFound.
ReadAccount(g, a) ==
    /\ op = Idle
    /\ owner[a] # NoRow
    /\ copies' = [copies EXCEPT ![g] = [id |-> a, named |-> Named(a)]]
    /\ UNCHANGED <<rows, entries, unlocked, op, unsettled, overwritten, shown>>

\* `update_account` writes the reference of the copy into the row and leaves
\* the vault alone.  Two stale edits may undo each other.
UpdateAccount(g) ==
    LET a == copies[g].id
        named == copies[g].named
    IN /\ op = Idle
       /\ copies[g] # NoCopy
       /\ passwordRef' = IF named THEN passwordRef \cup {a} ELSE passwordRef \ {a}
       /\ overwritten' = IF named = Named(a) THEN overwritten ELSE SymDiff(overwritten, {a})
       /\ Finished
       /\ UNCHANGED <<profiles, owner, factorRows, codeRows, entries, unlocked, copies,
                      unsettled, shown>>

-----------------------------------------------------------------------------
(* Passwords *)

SetPassword(a) ==
    /\ op = Idle
    /\ owner[a] # NoRow
    /\ MutatePayload(entries \cup {a}, [at |-> "setPassword", id |-> a, refs |-> {a}])

SetPasswordRow ==
    /\ op.at = "setPassword"
    /\ passwordRef' = passwordRef \cup {op.id}
    /\ RowsWritten
    /\ UNCHANGED <<profiles, owner, factorRows, codeRows, copies>>

DeletePassword(a) ==
    /\ op = Idle
    /\ a \in passwordRef
    /\ MutatePayload(entries \ {a}, [at |-> "deletePassword", id |-> a, refs |-> {a}])

DeletePasswordRow ==
    /\ op.at = "deletePassword"
    /\ passwordRef' = passwordRef \ {op.id}
    /\ RowsWritten
    /\ UNCHANGED <<profiles, owner, factorRows, codeRows, copies>>

-----------------------------------------------------------------------------
(* Factors *)

\* The seed is stored before anything is known about the account.
ImportOtpauth(f, a, k, n) ==
    /\ op = Idle
    /\ factorOf[f] = NoRow /\ Fresh(f)
    /\ MutatePayload(entries \cup {f},
                     [at |-> "importFactor", id |-> f, account |-> a, kind |-> k,
                      counter |-> n, refs |-> {f}])

\* Variant with a mistake: the counter is stored without conversion.
ImportAnyCounter ==
    /\ op.at = "importFactor"
    /\ owner[op.account] # NoRow
    /\ factorOf' = [factorOf EXCEPT ![op.id] = op.account]
    /\ kind' = [kind EXCEPT ![op.id] = op.kind]
    /\ counter' = [counter EXCEPT ![op.id] = op.counter]
    /\ RowsWritten
    /\ UNCHANGED <<accountRows, codeRows, copies>>

\* `add_factor` refuses a missing account and a counter beyond i64.
ImportFactorRow ==
    /\ op.at = "importFactor"
    /\ owner[op.account] # NoRow
    /\ op.counter <= MaxCounter
    /\ factorOf' = [factorOf EXCEPT ![op.id] = op.account]
    /\ kind' = [kind EXCEPT ![op.id] = op.kind]
    /\ counter' = [counter EXCEPT ![op.id] = op.counter]
    /\ RowsWritten
    /\ UNCHANGED <<accountRows, codeRows, copies>>

AddExternalFactor(f, a) ==
    /\ op = Idle
    /\ factorOf[f] = NoRow /\ Fresh(f)
    /\ owner[a] # NoRow
    /\ factorOf' = [factorOf EXCEPT ![f] = a]
    /\ kind' = [kind EXCEPT ![f] = "external"]
    /\ Finished
    /\ UNCHANGED <<accountRows, counter, codeRows, entries, unlocked, histories, shown>>

\* The code is computed from the counter in the row and the seed in the
\* vault.  A TOTP code is returned at once.
GenerateOtpCode(f) ==
    /\ op = Idle
    /\ factorOf[f] # NoRow
    /\ unlocked
    /\ f \in entries
    /\ \/ /\ kind[f] = "totp"
          /\ Finished
       \/ /\ kind[f] = "hotp"
          /\ op' = [at |-> "advance", id |-> f, counter |-> counter[f], refs |-> {}]
    /\ UNCHANGED <<rows, entries, unlocked, histories, shown>>

\* Variant with a mistake: the counter saturates.
AdvanceSaturating ==
    /\ op.at = "advance"
    /\ counter' = [counter EXCEPT ![op.id] =
                      IF op.counter < MaxCounter THEN op.counter + 1 ELSE MaxCounter]
    /\ op' = [op EXCEPT !.at = "return"]
    /\ UNCHANGED <<accountRows, factorOf, kind, codeRows, entries, unlocked, histories, shown>>

\* `set_hotp_counter` comes before the code is returned.
AdvanceCounter ==
    /\ op.at = "advance"
    /\ op.counter + 1 <= MaxCounter
    /\ counter' = [counter EXCEPT ![op.id] = op.counter + 1]
    /\ op' = [op EXCEPT !.at = "return"]
    /\ UNCHANGED <<accountRows, factorOf, kind, codeRows, entries, unlocked, histories, shown>>

ReturnCode ==
    /\ op.at = "return"
    /\ shown' = shown \cup {<<op.id, op.counter>>}
    /\ Finished
    /\ UNCHANGED <<rows, entries, unlocked, histories>>

DeleteFactor(f) ==
    /\ op = Idle
    /\ factorOf[f] # NoRow
    /\ LET refs == IF kind[f] = "external" THEN {} ELSE {f}
       IN Purge(refs, [at |-> "deleteFactor", id |-> f, refs |-> refs])

DeleteFactorRow ==
    /\ op.at = "deleteFactor"
    /\ factorOf' = [factorOf EXCEPT ![op.id] = NoRow]
    /\ kind' = [kind EXCEPT ![op.id] = "external"]
    /\ counter' = [counter EXCEPT ![op.id] = 0]
    /\ RowsWritten
    /\ UNCHANGED <<accountRows, codeRows, copies>>

-----------------------------------------------------------------------------
(* Recovery codes *)

\* The first free position is computed once, for the whole batch.
AddRecoveryCodes(a, n) ==
    /\ op = Idle
    /\ owner[a] # NoRow
    /\ NextPosition(a) + n <= MaxPosition
    /\ op' = [at |-> "nextCode", account |-> a, next |-> NextPosition(a), left |-> n,
              refs |-> {}]
    /\ UNCHANGED <<rows, entries, unlocked, histories, shown>>

PutCode(c) ==
    /\ op.at = "nextCode"
    /\ op.left > 0
    /\ codeOf[c] = NoRow /\ Fresh(c)
    /\ MutatePayload(entries \cup {c},
                     [at |-> "codeRow", id |-> c, account |-> op.account, next |-> op.next,
                      left |-> op.left, refs |-> {c}])

\* UNIQUE (account_id, position) refuses a position that is taken.
AddCodeRow ==
    /\ op.at = "codeRow"
    /\ op.next \notin PositionsOf(op.account)
    /\ codeOf' = [codeOf EXCEPT ![op.id] = op.account]
    /\ position' = [position EXCEPT ![op.id] = op.next]
    /\ op' = [at |-> "nextCode", account |-> op.account, next |-> op.next + 1,
              left |-> op.left - 1, refs |-> {}]
    /\ UNCHANGED <<accountRows, factorRows, entries, unlocked, histories, shown>>

AllCodesAdded ==
    /\ op.at = "nextCode"
    /\ op.left = 0
    /\ Finished
    /\ UNCHANGED <<rows, entries, unlocked, histories, shown>>

DeleteRecoveryCode(c) ==
    /\ op = Idle
    /\ codeOf[c] # NoRow
    /\ MutatePayload(entries \ {c}, [at |-> "deleteCode", id |-> c, refs |-> {c}])

DeleteCodeRow ==
    /\ op.at = "deleteCode"
    /\ codeOf' = [codeOf EXCEPT ![op.id] = NoRow]
    /\ position' = [position EXCEPT ![op.id] = 0]
    /\ RowsWritten
    /\ UNCHANGED <<accountRows, factorRows, copies>>

-----------------------------------------------------------------------------
(* The surroundings *)

Unlock ==
    /\ op = Idle
    /\ ~unlocked
    /\ unlocked' = TRUE
    /\ Finished
    /\ UNCHANGED <<rows, entries, histories, shown>>

\* `lock_vault`, from a command or, between any two steps of a service, from
\* the housekeeping thread.
Lock ==
    /\ unlocked' = FALSE
    /\ UNCHANGED <<rows, entries, op, histories, shown>>

\* A step of the service fails and `?` returns: the rows stay as they are,
\* and so does the vault.
Fail ==
    /\ op.at # "return"
    /\ op.at = "nextCode" => op.left > 0
    /\ Finished
    /\ unsettled' = unsettled \cup op.refs
    /\ UNCHANGED <<rows, entries, unlocked, copies, overwritten, shown>>

\* The process stops between two steps and starts again, locked; its pages
\* are gone.
Restart ==
    /\ Finished
    /\ unlocked' = FALSE
    /\ copies' = [g \in Page |-> NoCopy]
    /\ unsettled' = unsettled \cup op.refs
    /\ UNCHANGED <<rows, entries, overwritten, shown>>

Next ==
    \/ \E p \in Profile : CreateProfile(p) \/ DeleteProfile(p)
    \/ \E a \in Account :
          \/ \E p \in Profile : CreateAccount(a, p)
          \/ DeleteAccount(a)
          \/ \E g \in Page : ReadAccount(g, a)
          \/ SetPassword(a)
          \/ DeletePassword(a)
          \/ \E n \in 0..MaxBatch : AddRecoveryCodes(a, n)
    \/ \E f \in Factor :
          \/ \E a \in Account : AddExternalFactor(f, a)
          \/ \E a \in Account : ImportOtpauth(f, a, "totp", 0)
          \/ \E a \in Account, n \in 0..MaxCounter + 1 : ImportOtpauth(f, a, "hotp", n)
          \/ GenerateOtpCode(f)
          \/ DeleteFactor(f)
    \/ \E c \in Code : PutCode(c) \/ DeleteRecoveryCode(c)
    \/ \E g \in Page : UpdateAccount(g)
    \/ DeleteAccountRows \/ SetPasswordRow \/ DeletePasswordRow
    \/ ImportFactorRow \/ AdvanceCounter \/ ReturnCode \/ DeleteFactorRow
    \/ AddCodeRow \/ AllCodesAdded \/ DeleteCodeRow
    \/ Unlock \/ Lock \/ Fail \/ Restart

Spec == Init /\ [][Next]_vars

-----------------------------------------------------------------------------
(* Properties *)

Owner == Account \cup {NoRow}

Copy == {NoCopy} \cup [id : Account, named : BOOLEAN]

Op ==
    {Idle}
      \cup [at : {"setPassword", "deletePassword"}, id : Account, refs : SUBSET Ref]
      \cup [at : {"deleteFactor"}, id : Factor, refs : SUBSET Ref]
      \cup [at : {"deleteCode"}, id : Code, refs : SUBSET Ref]
      \cup [at : {"deleteAccounts"}, owners : SUBSET Account, profiles : SUBSET Profile,
            refs : SUBSET Ref]
      \cup [at : {"importFactor"}, id : Factor, account : Account, kind : {"totp", "hotp"},
            counter : 0..MaxCounter + 1, refs : SUBSET Ref]
      \cup [at : {"advance", "return"}, id : Factor, counter : 0..MaxCounter, refs : {{}}]
      \cup [at : {"nextCode"}, account : Account, next : 0..MaxPosition,
            left : 0..MaxBatch, refs : {{}}]
      \cup [at : {"codeRow"}, id : Code, account : Account, next : 0..MaxPosition,
            left : 1..MaxBatch, refs : SUBSET Ref]

\* Every variable keeps its type; no counter passes what a row can hold.
TypeOK ==
    /\ profiles \in SUBSET Profile
    /\ owner \in [Account -> Profile \cup {NoRow}]
    /\ passwordRef \in SUBSET Account
    /\ factorOf \in [Factor -> Owner]
    /\ kind \in [Factor -> Kinds]
    /\ counter \in [Factor -> 0..MaxCounter]
    /\ codeOf \in [Code -> Owner]
    /\ position \in [Code -> 0..MaxPosition]
    /\ entries \in SUBSET Ref
    /\ unlocked \in BOOLEAN
    /\ op \in Op
    /\ copies \in [Page -> Copy]
    /\ unsettled \in SUBSET Ref
    /\ overwritten \in SUBSET Account
    /\ shown \in SUBSET (Factor \X (0..MaxCounter))

\* The two stores agree except where an edit from a stale copy keeps them
\* apart: outside of a service at work, and of one that stopped halfway and
\* that nobody has retried since, a reference has a row exactly when it has a
\* value in the vault, and exactly one of the two when the last change of its
\* row came from a copy that was out of date.
StoresAgree ==
    \A r \in Ref \ (unsettled \cup op.refs) :
        (r \in RowRefs <=> r \in entries) <=> r \notin overwritten

\* An edit of a whose copy is not of the row as it is now.
StaleEdit(a) ==
    \E g \in Page : copies[g].id = a /\ copies[g].named # Named(a) /\ UpdateAccount(g)

\* A row gives up its reference only once the value is gone ("refuses while
\* the vault is locked so purges are never skipped silently"), with one
\* exception: an edit from a stale copy, of the account it edits.
RefDroppedOnlyAfterPurge ==
    [][\A r \in (RowRefs \ RowRefs') \cap entries' : r \in Account /\ StaleEdit(r)]_vars

\* A HOTP code reaches the user only from a counter past every counter
\* whose code was shown, whatever fails or stops in between: no code is
\* handed out twice.
HotpNeverRepeats ==
    [][ReturnCode => \A s \in shown : s[1] = op.id => s[2] < op.counter]_vars

\* A batch of recovery codes continues after every position in use, so that
\* UNIQUE (account_id, position) never refuses a code already in the vault.
NewPositionsAreFree ==
    op.at \in {"nextCode", "codeRow"} => \A m \in PositionsOf(op.account) : m < op.next
=============================================================================
