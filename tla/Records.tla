------------------------------ MODULE Records ------------------------------
(***************************************************************************)
(* The metadata rows of workspace.db: profiles, accounts, factors and      *)
(* recovery codes (storage/profiles.rs, storage/accounts.rs), and the      *)
(* services that create, edit and delete them (controller/services.rs).    *)
(*                                                                         *)
(* An account of the domain spans three tables.  The store encodes a value *)
(* into columns, the schema constrains them, and a reader decodes them     *)
(* again, list by list: one row that cannot be decoded fails the list.     *)
(* Only create_account writes several rows, in a transaction.              *)
(*                                                                         *)
(* Commands run one after another, but an edit is made from a copy that a  *)
(* page read earlier: between the two any other command may have run.      *)
(*                                                                         *)
(* Columns that are copied in and out as they are count as one: `name` of  *)
(* a profile, `service` of an account, `note` of a factor.  A SecretRef is *)
(* computed from an id, so a reference column only says whether it is set. *)
(* The values behind the references are in module Secrets.                 *)
(***************************************************************************)
EXTENDS Integers, FiniteSets

CONSTANTS Profile, Account, Factor, Code,  \* ids, never reused
          Page,       \* pages of the user interface that hold a copy
          Name,       \* names of profiles
          Label,      \* labels of custom services
          Note,       \* notes of factors
          Version,    \* Thorium versions a profile may be pinned to
          Preset,     \* services with a name of their own
          Custom,     \* the stored identifier of any other service
          CustomName, \* the label of a custom service stored without one
          Kind,       \* kinds of factors: "hotp", "external", "totp"
          Time,       \* timestamps
          MaxI64,     \* the largest integer a column holds
          Position,   \* bound: positions a recovery code may be given
          None,       \* an absent row or an empty column
          MaxRows     \* bound: accounts, factors and codes there are at a time

ASSUME NamesAssumption ==
    /\ Custom \notin Preset
    /\ "hotp" \in Kind
    /\ None \notin Version \cup Preset \cup {Custom} \cup Label \cup Time
ASSUME NumbersAssumption ==
    /\ MaxI64 \in Nat
    /\ Position \subseteq Nat
    /\ MaxRows \in Nat
ASSUME IdsAssumption == IsFiniteSet(Account) /\ IsFiniteSet(Factor) /\ IsFiniteSet(Code)

VARIABLES
    profiles, accounts, factors, codes,  \* the tables: id -> row or None
    tx,       \* the transaction of create_account, or NoTx
    copies,   \* what each page read and still shows, or None
    born,     \* history: ids a row was ever stored under
    touched   \* history: pages whose account had its password reference
              \* changed after the page read it

tables == <<profiles, accounts, factors, codes>>
vars == <<profiles, accounts, factors, codes, tx, copies, born, touched>>

-----------------------------------------------------------------------------
(* The schema, and how values become columns and are read back *)

U64 == 0 .. (2 * MaxI64 + 1)
I64 == (-MaxI64 - 1) .. MaxI64

\* The values of the domain: a selected version or None for the current one,
\* a preset service or a custom one with its label.
Selections == Version \cup {None}
Services == Preset \cup [label : Label]

ProfileRow ==
    [name : Name, selection : {"current", "pinned"}, pinned : Version \cup {None},
     dir : Profile]
\* The label is there for a custom service only.
AccountRow ==
    {row \in [profile : Profile, service : Preset \cup {Custom}, label : Label \cup {None},
              password : BOOLEAN] :
       (row.service = Custom) <=> (row.label # None)}
FactorRow == [account : Account, kind : Kind, note : Note, counter : I64 \cup {None}]
CodeRow ==
    [account : Account, position : Position, used : {0, 1}, marked : Time \cup {None}]

\* The CHECK clauses of `profiles`.
Checked(row) == (row.selection = "pinned") <=> (row.pinned # None)

Stored(table) == {id \in DOMAIN table : table[id] # None}

ASSUME NoneAssumption ==
    None \notin ProfileRow \cup AccountRow \cup FactorRow \cup CodeRow
                \cup [id : Account, password : BOOLEAN] \cup [label : Label] \cup U64

\* A result that is an error: StorageError::Corrupt or a refused statement.
Corrupt == [error |-> "corrupt"]

StorageParts(version) ==
    IF version = None THEN <<"current", None>> ELSE <<"pinned", version>>

FromStorageParts(selection, pinned) ==
    CASE selection = "current" -> None
      [] selection = "pinned" /\ pinned # None -> pinned
      [] OTHER -> Corrupt

ServiceParts(service) ==
    IF service \in Preset THEN <<service, None>> ELSE <<Custom, service.label>>

FromIdAndLabel(id, label) ==
    CASE id \in Preset -> id
      [] id = Custom -> [label |-> IF label = None THEN CustomName ELSE label]
      [] OTHER -> Corrupt

\* Variant with a mistake: the number is bound as it is.
FitsUnsigned(n) == n \in U64 \cup {None}

\* `num::to_i64`: an error, never a wrapped value.
Fits(n) == n = None \/ n <= MaxI64
FromI64(n) == IF n = None \/ n >= 0 THEN n ELSE Corrupt

\* `profile_from_row`, `factor_from_row`, `code_from_row`.
ProfileOf(row) ==
    [name |-> row.name, version |-> FromStorageParts(row.selection, row.pinned),
     dir |-> row.dir]

FactorOf(row) ==
    [kind |-> row.kind, note |-> row.note, counter |-> FromI64(row.counter)]

CodeOf(row) ==
    [position |-> row.position, mark |-> [used |-> row.used = 1, at |-> row.marked]]

\* `account_from_row`, with what the readers of the other tables add.
AccountOf(row, fs, cs) ==
    [profile |-> row.profile, service |-> FromIdAndLabel(row.service, row.label),
     password |-> row.password, factors |-> fs, codes |-> cs]

GetProfile(p) == IF profiles[p] = None THEN None ELSE ProfileOf(profiles[p])
ListProfiles == [p \in Stored(profiles) |-> GetProfile(p)]
GetFactor(f) == IF factors[f] = None THEN None ELSE FactorOf(factors[f])

ListFactors(a) ==
    [f \in {g \in Stored(factors) : factors[g].account = a} |-> FactorOf(factors[f])]

ListRecoveryCodes(a) ==
    [c \in {d \in Stored(codes) : codes[d].account = a} |-> CodeOf(codes[c])]

GetAccount(a) ==
    IF accounts[a] = None THEN None
    ELSE AccountOf(accounts[a], ListFactors(a), ListRecoveryCodes(a))

\* The ids whose accounts `list_accounts` loads.
ListAccounts(p) == {a \in Stored(accounts) : accounts[a].profile = p}

RecoveryCodeOwner(c) == IF codes[c] = None THEN None ELSE codes[c].account
ProfileExists(p) == profiles[p] # None
AccountExists(a) == accounts[a] # None

-----------------------------------------------------------------------------
(* Statements *)

\* UNIQUE (name) and UNIQUE (user_data_rel_path).
NameTaken(p, name) == \E q \in Stored(profiles) \ {p} : profiles[q].name = name

\* UNIQUE (account_id, position).
PositionTaken(table, a, position) ==
    \E c \in Stored(table) : table[c].account = a /\ table[c].position = position

\* The rows the INSERT and UPDATE statements leave.
ProfileColumns(name, version, dir) ==
    LET parts == StorageParts(version)
    IN [name |-> name, selection |-> parts[1], pinned |-> parts[2], dir |-> dir]

\* UPDATE profiles: the data directory is not one of the columns.
ProfileUpdated(row, name, version) == ProfileColumns(name, version, row.dir)

AccountColumns(p, service, password) ==
    LET parts == ServiceParts(service)
    IN [profile |-> p, service |-> parts[1], label |-> parts[2], password |-> password]

\* UPDATE accounts: the owner is not one of the columns.
AccountUpdated(row, service, password) == AccountColumns(row.profile, service, password)

\* None when the counter does not fit its column.
FactorColumns(a, kind, note, counter) ==
    IF Fits(counter)
    THEN [account |-> a, kind |-> kind, note |-> note, counter |-> counter]
    ELSE None

\* The column of the counter is not one of UPDATE factors.
FactorUpdated(row, note) == [row EXCEPT !.note = note]

CodeColumns(a, position) ==
    [account |-> a, position |-> position, used |-> 0, marked |-> None]

CodeMarked(row, at) ==
    [account |-> row.account, position |-> row.position, used |-> 1, marked |-> at]

\* ON DELETE CASCADE: what is left of `factors` or `codes` without the
\* accounts `gone`.
Cascaded(table, gone) ==
    [id \in DOMAIN table |->
        IF table[id] # None /\ table[id].account \in gone THEN None ELSE table[id]]

Without(table, ids) == [id \in DOMAIN table |-> IF id \in ids THEN None ELSE table[id]]

RowCount ==
    Cardinality(Stored(accounts)) + Cardinality(Stored(factors)) + Cardinality(Stored(codes))

NoTx == [active |-> FALSE]
Idle == tx = NoTx

\* A transaction: its view of the tables, what it has still to write and what
\* it has written.
Working(a, p, as, fs, cs, todoFactors, todoCodes, written) ==
    [active |-> TRUE, account |-> a, profile |-> p, accounts |-> as, factors |-> fs,
     codes |-> cs, todoFactors |-> todoFactors, todoCodes |-> todoCodes,
     written |-> written]

Init ==
    /\ profiles = [p \in Profile |-> None]
    /\ accounts = [a \in Account |-> None]
    /\ factors = [f \in Factor |-> None]
    /\ codes = [c \in Code |-> None]
    /\ tx = NoTx
    /\ copies = [g \in Page |-> None]
    /\ born = {}
    /\ touched = {}

-----------------------------------------------------------------------------
(* Profiles.  A refused command changes nothing and has no action. *)

\* The directory is derived from the id, so its column never conflicts.
CreateProfile(p) ==
    /\ Idle
    /\ p \notin born
    /\ \E name \in Name, version \in Selections :
          LET row == ProfileColumns(name, version, p)
          IN /\ ~ NameTaken(p, name)
             /\ Checked(row)
             /\ profiles' = [profiles EXCEPT ![p] = row]
    /\ born' = born \cup {p}
    /\ UNCHANGED <<accounts, factors, codes, tx, copies, touched>>

UpdateProfile(p) ==
    /\ Idle
    /\ profiles[p] # None
    /\ \E name \in Name, version \in Selections :
          LET row == ProfileUpdated(profiles[p], name, version)
          IN /\ ~ NameTaken(p, name)
             /\ Checked(row)
             /\ profiles' = [profiles EXCEPT ![p] = row]
    /\ UNCHANGED <<accounts, factors, codes, tx, copies, born, touched>>

\* Variant with a mistake: the cascade ends at the accounts.
DeleteProfileShallow(p) ==
    LET gone == ListAccounts(p)
    IN /\ Idle
       /\ profiles[p] # None
       /\ profiles' = Without(profiles, {p})
       /\ accounts' = Without(accounts, gone)
       /\ UNCHANGED <<factors, codes, tx, copies, born, touched>>

DeleteProfile(p) ==
    LET gone == ListAccounts(p)
    IN /\ Idle
       /\ profiles[p] # None
       /\ profiles' = Without(profiles, {p})
       /\ accounts' = Without(accounts, gone)
       /\ factors' = Cascaded(factors, gone)
       /\ codes' = Cascaded(codes, gone)
       /\ UNCHANGED <<tx, copies, born, touched>>

-----------------------------------------------------------------------------
(* Accounts *)

\* `create_account` begins: the profile exists, the transaction is open, and
\* what the caller's account contains is still to be written.
BeginAccount(a, p) ==
    /\ Idle
    /\ a \notin born
    /\ ProfileExists(p)
    /\ \E fs \in SUBSET (Factor \ born), cs \in SUBSET (Code \ born) :
          /\ RowCount + 1 + Cardinality(fs) + Cardinality(cs) <= MaxRows
          /\ tx' = Working(a, p, accounts, factors, codes, fs, cs, {})
    /\ UNCHANGED <<tables, copies, born, touched>>

\* The open transaction has written `ids` more.
Wrote(as, fs, cs, ids) ==
    /\ tx' = Working(tx.account, tx.profile, as, fs, cs,
                     tx.todoFactors \ ids, tx.todoCodes \ ids, tx.written \cup ids)
    /\ UNCHANGED <<tables, copies, born, touched>>

\* An error on the way drops the transaction: SQLite rolls it back.
Rollback ==
    /\ ~ Idle
    /\ tx' = NoTx
    /\ UNCHANGED <<tables, copies, born, touched>>

WriteAccount ==
    /\ ~ Idle
    /\ tx.account \notin tx.written
    /\ \E service \in Services :
          LET row == AccountColumns(tx.profile, service, FALSE)
          IN Wrote([tx.accounts EXCEPT ![tx.account] = row], tx.factors, tx.codes, {tx.account})

\* An imported factor keeps the counter its URI gave, which an HOTP factor
\* needs and a TOTP factor may have; an external factor has none.
Counters(kind) ==
    CASE kind = "hotp" -> U64
      [] kind = "external" -> {None}
      [] OTHER -> U64 \cup {None}

WriteFactor ==
    /\ ~ Idle
    /\ tx.account \in tx.written
    /\ \E f \in tx.todoFactors, kind \in Kind, note \in Note :
          \E counter \in Counters(kind) :
             LET row == FactorColumns(tx.account, kind, note, counter)
             IN IF row = None
                THEN Rollback
                ELSE Wrote(tx.accounts, [tx.factors EXCEPT ![f] = row], tx.codes, {f})

WriteCode ==
    /\ ~ Idle
    /\ tx.account \in tx.written
    /\ tx.todoFactors = {}
    /\ \E c \in tx.todoCodes, position \in Position :
          IF PositionTaken(tx.codes, tx.account, position)
          THEN Rollback
          ELSE LET row == CodeColumns(tx.account, position)
               IN Wrote(tx.accounts, tx.factors, [tx.codes EXCEPT ![c] = row], {c})

Commit ==
    /\ ~ Idle
    /\ tx.account \in tx.written
    /\ tx.todoFactors \cup tx.todoCodes = {}
    /\ accounts' = tx.accounts
    /\ factors' = tx.factors
    /\ codes' = tx.codes
    /\ born' = born \cup tx.written
    /\ tx' = NoTx
    /\ UNCHANGED <<profiles, copies, touched>>

DeleteAccount(a) ==
    /\ Idle
    /\ accounts[a] # None
    /\ accounts' = Without(accounts, {a})
    /\ factors' = Cascaded(factors, {a})
    /\ codes' = Cascaded(codes, {a})
    /\ UNCHANGED <<profiles, tx, copies, born, touched>>

Showing(a) == {g \in Page : copies[g] # None /\ copies[g].id = a}

\* `set_password` and `delete_password` write the account they just read
\* back, with the reference changed.
ChangePassword(a, password) ==
    /\ Idle
    /\ accounts[a] # None
    /\ accounts' = [accounts EXCEPT ![a] = AccountUpdated(@, GetAccount(a).service, password)]
    /\ touched' = touched \cup Showing(a)
    /\ UNCHANGED <<profiles, factors, codes, tx, copies, born>>

SetPassword(a) == ChangePassword(a, TRUE)

DeletePassword(a) ==
    /\ accounts[a] # None /\ accounts[a].password
    /\ ChangePassword(a, FALSE)

\* Variant with a mistake: the page keeps the fields of its form only.
ReadAccountForm(g, a) ==
    /\ Idle
    /\ copies' = [copies EXCEPT ![g] =
                    IF accounts[a] = None THEN None ELSE [id |-> a, password |-> FALSE]]
    /\ touched' = touched \ {g}
    /\ UNCHANGED <<tables, tx, born>>

\* A page loads an account, or finds it gone.
ReadAccount(g, a) ==
    /\ Idle
    /\ copies' = [copies EXCEPT ![g] =
                    IF accounts[a] = None THEN None
                    ELSE [id |-> a, password |-> GetAccount(a).password]]
    /\ touched' = touched \ {g}
    /\ UNCHANGED <<tables, tx, born>>

\* `update_account`: the page sends its copy with the form's fields changed.
UpdateAccount(g) ==
    LET a == copies[g].id
        password == copies[g].password
    IN /\ Idle
       /\ copies[g] # None
       /\ accounts[a] # None
       /\ \E service \in Services :
             accounts' = [accounts EXCEPT ![a] = AccountUpdated(@, service, password)]
       /\ touched' = IF accounts[a].password = password THEN touched
                                                        ELSE touched \cup Showing(a)
       /\ UNCHANGED <<profiles, factors, codes, tx, copies, born>>

-----------------------------------------------------------------------------
(* Factors and recovery codes, one row at a time *)

AddFactor(f, a) ==
    /\ Idle
    /\ f \notin born
    /\ AccountExists(a)
    /\ RowCount < MaxRows
    /\ \E kind \in Kind, note \in Note :
          \E counter \in Counters(kind) :
             LET row == FactorColumns(a, kind, note, counter)
             IN row # None /\ factors' = [factors EXCEPT ![f] = row]
    /\ born' = born \cup {f}
    /\ UNCHANGED <<profiles, accounts, codes, tx, copies, touched>>

\* The statement has no counter column: an edit never undoes an increment.
UpdateFactor(f) ==
    /\ Idle
    /\ factors[f] # None
    /\ \E note \in Note : factors' = [factors EXCEPT ![f] = FactorUpdated(@, note)]
    /\ UNCHANGED <<profiles, accounts, codes, tx, copies, born, touched>>

SetHotpCounter(f) ==
    /\ Idle
    /\ factors[f] # None /\ factors[f].kind = "hotp"
    /\ \E counter \in U64 :
          /\ Fits(counter)
          /\ factors' = [factors EXCEPT ![f].counter = counter]
    /\ UNCHANGED <<profiles, accounts, codes, tx, copies, born, touched>>

DeleteFactor(f) ==
    /\ Idle
    /\ GetFactor(f) # None
    /\ factors' = Without(factors, {f})
    /\ UNCHANGED <<profiles, accounts, codes, tx, copies, born, touched>>

AddRecoveryCode(c, a) ==
    /\ Idle
    /\ c \notin born
    /\ AccountExists(a)
    /\ RowCount < MaxRows
    /\ \E position \in Position :
          /\ ~ PositionTaken(codes, a, position)
          /\ codes' = [codes EXCEPT ![c] = CodeColumns(a, position)]
    /\ born' = born \cup {c}
    /\ UNCHANGED <<profiles, accounts, factors, tx, copies, touched>>

\* Variant with a mistake: a used code is marked again.
MarkRecoveryCodeAgain(c) ==
    /\ Idle
    /\ codes[c] # None
    /\ \E at \in Time :
          codes' = [codes EXCEPT ![c] = CodeMarked(@, at)]
    /\ UNCHANGED <<profiles, accounts, factors, tx, copies, born, touched>>

\* WHERE used = 0: the first mark is the one that stays.
MarkRecoveryCodeUsed(c) ==
    /\ Idle
    /\ codes[c] # None /\ codes[c].used = 0
    /\ \E at \in Time :
          codes' = [codes EXCEPT ![c] = CodeMarked(@, at)]
    /\ UNCHANGED <<profiles, accounts, factors, tx, copies, born, touched>>

DeleteRecoveryCode(c) ==
    /\ Idle
    /\ RecoveryCodeOwner(c) # None
    /\ c \in DOMAIN ListRecoveryCodes(RecoveryCodeOwner(c))
    /\ codes' = Without(codes, {c})
    /\ UNCHANGED <<profiles, accounts, factors, tx, copies, born, touched>>

\* The program stops: what was committed is what the next one finds.
Stop ==
    /\ tx' = NoTx
    /\ copies' = [g \in Page |-> None]
    /\ touched' = {}
    /\ UNCHANGED <<tables, born>>

Next ==
    \/ \E p \in Profile : CreateProfile(p) \/ UpdateProfile(p) \/ DeleteProfile(p)
    \/ \E a \in Account, p \in Profile : BeginAccount(a, p)
    \/ WriteAccount \/ WriteFactor \/ WriteCode \/ Commit \/ Rollback
    \/ \E a \in Account : SetPassword(a) \/ DeletePassword(a) \/ DeleteAccount(a)
    \/ \E g \in Page : UpdateAccount(g) \/ \E a \in Account : ReadAccount(g, a)
    \/ \E f \in Factor : UpdateFactor(f) \/ SetHotpCounter(f) \/ DeleteFactor(f)
    \/ \E c \in Code : MarkRecoveryCodeUsed(c) \/ DeleteRecoveryCode(c)
    \/ \E a \in Account :
          \/ \E f \in Factor : AddFactor(f, a)
          \/ \E c \in Code : AddRecoveryCode(c, a)
    \/ Stop

Spec == Init /\ [][Next]_vars

-----------------------------------------------------------------------------
(* Properties *)

\* What the tables hold satisfies the column types and the CHECK clauses.
TypeOK ==
    /\ profiles \in [Profile -> {row \in ProfileRow : Checked(row)} \cup {None}]
    /\ accounts \in [Account -> AccountRow \cup {None}]
    /\ factors \in [Factor -> FactorRow \cup {None}]
    /\ codes \in [Code -> CodeRow \cup {None}]
    /\ copies \in [Page -> [id : Account, password : BOOLEAN] \cup {None}]
    /\ born \subseteq Profile \cup Account \cup Factor \cup Code
    /\ touched \subseteq Page

\* Whatever is created, deleted, cascaded, rolled back or cut short by a
\* stop: no row belongs to an owner that is gone, no two profiles share a
\* name or a data directory, and no two codes of an account a position.
Owned(as, fs, cs) ==
    /\ \A a \in Stored(as) : profiles[as[a].profile] # None
    /\ \A f \in Stored(fs) : as[fs[f].account] # None
    /\ \A c \in Stored(cs) : as[cs[c].account] # None

StoreIsWhole ==
    /\ Owned(accounts, factors, codes)
    /\ \A p, q \in Stored(profiles) :
          p # q => /\ profiles[p].name # profiles[q].name
                   /\ profiles[p].dir # profiles[q].dir
    /\ \A c, d \in Stored(codes) :
          c # d /\ codes[c].account = codes[d].account =>
             codes[c].position # codes[d].position

\* An edit from a page sends back the password reference of the page's copy.
\* It changes which accounts have a password only when the reference was
\* changed after that copy was read: a page that reloads loses nothing.
EditKeepsPassword(g) ==
    UpdateAccount(g) /\ g \notin touched =>
        \A a \in Stored(accounts) : accounts'[a].password = accounts[a].password

EditsKeepPasswords == [][\A g \in Page : EditKeepsPassword(g)]_vars

-----------------------------------------------------------------------------
(* The tables implement the book: what the readers decode are its values.  *)
(* Hence every row can be decoded again, an account appears and disappears *)
(* whole, an edit of the account never touches a counter or a code, an     *)
(* edit of a factor never sets its counter, a code is marked once, and no  *)
(* UPDATE brings a deleted row back.                                       *)

ReadProfiles ==
    [p \in Profile |-> IF p \in DOMAIN ListProfiles THEN ListProfiles[p] ELSE None]
ReadAccounts == [a \in Account |-> GetAccount(a)]

Book == INSTANCE AccountBook WITH
    profiles <- ReadProfiles,
    accounts <- ReadAccounts,
    Selection <- Selections,
    Service <- Services,
    Counter <- U64

\* A value is never mistaken for an absent one.
ASSUME ValuesAssumption == None \notin Book!ProfileValue \cup Book!AccountValue

ImplementsBook == Book!Spec
=============================================================================
