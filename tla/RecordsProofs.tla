--------------------------- MODULE RecordsProofs ---------------------------
(***************************************************************************)
(* Proofs about Records, for any numbers of ids, pages, names and          *)
(* positions.  The inductive invariant adds to the tables what the open    *)
(* transaction sees, and that an untouched copy is current.                *)
(***************************************************************************)
EXTENDS Records, TLAPS

\* The rows of `as`, `fs` and `cs` have their types.
TablesOK(as, fs, cs) ==
    /\ as \in [Account -> AccountRow \cup {None}]
    /\ fs \in [Factor -> FactorRow \cup {None}]
    /\ cs \in [Code -> CodeRow \cup {None}]

\* No two codes of an account share a position.
InOrder(cs) ==
    \A c, d \in Stored(cs) :
       c # d /\ cs[c].account = cs[d].account => cs[c].position # cs[d].position

\* What the open transaction sees is as whole as the tables; other accounts
\* than its own are theirs.
TxRecord ==
    [active : {TRUE}, account : Account, profile : Profile,
     accounts : [Account -> AccountRow \cup {None}],
     factors : [Factor -> FactorRow \cup {None}],
     codes : [Code -> CodeRow \cup {None}],
     todoFactors : SUBSET Factor, todoCodes : SUBSET Code,
     written : SUBSET (Account \cup Factor \cup Code)]

TxOK ==
    tx # NoTx =>
       /\ tx \in TxRecord
       /\ tx.account \notin born
       /\ profiles[tx.profile] # None
       /\ tx.account \in tx.written => tx.accounts[tx.account] # None
       /\ Owned(tx.accounts, tx.factors, tx.codes)
       /\ InOrder(tx.codes)
       /\ \A a \in Account \ {tx.account} : tx.accounts[a] = accounts[a]

\* Every stored account and every account a page shows was born.
KnownIds ==
    /\ Stored(accounts) \subseteq born
    /\ \A g \in Page : copies[g] # None => copies[g].id \in born

\* A copy says what the row says, unless the password changed in between.
CopiesAreCurrent ==
    \A g \in Page :
       copies[g] # None /\ g \notin touched =>
          LET row == accounts[copies[g].id]
          IN row # None => row.password = copies[g].password

DirsAreIds == \A p \in Stored(profiles) : profiles[p].dir = p
NamesAreUnique ==
    \A p, q \in Stored(profiles) : p # q => profiles[p].name # profiles[q].name

Whole ==
    /\ Owned(accounts, factors, codes)
    /\ InOrder(codes)
    /\ DirsAreIds
    /\ NamesAreUnique

IInv == TypeOK /\ Whole /\ TxOK /\ KnownIds /\ CopiesAreCurrent

-----------------------------------------------------------------------------
(* Codecs *)

\* What is stored for a value is decoded to the same value: a selection, a
\* service with its label, and a counter that fits.
THEOREM RoundTrip ==
    /\ \A v \in Selections : FromStorageParts(StorageParts(v)[1], StorageParts(v)[2]) = v
    /\ \A s \in Services : FromIdAndLabel(ServiceParts(s)[1], ServiceParts(s)[2]) = s
    /\ \A n \in U64 \cup {None} : Fits(n) => n \in I64 \cup {None} /\ FromI64(n) = n
<1>1. ASSUME NEW v \in Selections
      PROVE  FromStorageParts(StorageParts(v)[1], StorageParts(v)[2]) = v
  <2>1. CASE v = None
    BY <2>1 DEF FromStorageParts, StorageParts
  <2>2. CASE v # None
    BY <2>2 DEF FromStorageParts, StorageParts
  <2> QED BY <2>1, <2>2
<1>2. ASSUME NEW s \in Services
      PROVE  FromIdAndLabel(ServiceParts(s)[1], ServiceParts(s)[2]) = s
  <2>1. CASE s \in Preset
    BY <2>1, NamesAssumption DEF FromIdAndLabel, ServiceParts
  <2>2. CASE s \notin Preset
    <3>1. s \in [label : Label] /\ s.label \in Label /\ s = [label |-> s.label]
      BY <2>2 DEF Services
    <3>2. s.label # None
      BY <3>1, NamesAssumption
    <3> QED BY <2>2, <3>1, <3>2, NamesAssumption DEF FromIdAndLabel, ServiceParts
  <2> QED BY <2>1, <2>2
<1>3. ASSUME NEW n \in U64 \cup {None}, Fits(n)
      PROVE  n \in I64 \cup {None} /\ FromI64(n) = n
  BY <1>3, NumbersAssumption DEF Fits, FromI64, U64, I64
<1> QED BY <1>1, <1>2, <1>3

LEMMA ProfileColumnsType ==
    ASSUME NEW n \in Name, NEW v \in Selections, NEW p \in Profile
    PROVE  /\ ProfileColumns(n, v, p) \in ProfileRow
           /\ ProfileColumns(n, v, p) # None
           /\ ProfileColumns(n, v, p).name = n
           /\ ProfileColumns(n, v, p).dir = p
<1>1. CASE v = None
  BY <1>1, NoneAssumption DEF ProfileColumns, StorageParts, ProfileRow, Selections
<1>2. CASE v # None
  BY <1>2, NoneAssumption DEF ProfileColumns, StorageParts, ProfileRow, Selections
<1> QED BY <1>1, <1>2

LEMMA AccountColumnsType ==
    ASSUME NEW p \in Profile, NEW s \in Services, NEW w \in BOOLEAN
    PROVE  /\ AccountColumns(p, s, w) \in AccountRow
           /\ AccountColumns(p, s, w) # None
           /\ AccountColumns(p, s, w).profile = p
           /\ AccountColumns(p, s, w).password = w
<1>1. CASE s \in Preset
  BY <1>1, NamesAssumption, NoneAssumption DEF AccountColumns, ServiceParts, AccountRow, Services
<1>2. CASE s \notin Preset
  <2>1. s \in [label : Label] /\ s.label \in Label
    BY <1>2 DEF Services
  <2>2. s.label # None
    BY <2>1, NamesAssumption
  <2> QED BY <1>2, <2>1, <2>2, NamesAssumption, NoneAssumption
          DEF AccountColumns, ServiceParts, AccountRow, Services
<1> QED BY <1>1, <1>2

LEMMA AccountRowService ==
    ASSUME NEW row \in AccountRow
    PROVE  /\ FromIdAndLabel(row.service, row.label) \in Services
           /\ row.profile \in Profile
           /\ row.password \in BOOLEAN
<1>1. CASE row.service \in Preset
  BY <1>1 DEF AccountRow, FromIdAndLabel, Services
<1>2. CASE row.service \notin Preset
  BY <1>2 DEF AccountRow, FromIdAndLabel, Services
<1> QED BY <1>1, <1>2

LEMMA FactorColumnsType ==
    ASSUME NEW a \in Account, NEW k \in Kind, NEW n \in Note, NEW c \in Counters(k),
           FactorColumns(a, k, n, c) # None
    PROVE  /\ FactorColumns(a, k, n, c) \in FactorRow
           /\ FactorColumns(a, k, n, c).account = a
<1>1. c \in U64 \cup {None}
  BY DEF Counters
<1>2. Fits(c)
  BY DEF FactorColumns
<1>3. c \in I64 \cup {None}
  BY <1>1, <1>2, RoundTrip
<1> QED BY <1>2, <1>3 DEF FactorColumns, FactorRow

LEMMA CodeColumnsType ==
    ASSUME NEW a \in Account, NEW n \in Position
    PROVE  /\ CodeColumns(a, n) \in CodeRow
           /\ CodeColumns(a, n) # None
           /\ CodeColumns(a, n).account = a
           /\ CodeColumns(a, n).position = n
BY NoneAssumption DEF CodeColumns, CodeRow

-----------------------------------------------------------------------------
(* Tables *)

\* Deleting accounts with what the cascade reaches leaves the rest whole.
LEMMA DeletionKeepsOrder ==
    ASSUME NEW cs \in [Code -> CodeRow \cup {None}], NEW gone, InOrder(cs)
    PROVE  InOrder(Cascaded(cs, gone))
<1> DEFINE new == Cascaded(cs, gone)
<1>1. \A c \in Stored(new) : c \in Stored(cs) /\ new[c] = cs[c]
  BY DEF Cascaded, Stored
<1>2. ASSUME NEW c \in Stored(new), NEW d \in Stored(new), c # d, new[c].account = new[d].account
      PROVE  new[c].position # new[d].position
  BY <1>1, <1>2 DEF InOrder
<1> QED BY <1>2 DEF InOrder

\* One row is written into a table of accounts, factors or codes.
LEMMA AccountWritten ==
    ASSUME NEW as \in [Account -> AccountRow \cup {None}],
           NEW fs \in [Factor -> FactorRow \cup {None}],
           NEW cs \in [Code -> CodeRow \cup {None}],
           Owned(as, fs, cs), NEW a \in Account, NEW row \in AccountRow,
           profiles[row.profile] # None
    PROVE  /\ [as EXCEPT ![a] = row] \in [Account -> AccountRow \cup {None}]
           /\ Owned([as EXCEPT ![a] = row], fs, cs)
<1> DEFINE new == [as EXCEPT ![a] = row]
<1>1. new \in [Account -> AccountRow \cup {None}] /\ new[a] = row /\ row # None
  BY NoneAssumption
<1>2. \A b \in Account \ {a} : new[b] = as[b]
  OBVIOUS
<1>3. \A b \in Stored(new) : profiles[new[b].profile] # None
  BY <1>1, <1>2 DEF Owned, Stored
<1>4. \A b \in Account : as[b] # None => new[b] # None
  BY <1>1, <1>2
<1>5. \A f \in Stored(fs) : new[fs[f].account] # None
  BY <1>4 DEF Owned, Stored, FactorRow
<1>6. \A c \in Stored(cs) : new[cs[c].account] # None
  BY <1>4 DEF Owned, Stored, CodeRow
<1> QED BY <1>1, <1>3, <1>5, <1>6 DEF Owned

LEMMA FactorWritten ==
    ASSUME NEW as, NEW fs \in [Factor -> FactorRow \cup {None}], NEW cs,
           Owned(as, fs, cs), NEW f \in Factor, NEW row \in FactorRow,
           as[row.account] # None
    PROVE  /\ [fs EXCEPT ![f] = row] \in [Factor -> FactorRow \cup {None}]
           /\ Owned(as, [fs EXCEPT ![f] = row], cs)
BY NoneAssumption DEF Owned, Stored

LEMMA CodeWritten ==
    ASSUME NEW as, NEW fs, NEW cs \in [Code -> CodeRow \cup {None}],
           Owned(as, fs, cs), InOrder(cs), NEW c \in Code, NEW row \in CodeRow,
           as[row.account] # None,
           \/ ~ PositionTaken(cs, row.account, row.position)
           \/ /\ cs[c] # None
              /\ cs[c].account = row.account
              /\ cs[c].position = row.position
    PROVE  /\ [cs EXCEPT ![c] = row] \in [Code -> CodeRow \cup {None}]
           /\ Owned(as, fs, [cs EXCEPT ![c] = row])
           /\ InOrder([cs EXCEPT ![c] = row])
<1> DEFINE new == [cs EXCEPT ![c] = row]
<1>1. new \in [Code -> CodeRow \cup {None}] /\ new[c] = row /\ row # None
  BY NoneAssumption
<1>2. \A d \in Code \ {c} : new[d] = cs[d]
  OBVIOUS
<1>3. Owned(as, fs, new)
  BY <1>1, <1>2 DEF Owned, Stored
<1>4. \A d \in Stored(new) \ {c} : d \in Stored(cs) /\ new[d] = cs[d]
  BY <1>1, <1>2 DEF Stored
<1>5. \A d \in Stored(new) \ {c} : new[d].account = row.account => new[d].position # row.position
  BY <1>4 DEF PositionTaken, InOrder, Stored
<1>6. InOrder(new)
  BY <1>1, <1>4, <1>5 DEF InOrder
<1> QED BY <1>1, <1>3, <1>6

-----------------------------------------------------------------------------
(* The invariant *)

LEMMA Initially == Init => IInv
<1> SUFFICES ASSUME Init PROVE IInv
  OBVIOUS
<1>1. TypeOK
  BY DEF Init, TypeOK
<1>2. Whole
  BY DEF Init, Whole, Owned, InOrder, Stored, DirsAreIds, NamesAreUnique
<1>3. TxOK /\ KnownIds /\ CopiesAreCurrent
  BY DEF Init, TxOK, KnownIds, CopiesAreCurrent, Stored
<1> QED BY <1>1, <1>2, <1>3 DEF IInv

\* A row of a profile is written under its id.
LEMMA ProfileWritten ==
    ASSUME IInv, Idle, NEW p \in Profile, NEW row \in ProfileRow,
           row # None, row.dir = p, Checked(row), ~ NameTaken(p, row.name),
           profiles' = [profiles EXCEPT ![p] = row],
           born' \in {born, born \cup {p}},
           UNCHANGED <<accounts, factors, codes, tx, copies, touched>>
    PROVE  IInv'
<1>1. TypeOK'
  BY DEF IInv, TypeOK
<1>2. profiles'[p] = row /\ \A q \in Profile \ {p} : profiles'[q] = profiles[q]
  BY DEF IInv, TypeOK
<1>3. \A q \in Profile : profiles[q] # None => profiles'[q] # None
  BY <1>2
<1>4. Owned(accounts, factors, codes)'
  <2>1. \A a \in Stored(accounts) : profiles'[accounts[a].profile] # None
    BY <1>3 DEF IInv, Whole, Owned, TypeOK, Stored, AccountRow
  <2> QED BY <2>1 DEF IInv, Whole, Owned, Stored
<1>5. DirsAreIds'
  BY <1>2 DEF IInv, Whole, DirsAreIds, Stored, TypeOK
<1>6. NamesAreUnique'
  <2>1. \A q \in Profile : q # p /\ profiles[q] # None => profiles[q].name # row.name
    BY DEF NameTaken, Stored, IInv, TypeOK
  <2> QED BY <1>2, <2>1 DEF IInv, Whole, NamesAreUnique, Stored, TypeOK
<1>7. Whole'
  BY <1>4, <1>5, <1>6 DEF IInv, Whole, InOrder, Stored
<1>8. TxOK'
  BY DEF TxOK, Idle
<1>9. KnownIds' /\ CopiesAreCurrent'
  BY DEF IInv, KnownIds, CopiesAreCurrent, Stored
<1> QED BY <1>1, <1>7, <1>8, <1>9 DEF IInv

\* A row of an account is rewritten: its owner stays, and its password is
\* what every untouched copy says.
LEMMA AccountEdited ==
    ASSUME IInv, Idle, NEW a \in Account, accounts[a] # None,
           NEW s \in Services, NEW w \in BOOLEAN,
           accounts' = [accounts EXCEPT ![a] = AccountUpdated(@, s, w)],
           touched' \in SUBSET Page, touched \subseteq touched',
           \A g \in Page : copies[g] # None /\ copies[g].id = a /\ g \notin touched' =>
              copies[g].password = w,
           UNCHANGED <<profiles, factors, codes, tx, copies, born>>
    PROVE  IInv'
<1> DEFINE row == AccountUpdated(accounts[a], s, w)
<1>1. row \in AccountRow /\ row # None /\ row.profile = accounts[a].profile /\ row.password = w
  <2>1. accounts[a] \in AccountRow /\ accounts[a].profile \in Profile
    BY AccountRowService DEF IInv, TypeOK
  <2> QED BY <2>1, AccountColumnsType DEF AccountUpdated
<1>2. accounts' = [accounts EXCEPT ![a] = row]
  OBVIOUS
<1>3. profiles[row.profile] # None
  BY <1>1 DEF IInv, Whole, Owned, Stored, TypeOK
<1>4. accounts' \in [Account -> AccountRow \cup {None}] /\ Owned(accounts', factors, codes)
  <2> HIDE DEF row
  <2>1. /\ accounts \in [Account -> AccountRow \cup {None}]
        /\ factors \in [Factor -> FactorRow \cup {None}]
        /\ codes \in [Code -> CodeRow \cup {None}]
        /\ Owned(accounts, factors, codes)
    BY DEF IInv, Whole, TypeOK
  <2>2. /\ [accounts EXCEPT ![a] = row] \in [Account -> AccountRow \cup {None}]
        /\ Owned([accounts EXCEPT ![a] = row], factors, codes)
    BY <1>1, <1>3, <2>1, AccountWritten
  <2> QED BY <1>2, <2>2
<1>5. TypeOK'
  BY <1>4 DEF IInv, TypeOK
<1>6. Whole'
  BY <1>4 DEF IInv, Whole, Owned, InOrder, DirsAreIds, NamesAreUnique, Stored
<1>7. TxOK'
  BY DEF TxOK, Idle
<1>8. accounts'[a] = row /\ \A b \in Account \ {a} : accounts'[b] = accounts[b]
  BY <1>2 DEF IInv, TypeOK
<1>9. KnownIds'
  BY <1>8 DEF IInv, KnownIds, Stored, TypeOK
<1>10. CopiesAreCurrent'
  <2> SUFFICES ASSUME NEW g \in Page, copies[g] # None, g \notin touched',
                      accounts'[copies[g].id] # None
               PROVE  accounts'[copies[g].id].password = copies[g].password
    BY DEF CopiesAreCurrent
  <2>1. copies[g].id \in Account /\ g \notin touched
    BY DEF IInv, TypeOK
  <2>2. CASE copies[g].id = a
    BY <2>2, <1>1, <1>8
  <2>3. CASE copies[g].id # a
    BY <2>1, <2>3, <1>8 DEF IInv, CopiesAreCurrent
  <2> QED BY <2>2, <2>3
<1> QED BY <1>5, <1>6, <1>7, <1>9, <1>10 DEF IInv

\* Accounts are deleted with what they contain; `ps` are the profiles left.
LEMMA AccountsDeleted ==
    ASSUME IInv, Idle, NEW ids \in SUBSET Profile, NEW gone \in SUBSET Account,
           \A a \in Stored(accounts) : accounts[a].profile \in ids => a \in gone,
           profiles' = Without(profiles, ids),
           accounts' = Without(accounts, gone),
           factors' = Cascaded(factors, gone),
           codes' = Cascaded(codes, gone),
           UNCHANGED <<tx, copies, born, touched>>
    PROVE  IInv'
<1>1. /\ profiles' \in [Profile -> {row \in ProfileRow : Checked(row)} \cup {None}]
      /\ Stored(profiles') = Stored(profiles) \ ids
      /\ \A p \in Profile \ ids : profiles'[p] = profiles[p]
  BY DEF Without, Stored, IInv, TypeOK
<1>2. /\ accounts' \in [Account -> AccountRow \cup {None}]
      /\ Stored(accounts') = Stored(accounts) \ gone
      /\ \A a \in Account \ gone : accounts'[a] = accounts[a]
  BY DEF Without, Stored, IInv, TypeOK
<1>3. /\ factors' \in [Factor -> FactorRow \cup {None}]
      /\ \A f \in Stored(factors') : /\ f \in Stored(factors)
                                     /\ factors'[f] = factors[f]
                                     /\ factors[f].account \notin gone
  BY DEF Cascaded, Stored, IInv, TypeOK
<1>4. /\ codes' \in [Code -> CodeRow \cup {None}]
      /\ \A c \in Stored(codes') : /\ c \in Stored(codes)
                                   /\ codes'[c] = codes[c]
                                   /\ codes[c].account \notin gone
  BY DEF Cascaded, Stored, IInv, TypeOK
<1>5. TypeOK'
  BY <1>1, <1>2, <1>3, <1>4 DEF IInv, TypeOK
<1>6. Owned(accounts, factors, codes)'
  <2>1. ASSUME NEW a \in Stored(accounts') PROVE profiles'[accounts'[a].profile] # None
    <3>1. a \in Account /\ a \in Stored(accounts) /\ a \notin gone /\ accounts'[a] = accounts[a]
      BY <1>2 DEF Stored
    <3>2. accounts[a].profile \in Profile \ ids /\ profiles[accounts[a].profile] # None
      BY <3>1, AccountRowService DEF IInv, TypeOK, Whole, Owned, Stored
    <3> QED BY <3>1, <3>2, <1>1
  <2>2. ASSUME NEW f \in Stored(factors') PROVE accounts'[factors'[f].account] # None
    <3>1. factors[f].account \in Account \ gone /\ accounts[factors[f].account] # None
      BY <1>3 DEF IInv, TypeOK, Whole, Owned, Stored, FactorRow
    <3> QED BY <3>1, <1>2, <1>3
  <2>3. ASSUME NEW c \in Stored(codes') PROVE accounts'[codes'[c].account] # None
    <3>1. codes[c].account \in Account \ gone /\ accounts[codes[c].account] # None
      BY <1>4 DEF IInv, TypeOK, Whole, Owned, Stored, CodeRow
    <3> QED BY <3>1, <1>2, <1>4
  <2> QED BY <2>1, <2>2, <2>3 DEF Owned
<1>7. InOrder(codes)'
  BY DeletionKeepsOrder DEF IInv, TypeOK, Whole
<1>8. DirsAreIds' /\ NamesAreUnique'
  BY <1>1 DEF IInv, Whole, DirsAreIds, NamesAreUnique, Stored, TypeOK
<1>9. TxOK'
  BY DEF TxOK, Idle
<1>10. KnownIds'
  BY <1>2 DEF IInv, KnownIds
<1>11. CopiesAreCurrent'
  <2> SUFFICES ASSUME NEW g \in Page, copies[g] # None, g \notin touched,
                      accounts'[copies[g].id] # None
               PROVE  accounts'[copies[g].id].password = copies[g].password
    BY DEF CopiesAreCurrent
  <2>1. copies[g].id \in Account
    BY DEF IInv, TypeOK
  <2>2. copies[g].id \in Stored(accounts) \ gone
    BY <2>1, <1>2 DEF Stored
  <2> QED BY <2>1, <2>2, <1>2 DEF IInv, CopiesAreCurrent, Stored
<1> QED BY <1>5, <1>6, <1>7, <1>8, <1>9, <1>10, <1>11 DEF IInv, Whole

\* A row of a factor or of a recovery code is written or deleted.
LEMMA PiecesChanged ==
    ASSUME IInv, Idle,
           factors' \in [Factor -> FactorRow \cup {None}],
           codes' \in [Code -> CodeRow \cup {None}],
           Owned(accounts, factors', codes'), InOrder(codes'),
           NEW ids \in SUBSET (Factor \cup Code), born' = born \cup ids,
           UNCHANGED <<profiles, accounts, tx, copies, touched>>
    PROVE  IInv'
<1>1. TypeOK'
  BY DEF IInv, TypeOK
<1>2. Whole'
  BY DEF IInv, Whole, Owned, DirsAreIds, NamesAreUnique, Stored
<1>3. TxOK'
  BY DEF TxOK, Idle
<1>4. KnownIds' /\ CopiesAreCurrent'
  BY DEF IInv, KnownIds, CopiesAreCurrent, Stored
<1> QED BY <1>1, <1>2, <1>3, <1>4 DEF IInv

\* The tables of an open transaction change, and nothing else.
LEMMA TxChanged ==
    ASSUME IInv, TxOK', UNCHANGED <<tables, copies, born, touched>>
    PROVE  IInv'
<1>1. TypeOK' /\ Whole'
  BY DEF IInv, TypeOK, Whole, Owned, InOrder, DirsAreIds, NamesAreUnique, Stored, tables
<1>2. KnownIds' /\ CopiesAreCurrent'
  BY DEF IInv, KnownIds, CopiesAreCurrent, Stored, tables
<1> QED BY <1>1, <1>2 DEF IInv

LEMMA Typed ==
    ASSUME IInv
    PROVE  /\ accounts \in [Account -> AccountRow \cup {None}]
           /\ factors \in [Factor -> FactorRow \cup {None}]
           /\ codes \in [Code -> CodeRow \cup {None}]
           /\ Owned(accounts, factors, codes)
           /\ InOrder(codes)
BY DEF IInv, TypeOK, Whole

LEMMA FactorStored ==
    ASSUME IInv, Idle, NEW f \in Factor, NEW row \in FactorRow,
           accounts[row.account] # None,
           factors' = [factors EXCEPT ![f] = row],
           born' \in {born, born \cup {f}},
           UNCHANGED <<profiles, accounts, codes, tx, copies, touched>>
    PROVE  IInv'
<1>1. /\ [factors EXCEPT ![f] = row] \in [Factor -> FactorRow \cup {None}]
      /\ Owned(accounts, [factors EXCEPT ![f] = row], codes)
  BY Typed, FactorWritten
<1>2. PICK ids \in SUBSET {f} : born' = born \cup ids
  <2>1. born' = born \cup {} \/ born' = born \cup {f}
    OBVIOUS
  <2> QED BY <2>1
<1>3. codes' = codes /\ ids \in SUBSET (Factor \cup Code)
  OBVIOUS
<1> QED BY <1>1, <1>2, <1>3, Typed, PiecesChanged

LEMMA CodeStored ==
    ASSUME IInv, Idle, NEW c \in Code, NEW row \in CodeRow,
           accounts[row.account] # None,
           \/ ~ PositionTaken(codes, row.account, row.position)
           \/ /\ codes[c] # None
              /\ codes[c].account = row.account
              /\ codes[c].position = row.position,
           codes' = [codes EXCEPT ![c] = row],
           born' \in {born, born \cup {c}},
           UNCHANGED <<profiles, accounts, factors, tx, copies, touched>>
    PROVE  IInv'
<1>1. /\ [codes EXCEPT ![c] = row] \in [Code -> CodeRow \cup {None}]
      /\ Owned(accounts, factors, [codes EXCEPT ![c] = row])
      /\ InOrder([codes EXCEPT ![c] = row])
  BY Typed, CodeWritten
<1>2. PICK ids \in SUBSET {c} : born' = born \cup ids
  <2>1. born' = born \cup {} \/ born' = born \cup {c}
    OBVIOUS
  <2> QED BY <2>1
<1>3. factors' = factors /\ ids \in SUBSET (Factor \cup Code)
  OBVIOUS
<1> QED BY <1>1, <1>2, <1>3, Typed, PiecesChanged

LEMMA CreateProfileKeeps ==
    ASSUME IInv, NEW p \in Profile, CreateProfile(p) PROVE IInv'
<1>1. PICK n \in Name, v \in Selections :
         LET row == ProfileColumns(n, v, p)
         IN /\ ~ NameTaken(p, n)
            /\ Checked(row)
            /\ profiles' = [profiles EXCEPT ![p] = row]
  BY DEF CreateProfile
<1> DEFINE row == ProfileColumns(n, v, p)
<1>2. row \in ProfileRow /\ row # None /\ row.name = n /\ row.dir = p
  BY ProfileColumnsType
<1>3. ~ NameTaken(p, row.name) /\ Checked(row) /\ profiles' = [profiles EXCEPT ![p] = row]
  BY <1>1, <1>2
<1> HIDE DEF row
<1> QED BY <1>2, <1>3, ProfileWritten DEF CreateProfile

LEMMA UpdateProfileKeeps ==
    ASSUME IInv, NEW p \in Profile, UpdateProfile(p) PROVE IInv'
<1>1. PICK n \in Name, v \in Selections :
         LET row == ProfileUpdated(profiles[p], n, v)
         IN /\ ~ NameTaken(p, n)
            /\ Checked(row)
            /\ profiles' = [profiles EXCEPT ![p] = row]
  BY DEF UpdateProfile
<1>2. profiles[p].dir = p
  BY DEF UpdateProfile, IInv, Whole, DirsAreIds, Stored, TypeOK
<1> DEFINE row == ProfileColumns(n, v, p)
<1>3. row \in ProfileRow /\ row # None /\ row.name = n /\ row.dir = p
  BY ProfileColumnsType
<1>4. ~ NameTaken(p, row.name) /\ Checked(row) /\ profiles' = [profiles EXCEPT ![p] = row]
  BY <1>1, <1>2, <1>3 DEF ProfileUpdated
<1> HIDE DEF row
<1> QED BY <1>3, <1>4, ProfileWritten DEF UpdateProfile

LEMMA DeleteProfileKeeps ==
    ASSUME IInv, NEW p \in Profile, DeleteProfile(p) PROVE IInv'
<1> DEFINE gone == ListAccounts(p)
<1>1. /\ gone \in SUBSET Account
      /\ \A a \in Stored(accounts) : accounts[a].profile \in {p} => a \in gone
  BY DEF ListAccounts, Stored, IInv, TypeOK
<1>2. /\ profiles' = Without(profiles, {p}) /\ accounts' = Without(accounts, gone)
      /\ factors' = Cascaded(factors, gone) /\ codes' = Cascaded(codes, gone)
      /\ UNCHANGED <<tx, copies, born, touched>> /\ Idle
  BY DEF DeleteProfile
<1> HIDE DEF gone
<1> QED BY <1>1, <1>2, AccountsDeleted

LEMMA DeleteAccountKeeps ==
    ASSUME IInv, NEW a \in Account, DeleteAccount(a) PROVE IInv'
<1>1. profiles' = Without(profiles, {})
  BY DEF DeleteAccount, Without, IInv, TypeOK
<1>2. /\ accounts' = Without(accounts, {a})
      /\ factors' = Cascaded(factors, {a}) /\ codes' = Cascaded(codes, {a})
      /\ UNCHANGED <<tx, copies, born, touched>> /\ Idle
  BY DEF DeleteAccount
<1> QED BY <1>1, <1>2, AccountsDeleted

LEMMA ChangePasswordKeeps ==
    ASSUME IInv, NEW a \in Account, NEW w \in BOOLEAN, ChangePassword(a, w) PROVE IInv'
<1>1. GetAccount(a).service \in Services
  <2>1. accounts[a] \in AccountRow
    BY DEF ChangePassword, IInv, TypeOK
  <2> QED BY <2>1, AccountRowService DEF GetAccount, AccountOf, ChangePassword
<1>2. /\ touched' \in SUBSET Page /\ touched \subseteq touched'
      /\ \A g \in Page : copies[g] # None /\ copies[g].id = a => g \in touched'
  BY DEF ChangePassword, Showing, IInv, TypeOK
<1>3. /\ Idle /\ accounts[a] # None
      /\ accounts' = [accounts EXCEPT ![a] = AccountUpdated(@, GetAccount(a).service, w)]
      /\ UNCHANGED <<profiles, factors, codes, tx, copies, born>>
  BY DEF ChangePassword
<1> QED BY <1>1, <1>2, <1>3, AccountEdited

LEMMA UpdateAccountKeeps ==
    ASSUME IInv, NEW g \in Page, UpdateAccount(g) PROVE IInv'
<1> DEFINE a == copies[g].id
           w == copies[g].password
<1>1. a \in Account /\ w \in BOOLEAN
  BY DEF UpdateAccount, IInv, TypeOK
<1>2. PICK s \in Services : accounts' = [accounts EXCEPT ![a] = AccountUpdated(@, s, w)]
  BY DEF UpdateAccount
<1>3. touched' \in SUBSET Page /\ touched \subseteq touched'
  BY DEF UpdateAccount, Showing, IInv, TypeOK
<1>4. ASSUME NEW h \in Page, copies[h] # None, copies[h].id = a, h \notin touched'
      PROVE  copies[h].password = w
  <2>1. h \in Showing(a) /\ accounts[a] # None
    BY <1>4 DEF Showing, UpdateAccount
  <2>2. accounts[a].password = w /\ h \notin touched
    BY <1>4, <2>1 DEF UpdateAccount
  <2> QED BY <1>4, <2>1, <2>2 DEF IInv, CopiesAreCurrent
<1>5. Idle /\ accounts[a] # None /\ UNCHANGED <<profiles, factors, codes, tx, copies, born>>
  BY DEF UpdateAccount
<1> HIDE DEF a, w
<1> QED BY <1>1, <1>2, <1>3, <1>4, <1>5, AccountEdited

LEMMA ReadAccountKeeps ==
    ASSUME IInv, NEW g \in Page, NEW a \in Account, ReadAccount(g, a) PROVE IInv'
<1>1. CASE accounts[a] = None
  <2>1. copies' = [copies EXCEPT ![g] = None] /\ touched' = touched \ {g}
    BY <1>1 DEF ReadAccount
  <2>2. TypeOK'
    BY <2>1 DEF ReadAccount, tables, IInv, TypeOK
  <2>3. KnownIds' /\ CopiesAreCurrent'
    BY <2>1 DEF ReadAccount, tables, IInv, TypeOK, KnownIds, CopiesAreCurrent, Stored
  <2>4. Whole' /\ TxOK'
    BY DEF ReadAccount, tables, IInv, Whole, Owned, InOrder, DirsAreIds, NamesAreUnique,
           Stored, TxOK, Idle
  <2> QED BY <2>2, <2>3, <2>4 DEF IInv
<1>2. CASE accounts[a] # None
  <2> DEFINE copy == [id |-> a, password |-> accounts[a].password]
  <2>1. accounts[a].password \in BOOLEAN /\ a \in born
    <3>1. accounts[a] \in AccountRow
      BY <1>2 DEF IInv, TypeOK
    <3>2. a \in Stored(accounts)
      BY <1>2 DEF IInv, TypeOK, Stored
    <3> QED BY <3>1, <3>2, AccountRowService DEF IInv, KnownIds
  <2>2. copies' = [copies EXCEPT ![g] = copy] /\ touched' = touched \ {g}
    BY <1>2 DEF ReadAccount, GetAccount, AccountOf
  <2>3. /\ copies'[g] = copy /\ copy.id = a /\ copy.password = accounts[a].password
        /\ \A h \in Page \ {g} : copies'[h] = copies[h]
    BY <2>2 DEF IInv, TypeOK
  <2>4. TypeOK'
    BY <2>1, <2>2 DEF ReadAccount, tables, IInv, TypeOK
  <2>5. KnownIds'
    BY <2>1, <2>3 DEF ReadAccount, tables, IInv, KnownIds, Stored
  <2>6. CopiesAreCurrent'
    BY <2>2, <2>3 DEF ReadAccount, tables, IInv, CopiesAreCurrent
  <2>7. Whole' /\ TxOK'
    BY DEF ReadAccount, tables, IInv, Whole, Owned, InOrder, DirsAreIds, NamesAreUnique,
           Stored, TxOK, Idle
  <2> QED BY <2>4, <2>5, <2>6, <2>7 DEF IInv
<1> QED BY <1>1, <1>2

-----------------------------------------------------------------------------
(* The transaction *)

LEMMA WorkingType ==
    ASSUME NEW a \in Account, NEW p \in Profile,
           NEW as \in [Account -> AccountRow \cup {None}],
           NEW fs \in [Factor -> FactorRow \cup {None}],
           NEW cs \in [Code -> CodeRow \cup {None}],
           NEW tf \in SUBSET Factor, NEW tc \in SUBSET Code,
           NEW ids \in SUBSET (Account \cup Factor \cup Code)
    PROVE  LET w == Working(a, p, as, fs, cs, tf, tc, ids)
           IN /\ w \in TxRecord /\ w # NoTx
              /\ w.account = a /\ w.profile = p /\ w.accounts = as /\ w.factors = fs
              /\ w.codes = cs /\ w.todoFactors = tf /\ w.todoCodes = tc /\ w.written = ids
<1> DEFINE w == Working(a, p, as, fs, cs, tf, tc, ids)
<1>1. w.active = TRUE /\ NoTx.active = FALSE
  BY DEF Working, NoTx
<1>2. w \in TxRecord
  BY DEF Working, TxRecord
<1> QED BY <1>1, <1>2 DEF Working

LEMMA BeginAccountKeeps ==
    ASSUME IInv, NEW a \in Account, NEW p \in Profile, BeginAccount(a, p) PROVE IInv'
<1>1. PICK fs \in SUBSET Factor, cs \in SUBSET Code :
         tx' = Working(a, p, accounts, factors, codes, fs, cs, {})
  BY DEF BeginAccount
<1>2. {} \in SUBSET (Account \cup Factor \cup Code)
  OBVIOUS
<1>3. /\ tx' \in TxRecord /\ tx'.account = a /\ tx'.profile = p /\ tx'.written = {}
      /\ tx'.accounts = accounts /\ tx'.factors = factors /\ tx'.codes = codes
  BY <1>1, <1>2, Typed, WorkingType
<1>4. UNCHANGED <<tables, copies, born, touched>> /\ a \notin born /\ profiles[p] # None
  BY DEF BeginAccount, ProfileExists
<1>5. TxOK'
  BY <1>3, <1>4, Typed DEF TxOK, tables, Owned
<1> QED BY <1>4, <1>5, TxChanged

LEMMA RollbackKeeps ==
    ASSUME IInv, Rollback PROVE IInv'
<1>1. TxOK' /\ UNCHANGED <<tables, copies, born, touched>>
  BY DEF Rollback, TxOK
<1> QED BY <1>1, TxChanged

\* A row is written in the view of the transaction.
LEMMA WroteKeeps ==
    ASSUME IInv, ~ Idle,
           NEW as \in [Account -> AccountRow \cup {None}],
           NEW fs \in [Factor -> FactorRow \cup {None}],
           NEW cs \in [Code -> CodeRow \cup {None}],
           NEW ids \in SUBSET (Account \cup Factor \cup Code),
           Wrote(as, fs, cs, ids),
           as[tx.account] # None,
           \A a \in Account \ {tx.account} : as[a] = accounts[a],
           Owned(as, fs, cs), InOrder(cs)
    PROVE  IInv'
<1>1. /\ tx.account \in Account /\ tx.profile \in Profile
      /\ tx.todoFactors \ ids \in SUBSET Factor /\ tx.todoCodes \ ids \in SUBSET Code
      /\ tx.written \cup ids \in SUBSET (Account \cup Factor \cup Code)
      /\ tx.account \notin born /\ profiles[tx.profile] # None
  BY DEF IInv, TxOK, TxRecord, Idle
<1>2. /\ tx' = Working(tx.account, tx.profile, as, fs, cs,
                       tx.todoFactors \ ids, tx.todoCodes \ ids, tx.written \cup ids)
      /\ UNCHANGED <<tables, copies, born, touched>>
  BY DEF Wrote
<1>3. /\ tx' \in TxRecord /\ tx'.account = tx.account /\ tx'.profile = tx.profile
      /\ tx'.accounts = as /\ tx'.factors = fs /\ tx'.codes = cs
  <2>1. PICK a \in Account, p \in Profile, tf \in SUBSET Factor, tc \in SUBSET Code,
             all \in SUBSET (Account \cup Factor \cup Code) :
          /\ a = tx.account /\ p = tx.profile
          /\ tx' = Working(a, p, as, fs, cs, tf, tc, all)
    BY <1>1, <1>2
  <2> DEFINE w == Working(a, p, as, fs, cs, tf, tc, all)
  <2>2. /\ w \in TxRecord /\ w.account = a /\ w.profile = p
        /\ w.accounts = as /\ w.factors = fs /\ w.codes = cs
    BY DEF Working, TxRecord
  <2>3. tx' = w
    BY <2>1
  <2> HIDE DEF w
  <2> QED BY <2>1, <2>2, <2>3
<1>4. Owned(as, fs, cs)'
  BY <1>2 DEF Owned, tables, Stored
<1>5. TxOK'
  BY <1>1, <1>2, <1>3, <1>4 DEF TxOK, tables, Owned
<1> QED BY <1>2, <1>5, TxChanged

LEMMA TxTyped ==
    ASSUME IInv, ~ Idle
    PROVE  /\ tx.account \in Account /\ tx.profile \in Profile
           /\ profiles[tx.profile] # None /\ tx.account \notin born
           /\ tx.accounts \in [Account -> AccountRow \cup {None}]
           /\ tx.factors \in [Factor -> FactorRow \cup {None}]
           /\ tx.codes \in [Code -> CodeRow \cup {None}]
           /\ tx.todoFactors \subseteq Factor /\ tx.todoCodes \subseteq Code
           /\ tx.written \subseteq Account \cup Factor \cup Code
           /\ Owned(tx.accounts, tx.factors, tx.codes) /\ InOrder(tx.codes)
           /\ tx.account \in tx.written => tx.accounts[tx.account] # None
           /\ \A a \in Account \ {tx.account} : tx.accounts[a] = accounts[a]
BY DEF IInv, TxOK, TxRecord, Idle

LEMMA WriteAccountKeeps ==
    ASSUME IInv, WriteAccount PROVE IInv'
<1>1. PICK s \in Services :
         Wrote([tx.accounts EXCEPT ![tx.account] = AccountColumns(tx.profile, s, FALSE)],
               tx.factors, tx.codes, {tx.account})
  BY DEF WriteAccount
<1> DEFINE row == AccountColumns(tx.profile, s, FALSE)
           as == [tx.accounts EXCEPT ![tx.account] = row]
<1>2. ~ Idle
  BY DEF WriteAccount
<1>3. row \in AccountRow /\ row # None /\ row.profile = tx.profile
  BY <1>2, TxTyped, AccountColumnsType
<1> HIDE DEF row
<1>4. as \in [Account -> AccountRow \cup {None}] /\ Owned(as, tx.factors, tx.codes)
  BY <1>2, <1>3, TxTyped, AccountWritten
<1>5. as[tx.account] # None /\ \A a \in Account \ {tx.account} : as[a] = accounts[a]
  BY <1>2, <1>3, TxTyped
<1>6. Wrote(as, tx.factors, tx.codes, {tx.account})
  BY <1>1 DEF row
<1>7. {tx.account} \in SUBSET (Account \cup Factor \cup Code)
  BY <1>2, TxTyped
<1> HIDE DEF as
<1> QED BY <1>2, <1>4, <1>5, <1>6, <1>7, TxTyped, WroteKeeps

LEMMA WriteFactorKeeps ==
    ASSUME IInv, WriteFactor PROVE IInv'
<1>0. PICK f \in tx.todoFactors, k \in Kind, n \in Note : \E c \in Counters(k) :
         LET row == FactorColumns(tx.account, k, n, c)
         IN IF row = None THEN Rollback
            ELSE Wrote(tx.accounts, [tx.factors EXCEPT ![f] = row], tx.codes, {f})
  BY DEF WriteFactor
<1>1. PICK c \in Counters(k) :
         LET row == FactorColumns(tx.account, k, n, c)
         IN IF row = None THEN Rollback
            ELSE Wrote(tx.accounts, [tx.factors EXCEPT ![f] = row], tx.codes, {f})
  BY <1>0
<1> DEFINE row == FactorColumns(tx.account, k, n, c)
           fs == [tx.factors EXCEPT ![f] = row]
<1>2. ~ Idle /\ tx.account \in tx.written
  BY DEF WriteFactor
<1>3. CASE row = None
  BY <1>1, <1>3, RollbackKeeps
<1>4. CASE row # None
  <2>1. row \in FactorRow /\ row.account = tx.account
    BY <1>2, <1>4, TxTyped, FactorColumnsType
  <2>2. Wrote(tx.accounts, fs, tx.codes, {f})
    BY <1>1, <1>4
  <2> HIDE DEF row
  <2>3. f \in Factor /\ tx.accounts[row.account] # None
    BY <1>2, <2>1, TxTyped
  <2>4. /\ fs \in [Factor -> FactorRow \cup {None}]
        /\ Owned(tx.accounts, fs, tx.codes)
    BY <1>2, <2>1, <2>3, TxTyped, FactorWritten
  <2>5. {f} \in SUBSET (Account \cup Factor \cup Code)
    BY <2>3
  <2> HIDE DEF fs
  <2> QED BY <1>2, <2>2, <2>4, <2>5, TxTyped, WroteKeeps
<1> QED BY <1>3, <1>4

LEMMA WriteCodeKeeps ==
    ASSUME IInv, WriteCode PROVE IInv'
<1>1. PICK c \in tx.todoCodes, n \in Position :
         IF PositionTaken(tx.codes, tx.account, n) THEN Rollback
         ELSE Wrote(tx.accounts, tx.factors,
                    [tx.codes EXCEPT ![c] = CodeColumns(tx.account, n)], {c})
  BY DEF WriteCode
<1> DEFINE row == CodeColumns(tx.account, n)
           cs == [tx.codes EXCEPT ![c] = row]
<1>2. ~ Idle /\ tx.account \in tx.written
  BY DEF WriteCode
<1>3. CASE PositionTaken(tx.codes, tx.account, n)
  BY <1>1, <1>3, RollbackKeeps
<1>4. CASE ~ PositionTaken(tx.codes, tx.account, n)
  <2>1. row \in CodeRow /\ row.account = tx.account /\ row.position = n
    BY <1>2, TxTyped, CodeColumnsType
  <2>2. Wrote(tx.accounts, tx.factors, cs, {c})
    BY <1>1, <1>4
  <2> HIDE DEF row
  <2>3. c \in Code /\ tx.accounts[row.account] # None
    BY <1>2, <2>1, TxTyped
  <2>4. ~ PositionTaken(tx.codes, row.account, row.position)
    BY <1>4, <2>1
  <2>5. /\ cs \in [Code -> CodeRow \cup {None}]
        /\ Owned(tx.accounts, tx.factors, cs)
        /\ InOrder(cs)
    BY <1>2, <2>1, <2>3, <2>4, TxTyped, CodeWritten
  <2>6. {c} \in SUBSET (Account \cup Factor \cup Code)
    BY <2>3
  <2> HIDE DEF cs
  <2> QED BY <1>2, <2>2, <2>5, <2>6, TxTyped, WroteKeeps
<1> QED BY <1>3, <1>4

LEMMA CommitKeeps ==
    ASSUME IInv, Commit PROVE IInv'
<1>1. ~ Idle /\ tx.account \in tx.written
  BY DEF Commit
<1>2. /\ accounts' = tx.accounts /\ factors' = tx.factors /\ codes' = tx.codes
      /\ born' = born \cup tx.written /\ tx' = NoTx
      /\ UNCHANGED <<profiles, copies, touched>>
  BY DEF Commit
<1>3. TypeOK'
  BY <1>1, <1>2, TxTyped DEF IInv, TypeOK
<1>4. Owned(accounts, factors, codes)'
  BY <1>1, <1>2, TxTyped DEF Owned, Stored
<1>5. InOrder(codes)' /\ DirsAreIds' /\ NamesAreUnique'
  BY <1>1, <1>2, TxTyped DEF IInv, Whole, InOrder, DirsAreIds, NamesAreUnique, Stored
<1>6. TxOK'
  BY <1>2 DEF TxOK
<1>7. KnownIds'
  <2>1. \A a \in Account : accounts'[a] # None => a \in born'
    BY <1>1, <1>2, TxTyped DEF IInv, KnownIds, Stored, TypeOK
  <2> QED BY <1>2, <1>3, <2>1 DEF KnownIds, Stored, TypeOK, IInv
<1>8. CopiesAreCurrent'
  <2> SUFFICES ASSUME NEW g \in Page, copies[g] # None, g \notin touched,
                      accounts'[copies[g].id] # None
               PROVE  accounts'[copies[g].id].password = copies[g].password
    BY <1>2 DEF CopiesAreCurrent
  <2>1. copies[g].id \in Account /\ copies[g].id \in born
    BY DEF IInv, TypeOK, KnownIds
  <2>2. copies[g].id # tx.account
    BY <1>1, <2>1, TxTyped
  <2> QED BY <1>1, <1>2, <2>1, <2>2, TxTyped DEF IInv, CopiesAreCurrent
<1> QED BY <1>3, <1>4, <1>5, <1>6, <1>7, <1>8 DEF IInv, Whole

-----------------------------------------------------------------------------
(* The theorems *)

LEMMA Inductive == IInv /\ [Next]_vars => IInv'
<1> SUFFICES ASSUME IInv, [Next]_vars PROVE IInv'
  OBVIOUS
<1>1. CASE UNCHANGED vars
  BY <1>1 DEF vars, IInv, TypeOK, Whole, Owned, InOrder, DirsAreIds, NamesAreUnique, TxOK,
              KnownIds, CopiesAreCurrent, Stored
<1>2. ASSUME NEW p \in Profile, CreateProfile(p) \/ UpdateProfile(p) \/ DeleteProfile(p)
      PROVE  IInv'
  BY <1>2, CreateProfileKeeps, UpdateProfileKeeps, DeleteProfileKeeps
<1>3. ASSUME NEW a \in Account, NEW p \in Profile, BeginAccount(a, p) PROVE IInv'
  BY <1>3, BeginAccountKeeps
<1>4. CASE WriteAccount \/ WriteFactor \/ WriteCode \/ Commit \/ Rollback
  BY <1>4, WriteAccountKeeps, WriteFactorKeeps, WriteCodeKeeps, CommitKeeps, RollbackKeeps
<1>5. ASSUME NEW a \in Account, SetPassword(a) \/ DeletePassword(a) \/ DeleteAccount(a)
      PROVE  IInv'
  BY <1>5, ChangePasswordKeeps, DeleteAccountKeeps DEF SetPassword, DeletePassword
<1>6. ASSUME NEW g \in Page, UpdateAccount(g) PROVE IInv'
  BY <1>6, UpdateAccountKeeps
<1>7. ASSUME NEW g \in Page, NEW a \in Account, ReadAccount(g, a) PROVE IInv'
  BY <1>7, ReadAccountKeeps
<1>8. ASSUME NEW f \in Factor, UpdateFactor(f) \/ SetHotpCounter(f) PROVE IInv'
  <2>1. factors[f] # None /\ factors[f] \in FactorRow /\ factors[f].account \in Account
    BY <1>8 DEF UpdateFactor, SetHotpCounter, IInv, TypeOK, FactorRow
  <2>2. accounts[factors[f].account] # None
    BY <2>1, Typed DEF Owned, Stored
  <2>3. CASE UpdateFactor(f)
    <3>1. PICK n \in Note : factors' = [factors EXCEPT ![f] = FactorUpdated(@, n)]
      BY <2>3 DEF UpdateFactor
    <3> DEFINE row == [account |-> factors[f].account, kind |-> factors[f].kind, note |-> n,
                       counter |-> factors[f].counter]
    <3>2. FactorUpdated(factors[f], n) = row /\ row \in FactorRow
      BY <2>1 DEF FactorUpdated, FactorRow
    <3>3. factors' = [factors EXCEPT ![f] = row] /\ row.account = factors[f].account
      BY <3>1, <3>2
    <3> HIDE DEF row
    <3> QED BY <2>2, <2>3, <3>2, <3>3, FactorStored DEF UpdateFactor
  <2>4. CASE SetHotpCounter(f)
    <3>1. PICK n \in U64 : Fits(n) /\ factors' = [factors EXCEPT ![f].counter = n]
      BY <2>4 DEF SetHotpCounter
    <3> DEFINE row == [account |-> factors[f].account, kind |-> factors[f].kind,
                       note |-> factors[f].note, counter |-> n]
    <3>2. n \in I64 \cup {None}
      BY <3>1, RoundTrip
    <3>3. [factors[f] EXCEPT !.counter = n] = row /\ row \in FactorRow
      BY <2>1, <3>2 DEF FactorRow
    <3>4. factors' = [factors EXCEPT ![f] = row] /\ row.account = factors[f].account
      BY <3>1, <3>3
    <3> HIDE DEF row
    <3> QED BY <2>2, <2>4, <3>3, <3>4, FactorStored DEF SetHotpCounter
  <2> QED BY <1>8, <2>3, <2>4
<1>9. ASSUME NEW f \in Factor, DeleteFactor(f) PROVE IInv'
  <2>1. factors' = Without(factors, {f})
    BY <1>9 DEF DeleteFactor
  <2>2. factors' \in [Factor -> FactorRow \cup {None}] /\ Owned(accounts, factors', codes)
    BY <2>1, Typed DEF Without, Owned, Stored
  <2>3. codes' = codes /\ born' = born \cup {} /\ {} \in SUBSET (Factor \cup Code)
    BY <1>9 DEF DeleteFactor
  <2> QED BY <1>9, <2>2, <2>3, Typed, PiecesChanged DEF DeleteFactor
<1>10. ASSUME NEW c \in Code, MarkRecoveryCodeUsed(c) PROVE IInv'
  <2>1. codes[c] # None /\ codes[c] \in CodeRow /\ codes[c].account \in Account
    BY <1>10 DEF MarkRecoveryCodeUsed, IInv, TypeOK, CodeRow
  <2>2. accounts[codes[c].account] # None
    BY <2>1, Typed DEF Owned, Stored
  <2>3. PICK at \in Time : codes' = [codes EXCEPT ![c] = CodeMarked(@, at)]
    BY <1>10 DEF MarkRecoveryCodeUsed
  <2> DEFINE row == CodeMarked(codes[c], at)
  <2>4. row \in CodeRow /\ row.account = codes[c].account /\ row.position = codes[c].position
    BY <2>1 DEF CodeRow, CodeMarked
  <2>6. codes' = [codes EXCEPT ![c] = row]
    BY <2>3
  <2> HIDE DEF row
  <2> QED BY <1>10, <2>1, <2>2, <2>4, <2>6, CodeStored DEF MarkRecoveryCodeUsed
<1>11. ASSUME NEW c \in Code, DeleteRecoveryCode(c) PROVE IInv'
  <2>1. codes' = Without(codes, {c})
    BY <1>11 DEF DeleteRecoveryCode
  <2>2. codes' \in [Code -> CodeRow \cup {None}] /\ Owned(accounts, factors, codes')
    BY <2>1, Typed DEF Without, Owned, Stored
  <2>3. \A d \in Stored(codes') : d \in Stored(codes) /\ codes'[d] = codes[d]
    BY <2>1 DEF Without, Stored
  <2>4. InOrder(codes')
    BY <2>3, Typed DEF InOrder
  <2>5. factors' = factors /\ born' = born \cup {} /\ {} \in SUBSET (Factor \cup Code)
    BY <1>11 DEF DeleteRecoveryCode
  <2> QED BY <1>11, <2>2, <2>4, <2>5, Typed, PiecesChanged DEF DeleteRecoveryCode
<1>12. ASSUME NEW a \in Account, NEW f \in Factor, AddFactor(f, a) PROVE IInv'
  <2>1. PICK k \in Kind, n \in Note : \E c \in Counters(k) :
           /\ FactorColumns(a, k, n, c) # None
           /\ factors' = [factors EXCEPT ![f] = FactorColumns(a, k, n, c)]
    BY <1>12 DEF AddFactor
  <2>2. PICK c \in Counters(k) :
           /\ FactorColumns(a, k, n, c) # None
           /\ factors' = [factors EXCEPT ![f] = FactorColumns(a, k, n, c)]
    BY <2>1
  <2> DEFINE row == FactorColumns(a, k, n, c)
  <2>3. row \in FactorRow /\ row.account = a
    BY <2>2, FactorColumnsType
  <2>4. factors' = [factors EXCEPT ![f] = row]
    BY <2>2
  <2> HIDE DEF row
  <2> QED BY <1>12, <2>3, <2>4, FactorStored DEF AddFactor, AccountExists
<1>13. ASSUME NEW a \in Account, NEW c \in Code, AddRecoveryCode(c, a) PROVE IInv'
  <2>1. PICK n \in Position : /\ ~ PositionTaken(codes, a, n)
                              /\ codes' = [codes EXCEPT ![c] = CodeColumns(a, n)]
    BY <1>13 DEF AddRecoveryCode
  <2> DEFINE row == CodeColumns(a, n)
  <2>2. row \in CodeRow /\ row.account = a /\ row.position = n
    BY CodeColumnsType
  <2>3. codes' = [codes EXCEPT ![c] = row]
    BY <2>1
  <2> HIDE DEF row
  <2> QED BY <1>13, <2>1, <2>2, <2>3, CodeStored DEF AddRecoveryCode, AccountExists
<1>14. CASE Stop
  <2>1. TxOK' /\ TypeOK' /\ KnownIds' /\ CopiesAreCurrent'
    BY <1>14 DEF Stop, tables, IInv, TxOK, TypeOK, KnownIds, CopiesAreCurrent, Stored
  <2>2. Whole'
    BY <1>14 DEF Stop, tables, IInv, Whole, Owned, InOrder, DirsAreIds, NamesAreUnique, Stored
  <2> QED BY <2>1, <2>2 DEF IInv
<1> QED BY <1>1, <1>2, <1>3, <1>4, <1>5, <1>6, <1>7, <1>8, <1>9, <1>10, <1>11, <1>12, <1>13,
           <1>14 DEF Next

THEOREM Invariance == Spec => []IInv
BY Initially, Inductive, PTL DEF Spec

\* The tables hold rows of their types, whatever is written, edited and read
\* back: checks, labels and counters included.
THEOREM TypeCorrect == Spec => []TypeOK
<1>1. IInv => TypeOK
  BY DEF IInv
<1> QED BY <1>1, Invariance, PTL

\* No orphan rows, no shared name, directory or position: across cascades,
\* rollbacks and stops, for any number of profiles and accounts.
THEOREM Wholeness == Spec => []StoreIsWhole
<1>1. IInv => StoreIsWhole
  <2> SUFFICES ASSUME IInv PROVE StoreIsWhole
    OBVIOUS
  <2>1. \A p, q \in Stored(profiles) : p # q => profiles[p].dir # profiles[q].dir
    BY DEF IInv, Whole, DirsAreIds
  <2> QED BY <2>1 DEF IInv, Whole, StoreIsWhole, NamesAreUnique, InOrder
<1> QED BY <1>1, Invariance, PTL

\* An edit from an untouched copy leaves every password reference alone, for
\* any number of pages editing the same account.
THEOREM PasswordsKept == Spec => EditsKeepPasswords
<1>1. ASSUME IInv, NEW g \in Page PROVE EditKeepsPassword(g)
  <2> SUFFICES ASSUME UpdateAccount(g), g \notin touched, NEW a \in Stored(accounts)
               PROVE  accounts'[a].password = accounts[a].password
    BY DEF EditKeepsPassword
  <2> DEFINE b == copies[g].id
             w == copies[g].password
  <2>1. b \in Account /\ w \in BOOLEAN /\ a \in Account /\ accounts[b] # None
    BY <1>1 DEF UpdateAccount, IInv, TypeOK, Stored
  <2>2. PICK s \in Services : accounts' = [accounts EXCEPT ![b] = AccountUpdated(@, s, w)]
    BY DEF UpdateAccount
  <2>3. CASE a = b
    <3>1. accounts[b] \in AccountRow
      BY <1>1, <2>1 DEF IInv, TypeOK
    <3>2. AccountUpdated(accounts[b], s, w).password = w
      BY <2>1, <3>1, AccountRowService, AccountColumnsType DEF AccountUpdated
    <3>3. accounts'[b].password = w
      BY <1>1, <2>1, <2>2, <3>2 DEF IInv, TypeOK
    <3>4. accounts[b].password = w
      BY <1>1, <2>1 DEF IInv, CopiesAreCurrent, UpdateAccount
    <3> QED BY <2>3, <3>3, <3>4
  <2>4. CASE a # b
    BY <1>1, <2>1, <2>2, <2>4 DEF IInv, TypeOK
  <2> QED BY <2>3, <2>4
<1>2. IInv => \A g \in Page : EditKeepsPassword(g)
  BY <1>1
<1> QED BY <1>2, Invariance, PTL DEF EditsKeepPasswords

-----------------------------------------------------------------------------
(* The refinement: what it needs besides IInv *)

Rows(table, a) == {id \in Stored(table) : table[id].account = a}

\* Every row can be decoded: no counter is negative, and a code is marked
\* when and only when it is used.
Decodable(fs, cs) ==
    /\ \A f \in Stored(fs) : fs[f].counter \in U64 \cup {None}
    /\ \A c \in Stored(cs) : cs[c].used = 0 <=> cs[c].marked = None

\* `new` is `old` with rows of `a` added.
Extends(new, old, a) ==
    \A id \in DOMAIN old :
       \/ new[id] = old[id]
       \/ old[id] = None /\ new[id] # None /\ new[id].account = a

\* The open transaction adds rows of its account only, under ids that are
\* new, and remembers them all.
TxAdds ==
    tx # NoTx =>
       /\ Decodable(tx.factors, tx.codes)
       /\ (tx.todoFactors \cup tx.todoCodes \cup tx.written) \cap born = {}
       /\ Extends(tx.factors, factors, tx.account)
       /\ Extends(tx.codes, codes, tx.account)
       /\ {tx.account} \cup tx.written =
             {tx.account} \cup Rows(tx.factors, tx.account) \cup Rows(tx.codes, tx.account)

BookInv ==
    /\ Decodable(factors, codes)
    /\ Stored(factors) \cup Stored(codes) \subseteq born
    /\ TxAdds

LEMMA BookInitially == Init => BookInv
BY DEF Init, BookInv, Decodable, Stored, TxAdds

\* A step outside a transaction that leaves rows alone or deletes them.
LEMMA BookShrinks ==
    ASSUME BookInv, tx' = NoTx, born \subseteq born',
           \A f \in Stored(factors') : f \in Stored(factors) /\ factors'[f] = factors[f],
           \A c \in Stored(codes') : c \in Stored(codes) /\ codes'[c] = codes[c]
    PROVE  BookInv'
<1>1. Decodable(factors, codes)'
  BY DEF BookInv, Decodable
<1>2. (Stored(factors) \cup Stored(codes) \subseteq born)'
  BY DEF BookInv
<1>3. TxAdds'
  BY DEF TxAdds
<1> QED BY <1>1, <1>2, <1>3 DEF BookInv

\* A row of a factor or of a code is written outside a transaction.
LEMMA BookFactorStored ==
    ASSUME IInv, BookInv, tx' = NoTx, NEW f \in Factor, NEW row \in FactorRow,
           row.counter \in U64 \cup {None},
           factors' = [factors EXCEPT ![f] = row], UNCHANGED codes,
           born \subseteq born', f \in born'
    PROVE  BookInv'
<1>1. /\ \A g \in Stored(factors') : g = f \/ (g \in Stored(factors) /\ factors'[g] = factors[g])
      /\ factors'[f] = row
  BY Typed DEF Stored
<1>2. Decodable(factors, codes)'
  BY <1>1 DEF BookInv, Decodable, Stored
<1>3. (Stored(factors) \cup Stored(codes) \subseteq born)'
  BY <1>1 DEF BookInv, Stored
<1>4. TxAdds'
  BY DEF TxAdds
<1> QED BY <1>2, <1>3, <1>4 DEF BookInv

LEMMA BookCodeStored ==
    ASSUME IInv, BookInv, tx' = NoTx, NEW c \in Code, NEW row \in CodeRow,
           row.used = 0 <=> row.marked = None,
           codes' = [codes EXCEPT ![c] = row], UNCHANGED factors,
           born \subseteq born', c \in born'
    PROVE  BookInv'
<1>1. /\ \A d \in Stored(codes') : d = c \/ (d \in Stored(codes) /\ codes'[d] = codes[d])
      /\ codes'[c] = row
  BY Typed DEF Stored
<1>2. Decodable(factors, codes)'
  BY <1>1 DEF BookInv, Decodable, Stored
<1>3. (Stored(factors) \cup Stored(codes) \subseteq born)'
  BY <1>1 DEF BookInv, Stored
<1>4. TxAdds'
  BY DEF TxAdds
<1> QED BY <1>2, <1>3, <1>4 DEF BookInv

\* The columns of a new factor hold the counter it was given.
LEMMA FactorColumnsCounter ==
    ASSUME NEW a \in Account, NEW k \in Kind, NEW n \in Note, NEW c \in Counters(k),
           FactorColumns(a, k, n, c) # None
    PROVE  /\ FactorColumns(a, k, n, c).counter \in U64 \cup {None}
           /\ FactorColumns(a, k, n, c) = [account |-> a, kind |-> k, note |-> n, counter |-> c]
BY DEF FactorColumns, Counters

LEMMA BookBegins ==
    ASSUME IInv, BookInv, NEW a \in Account, NEW p \in Profile, BeginAccount(a, p)
    PROVE  BookInv'
<1>1. PICK fs \in SUBSET (Factor \ born), cs \in SUBSET (Code \ born) :
         tx' = Working(a, p, accounts, factors, codes, fs, cs, {})
  BY DEF BeginAccount
<1>2. {} \in SUBSET (Account \cup Factor \cup Code)
  OBVIOUS
<1>3. /\ tx'.account = a /\ tx'.written = {} /\ tx'.todoFactors = fs /\ tx'.todoCodes = cs
      /\ tx'.factors = factors /\ tx'.codes = codes
  BY <1>1, <1>2, Typed, WorkingType
<1>4. accounts[a] = None
  BY DEF BeginAccount, IInv, KnownIds, Stored, TypeOK
<1>5. Rows(factors, a) = {} /\ Rows(codes, a) = {}
  BY <1>4, Typed DEF Rows, Owned
<1>6. UNCHANGED <<factors, codes, born>> /\ a \notin born
  BY DEF BeginAccount, tables
<1>7. TxAdds'
  BY <1>1, <1>3, <1>5, <1>6 DEF TxAdds, BookInv, Extends
<1> QED BY <1>6, <1>7 DEF BookInv, Decodable, Stored

\* The rows of an account in a table that gets one of them.
LEMMA RowWritten ==
    ASSUME NEW S, NEW table, NEW new, NEW old, NEW id \in S, NEW a,
           DOMAIN table = S, DOMAIN new = S, DOMAIN old = S,
           new[id] # None, new[id].account = a, old[id] = None,
           \A x \in S \ {id} : new[x] = table[x],
           Extends(table, old, a)
    PROVE  /\ Rows(new, a) = Rows(table, a) \cup {id}
           /\ Extends(new, old, a)
<1>1. Extends(new, old, a)
  BY DEF Extends
<1>2. \A x \in S \ {id} : x \in Rows(new, a) <=> x \in Rows(table, a)
  BY DEF Rows, Stored
<1>3. id \in Rows(new, a) /\ Rows(new, a) \subseteq S /\ Rows(table, a) \subseteq S
  BY DEF Rows, Stored
<1> QED BY <1>1, <1>2, <1>3

LEMMA BookWrites ==
    ASSUME IInv, BookInv, ~ Idle,
           NEW as \in [Account -> AccountRow \cup {None}],
           NEW fs \in [Factor -> FactorRow \cup {None}],
           NEW cs \in [Code -> CodeRow \cup {None}],
           NEW ids \in SUBSET (Account \cup Factor \cup Code),
           Wrote(as, fs, cs, ids),
           Decodable(fs, cs), ids \cap born = {},
           Extends(fs, factors, tx.account), Extends(cs, codes, tx.account),
           {tx.account} \cup ids \cup Rows(tx.factors, tx.account) \cup Rows(tx.codes, tx.account) =
              {tx.account} \cup Rows(fs, tx.account) \cup Rows(cs, tx.account)
    PROVE  BookInv'
<1>1. /\ tx' = Working(tx.account, tx.profile, as, fs, cs,
                       tx.todoFactors \ ids, tx.todoCodes \ ids, tx.written \cup ids)
      /\ UNCHANGED <<factors, codes, born>>
  BY DEF Wrote, tables
<1>2. /\ tx'.account = tx.account /\ tx'.factors = fs /\ tx'.codes = cs
      /\ tx'.todoFactors = tx.todoFactors \ ids /\ tx'.todoCodes = tx.todoCodes \ ids
      /\ tx'.written = tx.written \cup ids
  BY <1>1 DEF Working
<1>3. /\ (tx.todoFactors \cup tx.todoCodes \cup tx.written) \cap born = {}
      /\ {tx.account} \cup tx.written =
            {tx.account} \cup Rows(tx.factors, tx.account) \cup Rows(tx.codes, tx.account)
  BY DEF BookInv, TxAdds, Idle
<1>4. TxAdds'
  <2>1. (tx'.todoFactors \cup tx'.todoCodes \cup tx'.written) \cap born' = {}
    BY <1>1, <1>2, <1>3
  <2>2. {tx'.account} \cup tx'.written =
           {tx'.account} \cup Rows(tx'.factors, tx'.account) \cup Rows(tx'.codes, tx'.account)
    BY <1>2, <1>3
  <2>3. Decodable(tx'.factors, tx'.codes)
    BY <1>2
  <2>4. Extends(tx'.factors, factors', tx'.account) /\ Extends(tx'.codes, codes', tx'.account)
    BY <1>1, <1>2
  <2> QED BY <2>1, <2>2, <2>3, <2>4 DEF TxAdds
<1> QED BY <1>1, <1>4 DEF BookInv, Decodable, Stored

LEMMA BookWriteFactor ==
    ASSUME IInv, BookInv, WriteFactor PROVE BookInv' \/ Rollback
<1>0. PICK f \in tx.todoFactors, k \in Kind, n \in Note : \E c \in Counters(k) :
         LET row == FactorColumns(tx.account, k, n, c)
         IN IF row = None THEN Rollback
            ELSE Wrote(tx.accounts, [tx.factors EXCEPT ![f] = row], tx.codes, {f})
  BY DEF WriteFactor
<1>1. PICK c \in Counters(k) :
         LET row == FactorColumns(tx.account, k, n, c)
         IN IF row = None THEN Rollback
            ELSE Wrote(tx.accounts, [tx.factors EXCEPT ![f] = row], tx.codes, {f})
  BY <1>0
<1> DEFINE row == FactorColumns(tx.account, k, n, c)
           fs == [tx.factors EXCEPT ![f] = row]
<1>2. ~ Idle /\ tx # NoTx /\ f \in Factor /\ f \in tx.todoFactors
  BY <1>0, TxTyped DEF WriteFactor, Idle
<1>3. CASE row # None
  <2>1. row \in FactorRow /\ row.account = tx.account /\ row.counter \in U64 \cup {None}
    BY <1>2, <1>3, TxTyped, FactorColumnsType, FactorColumnsCounter
  <2>2. Wrote(tx.accounts, fs, tx.codes, {f})
    BY <1>1, <1>3
  <2> HIDE DEF row
  <2>3. f \notin born /\ factors[f] = None
    BY <1>2, Typed DEF BookInv, TxAdds, Stored
  <2>4. /\ Extends(tx.factors, factors, tx.account) /\ Extends(tx.codes, codes, tx.account)
        /\ Decodable(tx.factors, tx.codes)
    BY <1>2 DEF BookInv, TxAdds
  <2>5. /\ tx.factors \in [Factor -> FactorRow \cup {None}]
        /\ fs \in [Factor -> FactorRow \cup {None}] /\ fs[f] = row
        /\ \A g \in Factor \ {f} : fs[g] = tx.factors[g]
    BY <1>2, <2>1, TxTyped
  <2>6. Rows(fs, tx.account) = Rows(tx.factors, tx.account) \cup {f} /\ Extends(fs, factors, tx.account)
    <3>1. DOMAIN tx.factors = Factor /\ DOMAIN fs = Factor /\ DOMAIN factors = Factor
      BY <2>5, Typed
    <3>2. fs[f] # None /\ fs[f].account = tx.account
      BY <1>3, <2>1, <2>5 DEF row
    <3> HIDE DEF fs
    <3> QED BY <1>2, <2>3, <2>4, <2>5, <3>1, <3>2, RowWritten
  <2> HIDE DEF fs
  <2>7. Decodable(fs, tx.codes)
    BY <2>1, <2>4, <2>5 DEF Decodable, Stored
  <2>8. {f} \in SUBSET (Account \cup Factor \cup Code) /\ {f} \cap born = {}
    BY <1>2, <2>3
  <2>9. {tx.account} \cup {f} \cup Rows(tx.factors, tx.account) \cup Rows(tx.codes, tx.account) =
              {tx.account} \cup Rows(fs, tx.account) \cup Rows(tx.codes, tx.account)
    BY <2>6
  <2> QED BY <1>2, <2>2, <2>4, <2>5, <2>6, <2>7, <2>8, <2>9, TxTyped, BookWrites
<1> QED BY <1>1, <1>3

LEMMA BookWriteCode ==
    ASSUME IInv, BookInv, WriteCode PROVE BookInv' \/ Rollback
<1>1. PICK c \in tx.todoCodes, n \in Position :
         IF PositionTaken(tx.codes, tx.account, n) THEN Rollback
         ELSE Wrote(tx.accounts, tx.factors,
                    [tx.codes EXCEPT ![c] = CodeColumns(tx.account, n)], {c})
  BY DEF WriteCode
<1> DEFINE row == CodeColumns(tx.account, n)
           cs == [tx.codes EXCEPT ![c] = row]
<1>2. ~ Idle /\ tx # NoTx /\ c \in Code /\ c \in tx.todoCodes
  BY <1>1, TxTyped DEF WriteCode, Idle
<1>3. CASE ~ PositionTaken(tx.codes, tx.account, n)
  <2>1. /\ row \in CodeRow /\ row.account = tx.account /\ row # None
        /\ row.used = 0 /\ row.marked = None
    BY <1>2, TxTyped, CodeColumnsType DEF CodeColumns
  <2>2. Wrote(tx.accounts, tx.factors, cs, {c})
    BY <1>1, <1>3
  <2> HIDE DEF row
  <2>3. c \notin born /\ codes[c] = None
    BY <1>2, Typed DEF BookInv, TxAdds, Stored
  <2>4. /\ Extends(tx.factors, factors, tx.account) /\ Extends(tx.codes, codes, tx.account)
        /\ Decodable(tx.factors, tx.codes)
    BY <1>2 DEF BookInv, TxAdds
  <2>5. /\ tx.codes \in [Code -> CodeRow \cup {None}]
        /\ cs \in [Code -> CodeRow \cup {None}] /\ cs[c] = row
        /\ \A d \in Code \ {c} : cs[d] = tx.codes[d]
    BY <1>2, <2>1, TxTyped
  <2>6. Rows(cs, tx.account) = Rows(tx.codes, tx.account) \cup {c} /\ Extends(cs, codes, tx.account)
    <3>1. DOMAIN tx.codes = Code /\ DOMAIN cs = Code /\ DOMAIN codes = Code
      BY <2>5, Typed
    <3>2. cs[c] # None /\ cs[c].account = tx.account
      BY <2>1, <2>5
    <3> HIDE DEF cs
    <3> QED BY <1>2, <2>3, <2>4, <2>5, <3>1, <3>2, RowWritten
  <2> HIDE DEF cs
  <2>7. Decodable(tx.factors, cs)
    BY <2>1, <2>4, <2>5 DEF Decodable, Stored
  <2>8. {c} \in SUBSET (Account \cup Factor \cup Code) /\ {c} \cap born = {}
    BY <1>2, <2>3
  <2>9. {tx.account} \cup {c} \cup Rows(tx.factors, tx.account) \cup Rows(tx.codes, tx.account) =
              {tx.account} \cup Rows(tx.factors, tx.account) \cup Rows(cs, tx.account)
    BY <2>6
  <2> QED BY <1>2, <2>2, <2>4, <2>5, <2>6, <2>7, <2>8, <2>9, TxTyped, BookWrites
<1> QED BY <1>1, <1>3

\* What an edit of a factor, and the mark of a code, make of a row.
LEMMA FactorEdits ==
    ASSUME NEW row \in FactorRow, NEW n \in Note, NEW c \in U64, Fits(c)
    PROVE  /\ FactorUpdated(row, n) \in FactorRow
           /\ FactorUpdated(row, n) =
                [account |-> row.account, kind |-> row.kind, note |-> n, counter |-> row.counter]
           /\ [row EXCEPT !.counter = c] \in FactorRow
           /\ [row EXCEPT !.counter = c] =
                [account |-> row.account, kind |-> row.kind, note |-> row.note, counter |-> c]
<1>1. c \in I64 \cup {None}
  BY RoundTrip
<1> QED BY <1>1 DEF FactorUpdated, FactorRow

LEMMA CodeMarks ==
    ASSUME NEW row \in CodeRow, NEW t \in Time
    PROVE  /\ CodeMarked(row, t) \in CodeRow
           /\ CodeMarked(row, t).used = 1 /\ CodeMarked(row, t).marked = t /\ t # None
           /\ CodeMarked(row, t).account = row.account
           /\ CodeMarked(row, t).position = row.position
BY NamesAssumption DEF CodeMarked, CodeRow

LEMMA BookInductive == IInv /\ BookInv /\ [Next]_vars => BookInv'
<1> SUFFICES ASSUME IInv, BookInv, [Next]_vars PROVE BookInv'
  OBVIOUS
<1>0. ASSUME UNCHANGED <<factors, codes>>, born \subseteq born', tx' = NoTx PROVE BookInv'
  BY <1>0, BookShrinks
<1>1. CASE UNCHANGED vars
  BY <1>1 DEF vars, tables, BookInv, Decodable, Stored, TxAdds, Extends, Rows
<1>2. ASSUME NEW p \in Profile, CreateProfile(p) \/ UpdateProfile(p) PROVE BookInv'
  BY <1>0, <1>2 DEF CreateProfile, UpdateProfile, Idle
<1>3. ASSUME NEW gone, factors' = Cascaded(factors, gone), codes' = Cascaded(codes, gone),
             UNCHANGED <<born, tx>>, Idle
      PROVE  BookInv'
  <2>1. /\ \A f \in Stored(factors') : f \in Stored(factors) /\ factors'[f] = factors[f]
        /\ \A c \in Stored(codes') : c \in Stored(codes) /\ codes'[c] = codes[c]
    BY <1>3 DEF Cascaded, Stored
  <2> QED BY <1>3, <2>1, BookShrinks DEF Idle
<1>4. ASSUME NEW p \in Profile, DeleteProfile(p) PROVE BookInv'
  BY <1>3, <1>4 DEF DeleteProfile
<1>5. ASSUME NEW a \in Account, DeleteAccount(a) PROVE BookInv'
  BY <1>3, <1>5 DEF DeleteAccount
<1>6. ASSUME NEW a \in Account, NEW p \in Profile, BeginAccount(a, p) PROVE BookInv'
  BY <1>6, BookBegins
<1>7. CASE Rollback
  BY <1>0, <1>7 DEF Rollback, tables
<1>8. CASE WriteAccount
  <2>1. PICK s \in Services :
           Wrote([tx.accounts EXCEPT ![tx.account] = AccountColumns(tx.profile, s, FALSE)],
                 tx.factors, tx.codes, {tx.account})
    BY <1>8 DEF WriteAccount
  <2> DEFINE as == [tx.accounts EXCEPT ![tx.account] = AccountColumns(tx.profile, s, FALSE)]
  <2>2. ~ Idle /\ tx # NoTx
    BY <1>8 DEF WriteAccount, Idle
  <2>3. as \in [Account -> AccountRow \cup {None}]
    BY <2>2, TxTyped, AccountColumnsType
  <2>4. Wrote(as, tx.factors, tx.codes, {tx.account})
    BY <2>1
  <2> HIDE DEF as
  <2>5. /\ Extends(tx.factors, factors, tx.account) /\ Extends(tx.codes, codes, tx.account)
        /\ Decodable(tx.factors, tx.codes)
    BY <2>2 DEF BookInv, TxAdds
  <2>6. {tx.account} \in SUBSET (Account \cup Factor \cup Code) /\ {tx.account} \cap born = {}
    BY <2>2, TxTyped
  <2>7. {tx.account} \cup {tx.account} \cup Rows(tx.factors, tx.account) \cup Rows(tx.codes, tx.account) =
              {tx.account} \cup Rows(tx.factors, tx.account) \cup Rows(tx.codes, tx.account)
    OBVIOUS
  <2> QED BY <2>2, <2>3, <2>4, <2>5, <2>6, <2>7, TxTyped, BookWrites
<1>9. CASE WriteFactor \/ WriteCode
  BY <1>7, <1>9, BookWriteFactor, BookWriteCode
<1>10. CASE Commit
  <2>1. /\ ~ Idle /\ tx # NoTx /\ tx' = NoTx
        /\ factors' = tx.factors /\ codes' = tx.codes /\ born' = born \cup tx.written
        /\ tx.account \in tx.written
    BY <1>10 DEF Commit, Idle
  <2>2. Decodable(tx.factors, tx.codes)
    BY <2>1 DEF BookInv, TxAdds
  <2>3. Stored(tx.factors) \cup Stored(tx.codes) \subseteq born \cup tx.written
    <3>1. ASSUME NEW f \in Stored(tx.factors) PROVE f \in born \cup tx.written
      <4>1. f \in Factor /\ tx.factors[f] # None
        BY <2>1, TxTyped DEF Stored
      <4>2. factors[f] # None \/ f \in Rows(tx.factors, tx.account)
        BY <2>1, <4>1, <3>1, Typed DEF BookInv, TxAdds, Extends, Rows
      <4> QED BY <2>1, <4>1, <4>2, Typed DEF BookInv, TxAdds, Stored
    <3>2. ASSUME NEW c \in Stored(tx.codes) PROVE c \in born \cup tx.written
      <4>1. c \in Code /\ tx.codes[c] # None
        BY <2>1, TxTyped DEF Stored
      <4>2. codes[c] # None \/ c \in Rows(tx.codes, tx.account)
        BY <2>1, <4>1, <3>2, Typed DEF BookInv, TxAdds, Extends, Rows
      <4> QED BY <2>1, <4>1, <4>2, Typed DEF BookInv, TxAdds, Stored
    <3> QED BY <3>1, <3>2
  <2>4. Decodable(factors', codes') /\ Stored(factors') \cup Stored(codes') \subseteq born'
    BY <2>1, <2>2, <2>3
  <2>5. TxAdds'
    BY <2>1 DEF TxAdds
  <2> QED BY <2>4, <2>5 DEF BookInv
<1>11. ASSUME NEW a \in Account, SetPassword(a) \/ DeletePassword(a) PROVE BookInv'
  BY <1>0, <1>11 DEF SetPassword, DeletePassword, ChangePassword, Idle
<1>12. ASSUME NEW g \in Page, UpdateAccount(g) \/ \E a \in Account : ReadAccount(g, a)
       PROVE  BookInv'
  BY <1>0, <1>12 DEF UpdateAccount, ReadAccount, Idle, tables
<1>13. ASSUME NEW f \in Factor, UpdateFactor(f) \/ SetHotpCounter(f) PROVE BookInv'
  <2>1. /\ factors[f] \in FactorRow /\ factors[f].counter \in U64 \cup {None} /\ f \in born
        /\ tx' = NoTx /\ UNCHANGED <<codes, born>>
    BY <1>13, Typed DEF UpdateFactor, SetHotpCounter, BookInv, Decodable, Stored, Idle
  <2>2. CASE UpdateFactor(f)
    <3>1. PICK n \in Note : factors' = [factors EXCEPT ![f] = FactorUpdated(@, n)]
      BY <2>2 DEF UpdateFactor
    <3> DEFINE row == FactorUpdated(factors[f], n)
    <3>2. 0 \in U64 /\ Fits(0)
      BY NumbersAssumption DEF U64, Fits
    <3>3. row \in FactorRow /\ row.counter \in U64 \cup {None}
      <4>1. /\ row \in FactorRow
            /\ row = [account |-> factors[f].account, kind |-> factors[f].kind, note |-> n,
                      counter |-> factors[f].counter]
        BY <2>1, <3>2, FactorEdits
      <4> HIDE DEF row
      <4> QED BY <2>1, <4>1
    <3>4. factors' = [factors EXCEPT ![f] = row]
      BY <3>1
    <3> HIDE DEF row
    <3> QED BY <2>1, <3>3, <3>4, BookFactorStored
  <2>3. CASE SetHotpCounter(f)
    <3>1. PICK n \in U64 : Fits(n) /\ factors' = [factors EXCEPT ![f].counter = n]
      BY <2>3 DEF SetHotpCounter
    <3> DEFINE row == [factors[f] EXCEPT !.counter = n]
    <3>2. row \in FactorRow /\ row.counter \in U64 \cup {None}
      <4>1. PICK note \in Note : TRUE
        BY <2>1 DEF FactorRow
      <4>2. /\ row \in FactorRow
            /\ row = [account |-> factors[f].account, kind |-> factors[f].kind,
                      note |-> factors[f].note, counter |-> n]
        BY <2>1, <3>1, <4>1, FactorEdits
      <4> HIDE DEF row
      <4> QED BY <3>1, <4>2
    <3>3. factors' = [factors EXCEPT ![f] = row]
      BY <3>1
    <3> HIDE DEF row
    <3> QED BY <2>1, <3>2, <3>3, BookFactorStored
  <2> QED BY <1>13, <2>2, <2>3
<1>14. ASSUME NEW f \in Factor, DeleteFactor(f) PROVE BookInv'
  <2>1. \A g \in Stored(factors') : g \in Stored(factors) /\ factors'[g] = factors[g]
    BY <1>14 DEF DeleteFactor, Without, Stored
  <2> QED BY <1>14, <2>1, BookShrinks DEF DeleteFactor, Idle
<1>15. ASSUME NEW c \in Code, MarkRecoveryCodeUsed(c) PROVE BookInv'
  <2>1. /\ codes[c] \in CodeRow /\ c \in born
        /\ tx' = NoTx /\ UNCHANGED <<factors, born>>
    BY <1>15, Typed DEF MarkRecoveryCodeUsed, BookInv, Stored, Idle
  <2>2. PICK t \in Time : codes' = [codes EXCEPT ![c] = CodeMarked(@, t)]
    BY <1>15 DEF MarkRecoveryCodeUsed
  <2> DEFINE row == CodeMarked(codes[c], t)
  <2>3. row \in CodeRow /\ (row.used = 0 <=> row.marked = None)
    BY <2>1, CodeMarks
  <2>4. codes' = [codes EXCEPT ![c] = row]
    BY <2>2
  <2> HIDE DEF row
  <2> QED BY <2>1, <2>3, <2>4, BookCodeStored
<1>16. ASSUME NEW c \in Code, DeleteRecoveryCode(c) PROVE BookInv'
  <2>1. \A d \in Stored(codes') : d \in Stored(codes) /\ codes'[d] = codes[d]
    BY <1>16 DEF DeleteRecoveryCode, Without, Stored
  <2> QED BY <1>16, <2>1, BookShrinks DEF DeleteRecoveryCode, Idle
<1>17. ASSUME NEW a \in Account, NEW f \in Factor, AddFactor(f, a) PROVE BookInv'
  <2>1. PICK k \in Kind, n \in Note : \E c \in Counters(k) :
           /\ FactorColumns(a, k, n, c) # None
           /\ factors' = [factors EXCEPT ![f] = FactorColumns(a, k, n, c)]
    BY <1>17 DEF AddFactor
  <2>2. PICK c \in Counters(k) :
           /\ FactorColumns(a, k, n, c) # None
           /\ factors' = [factors EXCEPT ![f] = FactorColumns(a, k, n, c)]
    BY <2>1
  <2> DEFINE row == FactorColumns(a, k, n, c)
  <2>3. row \in FactorRow /\ row.counter \in U64 \cup {None}
    BY <2>2, FactorColumnsType, FactorColumnsCounter
  <2>4. factors' = [factors EXCEPT ![f] = row]
    BY <2>2
  <2> HIDE DEF row
  <2> QED BY <1>17, <2>3, <2>4, BookFactorStored DEF AddFactor, Idle
<1>18. ASSUME NEW a \in Account, NEW c \in Code, AddRecoveryCode(c, a) PROVE BookInv'
  <2>1. PICK n \in Position : codes' = [codes EXCEPT ![c] = CodeColumns(a, n)]
    BY <1>18 DEF AddRecoveryCode
  <2> DEFINE row == CodeColumns(a, n)
  <2>2. row \in CodeRow /\ (row.used = 0 <=> row.marked = None)
    BY CodeColumnsType DEF CodeColumns
  <2>3. codes' = [codes EXCEPT ![c] = row]
    BY <2>1
  <2> HIDE DEF row
  <2> QED BY <1>18, <2>2, <2>3, BookCodeStored DEF AddRecoveryCode, Idle
<1>19. CASE Stop
  BY <1>0, <1>19 DEF Stop, tables
<1> QED BY <1>1, <1>2, <1>4, <1>5, <1>6, <1>7, <1>8, <1>9, <1>10, <1>11, <1>12, <1>13, <1>14,
           <1>15, <1>16, <1>17, <1>18, <1>19 DEF Next

-----------------------------------------------------------------------------
(* The refinement: what the readers are given *)

LEMMA FactorView ==
    ASSUME NEW row \in FactorRow, row.counter \in U64 \cup {None}
    PROVE  /\ FactorOf(row) = [kind |-> row.kind, note |-> row.note, counter |-> row.counter]
           /\ FactorOf(row) \in Book!FactorValue
<1>1. FromI64(row.counter) = row.counter
  BY DEF FromI64, U64
<1> QED BY <1>1 DEF FactorOf, FactorRow, Book!FactorValue

LEMMA CodeView ==
    ASSUME NEW row \in CodeRow, row.used = 0 <=> row.marked = None
    PROVE  /\ CodeOf(row) =
                [position |-> row.position, mark |-> [used |-> row.used = 1, at |-> row.marked]]
           /\ CodeOf(row) \in Book!CodeValue
<1>1. [used |-> row.used = 1, at |-> row.marked] \in Book!Marks
  <2>1. CASE row.used = 0
    <3>1. row.marked = None /\ (row.used = 1) = FALSE
      BY <2>1
    <3> QED BY <3>1 DEF Book!Marks
  <2>2. CASE row.used = 1
    <3>1. row.marked \in Time
      BY <2>2 DEF CodeRow
    <3> QED BY <2>2, <3>1 DEF Book!Marks
  <2> QED BY <2>1, <2>2 DEF CodeRow
<1> QED BY <1>1 DEF CodeOf, CodeRow, Book!CodeValue

\* The value of an account, and of what it contains.
LEMMA AccountViews ==
    IInv /\ BookInv =>
        \A a \in Account : accounts[a] # None =>
           /\ GetAccount(a) = AccountOf(accounts[a], ListFactors(a), ListRecoveryCodes(a))
           /\ GetAccount(a) \in Book!AccountValue
           /\ GetAccount(a) # None
           /\ Book!InOrder(GetAccount(a).codes)
<1> SUFFICES ASSUME IInv, BookInv, NEW a \in Account, accounts[a] # None
             PROVE  /\ GetAccount(a) = AccountOf(accounts[a], ListFactors(a), ListRecoveryCodes(a))
                    /\ GetAccount(a) \in Book!AccountValue
                    /\ GetAccount(a) # None
                    /\ Book!InOrder(GetAccount(a).codes)
  OBVIOUS
<1>1. GetAccount(a) = AccountOf(accounts[a], ListFactors(a), ListRecoveryCodes(a))
  BY DEF GetAccount
<1>2. ListFactors(a) \in Book!Pieces(Factor, Book!FactorValue)
  <2> DEFINE ids == {g \in Stored(factors) : factors[g].account = a}
  <2>1. ids \in SUBSET Factor
    BY Typed DEF Stored
  <2>2. ASSUME NEW f \in ids PROVE FactorOf(factors[f]) \in Book!FactorValue
    <3>1. factors[f] \in FactorRow /\ factors[f].counter \in U64 \cup {None}
      BY <2>2, Typed DEF BookInv, Decodable, Stored
    <3> QED BY <3>1, FactorView
  <2> HIDE DEF ids
  <2>3. [f \in ids |-> FactorOf(factors[f])] \in [ids -> Book!FactorValue]
    BY <2>2
  <2>4. ListFactors(a) = [f \in ids |-> FactorOf(factors[f])]
    BY DEF ListFactors, ids
  <2> QED BY <2>1, <2>3, <2>4 DEF Book!Pieces
<1>3. /\ ListRecoveryCodes(a) \in Book!Pieces(Code, Book!CodeValue)
      /\ Book!InOrder(ListRecoveryCodes(a))
  <2> DEFINE ids == {d \in Stored(codes) : codes[d].account = a}
  <2>1. ids \in SUBSET Code
    BY Typed DEF Stored
  <2>2. ASSUME NEW c \in ids PROVE CodeOf(codes[c]) \in Book!CodeValue /\ CodeOf(codes[c]).position = codes[c].position
    <3>1. codes[c] \in CodeRow /\ (codes[c].used = 0 <=> codes[c].marked = None)
      BY <2>2, Typed DEF BookInv, Decodable, Stored
    <3> QED BY <3>1, CodeView
  <2>3. \A c, d \in ids : c # d => codes[c].position # codes[d].position
    BY Typed DEF InOrder
  <2> HIDE DEF ids
  <2>4. [c \in ids |-> CodeOf(codes[c])] \in [ids -> Book!CodeValue]
    BY <2>2
  <2>5. ListRecoveryCodes(a) = [c \in ids |-> CodeOf(codes[c])]
    BY DEF ListRecoveryCodes, ids
  <2>6. ListRecoveryCodes(a) \in Book!Pieces(Code, Book!CodeValue)
    BY <2>1, <2>4, <2>5 DEF Book!Pieces
  <2>7. Book!InOrder(ListRecoveryCodes(a))
    BY <2>2, <2>3, <2>5 DEF Book!InOrder
  <2> QED BY <2>6, <2>7
<1>4. accounts[a] \in AccountRow
  BY Typed
<1>5. GetAccount(a) \in Book!AccountValue
  BY <1>1, <1>2, <1>3, <1>4, AccountRowService DEF AccountOf, Book!AccountValue
<1>6. GetAccount(a) # None
  BY <1>5, ValuesAssumption
<1> QED BY <1>1, <1>3, <1>5, <1>6 DEF AccountOf

LEMMA AccountViewsNext ==
    IInv' /\ BookInv' =>
        (\A a \in Account : accounts[a] # None =>
           /\ GetAccount(a) = AccountOf(accounts[a], ListFactors(a), ListRecoveryCodes(a))
           /\ GetAccount(a) \in Book!AccountValue
           /\ GetAccount(a) # None
           /\ Book!InOrder(GetAccount(a).codes))'
BY AccountViews, PTL

\* A table has the same rows of an account as before.
SameRows(new, old, a) ==
    /\ Rows(new, a) = Rows(old, a)
    /\ \A id \in Rows(old, a) : new[id] = old[id]

LEMMA FactorsSame ==
    ASSUME NEW a \in Account, SameRows(factors', factors, a)
    PROVE  ListFactors(a)' = ListFactors(a)
BY DEF SameRows, Rows, ListFactors

LEMMA CodesSame ==
    ASSUME NEW a \in Account, SameRows(codes', codes, a)
    PROVE  ListRecoveryCodes(a)' = ListRecoveryCodes(a)
BY DEF SameRows, Rows, ListRecoveryCodes

LEMMA AccountSame ==
    ASSUME NEW a \in Account, accounts'[a] = accounts[a],
           SameRows(factors', factors, a), SameRows(codes', codes, a)
    PROVE  GetAccount(a)' = GetAccount(a)
BY FactorsSame, CodesSame DEF GetAccount

\* A step after which one account has another value.
LEMMA OneBecomes ==
    ASSUME IInv', BookInv', NEW a \in Account, accounts'[a] # None,
           \A b \in Account \ {a} : /\ accounts'[b] = accounts[b]
                                    /\ SameRows(factors', factors, b)
                                    /\ SameRows(codes', codes, b)
    PROVE  /\ Book!Becomes(a)
           /\ ReadAccounts'[a] =
                AccountOf(accounts'[a], ListFactors(a)', ListRecoveryCodes(a)')
<1>1. /\ GetAccount(a)' = AccountOf(accounts'[a], ListFactors(a)', ListRecoveryCodes(a)')
      /\ GetAccount(a)' \in Book!AccountValue
      /\ GetAccount(a)' # None
      /\ Book!InOrder(GetAccount(a)'.codes)
  BY AccountViewsNext
<1>2. \A b \in Account \ {a} : GetAccount(b)' = GetAccount(b)
  BY AccountSame
<1>3. ReadAccounts'[a] = GetAccount(a)'
  BY DEF ReadAccounts
<1>4. ReadAccounts' = [ReadAccounts EXCEPT ![a] = ReadAccounts'[a]]
  BY <1>2, <1>3 DEF ReadAccounts
<1> QED BY <1>1, <1>3, <1>4 DEF Book!Becomes

\* What a profile's reader is given.
LEMMA ProfileViews ==
    IInv => ReadProfiles = [p \in Profile |->
                IF profiles[p] = None THEN None ELSE ProfileOf(profiles[p])]
BY DEF IInv, TypeOK, ReadProfiles, ListProfiles, GetProfile, Stored

LEMMA ProfileViewsNext ==
    IInv' => (ReadProfiles = [p \in Profile |->
                IF profiles[p] = None THEN None ELSE ProfileOf(profiles[p])])'
BY ProfileViews, PTL

LEMMA ProfileDecoded ==
    ASSUME NEW n \in Name, NEW v \in Selections, NEW p \in Profile
    PROVE  /\ ProfileOf(ProfileColumns(n, v, p)) = [name |-> n, version |-> v, dir |-> p]
           /\ [name |-> n, version |-> v, dir |-> p] \in Book!ProfileValue
<1>1. FromStorageParts(StorageParts(v)[1], StorageParts(v)[2]) = v
  BY RoundTrip
<1> QED BY <1>1 DEF ProfileOf, ProfileColumns, Book!ProfileValue

LEMMA ProfileViewType ==
    ASSUME IInv, NEW p \in Profile, profiles[p] # None
    PROVE  ReadProfiles[p] \in Book!ProfileValue /\ ReadProfiles[p] # None
<1>1. profiles[p] \in ProfileRow /\ Checked(profiles[p])
  BY DEF IInv, TypeOK
<1>2. ReadProfiles[p] = ProfileOf(profiles[p])
  BY ProfileViews
<1>3. FromStorageParts(profiles[p].selection, profiles[p].pinned) \in Selections
  BY <1>1 DEF ProfileRow, Checked, FromStorageParts, Selections
<1>4. ReadProfiles[p] \in Book!ProfileValue
  BY <1>1, <1>2, <1>3 DEF ProfileOf, ProfileRow, Book!ProfileValue
<1> QED BY <1>4, ValuesAssumption

-----------------------------------------------------------------------------
(* The refinement: steps *)

\* A step that changes no table changes nothing for a reader.
LEMMA Stutters ==
    ASSUME UNCHANGED <<profiles, accounts, factors, codes, born>>
    PROVE  UNCHANGED Book!bvars
<1>1. ReadProfiles' = ReadProfiles
  BY DEF ReadProfiles, ListProfiles, GetProfile, Stored
<1>2. ReadAccounts' = ReadAccounts
  BY DEF ReadAccounts, GetAccount, ListFactors, ListRecoveryCodes, Stored
<1> QED BY <1>1, <1>2 DEF Book!bvars

LEMMA ProfilesSame ==
    ASSUME UNCHANGED profiles
    PROVE  ReadProfiles' = ReadProfiles
BY DEF ReadProfiles, ListProfiles, GetProfile, Stored

\* One row of a table changes, and it is a row of `a` before and after.
LEMMA OtherRows ==
    ASSUME NEW S, NEW new, NEW old, NEW id \in S, NEW a, NEW b, a # b,
           DOMAIN new = S, DOMAIN old = S,
           \A x \in S \ {id} : new[x] = old[x],
           new[id] = None \/ new[id].account = a,
           old[id] = None \/ old[id].account = a
    PROVE  SameRows(new, old, b)
BY DEF SameRows, Rows, Stored

\* Accounts are deleted with everything they contain.
LEMMA Cascades ==
    ASSUME IInv, NEW gone \in SUBSET Account,
           accounts' = Without(accounts, gone),
           factors' = Cascaded(factors, gone),
           codes' = Cascaded(codes, gone)
    PROVE  ReadAccounts' = [a \in Account |-> IF a \in gone THEN None ELSE ReadAccounts[a]]
<1>1. ASSUME NEW a \in gone PROVE GetAccount(a)' = None
  BY <1>1, Typed DEF GetAccount, Without
<1>2. ASSUME NEW a \in Account \ gone PROVE GetAccount(a)' = GetAccount(a)
  <2>1. accounts'[a] = accounts[a]
    BY Typed DEF Without
  <2>2. SameRows(factors', factors, a) /\ SameRows(codes', codes, a)
    BY Typed DEF SameRows, Rows, Cascaded, Stored
  <2> QED BY <2>1, <2>2, AccountSame
<1> QED BY <1>1, <1>2 DEF ReadAccounts

\* One row of a factor of account `a` changes.
LEMMA FactorChanges ==
    ASSUME IInv, BookInv, IInv', BookInv', NEW a \in Account, NEW f \in Factor,
           accounts[a] # None, UNCHANGED <<profiles, accounts, codes>>,
           \A g \in Factor \ {f} : factors'[g] = factors[g],
           factors[f] = None \/ factors[f].account = a,
           factors'[f] = None \/ factors'[f].account = a
    PROVE  /\ Book!Listed(a) /\ Book!Becomes(a) /\ ReadProfiles' = ReadProfiles
           /\ ReadAccounts[a].factors = ListFactors(a)
           /\ ReadAccounts'[a].factors = ListFactors(a)'
           /\ ReadAccounts'[a] = [ReadAccounts[a] EXCEPT !.factors = ListFactors(a)']
           /\ Book!SameElsewhere(ListFactors(a), ListFactors(a)', f)
           /\ f \in DOMAIN ListFactors(a) <=> factors[f] # None
           /\ f \in DOMAIN ListFactors(a)' <=> factors'[f] # None
           /\ factors[f] # None => ListFactors(a)[f] = FactorOf(factors[f])
           /\ factors'[f] # None => ListFactors(a)'[f] = FactorOf(factors'[f])
<1>1. DOMAIN factors = Factor /\ DOMAIN factors' = Factor
  BY Typed DEF IInv, TypeOK
<1>2. ListFactors(a)' = [g \in Rows(factors', a) |-> FactorOf(factors'[g])]
  BY DEF ListFactors, Rows
<1>3. ListFactors(a) = [g \in Rows(factors, a) |-> FactorOf(factors[g])]
  BY DEF ListFactors, Rows
<1>4. \A g \in Factor \ {f} : g \in Rows(factors', a) <=> g \in Rows(factors, a)
  BY <1>1 DEF Rows, Stored
<1>5. Rows(factors, a) \subseteq Factor /\ Rows(factors', a) \subseteq Factor
  BY <1>1 DEF Rows, Stored
<1>6. /\ f \in Rows(factors, a) <=> factors[f] # None
      /\ f \in Rows(factors', a) <=> factors'[f] # None
  BY <1>1 DEF Rows, Stored
<1>7. Book!SameElsewhere(ListFactors(a), ListFactors(a)', f)
  BY <1>2, <1>3, <1>4, <1>5 DEF Book!SameElsewhere
<1>8. /\ f \in DOMAIN ListFactors(a) <=> factors[f] # None
      /\ f \in DOMAIN ListFactors(a)' <=> factors'[f] # None
      /\ factors[f] # None => ListFactors(a)[f] = FactorOf(factors[f])
      /\ factors'[f] # None => ListFactors(a)'[f] = FactorOf(factors'[f])
  BY <1>2, <1>3, <1>6
<1>9. ASSUME NEW b \in Account \ {a}
      PROVE  SameRows(factors', factors, b) /\ SameRows(codes', codes, b)
  <2>1. SameRows(factors', factors, b)
    BY <1>1, OtherRows
  <2> QED BY <2>1 DEF SameRows
<1>10. /\ Book!Becomes(a)
       /\ ReadAccounts'[a] = AccountOf(accounts[a], ListFactors(a)', ListRecoveryCodes(a)')
  BY <1>9, OneBecomes
<1>11. ReadAccounts[a] = AccountOf(accounts[a], ListFactors(a), ListRecoveryCodes(a))
  BY AccountViews DEF ReadAccounts
<1>12. ListRecoveryCodes(a)' = ListRecoveryCodes(a)
  BY DEF ListRecoveryCodes, Stored
<1>13. /\ ReadAccounts[a].factors = ListFactors(a)
       /\ ReadAccounts'[a].factors = ListFactors(a)'
       /\ ReadAccounts'[a] = [ReadAccounts[a] EXCEPT !.factors = ListFactors(a)']
  BY <1>10, <1>11, <1>12 DEF AccountOf
<1>14. Book!Listed(a)
  BY AccountViews DEF Book!Listed, ReadAccounts
<1> QED BY <1>7, <1>8, <1>10, <1>13, <1>14, ProfilesSame

\* One row of a recovery code of account `a` changes.
LEMMA CodeChanges ==
    ASSUME IInv, BookInv, IInv', BookInv', NEW a \in Account, NEW c \in Code,
           accounts[a] # None, UNCHANGED <<profiles, accounts, factors>>,
           \A d \in Code \ {c} : codes'[d] = codes[d],
           codes[c] = None \/ codes[c].account = a,
           codes'[c] = None \/ codes'[c].account = a
    PROVE  /\ Book!Listed(a) /\ Book!Becomes(a) /\ ReadProfiles' = ReadProfiles
           /\ ReadAccounts[a].codes = ListRecoveryCodes(a)
           /\ ReadAccounts'[a].codes = ListRecoveryCodes(a)'
           /\ ReadAccounts'[a] = [ReadAccounts[a] EXCEPT !.codes = ListRecoveryCodes(a)']
           /\ Book!SameElsewhere(ListRecoveryCodes(a), ListRecoveryCodes(a)', c)
           /\ c \in DOMAIN ListRecoveryCodes(a) <=> codes[c] # None
           /\ c \in DOMAIN ListRecoveryCodes(a)' <=> codes'[c] # None
           /\ codes[c] # None => ListRecoveryCodes(a)[c] = CodeOf(codes[c])
           /\ codes'[c] # None => ListRecoveryCodes(a)'[c] = CodeOf(codes'[c])
<1>1. DOMAIN codes = Code /\ DOMAIN codes' = Code
  BY Typed DEF IInv, TypeOK
<1>2. ListRecoveryCodes(a)' = [d \in Rows(codes', a) |-> CodeOf(codes'[d])]
  BY DEF ListRecoveryCodes, Rows
<1>3. ListRecoveryCodes(a) = [d \in Rows(codes, a) |-> CodeOf(codes[d])]
  BY DEF ListRecoveryCodes, Rows
<1>4. \A d \in Code \ {c} : d \in Rows(codes', a) <=> d \in Rows(codes, a)
  BY <1>1 DEF Rows, Stored
<1>5. Rows(codes, a) \subseteq Code /\ Rows(codes', a) \subseteq Code
  BY <1>1 DEF Rows, Stored
<1>6. /\ c \in Rows(codes, a) <=> codes[c] # None
      /\ c \in Rows(codes', a) <=> codes'[c] # None
  BY <1>1 DEF Rows, Stored
<1>7. Book!SameElsewhere(ListRecoveryCodes(a), ListRecoveryCodes(a)', c)
  BY <1>2, <1>3, <1>4, <1>5 DEF Book!SameElsewhere
<1>8. /\ c \in DOMAIN ListRecoveryCodes(a) <=> codes[c] # None
      /\ c \in DOMAIN ListRecoveryCodes(a)' <=> codes'[c] # None
      /\ codes[c] # None => ListRecoveryCodes(a)[c] = CodeOf(codes[c])
      /\ codes'[c] # None => ListRecoveryCodes(a)'[c] = CodeOf(codes'[c])
  BY <1>2, <1>3, <1>6
<1>9. \A b \in Account \ {a} : SameRows(factors', factors, b) /\ SameRows(codes', codes, b)
  BY <1>1, OtherRows DEF SameRows
<1>10. /\ Book!Becomes(a)
       /\ ReadAccounts'[a] = AccountOf(accounts[a], ListFactors(a)', ListRecoveryCodes(a)')
  BY <1>9, OneBecomes
<1>11. ReadAccounts[a] = AccountOf(accounts[a], ListFactors(a), ListRecoveryCodes(a))
  BY AccountViews DEF ReadAccounts
<1>12. ListFactors(a)' = ListFactors(a)
  BY DEF ListFactors, Stored
<1>13. /\ ReadAccounts[a].codes = ListRecoveryCodes(a)
       /\ ReadAccounts'[a].codes = ListRecoveryCodes(a)'
       /\ ReadAccounts'[a] = [ReadAccounts[a] EXCEPT !.codes = ListRecoveryCodes(a)']
  BY <1>10, <1>11, <1>12 DEF AccountOf
<1>14. Book!Listed(a)
  BY AccountViews DEF Book!Listed, ReadAccounts
<1> QED BY <1>7, <1>8, <1>10, <1>13, <1>14, ProfilesSame

\* The columns of an account are rewritten.
LEMMA AccountChanges ==
    ASSUME IInv, BookInv, IInv', BookInv', NEW a \in Account, accounts[a] # None,
           NEW s \in Services, NEW w \in BOOLEAN,
           accounts' = [accounts EXCEPT ![a] = AccountUpdated(@, s, w)],
           UNCHANGED <<profiles, factors, codes, born>>
    PROVE  Book!EditAccount(a)
<1> DEFINE row == AccountUpdated(accounts[a], s, w)
<1>1. row # None /\ row.profile = accounts[a].profile
  <2>1. accounts[a] \in AccountRow /\ accounts[a].profile \in Profile
    BY Typed, AccountRowService
  <2> QED BY <2>1, AccountColumnsType DEF AccountUpdated
<1>2. accounts'[a] = row /\ \A b \in Account \ {a} : accounts'[b] = accounts[b]
  BY Typed
<1> HIDE DEF row
<1>3. \A b \in Account : SameRows(factors', factors, b) /\ SameRows(codes', codes, b)
  BY DEF SameRows
<1>4. /\ Book!Becomes(a)
      /\ ReadAccounts'[a] = AccountOf(row, ListFactors(a)', ListRecoveryCodes(a)')
  BY <1>1, <1>2, <1>3, OneBecomes
<1>5. ListFactors(a)' = ListFactors(a) /\ ListRecoveryCodes(a)' = ListRecoveryCodes(a)
  BY <1>3, FactorsSame, CodesSame
<1>6. ReadAccounts[a] = AccountOf(accounts[a], ListFactors(a), ListRecoveryCodes(a))
  BY AccountViews DEF ReadAccounts
<1>7. /\ ReadAccounts'[a].profile = ReadAccounts[a].profile
      /\ ReadAccounts'[a].factors = ReadAccounts[a].factors
      /\ ReadAccounts'[a].codes = ReadAccounts[a].codes
  BY <1>1, <1>4, <1>5, <1>6 DEF AccountOf
<1>8. Book!Listed(a)
  BY AccountViews DEF Book!Listed, ReadAccounts
<1> QED BY <1>4, <1>7, <1>8, ProfilesSame DEF Book!EditAccount

\* A table that only gains rows of `a` keeps the rows of the others.
LEMMA ExtendsOthers ==
    ASSUME NEW S, NEW new, NEW old, DOMAIN new = S, DOMAIN old = S,
           NEW a, NEW b, a # b, Extends(new, old, a)
    PROVE  SameRows(new, old, b)
BY DEF Extends, SameRows, Rows, Stored

\* The account of a transaction appears with all its pieces at the commit.
LEMMA CommitIsNewAccount ==
    ASSUME IInv, BookInv, IInv', BookInv', NEW a \in Account, a = tx.account, Commit
    PROVE  Book!NewAccount(a)
<1>1. /\ ~ Idle /\ tx # NoTx /\ a \in tx.written
      /\ accounts' = tx.accounts /\ factors' = tx.factors /\ codes' = tx.codes
      /\ born' = born \cup tx.written /\ UNCHANGED profiles
  BY DEF Commit, Idle
<1>2. /\ a \in Account /\ a \notin born /\ accounts'[a] # None
      /\ \A b \in Account \ {a} : accounts'[b] = accounts[b]
  BY <1>1, TxTyped
<1>3. /\ DOMAIN factors' = Factor /\ DOMAIN factors = Factor
      /\ DOMAIN codes' = Code /\ DOMAIN codes = Code
  BY Typed DEF IInv, TypeOK
<1>4. /\ Extends(factors', factors, a) /\ Extends(codes', codes, a)
      /\ tx.written \cap born = {}
      /\ {a} \cup tx.written = {a} \cup Rows(factors', a) \cup Rows(codes', a)
  BY <1>1 DEF BookInv, TxAdds
<1>5. ASSUME NEW b \in Account \ {a}
      PROVE  SameRows(factors', factors, b) /\ SameRows(codes', codes, b)
  BY <1>3, <1>4, ExtendsOthers
<1>6. /\ Book!Becomes(a)
      /\ ReadAccounts'[a] = AccountOf(accounts'[a], ListFactors(a)', ListRecoveryCodes(a)')
  <2>1. \A b \in Account \ {a} : /\ accounts'[b] = accounts[b]
                                 /\ SameRows(factors', factors, b)
                                 /\ SameRows(codes', codes, b)
    BY <1>2, <1>5
  <2>2. a \in Account /\ accounts'[a] # None
    BY <1>2
  <2> QED BY <2>1, <2>2, OneBecomes
<1>7. ReadProfiles' = ReadProfiles
  BY <1>1, ProfilesSame
<1>8. ReadProfiles[ReadAccounts'[a].profile] # None
  <2>1. accounts'[a] \in AccountRow /\ a \in Stored(accounts')
    BY <1>2 DEF IInv, TypeOK, Stored
  <2>2. accounts'[a].profile \in Profile /\ profiles[accounts'[a].profile] # None
    BY <1>1, <2>1, AccountRowService DEF IInv, Whole, Owned
  <2>3. ReadAccounts'[a].profile = accounts'[a].profile
    BY <1>6 DEF AccountOf
  <2> QED BY <2>2, <2>3, ProfileViewType
<1>9. /\ DOMAIN ReadAccounts'[a].factors = Rows(factors', a)
      /\ DOMAIN ReadAccounts'[a].codes = Rows(codes', a)
  <2>1. /\ ReadAccounts'[a].factors = ListFactors(a)'
        /\ ReadAccounts'[a].codes = ListRecoveryCodes(a)'
    BY <1>6 DEF AccountOf
  <2>2. ListFactors(a)' = [f \in Rows(factors', a) |-> FactorOf(factors'[f])]
    BY DEF ListFactors, Rows
  <2>3. ListRecoveryCodes(a)' = [c \in Rows(codes', a) |-> CodeOf(codes'[c])]
    BY DEF ListRecoveryCodes, Rows
  <2> QED BY <2>1, <2>2, <2>3
<1>10. (Rows(factors', a) \cup Rows(codes', a)) \cap born = {}
  BY <1>2, <1>4
<1>11. born' = born \cup {a} \cup (Rows(factors', a) \cup Rows(codes', a))
  BY <1>1, <1>4
<1> QED BY <1>2, <1>6, <1>7, <1>8, <1>9, <1>10, <1>11 DEF Book!NewAccount

LEMMA ProfileSteps ==
    ASSUME IInv, IInv', BookInv, NEW p \in Profile
    PROVE  /\ CreateProfile(p) => Book!NewProfile(p)
           /\ UpdateProfile(p) => Book!EditProfile(p)
           /\ DeleteProfile(p) => Book!DropProfile(p)
<1>0. /\ ReadProfiles = [q \in Profile |-> IF profiles[q] = None THEN None ELSE ProfileOf(profiles[q])]
      /\ ReadProfiles' = [q \in Profile |-> IF profiles'[q] = None THEN None ELSE ProfileOf(profiles'[q])]
  BY ProfileViews, ProfileViewsNext
<1>1. ASSUME NEW n \in Name, NEW v \in Selections,
             profiles' = [profiles EXCEPT ![p] = ProfileColumns(n, v, p)]
      PROVE  /\ ReadProfiles' = [ReadProfiles EXCEPT ![p] = ReadProfiles'[p]]
             /\ ReadProfiles'[p] \in Book!ProfileValue
             /\ ReadProfiles'[p].dir = p
  <2>1. /\ profiles'[p] = ProfileColumns(n, v, p) /\ ProfileColumns(n, v, p) # None
        /\ \A q \in Profile \ {p} : profiles'[q] = profiles[q]
    BY <1>1, ProfileColumnsType DEF IInv, TypeOK
  <2>2. ReadProfiles'[p] = [name |-> n, version |-> v, dir |-> p]
    BY <1>0, <2>1, ProfileDecoded
  <2>3. ReadProfiles'[p] \in Book!ProfileValue
    BY <2>2, ProfileDecoded
  <2> QED BY <1>0, <2>1, <2>2, <2>3
<1>2. ASSUME UNCHANGED <<accounts, factors, codes>> PROVE ReadAccounts' = ReadAccounts
  BY <1>2 DEF ReadAccounts, GetAccount, ListFactors, ListRecoveryCodes, Stored
<1>3. ASSUME CreateProfile(p) PROVE Book!NewProfile(p)
  <2>1. PICK n \in Name, v \in Selections :
           profiles' = [profiles EXCEPT ![p] = ProfileColumns(n, v, p)]
    BY <1>3 DEF CreateProfile
  <2> QED BY <1>1, <1>2, <1>3, <2>1 DEF CreateProfile, Book!NewProfile, Book!Birth
<1>4. ASSUME UpdateProfile(p) PROVE Book!EditProfile(p)
  <2>1. profiles[p] # None /\ profiles[p].dir = p
    BY <1>4 DEF UpdateProfile, IInv, Whole, DirsAreIds, Stored, TypeOK
  <2>2. PICK n \in Name, v \in Selections :
           profiles' = [profiles EXCEPT ![p] = ProfileColumns(n, v, p)]
    BY <1>4, <2>1 DEF UpdateProfile, ProfileUpdated
  <2>3. ReadProfiles[p] # None /\ ReadProfiles[p].dir = p
    <3>1. ReadProfiles[p] = ProfileOf(profiles[p])
      BY <1>0, <2>1
    <3> QED BY <2>1, <3>1, ProfileViewType DEF ProfileOf
  <2> QED BY <1>1, <1>2, <1>4, <2>2, <2>3 DEF UpdateProfile, Book!EditProfile
<1>5. ASSUME DeleteProfile(p) PROVE Book!DropProfile(p)
  <2> DEFINE gone == ListAccounts(p)
  <2>1. /\ profiles' = Without(profiles, {p}) /\ accounts' = Without(accounts, gone)
        /\ factors' = Cascaded(factors, gone) /\ codes' = Cascaded(codes, gone)
        /\ UNCHANGED born
    BY <1>5 DEF DeleteProfile
  <2>2. gone \in SUBSET Account
    BY Typed DEF ListAccounts, Stored
  <2>3. ReadAccounts' = [a \in Account |-> IF a \in gone THEN None ELSE ReadAccounts[a]]
    BY <2>1, <2>2, Cascades
  <2>4. ASSUME NEW a \in Account
        PROVE  a \in gone <=> ReadAccounts[a] # None /\ ReadAccounts[a].profile = p
    <3>1. CASE accounts[a] = None
      BY <3>1 DEF ReadAccounts, GetAccount, ListAccounts, Stored
    <3>2. CASE accounts[a] # None
      <4>1. ReadAccounts[a] = AccountOf(accounts[a], ListFactors(a), ListRecoveryCodes(a))
        BY <3>2 DEF ReadAccounts, GetAccount
      <4>2. ReadAccounts[a].profile = accounts[a].profile
        BY <4>1 DEF AccountOf
      <4>3. a \in gone <=> accounts[a].profile = p
        BY <3>2, Typed DEF ListAccounts, Stored
      <4>4. ReadAccounts[a] # None
        BY <3>2, AccountViews DEF ReadAccounts
      <4> QED BY <4>2, <4>3, <4>4
    <3> QED BY <3>1, <3>2
  <2>5. ReadProfiles' = [ReadProfiles EXCEPT ![p] = None]
    BY <1>0, <2>1 DEF Without, IInv, TypeOK
  <2> HIDE DEF gone
  <2> QED BY <2>1, <2>3, <2>4, <2>5 DEF Book!DropProfile, Book!Listed
<1> QED BY <1>3, <1>4, <1>5

\* What one row of `factors` does to its account.
LEMMA FactorIsChanged ==
    ASSUME IInv, BookInv, IInv', BookInv', NEW a \in Account, NEW f \in Factor,
           accounts[a] # None, UNCHANGED <<profiles, accounts, codes>>,
           \A g \in Factor \ {f} : factors'[g] = factors[g],
           factors[f] = None \/ factors[f].account = a,
           factors'[f] = None \/ factors'[f].account = a,
           NEW old, old = FactorOf(factors[f]), NEW new, new = FactorOf(factors'[f]),
           \/ factors'[f] # None /\ f \notin born /\ born' = born \cup {f}
           \/ factors[f] # None /\ factors'[f] = None /\ born' = born
           \/ /\ factors[f] # None /\ factors'[f] # None /\ born' = born
              /\ \/ new = [old EXCEPT !.note = new.note]
                 \/ old.kind = "hotp" /\ new = [old EXCEPT !.counter = new.counter]
    PROVE  Book!ChangeFactor(a, f)
<1> DEFINE fs == ListFactors(a)
           gs == ListFactors(a)'
<1>1. /\ Book!Listed(a) /\ Book!Becomes(a) /\ ReadProfiles' = ReadProfiles
      /\ ReadAccounts[a].factors = fs /\ ReadAccounts'[a].factors = gs
      /\ ReadAccounts'[a] = [ReadAccounts[a] EXCEPT !.factors = gs]
      /\ Book!SameElsewhere(fs, gs, f)
      /\ f \in DOMAIN fs <=> factors[f] # None
      /\ f \in DOMAIN gs <=> factors'[f] # None
      /\ factors[f] # None => fs[f] = old
      /\ factors'[f] # None => gs[f] = new
  BY FactorChanges
<1> HIDE DEF fs, gs
<1>2. \/ f \in DOMAIN gs /\ Book!Birth(f)
      \/ f \in DOMAIN fs \ DOMAIN gs /\ UNCHANGED born
      \/ /\ f \in DOMAIN fs \cap DOMAIN gs /\ UNCHANGED born
         /\ \/ gs[f] = [fs[f] EXCEPT !.note = gs[f].note]
            \/ fs[f].kind = "hotp" /\ gs[f] = [fs[f] EXCEPT !.counter = gs[f].counter]
  BY <1>1 DEF Book!Birth
<1> QED BY <1>1, <1>2 DEF Book!ChangeFactor

\* The same of one row of `codes`.
LEMMA CodeIsChanged ==
    ASSUME IInv, BookInv, IInv', BookInv', NEW a \in Account, NEW c \in Code,
           accounts[a] # None, UNCHANGED <<profiles, accounts, factors>>,
           \A d \in Code \ {c} : codes'[d] = codes[d],
           codes[c] = None \/ codes[c].account = a,
           codes'[c] = None \/ codes'[c].account = a,
           NEW old, old = CodeOf(codes[c]), NEW new, new = CodeOf(codes'[c]),
           \/ codes'[c] # None /\ c \notin born /\ born' = born \cup {c}
           \/ codes[c] # None /\ codes'[c] = None /\ born' = born
           \/ /\ codes[c] # None /\ codes'[c] # None /\ born' = born
              /\ ~ old.mark.used /\ new = [old EXCEPT !.mark = new.mark]
    PROVE  Book!ChangeCode(a, c)
<1> DEFINE cs == ListRecoveryCodes(a)
           ds == ListRecoveryCodes(a)'
<1>1. /\ Book!Listed(a) /\ Book!Becomes(a) /\ ReadProfiles' = ReadProfiles
      /\ ReadAccounts[a].codes = cs /\ ReadAccounts'[a].codes = ds
      /\ ReadAccounts'[a] = [ReadAccounts[a] EXCEPT !.codes = ds]
      /\ Book!SameElsewhere(cs, ds, c)
      /\ c \in DOMAIN cs <=> codes[c] # None
      /\ c \in DOMAIN ds <=> codes'[c] # None
      /\ codes[c] # None => cs[c] = old
      /\ codes'[c] # None => ds[c] = new
  BY CodeChanges
<1> HIDE DEF cs, ds
<1>2. \/ c \in DOMAIN ds /\ Book!Birth(c)
      \/ c \in DOMAIN cs \ DOMAIN ds /\ UNCHANGED born
      \/ /\ c \in DOMAIN cs \cap DOMAIN ds /\ UNCHANGED born
         /\ ~ cs[c].mark.used /\ ds[c] = [cs[c] EXCEPT !.mark = ds[c].mark]
  BY <1>1 DEF Book!Birth
<1> QED BY <1>1, <1>2 DEF Book!ChangeCode

\* A stored factor belongs to an account that is stored.
LEMMA FactorOwner ==
    ASSUME IInv, BookInv, NEW f \in Factor, factors[f] # None
    PROVE  /\ factors[f] \in FactorRow /\ factors[f].counter \in U64 \cup {None}
           /\ factors[f].account \in Account /\ accounts[factors[f].account] # None
<1>1. factors[f] \in FactorRow /\ f \in Stored(factors)
  BY Typed DEF Stored
<1> QED BY <1>1, Typed DEF Owned, BookInv, Decodable, FactorRow

LEMMA CodeOwner ==
    ASSUME IInv, BookInv, NEW c \in Code, codes[c] # None
    PROVE  /\ codes[c] \in CodeRow /\ (codes[c].used = 0 <=> codes[c].marked = None)
           /\ codes[c].account \in Account /\ accounts[codes[c].account] # None
<1>1. codes[c] \in CodeRow /\ c \in Stored(codes)
  BY Typed DEF Stored
<1> QED BY <1>1, Typed DEF Owned, BookInv, Decodable, CodeRow

LEMMA FactorSteps ==
    ASSUME IInv, BookInv, IInv', BookInv', NEW f \in Factor
    PROVE  /\ UpdateFactor(f) \/ SetHotpCounter(f) \/ DeleteFactor(f) =>
                Book!ChangeFactor(factors[f].account, f)
           /\ \A a \in Account : AddFactor(f, a) => Book!ChangeFactor(a, f)
<1> DEFINE a == factors[f].account
<1>1. ASSUME UpdateFactor(f) PROVE Book!ChangeFactor(a, f)
  <2>1. factors[f] # None /\ UNCHANGED <<profiles, accounts, codes, born>>
    BY <1>1 DEF UpdateFactor
  <2>2. PICK n \in Note : factors' = [factors EXCEPT ![f] = FactorUpdated(@, n)]
    BY <1>1 DEF UpdateFactor
  <2> DEFINE row == FactorUpdated(factors[f], n)
  <2>3. 0 \in U64 /\ Fits(0)
    BY NumbersAssumption DEF U64, Fits
  <2>4. /\ row \in FactorRow
        /\ row = [account |-> a, kind |-> factors[f].kind, note |-> n,
                  counter |-> factors[f].counter]
    BY <2>1, <2>3, FactorOwner, FactorEdits
  <2>5. factors'[f] = row /\ \A g \in Factor \ {f} : factors'[g] = factors[g]
    BY <2>2, Typed
  <2>6. FactorOf(factors[f]) = [kind |-> factors[f].kind, note |-> factors[f].note,
                                counter |-> factors[f].counter]
    BY <2>1, FactorOwner, FactorView
  <2> HIDE DEF row
  <2>7. row.counter \in U64 \cup {None} /\ row # None /\ row.account = a
    BY <2>1, <2>4, FactorOwner, NoneAssumption
  <2>8. FactorOf(row) = [kind |-> factors[f].kind, note |-> n, counter |-> factors[f].counter]
    BY <2>4, <2>7, FactorView
  <2>9. FactorOf(row) = [FactorOf(factors[f]) EXCEPT !.note = FactorOf(row).note]
    BY <2>6, <2>8
  <2>10. a \in Account /\ accounts[a] # None
    BY <2>1, FactorOwner
  <2> HIDE DEF a
  <2>11. factors[f].account = a
    BY DEF a
  <2> QED BY <2>1, <2>5, <2>7, <2>9, <2>10, <2>11, FactorIsChanged
<1>2. ASSUME SetHotpCounter(f) PROVE Book!ChangeFactor(a, f)
  <2>1. /\ factors[f] # None /\ factors[f].kind = "hotp"
        /\ UNCHANGED <<profiles, accounts, codes, born>>
    BY <1>2 DEF SetHotpCounter
  <2>2. PICK n \in U64 : Fits(n) /\ factors' = [factors EXCEPT ![f].counter = n]
    BY <1>2 DEF SetHotpCounter
  <2> DEFINE row == [factors[f] EXCEPT !.counter = n]
  <2>3. PICK note \in Note : TRUE
    BY <2>1, FactorOwner DEF FactorRow
  <2>4. /\ row \in FactorRow
        /\ row = [account |-> a, kind |-> factors[f].kind, note |-> factors[f].note,
                  counter |-> n]
    BY <2>1, <2>2, <2>3, FactorOwner, FactorEdits
  <2>5. factors'[f] = row /\ \A g \in Factor \ {f} : factors'[g] = factors[g]
    BY <2>2, Typed
  <2>6. FactorOf(factors[f]) = [kind |-> factors[f].kind, note |-> factors[f].note,
                                counter |-> factors[f].counter]
    BY <2>1, FactorOwner, FactorView
  <2> HIDE DEF row
  <2>7. row.counter \in U64 \cup {None} /\ row # None /\ row.account = a
    BY <2>2, <2>4, NoneAssumption
  <2>8. FactorOf(row) = [kind |-> factors[f].kind, note |-> factors[f].note, counter |-> n]
    BY <2>4, <2>7, FactorView
  <2>9. /\ FactorOf(row) = [FactorOf(factors[f]) EXCEPT !.counter = FactorOf(row).counter]
        /\ FactorOf(factors[f]).kind = "hotp"
    BY <2>1, <2>6, <2>8
  <2>10. a \in Account /\ accounts[a] # None
    BY <2>1, FactorOwner
  <2> HIDE DEF a
  <2>11. factors[f].account = a
    BY DEF a
  <2> QED BY <2>1, <2>5, <2>7, <2>9, <2>10, <2>11, FactorIsChanged
<1>3. ASSUME DeleteFactor(f) PROVE Book!ChangeFactor(a, f)
  <2>1. /\ factors[f] # None /\ UNCHANGED <<profiles, accounts, codes, born>>
        /\ factors' = Without(factors, {f})
    BY <1>3 DEF DeleteFactor, GetFactor
  <2>2. factors'[f] = None /\ \A g \in Factor \ {f} : factors'[g] = factors[g]
    BY <2>1, Typed DEF Without
  <2>3. a \in Account /\ accounts[a] # None
    BY <2>1, FactorOwner
  <2> HIDE DEF a
  <2>4. factors[f].account = a
    BY DEF a
  <2> QED BY <2>1, <2>2, <2>3, <2>4, FactorIsChanged
<1>4. ASSUME NEW b \in Account, AddFactor(f, b) PROVE Book!ChangeFactor(b, f)
  <2>1. /\ f \notin born /\ accounts[b] # None /\ born' = born \cup {f}
        /\ UNCHANGED <<profiles, accounts, codes>>
    BY <1>4 DEF AddFactor, AccountExists
  <2>2. PICK k \in Kind, n \in Note : \E c \in Counters(k) :
           /\ FactorColumns(b, k, n, c) # None
           /\ factors' = [factors EXCEPT ![f] = FactorColumns(b, k, n, c)]
    BY <1>4 DEF AddFactor
  <2>3. PICK c \in Counters(k) :
           /\ FactorColumns(b, k, n, c) # None
           /\ factors' = [factors EXCEPT ![f] = FactorColumns(b, k, n, c)]
    BY <2>2
  <2>4. /\ factors'[f] # None /\ factors'[f].account = b
        /\ \A g \in Factor \ {f} : factors'[g] = factors[g]
    BY <2>3, Typed DEF FactorColumns
  <2>5. factors[f] = None
    BY <2>1, Typed DEF BookInv, Stored
  <2> QED BY <2>1, <2>4, <2>5, FactorIsChanged
<1> QED BY <1>1, <1>2, <1>3, <1>4

LEMMA MarkReplaced ==
    ASSUME NEW p, NEW m, NEW n
    PROVE  [[position |-> p, mark |-> m] EXCEPT !.mark = n] = [position |-> p, mark |-> n]
OBVIOUS

LEMMA CodeSteps ==
    ASSUME IInv, BookInv, IInv', BookInv', NEW c \in Code
    PROVE  /\ MarkRecoveryCodeUsed(c) \/ DeleteRecoveryCode(c) =>
                Book!ChangeCode(codes[c].account, c)
           /\ \A a \in Account : AddRecoveryCode(c, a) => Book!ChangeCode(a, c)
<1> DEFINE a == codes[c].account
<1>1. ASSUME MarkRecoveryCodeUsed(c) PROVE Book!ChangeCode(a, c)
  <2>1. /\ codes[c] # None /\ codes[c].used = 0
        /\ UNCHANGED <<profiles, accounts, factors, born>>
    BY <1>1 DEF MarkRecoveryCodeUsed
  <2>2. PICK t \in Time : codes' = [codes EXCEPT ![c] = CodeMarked(@, t)]
    BY <1>1 DEF MarkRecoveryCodeUsed
  <2> DEFINE row == CodeMarked(codes[c], t)
  <2>3. /\ row \in CodeRow /\ row.used = 1 /\ row.marked = t /\ t # None
        /\ row.account = a /\ row.position = codes[c].position
    BY <2>1, CodeOwner, CodeMarks
  <2>4. codes'[c] = row /\ \A d \in Code \ {c} : codes'[d] = codes[d]
    BY <2>2, Typed
  <2>5. /\ CodeOf(codes[c]) =
              [position |-> codes[c].position,
               mark |-> [used |-> codes[c].used = 1, at |-> codes[c].marked]]
        /\ ~ (codes[c].used = 1)
    BY <2>1 DEF CodeOf
  <2> HIDE DEF row
  <2>6. row # None
    BY <2>3, NoneAssumption
  <2>7. CodeOf(row) = [position |-> codes[c].position,
                       mark |-> [used |-> row.used = 1, at |-> row.marked]]
    BY <2>3 DEF CodeOf
  <2>8. CodeOf(row) = [CodeOf(codes[c]) EXCEPT !.mark = CodeOf(row).mark]
    <3> DEFINE m == [used |-> codes[c].used = 1, at |-> codes[c].marked]
               n == [used |-> row.used = 1, at |-> row.marked]
    <3>1. /\ CodeOf(codes[c]) = [position |-> codes[c].position, mark |-> m]
          /\ CodeOf(row) = [position |-> codes[c].position, mark |-> n]
      BY <2>5, <2>7
    <3> HIDE DEF m, n
    <3> QED BY <3>1, MarkReplaced
  <2>9. ~ CodeOf(codes[c]).mark.used
    <3> DEFINE used == codes[c].used = 1
    <3>1. CodeOf(codes[c]) = [position |-> codes[c].position,
                              mark |-> [used |-> used, at |-> codes[c].marked]]
      BY <2>5
    <3>2. used = FALSE
      BY <2>5
    <3> HIDE DEF used
    <3>3. CodeOf(codes[c]).mark.used = FALSE
      BY <3>1, <3>2
    <3> QED BY <3>3
  <2>10. a \in Account /\ accounts[a] # None
    BY <2>1, CodeOwner
  <2> HIDE DEF a
  <2>11. codes[c].account = a
    BY DEF a
  <2> QED BY <2>1, <2>3, <2>4, <2>6, <2>8, <2>9, <2>10, <2>11, CodeIsChanged
<1>2. ASSUME DeleteRecoveryCode(c) PROVE Book!ChangeCode(a, c)
  <2>1. /\ codes[c] # None /\ UNCHANGED <<profiles, accounts, factors, born>>
        /\ codes' = Without(codes, {c})
    BY <1>2 DEF DeleteRecoveryCode, RecoveryCodeOwner
  <2>2. codes'[c] = None /\ \A d \in Code \ {c} : codes'[d] = codes[d]
    BY <2>1, Typed DEF Without
  <2>3. a \in Account /\ accounts[a] # None
    BY <2>1, CodeOwner
  <2> HIDE DEF a
  <2>4. codes[c].account = a
    BY DEF a
  <2> QED BY <2>1, <2>2, <2>3, <2>4, CodeIsChanged
<1>3. ASSUME NEW b \in Account, AddRecoveryCode(c, b) PROVE Book!ChangeCode(b, c)
  <2>1. /\ c \notin born /\ accounts[b] # None /\ born' = born \cup {c}
        /\ UNCHANGED <<profiles, accounts, factors>>
    BY <1>3 DEF AddRecoveryCode, AccountExists
  <2>2. PICK n \in Position : codes' = [codes EXCEPT ![c] = CodeColumns(b, n)]
    BY <1>3 DEF AddRecoveryCode
  <2>3. CodeColumns(b, n) \in CodeRow /\ CodeColumns(b, n).account = b
    BY CodeColumnsType DEF CodeColumns
  <2>4. /\ codes'[c] # None /\ codes'[c].account = b
        /\ \A d \in Code \ {c} : codes'[d] = codes[d]
    BY <2>2, <2>3, Typed, NoneAssumption
  <2>5. codes[c] = None
    BY <2>1, Typed DEF BookInv, Stored
  <2> QED BY <2>1, <2>4, <2>5, CodeIsChanged
<1> QED BY <1>1, <1>2, <1>3

LEMMA AccountSteps ==
    ASSUME IInv, BookInv, IInv', BookInv'
    PROVE  /\ \A a \in Account : SetPassword(a) \/ DeletePassword(a) => Book!EditAccount(a)
           /\ \A a \in Account : DeleteAccount(a) => Book!DropAccount(a)
           /\ \A g \in Page : UpdateAccount(g) =>
                 \E a \in Account : Book!EditAccount(a)
<1>1. ASSUME NEW a \in Account, NEW w \in BOOLEAN, ChangePassword(a, w)
      PROVE  Book!EditAccount(a)
  <2>1. /\ accounts[a] # None /\ UNCHANGED <<profiles, factors, codes, born>>
        /\ accounts' = [accounts EXCEPT ![a] = AccountUpdated(@, GetAccount(a).service, w)]
    BY <1>1 DEF ChangePassword
  <2>2. GetAccount(a).service \in Services
    <3>1. accounts[a] \in AccountRow
      BY <2>1, Typed
    <3> QED BY <2>1, <3>1, AccountRowService DEF GetAccount, AccountOf
  <2> QED BY <2>1, <2>2, AccountChanges
<1>2. ASSUME NEW a \in Account, SetPassword(a) \/ DeletePassword(a)
      PROVE  Book!EditAccount(a)
  BY <1>1, <1>2 DEF SetPassword, DeletePassword
<1>3. ASSUME NEW a \in Account, DeleteAccount(a) PROVE Book!DropAccount(a)
  <2>1. /\ accounts' = Without(accounts, {a}) /\ factors' = Cascaded(factors, {a})
        /\ codes' = Cascaded(codes, {a}) /\ UNCHANGED <<profiles, born>>
    BY <1>3 DEF DeleteAccount
  <2>2. ReadAccounts' = [b \in Account |-> IF b \in {a} THEN None ELSE ReadAccounts[b]]
    BY <2>1, Cascades
  <2>3. ReadAccounts' = [ReadAccounts EXCEPT ![a] = None]
    BY <2>2 DEF ReadAccounts
  <2> QED BY <2>1, <2>3, ProfilesSame DEF Book!DropAccount
<1>4. ASSUME NEW g \in Page, UpdateAccount(g)
      PROVE  \E a \in Account : Book!EditAccount(a)
  <2>1. copies[g].id \in Account /\ copies[g].password \in BOOLEAN
    BY <1>4 DEF UpdateAccount, IInv, TypeOK
  <2>2. /\ accounts[copies[g].id] # None /\ UNCHANGED <<profiles, factors, codes, born>>
        /\ \E s \in Services :
              accounts' = [accounts EXCEPT ![copies[g].id] =
                             AccountUpdated(@, s, copies[g].password)]
    BY <1>4 DEF UpdateAccount
  <2>3. PICK a \in Account, w \in BOOLEAN : a = copies[g].id /\ w = copies[g].password
    BY <2>1
  <2>4. PICK s \in Services : accounts' = [accounts EXCEPT ![a] = AccountUpdated(@, s, w)]
    BY <2>2, <2>3
  <2> QED BY <2>2, <2>3, <2>4, AccountChanges
<1> QED BY <1>2, <1>3, <1>4

LEMMA BookStep == IInv /\ BookInv /\ [Next]_vars => [Book!Next]_(Book!bvars)
<1> SUFFICES ASSUME IInv, BookInv, [Next]_vars PROVE [Book!Next]_(Book!bvars)
  OBVIOUS
<1>1. IInv' /\ BookInv'
  BY Inductive, BookInductive
<1>2. ASSUME UNCHANGED <<tables, born>> PROVE [Book!Next]_(Book!bvars)
  BY <1>2, Stutters DEF tables
<1>3. CASE UNCHANGED vars
  BY <1>2, <1>3 DEF vars, tables
<1>4. ASSUME NEW p \in Profile, CreateProfile(p) \/ UpdateProfile(p) \/ DeleteProfile(p)
      PROVE  Book!Next
  BY <1>1, <1>4, ProfileSteps DEF Book!Next
<1>5. ASSUME NEW a \in Account, NEW p \in Profile, BeginAccount(a, p)
      PROVE  [Book!Next]_(Book!bvars)
  BY <1>2, <1>5 DEF BeginAccount
<1>6. CASE WriteAccount \/ WriteFactor \/ WriteCode \/ Rollback
  <2>1. CASE WriteAccount \/ Rollback
    BY <1>2, <2>1 DEF WriteAccount, Wrote, Rollback
  <2>2. CASE WriteFactor
    <3>1. PICK f \in tx.todoFactors, k \in Kind, n \in Note : \E c \in Counters(k) :
             LET row == FactorColumns(tx.account, k, n, c)
             IN IF row = None
                THEN Rollback
                ELSE Wrote(tx.accounts, [tx.factors EXCEPT ![f] = row], tx.codes, {f})
      BY <2>2 DEF WriteFactor
    <3> QED BY <1>2, <3>1 DEF Wrote, Rollback
  <2>3. CASE WriteCode
    BY <1>2, <2>3 DEF WriteCode, Wrote, Rollback
  <2> QED BY <1>6, <2>1, <2>2, <2>3
<1>7. CASE Commit
  <2>1. PICK a \in Account : a = tx.account
    BY <1>7, TxTyped DEF Commit
  <2> QED BY <1>1, <1>7, <2>1, CommitIsNewAccount DEF Book!Next
<1>8. ASSUME NEW a \in Account, SetPassword(a) \/ DeletePassword(a) \/ DeleteAccount(a)
      PROVE  Book!Next
  BY <1>1, <1>8, AccountSteps DEF Book!Next
<1>9. ASSUME NEW g \in Page, UpdateAccount(g) PROVE Book!Next
  BY <1>1, <1>9, AccountSteps DEF Book!Next
<1>10. ASSUME NEW g \in Page, NEW a \in Account, ReadAccount(g, a)
       PROVE  [Book!Next]_(Book!bvars)
  BY <1>2, <1>10 DEF ReadAccount
<1>11. ASSUME NEW f \in Factor, UpdateFactor(f) \/ SetHotpCounter(f) \/ DeleteFactor(f)
       PROVE  Book!Next
  <2>1. factors[f] # None
    BY <1>11 DEF UpdateFactor, SetHotpCounter, DeleteFactor, GetFactor
  <2> QED BY <1>1, <1>11, <2>1, FactorOwner, FactorSteps DEF Book!Next
<1>12. ASSUME NEW c \in Code, MarkRecoveryCodeUsed(c) \/ DeleteRecoveryCode(c)
       PROVE  Book!Next
  <2>1. codes[c] # None
    BY <1>12 DEF MarkRecoveryCodeUsed, DeleteRecoveryCode, RecoveryCodeOwner
  <2> QED BY <1>1, <1>12, <2>1, CodeOwner, CodeSteps DEF Book!Next
<1>13. ASSUME NEW a \in Account, NEW f \in Factor, AddFactor(f, a) PROVE Book!Next
  BY <1>1, <1>13, FactorSteps DEF Book!Next
<1>14. ASSUME NEW a \in Account, NEW c \in Code, AddRecoveryCode(c, a) PROVE Book!Next
  BY <1>1, <1>14, CodeSteps DEF Book!Next
<1>15. CASE Stop
  BY <1>2, <1>15 DEF Stop
<1> QED BY <1>3, <1>4, <1>5, <1>6, <1>7, <1>8, <1>9, <1>10, <1>11, <1>12, <1>13, <1>14, <1>15
        DEF Next

\* Every row that is ever stored can be decoded again, under an id that is
\* on record, and an open transaction only adds to the tables it started
\* from: no other command's row is undone by its commit.
THEOREM RowsDecodable == Spec => []BookInv
<1> QED BY Initially, BookInitially, Inductive, BookInductive, PTL DEF Spec

\* The tables implement the book: an account is read back as one value,
\* which appears, is edited and disappears as the book allows.
THEOREM Refinement == Spec => ImplementsBook
<1>1. Init => Book!Init
  BY DEF Init, Book!Init, ReadProfiles, ListProfiles, GetProfile, Stored, ReadAccounts,
         GetAccount
<1> QED BY <1>1, BookStep, Invariance, RowsDecodable, PTL DEF Spec, ImplementsBook, Book!Spec
=============================================================================
