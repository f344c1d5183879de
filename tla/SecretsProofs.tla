--------------------------- MODULE SecretsProofs ---------------------------
(***************************************************************************)
(* The metadata rows and the vault agree except after interrupted services *)
(* and edits from stale copies, nothing but such an edit takes a reference *)
(* from a row before the value is purged, and no HOTP counter is used for  *)
(* two codes: for every set of ids and every bound.                        *)
(***************************************************************************)
EXTENDS Secrets, WellFoundedInduction, TLAPS

\* What each service in progress has done so far.
PasswordOpInv ==
    /\ op.at = "setPassword" => op.refs = {op.id} /\ op.id \in entries
    /\ op.at = "deletePassword" => op.refs = {op.id} /\ op.id \notin entries

FactorOpInv ==
    /\ op.at = "importFactor" =>
          /\ op.refs = {op.id} /\ op.id \in entries
          /\ factorOf[op.id] = NoRow
          /\ \A s \in shown : s[1] # op.id
    /\ op.at = "deleteFactor" =>
          /\ factorOf[op.id] # NoRow
          /\ op.refs = IF kind[op.id] = "external" THEN {} ELSE {op.id}
          /\ op.refs \cap entries = {}

CodeOpInv ==
    /\ op.at = "codeRow" =>
          op.refs = {op.id} /\ op.id \in entries /\ codeOf[op.id] = NoRow
    /\ op.at = "deleteCode" =>
          op.refs = {op.id} /\ op.id \notin entries /\ codeOf[op.id] # NoRow
    /\ op.at \in {"nextCode", "codeRow"} =>
          /\ op.next + op.left <= MaxPosition
          /\ \A m \in PositionsOf(op.account) : m < op.next

DeleteOpInv ==
    op.at = "deleteAccounts" => op.refs = RefsOf(op.owners) /\ op.refs \cap entries = {}

HotpOpInv ==
    /\ op.at = "advance" =>
          factorOf[op.id] # NoRow /\ kind[op.id] = "hotp" /\ counter[op.id] = op.counter
    /\ op.at = "return" =>
          /\ factorOf[op.id] # NoRow /\ kind[op.id] = "hotp"
          /\ counter[op.id] = op.counter + 1
          /\ \A s \in shown : s[1] = op.id => s[2] < op.counter

OpInv == PasswordOpInv /\ FactorOpInv /\ CodeOpInv /\ DeleteOpInv /\ HotpOpInv

\* A HOTP row is past every counter whose code was shown.
CountersPassed == \A s \in shown : kind[s[1]] = "hotp" => s[2] < counter[s[1]]

IInv == TypeOK /\ OpInv /\ StoresAgree /\ CountersPassed

-----------------------------------------------------------------------------

\* The empty workspace satisfies the inductive invariant.
LEMMA InitIInv == Init => IInv
<1> SUFFICES ASSUME Init PROVE IInv
  OBVIOUS
<1>1. op \in Op /\ op.at = "idle" /\ op.refs = {}
  BY DEF Init, Idle, Op
<1>2. TypeOK
  <2>1. counter \in [Factor -> 0..MaxCounter] /\ position \in [Code -> 0..MaxPosition]
    BY BoundAssumption DEF Init
  <2>2. shown \in SUBSET (Factor \X (0..MaxCounter))
    BY DEF Init
  <2>3. owner \in [Account -> Profile \cup {NoRow}]
    BY DEF Init
  <2>4. factorOf \in [Factor -> Owner] /\ codeOf \in [Code -> Owner] /\ kind \in [Factor -> Kinds]
    BY DEF Init, Owner, Kinds
  <2> QED
    BY <1>1, <2>1, <2>2, <2>3, <2>4 DEF Init, TypeOK, Copy, NoCopy
<1>3. OpInv
  BY <1>1 DEF OpInv, PasswordOpInv, FactorOpInv, CodeOpInv, DeleteOpInv, HotpOpInv
<1>4. RowRefs = {}
  BY DEF Init, RowRefs, SeedRefs, CodeRefs
<1>5. StoresAgree /\ CountersPassed
  BY <1>4 DEF Init, StoresAgree, CountersPassed
<1> QED
  BY <1>2, <1>3, <1>5 DEF IInv

\* The steps that leave the rows, the entries and `shown` alone, drop the
\* references of the service in progress into `unsettled`, and make it idle.
LEMMA StopIInv ==
  ASSUME IInv, op' = Idle, unlocked' \in BOOLEAN, copies' \in [Page -> Copy],
         unsettled' = unsettled \cup op.refs, UNCHANGED <<rows, entries, overwritten, shown>>
  PROVE  IInv'
<1>1. op.refs \subseteq Ref
  BY DEF IInv, TypeOK, Op, Idle
<1>2. TypeOK'
  BY <1>1 DEF IInv, TypeOK, Op, rows, histories
<1>3. OpInv'
  BY DEF OpInv, PasswordOpInv, FactorOpInv, CodeOpInv, DeleteOpInv, HotpOpInv, Idle
<1>4. StoresAgree'
  BY DEF IInv, StoresAgree, RowRefs, SeedRefs, CodeRefs, Idle, rows, histories
<1>5. CountersPassed'
  BY DEF IInv, CountersPassed, rows, histories
<1> QED
  BY <1>2, <1>3, <1>4, <1>5 DEF IInv

-----------------------------------------------------------------------------
(* What a service's steps have in common *)

RowsTyped ==
    /\ profiles \in SUBSET Profile
    /\ owner \in [Account -> Profile \cup {NoRow}]
    /\ passwordRef \in SUBSET Account
    /\ factorOf \in [Factor -> Owner]
    /\ kind \in [Factor -> Kinds]
    /\ counter \in [Factor -> 0..MaxCounter]
    /\ codeOf \in [Code -> Owner]
    /\ position \in [Code -> 0..MaxPosition]
    /\ copies \in [Page -> Copy]

\* The fields of the service in progress.
LEMMA OpFields ==
  ASSUME op \in Op
  PROVE  /\ op.refs \in SUBSET Ref
         /\ op.at \in {"setPassword", "deletePassword"} => op.id \in Account
         /\ op.at = "deleteAccounts" =>
               op.owners \in SUBSET Account /\ op.profiles \in SUBSET Profile
         /\ op.at \in {"advance", "return"} =>
               op.id \in Factor /\ op.counter \in 0..MaxCounter /\ op.refs = {}
         /\ op.at = "importFactor" =>
               /\ op.id \in Factor /\ op.account \in Account
               /\ op.kind \in {"totp", "hotp"} /\ op.counter \in 0..MaxCounter + 1
         /\ op.at = "deleteFactor" => op.id \in Factor
         /\ op.at = "deleteCode" => op.id \in Code
         /\ op.at = "nextCode" =>
               /\ op.account \in Account /\ op.next \in 0..MaxPosition /\ op.left \in 0..MaxBatch
               /\ op.refs = {}
         /\ op.at = "codeRow" =>
               /\ op.id \in Code /\ op.account \in Account /\ op.next \in 0..MaxPosition
               /\ op.left \in 1..MaxBatch
BY DEF Op, Idle

\* A step that writes no row and changes the vault only at the references it
\* takes up.
LEMMA BeginIInv ==
  ASSUME IInv, op.refs = {}, op' \in Op, OpInv',
         entries' \in SUBSET Ref, unlocked' \in BOOLEAN,
         \A r \in Ref : r \notin op'.refs => (r \in entries' <=> r \in entries),
         UNCHANGED <<rows, histories, shown>>
  PROVE  IInv'
<1>1. TypeOK'
  BY DEF IInv, TypeOK, rows, histories
<1>2. StoresAgree'
  BY DEF IInv, StoresAgree, RowRefs, SeedRefs, CodeRefs, rows, histories
<1>3. CountersPassed'
  BY DEF IInv, CountersPassed, rows, histories
<1> QED
  BY <1>1, <1>2, <1>3 DEF IInv

\* A step that settles the references it took up by writing rows.
LEMMA SettleIInv ==
  ASSUME IInv, RowsTyped', CountersPassed', op' \in Op, OpInv', op'.refs = {},
         \A r \in Ref : r \notin op.refs => (r \in RowRefs' <=> r \in RowRefs),
         \A r \in op.refs : r \in RowRefs' <=> r \in entries,
         unsettled' \in SUBSET unsettled, unsettled \ op.refs \in SUBSET unsettled',
         overwritten' = overwritten \ op.refs,
         UNCHANGED <<entries, unlocked, shown>>
  PROVE  IInv'
<1>1. TypeOK'
  BY DEF IInv, TypeOK, RowsTyped, histories
<1>2. StoresAgree'
  BY DEF IInv, StoresAgree
<1> QED
  BY <1>1, <1>2 DEF IInv

\* The same for the last step of a service.
LEMMA RowsWrittenIInv ==
  ASSUME IInv, RowsTyped', CountersPassed', RowsWritten,
         \A r \in Ref : r \notin op.refs => (r \in RowRefs' <=> r \in RowRefs),
         \A r \in op.refs : r \in RowRefs' <=> r \in entries
  PROVE  IInv'
<1>1. op' \in Op /\ op'.refs = {} /\ op'.at = "idle"
  BY DEF RowsWritten, Finished, Idle, Op
<1>2. OpInv'
  BY <1>1 DEF OpInv, PasswordOpInv, FactorOpInv, CodeOpInv, DeleteOpInv, HotpOpInv
<1> QED
  BY <1>1, <1>2, SettleIInv DEF RowsWritten, Finished

-----------------------------------------------------------------------------
(* One lemma for each group of operations *)

\* Creating a profile or an account touches no reference.
LEMMA CreateIInv ==
  ASSUME IInv, NEW p \in Profile, CreateProfile(p) \/ \E a \in Account : CreateAccount(a, p)
  PROVE  IInv'
<1>1. op = Idle /\ op.refs = {} /\ op' = Idle
  BY DEF CreateProfile, CreateAccount, Finished, Idle
<1>2. ASSUME RowsTyped',
             UNCHANGED <<passwordRef, factorRows, codeRows, entries, unlocked, histories, shown>>
      PROVE  IInv'
  <2>1. op' \in Op /\ op'.refs = {}
    BY <1>1 DEF Idle, Op
  <2>2. OpInv'
    BY <1>1 DEF OpInv, PasswordOpInv, FactorOpInv, CodeOpInv, DeleteOpInv, HotpOpInv, Idle
  <2>3. RowRefs' = RowRefs
    BY <1>2 DEF RowRefs, SeedRefs, CodeRefs, factorRows, codeRows, histories
  <2>4. CountersPassed'
    BY <1>2 DEF IInv, CountersPassed, factorRows
  <2> QED
    BY <1>1, <1>2, <2>1, <2>2, <2>3, <2>4, SettleIInv DEF histories
<1>3. CASE CreateProfile(p)
  <2>1. RowsTyped'
    BY <1>3 DEF IInv, TypeOK, RowsTyped, CreateProfile, factorRows, codeRows, histories
  <2> QED
    BY <1>2, <1>3, <2>1 DEF CreateProfile, Finished
<1>4. ASSUME NEW a \in Account, CreateAccount(a, p) PROVE IInv'
  <2>1. RowsTyped'
    BY <1>4 DEF IInv, TypeOK, RowsTyped, CreateAccount, factorRows, codeRows, histories, histories
  <2> QED
    BY <1>2, <1>4, <2>1 DEF CreateAccount, Finished
<1> QED
  BY <1>3, <1>4

\* What `Purge` does to the vault, whether or not there is anything to purge.
LEMMA PurgeEffect ==
  ASSUME IInv, NEW refs \in SUBSET Ref, NEW newOp, Purge(refs, newOp)
  PROVE  /\ entries' = entries \ refs
         /\ op' = newOp
        
         /\ unlocked' = unlocked
         /\ UNCHANGED <<rows, histories, shown>>
BY DEF Purge, MutatePayload

\* Starting to delete an account or a profile purges the values and changes
\* no row.
LEMMA BeginDeleteIInv ==
  ASSUME IInv, op = Idle, NEW owners \in SUBSET Account, NEW gone \in SUBSET Profile,
         Purge(RefsOf(owners), [at |-> "deleteAccounts", owners |-> owners,
                                refs |-> RefsOf(owners), profiles |-> gone])
  PROVE  IInv'
<1> DEFINE refs == RefsOf(owners)
           newOp == [at |-> "deleteAccounts", owners |-> owners, refs |-> refs,
                     profiles |-> gone]
<1>1. refs \in SUBSET Ref
  BY DEF IInv, TypeOK, RefsOf, Ref, SeedRefs, CodeRefs
<1>2. entries' = entries \ refs /\ op' = newOp /\ unlocked' = unlocked
      /\ UNCHANGED <<rows, histories, shown>>
  BY <1>1, PurgeEffect
<1>3. op' \in Op
  BY <1>1, <1>2 DEF Op
<1>4. RefsOf(owners)' = RefsOf(owners)
  BY <1>2 DEF RefsOf, SeedRefs, CodeRefs, rows
<1>5. OpInv'
  BY <1>2, <1>4 DEF OpInv, PasswordOpInv, FactorOpInv, CodeOpInv, DeleteOpInv, HotpOpInv
<1>6. op.refs = {} /\ unlocked' \in BOOLEAN /\ entries' \in SUBSET Ref
  BY <1>2 DEF Idle, IInv, TypeOK
<1> QED
  BY <1>2, <1>3, <1>5, <1>6, BeginIInv

\* The rows of the deleted accounts go after their values.
LEMMA DeleteAccountRowsIInv == IInv /\ DeleteAccountRows => IInv'
<1> SUFFICES ASSUME IInv, DeleteAccountRows PROVE IInv'
  OBVIOUS
<1>1. op.owners \in SUBSET Account /\ op.profiles \in SUBSET Profile
      /\ op.refs = RefsOf(op.owners) /\ op.refs \cap entries = {}
  BY OpFields DEF IInv, TypeOK, OpInv, DeleteOpInv, DeleteAccountRows
<1>2. NoRow \notin op.owners
  BY <1>1, DisjointIds
<1>3. RowsTyped'
  <2>1. copies' \in [Page -> Copy]
    BY DEF IInv, TypeOK, DeleteAccountRows, Copy
  <2> QED
    BY <1>1, <2>1, BoundAssumption
       DEF IInv, TypeOK, RowsTyped, DeleteAccountRows, DropAccounts, Owner, Kinds
<1>4. RowRefs' = RowRefs \ op.refs
  <2>1. passwordRef' = passwordRef \ op.owners
    BY DEF DeleteAccountRows, DropAccounts
  <2>2. SeedRefs' = {f \in SeedRefs : factorOf[f] \notin op.owners}
    BY DEF DeleteAccountRows, DropAccounts, SeedRefs
  <2>3. CodeRefs' = {c \in CodeRefs : codeOf[c] \notin op.owners}
    BY DEF DeleteAccountRows, DropAccounts, CodeRefs
  <2> QED
    BY <1>1, <2>1, <2>2, <2>3, DisjointIds
       DEF IInv, TypeOK, RowRefs, RefsOf, SeedRefs, CodeRefs
<1>5. CountersPassed'
  BY DEF IInv, TypeOK, CountersPassed, DeleteAccountRows, DropAccounts, RowsWritten
<1> QED
  BY <1>1, <1>3, <1>4, <1>5, RowsWrittenIInv DEF DeleteAccountRows

\* Storing and deleting a password.
LEMMA PasswordIInv ==
  ASSUME IInv,
         \/ \E a \in Account : SetPassword(a) \/ DeletePassword(a)
         \/ SetPasswordRow \/ DeletePasswordRow
  PROVE  IInv'
<1>1. ASSUME NEW a \in Account, SetPassword(a) \/ DeletePassword(a) PROVE IInv'
  <2>1. op'.refs = {a} /\ op'.id = a /\ op' \in Op /\ op.refs = {}
    BY <1>1 DEF SetPassword, DeletePassword, MutatePayload, Op, Ref, Idle
  <2>2. OpInv'
    BY <1>1, <2>1 DEF SetPassword, DeletePassword, MutatePayload,
                      OpInv, PasswordOpInv, FactorOpInv, CodeOpInv,
                      DeleteOpInv, HotpOpInv
  <2>3. /\ entries' \in SUBSET Ref /\ unlocked' \in BOOLEAN
        /\ \A r \in Ref : r # a => (r \in entries' <=> r \in entries)
        /\ UNCHANGED <<rows, histories, shown>>
    BY <1>1 DEF SetPassword, DeletePassword, MutatePayload, IInv, TypeOK, Ref
  <2> QED
    BY <2>1, <2>2, <2>3, BeginIInv
<1>2. CASE SetPasswordRow \/ DeletePasswordRow
  <2>1. op.id \in Account /\ op.refs = {op.id}
    BY <1>2, OpFields DEF IInv, TypeOK, OpInv, PasswordOpInv, SetPasswordRow, DeletePasswordRow
  <2>2. RowsTyped'
    BY <1>2, <2>1 DEF IInv, TypeOK, RowsTyped, SetPasswordRow, DeletePasswordRow,
                      factorRows, codeRows
  <2>3. CountersPassed'
    BY <1>2 DEF IInv, CountersPassed, SetPasswordRow, DeletePasswordRow, RowsWritten,
                factorRows
  <2>4. SeedRefs' = SeedRefs /\ CodeRefs' = CodeRefs
        /\ \A r : r # op.id => (r \in passwordRef' <=> r \in passwordRef)
    BY <1>2 DEF SetPasswordRow, DeletePasswordRow, SeedRefs, CodeRefs, factorRows, codeRows
  <2>5. op.id \in RowRefs' <=> op.id \in entries
    BY <1>2, <2>1, <2>4, DisjointIds
       DEF IInv, OpInv, PasswordOpInv, SetPasswordRow, DeletePasswordRow, RowRefs,
           SeedRefs, CodeRefs
  <2> QED
    BY <1>2, <2>1, <2>2, <2>3, <2>4, <2>5, RowsWrittenIInv
       DEF SetPasswordRow, DeletePasswordRow, RowRefs
<1> QED
  BY <1>1, <1>2

\* Importing a factor: the seed first, the row after it.
LEMMA ImportIInv ==
  ASSUME IInv,
         \/ \E f \in Factor, a \in Account, k \in {"totp", "hotp"}, n \in 0..MaxCounter + 1 :
               ImportOtpauth(f, a, k, n)
         \/ ImportFactorRow
  PROVE  IInv'
<1>1. ASSUME NEW f \in Factor, NEW a \in Account, NEW k \in {"totp", "hotp"},
             NEW n \in 0..MaxCounter + 1, ImportOtpauth(f, a, k, n)
      PROVE  IInv'
  <2>1. /\ op' = [at |-> "importFactor", id |-> f, account |-> a, kind |-> k,
                  counter |-> n, refs |-> {f}]
        /\ entries' = entries \cup {f} /\ unlocked' = unlocked
        /\ UNCHANGED <<rows, histories, shown>>
        /\ op.refs = {} /\ f \in Ref
    BY <1>1 DEF ImportOtpauth, MutatePayload, Idle, Ref
  <2>2. op' \in Op
    BY <2>1 DEF Op
  <2>3. OpInv'
    BY <1>1, <2>1 DEF OpInv, PasswordOpInv, FactorOpInv, CodeOpInv, DeleteOpInv, HotpOpInv, ImportOtpauth, Fresh, rows
  <2>4. entries' \in SUBSET Ref /\ unlocked' \in BOOLEAN
    BY <2>1 DEF IInv, TypeOK
  <2> QED
    BY <2>1, <2>2, <2>3, <2>4, BeginIInv
<1>2. CASE ImportFactorRow
  <2>1. /\ op.id \in Factor /\ op.account \in Account /\ op.kind \in {"totp", "hotp"}
        /\ op.counter \in 0..MaxCounter
        /\ op.refs = {op.id} /\ op.id \in entries
        /\ \A s \in shown : s[1] # op.id
    BY <1>2, OpFields, BoundAssumption
       DEF IInv, TypeOK, OpInv, FactorOpInv, ImportFactorRow
  <2>2. RowsTyped'
    BY <1>2, <2>1 DEF IInv, TypeOK, RowsTyped, ImportFactorRow, accountRows, codeRows,
                      Owner, Kinds
  <2>3. CountersPassed'
    BY <1>2, <2>1 DEF IInv, TypeOK, CountersPassed, ImportFactorRow, RowsWritten
  <2>4. RowRefs' = RowRefs \cup {op.id}
    BY <1>2, <2>1, DisjointIds
       DEF IInv, TypeOK, ImportFactorRow, RowRefs, SeedRefs, CodeRefs, accountRows, codeRows
  <2> QED
    BY <1>2, <2>1, <2>2, <2>3, <2>4, RowsWrittenIInv DEF ImportFactorRow
<1> QED
  BY <1>1, <1>2

\* A factor this app cannot generate codes for has a row and no seed.
LEMMA ExternalIInv ==
  ASSUME IInv, NEW f \in Factor, NEW a \in Account, AddExternalFactor(f, a)
  PROVE  IInv'
<1>1. op' = Idle /\ op' \in Op /\ op'.refs = {} /\ op.refs = {}
  BY DEF AddExternalFactor, Finished, Idle, Op
<1>2. OpInv'
  BY <1>1 DEF OpInv, PasswordOpInv, FactorOpInv, CodeOpInv, DeleteOpInv, HotpOpInv, Idle
<1>3. RowsTyped'
  BY DEF IInv, TypeOK, RowsTyped, AddExternalFactor, accountRows, codeRows, Owner, Kinds, histories
<1>4. RowRefs' = RowRefs
  BY DEF IInv, TypeOK, AddExternalFactor, RowRefs, SeedRefs, CodeRefs, accountRows, codeRows
<1>5. CountersPassed'
  BY DEF IInv, TypeOK, CountersPassed, AddExternalFactor
<1> QED
  BY <1>1, <1>2, <1>3, <1>4, <1>5, SettleIInv DEF AddExternalFactor, histories

\* Deleting a factor: its seed goes first, then its row.
LEMMA DeleteFactorIInv ==
  ASSUME IInv, (\E f \in Factor : DeleteFactor(f)) \/ DeleteFactorRow
  PROVE  IInv'
<1>1. ASSUME NEW f \in Factor, DeleteFactor(f) PROVE IInv'
  <2> DEFINE refs == IF kind[f] = "external" THEN {} ELSE {f}
             newOp == [at |-> "deleteFactor", id |-> f, refs |-> refs]
  <2>1. refs \in SUBSET Ref /\ op.refs = {} /\ factorOf[f] # NoRow /\ Purge(refs, newOp)
    BY <1>1 DEF DeleteFactor, Ref, Idle
  <2>2. entries' = entries \ refs /\ op' = newOp /\ unlocked' = unlocked
        /\ UNCHANGED <<rows, histories, shown>>
    BY <2>1, PurgeEffect
  <2>3. op' \in Op
    BY <2>1, <2>2 DEF Op
  <2>4. OpInv'
    BY <2>1, <2>2 DEF OpInv, PasswordOpInv, FactorOpInv, CodeOpInv, DeleteOpInv, HotpOpInv, rows
  <2>5. unlocked' \in BOOLEAN /\ entries' \in SUBSET Ref
    BY <2>2 DEF IInv, TypeOK
  <2> QED
    BY <2>1, <2>2, <2>3, <2>4, <2>5, BeginIInv
<1>2. CASE DeleteFactorRow
  <2>1. /\ op.id \in Factor /\ factorOf[op.id] # NoRow /\ op.refs \cap entries = {}
        /\ op.refs = IF kind[op.id] = "external" THEN {} ELSE {op.id}
    BY <1>2, OpFields DEF IInv, TypeOK, OpInv, FactorOpInv, DeleteFactorRow
  <2>2. RowsTyped'
    BY <1>2, <2>1, BoundAssumption
       DEF IInv, TypeOK, RowsTyped, DeleteFactorRow, accountRows, codeRows, Owner, Kinds
  <2>3. CountersPassed'
    BY <1>2, <2>1 DEF IInv, TypeOK, CountersPassed, DeleteFactorRow, RowsWritten
  <2>4. RowRefs' = RowRefs \ op.refs
    BY <1>2, <2>1, DisjointIds
       DEF IInv, TypeOK, DeleteFactorRow, RowRefs, SeedRefs, CodeRefs, accountRows, codeRows
  <2> QED
    BY <1>2, <2>1, <2>2, <2>3, <2>4, RowsWrittenIInv DEF DeleteFactorRow
<1> QED
  BY <1>1, <1>2

\* Generating a code: compute, advance the counter, return.
LEMMA GenerateIInv ==
  ASSUME IInv, (\E f \in Factor : GenerateOtpCode(f)) \/ AdvanceCounter \/ ReturnCode
  PROVE  IInv'
<1>1. ASSUME NEW f \in Factor, GenerateOtpCode(f) PROVE IInv'
  <2>1. /\ op.refs = {} /\ op'.refs = {} /\ op' \in Op
    BY <1>1 DEF GenerateOtpCode, Finished, Idle, Op, IInv, TypeOK
  <2>2. OpInv'
    BY <1>1 DEF GenerateOtpCode, Finished, Idle, rows, OpInv, PasswordOpInv, FactorOpInv, CodeOpInv, DeleteOpInv, HotpOpInv
  <2>3. entries' \in SUBSET Ref /\ unlocked' \in BOOLEAN
    BY <1>1 DEF GenerateOtpCode, IInv, TypeOK
  <2> QED
    BY <1>1, <2>1, <2>2, <2>3, BeginIInv DEF GenerateOtpCode
<1>2. CASE AdvanceCounter
  <2>1. /\ op \in [at : {"advance", "return"}, id : Factor, counter : 0..MaxCounter,
                   refs : {{}}]
        /\ op.at = "advance" /\ op.id \in Factor /\ op.counter \in 0..MaxCounter
    BY <1>2 DEF AdvanceCounter, IInv, TypeOK, Op, Idle
  <2>2. /\ op' = [op EXCEPT !.at = "return"] /\ op' \in Op /\ op'.at = "return"
        /\ op'.id = op.id /\ op'.counter = op.counter /\ op'.refs = {} /\ op.refs = {}
    BY <1>2, <2>1 DEF AdvanceCounter, Op
  <2>3. factorOf[op.id] # NoRow /\ kind[op.id] = "hotp" /\ counter[op.id] = op.counter
    BY <2>1 DEF IInv, OpInv, HotpOpInv
  <2>4. /\ counter' = [counter EXCEPT ![op.id] = op.counter + 1]
        /\ op.counter + 1 \in 0..MaxCounter
        /\ UNCHANGED <<accountRows, factorOf, kind, codeRows, entries, unlocked, histories, shown>>
    BY <1>2, <2>1, BoundAssumption DEF AdvanceCounter
  <2>5. RowsTyped'
    BY <2>1, <2>4 DEF IInv, TypeOK, RowsTyped, accountRows, codeRows, histories
  <2>6. CountersPassed'
    <3> SUFFICES ASSUME NEW s \in shown, kind[s[1]] = "hotp" PROVE s[2] < counter'[s[1]]
      BY <2>4 DEF CountersPassed
    <3>1. s[2] < counter[s[1]] /\ s[1] \in Factor /\ s[2] \in 0..MaxCounter
      BY DEF IInv, TypeOK, CountersPassed
    <3> QED
      BY <2>1, <2>3, <2>4, <3>1, BoundAssumption DEF IInv, TypeOK
  <2>7. HotpOpInv'
    <3>1. \A s \in shown : s[1] = op.id => s[2] < op.counter
      BY <2>3 DEF IInv, CountersPassed
    <3>2. counter'[op.id] = op.counter + 1
      BY <2>1, <2>4 DEF IInv, TypeOK
    <3> QED
      BY <2>2, <2>3, <2>4, <3>1, <3>2 DEF HotpOpInv
  <2>8. OpInv'
    BY <2>2, <2>7 DEF OpInv, PasswordOpInv, FactorOpInv, CodeOpInv, DeleteOpInv
  <2>9. RowRefs' = RowRefs
    BY <2>4 DEF RowRefs, SeedRefs, CodeRefs, accountRows, codeRows, IInv, TypeOK
  <2> QED
    BY <2>2, <2>4, <2>5, <2>6, <2>8, <2>9, SettleIInv DEF IInv, TypeOK, histories
<1>3. CASE ReturnCode
  <2>1. /\ op.id \in Factor /\ op.counter \in 0..MaxCounter /\ op.refs = {}
        /\ counter[op.id] = op.counter + 1
    BY <1>3, OpFields DEF IInv, TypeOK, OpInv, HotpOpInv, ReturnCode
  <2>2. shown' = shown \cup {<<op.id, op.counter>>} /\ UNCHANGED <<rows, entries>>
    BY <1>3 DEF ReturnCode
  <2>3. TypeOK'
    BY <1>3, <2>1, <2>2 DEF IInv, TypeOK, ReturnCode, Finished, Idle, Op, rows, histories
  <2>4. OpInv'
    BY <1>3 DEF ReturnCode, Finished, Idle, OpInv, PasswordOpInv, FactorOpInv, CodeOpInv, DeleteOpInv, HotpOpInv
  <2>5. CountersPassed'
    BY <2>1, <2>2 DEF IInv, CountersPassed, rows
  <2>6. StoresAgree'
    BY <1>3, <2>1 DEF IInv, StoresAgree, ReturnCode, rows, RowRefs, SeedRefs, CodeRefs, histories
  <2> QED
    BY <2>3, <2>4, <2>5, <2>6 DEF IInv
<1> QED
  BY <1>1, <1>2, <1>3

\* A bounded set of positions has a largest one.
LEMMA MaxOfBounded ==
  ASSUME NEW n \in Nat, NEW S \in SUBSET (0..n), S # {}
  PROVE  Max(S) \in S /\ \A m \in S : m <= Max(S)
<1> DEFINE R == OpToRel(<, Nat)
           T == {n - m : m \in S}
<1>1. T \subseteq Nat /\ T # {}
  <2>1. \A m \in S : m \in Nat /\ n - m \in Nat
    OBVIOUS
  <2> QED
    BY <2>1
<1>2. IsWellFoundedOn(R, Nat)
  BY NatLessThanWellFounded
<1>3. PICK x \in T : \A y \in T : ~(<<y, x>> \in R)
  <2> HIDE DEF R, T
  <2> QED
    BY <1>1, <1>2, WFMin, Zenon
<1>4. \A y \in T : ~(y < x)
  BY <1>1, <1>3 DEF OpToRel
<1>5. PICK k \in S : x = n - k
  OBVIOUS
<1>6. ASSUME NEW m \in S PROVE m <= k
  <2>1. n - m \in T
    OBVIOUS
  <2>2. ~(n - m < x)
    BY <1>4, <2>1
  <2> QED
    BY <1>5, <2>2
<1> QED
  BY <1>6 DEF Max

\* The position a batch starts at is past every position in use.
LEMMA NextPositionIsFree ==
  ASSUME TypeOK, NEW a \in Account
  PROVE  NextPosition(a) \in Nat /\ \A m \in PositionsOf(a) : m < NextPosition(a)
<1>1. PositionsOf(a) \in SUBSET (0..MaxPosition)
  BY DEF TypeOK, PositionsOf
<1>2. CASE PositionsOf(a) = {}
  BY <1>2 DEF NextPosition
<1>3. CASE PositionsOf(a) # {}
  <2>1. Max(PositionsOf(a)) \in PositionsOf(a)
        /\ \A m \in PositionsOf(a) : m <= Max(PositionsOf(a))
    BY <1>1, <1>3, MaxOfBounded, BoundAssumption
  <2> QED
    BY <1>1, <1>3, <2>1, BoundAssumption DEF NextPosition
<1> QED
  BY <1>2, <1>3

\* A batch of recovery codes: value, row, value, row.
LEMMA CodesIInv ==
  ASSUME IInv,
         \/ \E a \in Account, n \in 0..MaxBatch : AddRecoveryCodes(a, n)
         \/ \E c \in Code : PutCode(c)
         \/ AddCodeRow \/ AllCodesAdded
  PROVE  IInv'
<1>1. ASSUME NEW a \in Account, NEW n \in 0..MaxBatch, AddRecoveryCodes(a, n) PROVE IInv'
  <2>1. NextPosition(a) \in Nat /\ \A m \in PositionsOf(a) : m < NextPosition(a)
    BY <1>1, NextPositionIsFree DEF AddRecoveryCodes, IInv
  <2>2. /\ op' = [at |-> "nextCode", account |-> a, next |-> NextPosition(a), left |-> n,
                  refs |-> {}]
        /\ NextPosition(a) + n <= MaxPosition /\ op.refs = {} /\ n \in Nat
    BY <1>1, BoundAssumption DEF AddRecoveryCodes, Idle
  <2>3. op' \in Op
    BY <2>1, <2>2, BoundAssumption DEF Op
  <2>4. PositionsOf(a)' = PositionsOf(a)
    BY <1>1 DEF AddRecoveryCodes, PositionsOf, rows
  <2>5. OpInv'
    <3>1. CodeOpInv'
      BY <2>1, <2>2, <2>4 DEF CodeOpInv
    <3> QED
      BY <2>2, <3>1 DEF OpInv, PasswordOpInv, FactorOpInv, DeleteOpInv, HotpOpInv
  <2>6. entries' \in SUBSET Ref /\ unlocked' \in BOOLEAN
    BY <1>1 DEF AddRecoveryCodes, IInv, TypeOK
  <2> QED
    BY <1>1, <2>2, <2>3, <2>5, <2>6, BeginIInv DEF AddRecoveryCodes
<1>2. ASSUME NEW c \in Code, PutCode(c) PROVE IInv'
  <2>1. op.refs = {} /\ op.account \in Account /\ op.next \in 0..MaxPosition /\ op.left \in 1..MaxBatch
    BY <1>2, OpFields, BoundAssumption DEF IInv, TypeOK, PutCode
  <2>2. /\ op' = [at |-> "codeRow", id |-> c, account |-> op.account, next |-> op.next,
                  left |-> op.left, refs |-> {c}]
        /\ entries' = entries \cup {c} /\ unlocked' = unlocked
        /\ UNCHANGED <<rows, histories, shown>> /\ codeOf[c] = NoRow /\ c \in Ref
    BY <1>2 DEF PutCode, MutatePayload, Ref
  <2>3. op' \in Op
    BY <2>1, <2>2 DEF Op
  <2>4. OpInv'
    <3>1. CodeOpInv'
      BY <1>2, <2>2 DEF IInv, OpInv, CodeOpInv, PutCode, PositionsOf, rows
    <3> QED
      BY <2>2, <3>1 DEF OpInv, PasswordOpInv, FactorOpInv, DeleteOpInv, HotpOpInv
  <2>5. entries' \in SUBSET Ref /\ unlocked' \in BOOLEAN
    BY <2>2 DEF IInv, TypeOK
  <2> QED
    BY <2>1, <2>2, <2>3, <2>4, <2>5, BeginIInv
<1>3. CASE AddCodeRow
  <2>1. /\ op.id \in Code /\ op.account \in Account /\ op.next \in 0..MaxPosition
        /\ op.left \in 1..MaxBatch
        /\ op.refs = {op.id} /\ op.id \in entries /\ codeOf[op.id] = NoRow
    BY <1>3, OpFields DEF IInv, TypeOK, OpInv, CodeOpInv, AddCodeRow
  <2>2. /\ op.next + op.left <= MaxPosition
        /\ \A m \in PositionsOf(op.account) : m < op.next
    BY <1>3 DEF IInv, OpInv, CodeOpInv, AddCodeRow
  <2>3. op' \in Op /\ OpInv' /\ op'.refs = {}
    <3>1. /\ op' = [at |-> "nextCode", account |-> op.account, next |-> op.next + 1,
                    left |-> op.left - 1, refs |-> {}]
          /\ op.next + 1 \in 0..MaxPosition /\ op.left - 1 \in 0..MaxBatch
          /\ op.next + 1 + (op.left - 1) <= MaxPosition
      BY <1>3, <2>1, <2>2, BoundAssumption DEF AddCodeRow
    <3>2. \A m \in PositionsOf(op.account)' : m \in PositionsOf(op.account) \/ m = op.next
      BY <1>3, <2>1 DEF IInv, TypeOK, AddCodeRow, PositionsOf
    <3>3. \A m \in PositionsOf(op.account) : m \in Nat
      BY DEF IInv, TypeOK, PositionsOf
    <3>4. CodeOpInv'
      <4>1. \A m \in PositionsOf(op.account)' : m < op.next + 1
        BY <2>1, <2>2, <3>2, <3>3
      <4>2. op'.next = op.next + 1 /\ op'.next + op'.left <= MaxPosition
            /\ op'.at = "nextCode"
        BY <3>1
      <4> QED
        BY <4>1, <4>2 DEF CodeOpInv
    <3> QED
      BY <2>1, <3>1, <3>4 DEF Op, OpInv, PasswordOpInv, FactorOpInv, DeleteOpInv, HotpOpInv
  <2>4. RowsTyped'
    BY <1>3, <2>1 DEF IInv, TypeOK, RowsTyped, AddCodeRow, accountRows, factorRows, Owner, histories
  <2>5. CountersPassed'
    BY <1>3 DEF IInv, CountersPassed, AddCodeRow, factorRows
  <2>6. RowRefs' = RowRefs \cup {op.id}
    BY <1>3, <2>1, DisjointIds
       DEF IInv, TypeOK, AddCodeRow, RowRefs, SeedRefs, CodeRefs, accountRows, factorRows
  <2>7. overwritten' = overwritten \ op.refs
    BY <1>3, <2>1, DisjointIds DEF IInv, TypeOK, AddCodeRow, histories
  <2> QED
    BY <1>3, <2>1, <2>2, <2>3, <2>4, <2>5, <2>6, <2>7, SettleIInv DEF AddCodeRow, histories
<1>4. CASE AllCodesAdded
  <2>1. op.refs = {} /\ op' = Idle /\ op'.refs = {} /\ op' \in Op
    BY <1>4, OpFields DEF IInv, TypeOK, AllCodesAdded, Finished, Idle, Op
  <2>2. OpInv'
    BY <2>1 DEF OpInv, PasswordOpInv, FactorOpInv, CodeOpInv, DeleteOpInv, HotpOpInv, Idle
  <2>3. entries' \in SUBSET Ref /\ unlocked' \in BOOLEAN
    BY <1>4 DEF AllCodesAdded, IInv, TypeOK
  <2> QED
    BY <1>4, <2>1, <2>2, <2>3, BeginIInv DEF AllCodesAdded, Finished
<1> QED
  BY <1>1, <1>2, <1>3, <1>4

\* Deleting a recovery code.
LEMMA CodeIInv ==
  ASSUME IInv,
         \/ \E c \in Code : DeleteRecoveryCode(c)
         \/ DeleteCodeRow
  PROVE  IInv'
<1>1. ASSUME NEW c \in Code, DeleteRecoveryCode(c) PROVE IInv'
  <2>1. /\ op' = [at |-> "deleteCode", id |-> c, refs |-> {c}]
        /\ entries' = entries \ {c} /\ unlocked' = unlocked
        /\ UNCHANGED <<rows, histories, shown>>
        /\ codeOf[c] # NoRow /\ op.refs = {} /\ c \in Ref
    BY <1>1 DEF DeleteRecoveryCode, MutatePayload, Idle, Ref
  <2>2. op' \in Op
    BY <2>1 DEF Op
  <2>3. OpInv'
    BY <2>1 DEF OpInv, PasswordOpInv, FactorOpInv, CodeOpInv, DeleteOpInv, HotpOpInv, rows
  <2>4. entries' \in SUBSET Ref /\ unlocked' \in BOOLEAN
    BY <2>1 DEF IInv, TypeOK
  <2> QED
    BY <2>1, <2>2, <2>3, <2>4, BeginIInv
<1>2. CASE DeleteCodeRow
  <2>1. op.id \in Code /\ op.refs = {op.id} /\ op.id \notin entries
    BY <1>2, OpFields DEF IInv, TypeOK, OpInv, CodeOpInv, DeleteCodeRow
  <2>2. RowsTyped'
    BY <1>2, <2>1, BoundAssumption
       DEF IInv, TypeOK, RowsTyped, DeleteCodeRow, accountRows, factorRows, Owner
  <2>3. CountersPassed'
    BY <1>2 DEF IInv, CountersPassed, DeleteCodeRow, RowsWritten, factorRows
  <2>4. RowRefs' = RowRefs \ {op.id}
    BY <1>2, <2>1, DisjointIds
       DEF IInv, TypeOK, DeleteCodeRow, RowRefs, SeedRefs, CodeRefs, accountRows, factorRows
  <2> QED
    BY <1>2, <2>1, <2>2, <2>3, <2>4, RowsWrittenIInv DEF DeleteCodeRow
<1> QED
  BY <1>1, <1>2

\* Reading an account into a page, and editing it from that page: the edit
\* moves the row away from the vault, or back to it, exactly when the copy was
\* out of date.
LEMMA EditIInv ==
  ASSUME IInv, NEW g \in Page, UpdateAccount(g) \/ \E a \in Account : ReadAccount(g, a)
  PROVE  IInv'
<1>1. ASSUME NEW a \in Account, ReadAccount(g, a) PROVE IInv'
  <2>1. copies' \in [Page -> Copy]
    BY <1>1 DEF ReadAccount, IInv, TypeOK, Copy, Named
  <2>2. TypeOK' /\ StoresAgree' /\ CountersPassed'
    BY <1>1, <2>1 DEF ReadAccount, IInv, TypeOK, StoresAgree, CountersPassed, RowRefs,
                      SeedRefs, CodeRefs, rows
  <2>3. OpInv'
    BY <1>1 DEF ReadAccount, OpInv, PasswordOpInv, FactorOpInv, CodeOpInv, DeleteOpInv,
                HotpOpInv, Idle
  <2> QED
    BY <2>2, <2>3 DEF IInv
<1>2. CASE UpdateAccount(g)
  <2> DEFINE a == copies[g].id
             named == copies[g].named
  <2>1. a \in Account /\ named \in BOOLEAN
    BY <1>2 DEF UpdateAccount, IInv, TypeOK, Copy
  <2>2. op.refs = {} /\ op' = Idle /\ Idle.refs = {} /\ Idle.at = "idle" /\ op' \in Op
    BY <1>2 DEF UpdateAccount, Finished, Idle, Op
  <2>3. /\ passwordRef' = IF named THEN passwordRef \cup {a} ELSE passwordRef \ {a}
        /\ overwritten' = IF named = Named(a) THEN overwritten ELSE SymDiff(overwritten, {a})
        /\ UNCHANGED <<profiles, owner, factorRows, codeRows, entries, unlocked, copies,
                       unsettled, shown>>
    BY <1>2 DEF UpdateAccount
  <2> HIDE DEF a, named
  <2>4. TypeOK'
    BY <2>1, <2>2, <2>3 DEF IInv, TypeOK, factorRows, codeRows, SymDiff
  <2>5. OpInv'
    BY <2>2 DEF OpInv, PasswordOpInv, FactorOpInv, CodeOpInv, DeleteOpInv, HotpOpInv
  <2>6. CountersPassed'
    BY <2>3 DEF IInv, CountersPassed, factorRows
  <2>7. StoresAgree'
    <3>1. SeedRefs' = SeedRefs /\ CodeRefs' = CodeRefs /\ a \notin SeedRefs \cup CodeRefs
      BY <2>1, <2>3, DisjointIds DEF SeedRefs, CodeRefs, factorRows, codeRows
    <3>2. \A r \in Ref : r # a =>
              (r \in RowRefs' <=> r \in RowRefs) /\ (r \in overwritten' <=> r \in overwritten)
      BY <2>3, <3>1 DEF RowRefs, SymDiff
    <3>3. a \in RowRefs' <=> named
      BY <2>1, <2>3, <3>1 DEF RowRefs
    <3>4. a \in RowRefs <=> Named(a)
      BY <3>1 DEF RowRefs, Named
    <3>5. a \in overwritten' <=> (a \in overwritten <=> (named <=> Named(a)))
      BY <2>1, <2>3 DEF SymDiff, Named
    <3> SUFFICES ASSUME NEW r \in Ref \ unsettled
                 PROVE  (r \in RowRefs' <=> r \in entries) <=> r \notin overwritten'
      BY <2>2, <2>3 DEF StoresAgree
    <3>6. (r \in RowRefs <=> r \in entries) <=> r \notin overwritten
      BY <2>2 DEF IInv, StoresAgree
    <3>7. CASE r = a
      BY <2>1, <3>3, <3>4, <3>5, <3>6, <3>7 DEF Named
    <3>8. CASE r # a
      BY <3>2, <3>6, <3>8
    <3> QED
      BY <3>7, <3>8
  <2> QED
    BY <2>4, <2>5, <2>6, <2>7 DEF IInv
<1> QED
  BY <1>1, <1>2

\* Unlocking, locking, failing and restarting.
LEMMA SurroundingsIInv == IInv /\ (Unlock \/ Lock \/ Fail \/ Restart) => IInv'
<1> SUFFICES ASSUME IInv, Unlock \/ Lock \/ Fail \/ Restart PROVE IInv'
  OBVIOUS
<1>1. CASE Unlock
  BY <1>1, StopIInv DEF Unlock, Finished, Idle, histories, IInv, TypeOK
<1>2. CASE Lock
  <2>1. TypeOK' /\ StoresAgree' /\ CountersPassed'
    BY <1>2 DEF Lock, IInv, TypeOK, StoresAgree, CountersPassed, RowRefs, SeedRefs,
                CodeRefs, rows, histories
  <2>2. OpInv'
    BY <1>2 DEF Lock, IInv, OpInv, PasswordOpInv, FactorOpInv, CodeOpInv, DeleteOpInv, HotpOpInv, RefsOf, SeedRefs,
                CodeRefs, PositionsOf, rows
  <2> QED
    BY <2>1, <2>2 DEF IInv
<1>3. CASE Fail
  BY <1>3, StopIInv DEF Fail, Finished, IInv, TypeOK
<1>4. CASE Restart
  BY <1>4, StopIInv DEF Restart, Finished, Copy, NoCopy
<1> QED
  BY <1>1, <1>2, <1>3, <1>4

-----------------------------------------------------------------------------
(* The theorems *)

\* Every step of every service keeps the inductive invariant.
LEMMA NextIInv == IInv /\ [Next]_vars => IInv'
<1> SUFFICES ASSUME IInv, [Next]_vars PROVE IInv'
  OBVIOUS
<1>1. ASSUME NEW p \in Profile, CreateProfile(p) \/ DeleteProfile(p) PROVE IInv'
  <2>1. AccountsOf(p) \in SUBSET Account /\ {p} \in SUBSET Profile
    BY DEF AccountsOf
  <2> QED
    BY <1>1, <2>1, CreateIInv, BeginDeleteIInv DEF DeleteProfile
<1>2. ASSUME NEW a \in Account, NEW p \in Profile, CreateAccount(a, p) PROVE IInv'
  BY <1>2, CreateIInv
<1>3. ASSUME NEW a \in Account, DeleteAccount(a) PROVE IInv'
  BY <1>3, BeginDeleteIInv DEF DeleteAccount
<1>4. ASSUME NEW a \in Account, SetPassword(a) \/ DeletePassword(a) PROVE IInv'
  BY <1>4, PasswordIInv
<1>5. ASSUME NEW a \in Account, NEW n \in 0..MaxBatch, AddRecoveryCodes(a, n) PROVE IInv'
  BY <1>5, CodesIInv
<1>6. ASSUME NEW f \in Factor, NEW a \in Account, AddExternalFactor(f, a) PROVE IInv'
  BY <1>6, ExternalIInv
<1>7. ASSUME NEW f \in Factor, NEW a \in Account,
             \/ ImportOtpauth(f, a, "totp", 0)
             \/ \E n \in 0..MaxCounter + 1 : ImportOtpauth(f, a, "hotp", n)
      PROVE  IInv'
  <2>1. 0 \in 0..MaxCounter + 1
    BY BoundAssumption
  <2> QED
    BY <1>7, <2>1, ImportIInv
<1>8. ASSUME NEW f \in Factor, GenerateOtpCode(f) \/ DeleteFactor(f) PROVE IInv'
  BY <1>8, GenerateIInv, DeleteFactorIInv
<1>9. ASSUME NEW c \in Code,
             PutCode(c) \/ DeleteRecoveryCode(c)
      PROVE  IInv'
  BY <1>9, CodesIInv, CodeIInv
<1>10. CASE DeleteAccountRows \/ SetPasswordRow \/ DeletePasswordRow
  BY <1>10, DeleteAccountRowsIInv, PasswordIInv
<1>11. CASE ImportFactorRow \/ AdvanceCounter \/ ReturnCode \/ DeleteFactorRow
  BY <1>11, ImportIInv, GenerateIInv, DeleteFactorIInv
<1>12. CASE AddCodeRow \/ AllCodesAdded \/ DeleteCodeRow
  BY <1>12, CodesIInv, CodeIInv
<1>13. CASE Unlock \/ Lock \/ Fail \/ Restart
  BY <1>13, SurroundingsIInv
<1>14. ASSUME NEW g \in Page, UpdateAccount(g) \/ \E a \in Account : ReadAccount(g, a)
       PROVE  IInv'
  BY <1>14, EditIInv
<1>15. CASE UNCHANGED vars
  BY <1>15 DEF vars, rows, IInv, TypeOK, StoresAgree, CountersPassed,
               OpInv, PasswordOpInv, FactorOpInv, CodeOpInv, DeleteOpInv, HotpOpInv,
               RefsOf, RowRefs, SeedRefs, CodeRefs, PositionsOf
<1> QED
  BY <1>1, <1>2, <1>3, <1>4, <1>5, <1>6, <1>7, <1>8, <1>9, <1>10, <1>11, <1>12, <1>13,
     <1>15, <1>14 DEF Next

\* The inductive invariant holds in every reachable state.
LEMMA Invariance == Spec => []IInv
BY InitIInv, NextIInv, PTL DEF Spec

\* Every row and every service in progress keeps its type; a stored HOTP
\* counter never leaves the range a column holds.
THEOREM TypeCorrect == Spec => []TypeOK
<1>1. IInv => TypeOK
  BY DEF IInv
<1> QED
  BY <1>1, Invariance, PTL

\* Rows and vault name the same references, except those of a service that
\* is running or that stopped halfway, and exactly those that an edit from a
\* stale copy changed.
THEOREM Agreement == Spec => []StoresAgree
<1>1. IInv => StoresAgree
  BY DEF IInv
<1> QED
  BY <1>1, Invariance, PTL

\* Every position a batch is about to take is past all positions in use, so
\* UNIQUE (account_id, position) cannot refuse a code already in the vault.
THEOREM PositionsFree == Spec => []NewPositionsAreFree
<1>1. IInv => NewPositionsAreFree
  BY DEF IInv, OpInv, CodeOpInv, NewPositionsAreFree
<1> QED
  BY <1>1, Invariance, PTL

\* A step that drops a reference from the rows finds its value gone, unless it
\* is an edit of that account from a copy that was out of date.
THEOREM PurgedFirst == Spec => RefDroppedOnlyAfterPurge
<1> DEFINE A == \A r \in (RowRefs \ RowRefs') \cap entries' : r \in Account /\ StaleEdit(r)
<1>1. ASSUME IInv, [Next]_vars PROVE [A]_vars
  <2>1. CASE DeleteAccountRows
    <3>1. op.refs = RefsOf(op.owners) /\ op.refs \cap entries = {} /\ entries' = entries
          /\ op.owners \in SUBSET Account
      BY <1>1, <2>1, OpFields
         DEF IInv, TypeOK, OpInv, DeleteOpInv, DeleteAccountRows, RowsWritten
    <3>2. RowRefs \ RowRefs' \subseteq RefsOf(op.owners)
      BY <1>1, <2>1 DEF DeleteAccountRows, DropAccounts, RowRefs, SeedRefs, CodeRefs, RefsOf
    <3> QED
      BY <3>1, <3>2
  <2>2. CASE DeletePasswordRow
    BY <1>1, <2>2 DEF IInv, OpInv, PasswordOpInv, DeletePasswordRow, RowsWritten, RowRefs,
                      SeedRefs, CodeRefs, factorRows, codeRows
  <2>3. CASE DeleteFactorRow
    <3>1. RowRefs \ RowRefs' \subseteq IF kind[op.id] = "external" THEN {} ELSE {op.id}
      BY <1>1, <2>3 DEF IInv, TypeOK, DeleteFactorRow, RowRefs, SeedRefs, CodeRefs,
                        accountRows, codeRows
    <3> QED
      BY <1>1, <2>3, <3>1 DEF IInv, OpInv, FactorOpInv, DeleteFactorRow, RowsWritten
  <2>4. CASE DeleteCodeRow
    <3>1. RowRefs \ RowRefs' \subseteq {op.id}
      BY <1>1, <2>4 DEF IInv, TypeOK, DeleteCodeRow, RowRefs, SeedRefs, CodeRefs,
                        accountRows, factorRows
    <3> QED
      BY <1>1, <2>4, <3>1 DEF IInv, OpInv, CodeOpInv, DeleteCodeRow, RowsWritten
  <2>5. CASE ImportFactorRow
    <3>1. RowRefs \subseteq RowRefs'
      BY <1>1, <2>5, OpFields DEF IInv, TypeOK, OpInv, FactorOpInv, ImportFactorRow,
                 RowRefs, SeedRefs, CodeRefs, accountRows, codeRows
    <3> QED
      BY <3>1
  <2>6. ASSUME NEW f \in Factor, NEW a \in Account, AddExternalFactor(f, a) PROVE A
    <3>1. RowRefs \subseteq RowRefs'
      BY <1>1, <2>6 DEF IInv, TypeOK, AddExternalFactor, RowRefs, SeedRefs, CodeRefs,
                        accountRows, codeRows
    <3> QED
      BY <3>1
  <2>7. CASE AddCodeRow
    <3>1. RowRefs \subseteq RowRefs'
      BY <1>1, <2>7, OpFields, DisjointIds DEF IInv, TypeOK, OpInv, CodeOpInv, AddCodeRow,
                 RowRefs, SeedRefs, CodeRefs, accountRows, factorRows
    <3> QED
      BY <3>1
  <2>8. ASSUME passwordRef \subseteq passwordRef',
               UNCHANGED <<factorOf, kind, codeOf>>
        PROVE  A
    BY <2>8 DEF RowRefs, SeedRefs, CodeRefs
  <2>9. ASSUME NEW g \in Page, UpdateAccount(g) PROVE A
    <3> DEFINE a == copies[g].id
    <3>1. SeedRefs' = SeedRefs /\ CodeRefs' = CodeRefs
      BY <2>9 DEF UpdateAccount, SeedRefs, CodeRefs, factorRows, codeRows
    <3>2. passwordRef' = IF copies[g].named THEN passwordRef \cup {a} ELSE passwordRef \ {a}
      BY <2>9 DEF UpdateAccount
    <3>3. a \in Account /\ copies[g].named \in BOOLEAN
      BY <1>1, <2>9 DEF UpdateAccount, IInv, TypeOK, Copy
    <3>4. ASSUME NEW r \in RowRefs \ RowRefs' PROVE r = a /\ Named(a) /\ ~copies[g].named
      BY <3>1, <3>2, <3>4 DEF RowRefs, Named
    <3>5. Named(a) /\ ~copies[g].named => StaleEdit(a)
      BY <2>9 DEF StaleEdit
    <3> QED
      BY <3>3, <3>4, <3>5
  <2> QED
    BY <1>1, <2>1, <2>2, <2>3, <2>4, <2>5, <2>6, <2>7, <2>8, <2>9
       DEF Next, ReadAccount, vars, rows, accountRows, factorRows, codeRows, CreateProfile, CreateAccount,
           DeleteProfile, DeleteAccount, Purge, MutatePayload, SetPassword,
           DeletePassword, SetPasswordRow, ImportOtpauth, GenerateOtpCode, AdvanceCounter,
           ReturnCode, DeleteFactor, AddRecoveryCodes, PutCode, AllCodesAdded,
           DeleteRecoveryCode, Unlock, Lock, Fail, Restart
<1> QED
  BY <1>1, Invariance, PTL DEF Spec, RefDroppedOnlyAfterPurge

\* A HOTP code is never handed out twice.
THEOREM NoCodeTwice == Spec => HotpNeverRepeats
<1>1. IInv => (ReturnCode => \A s \in shown : s[1] = op.id => s[2] < op.counter)
  BY DEF IInv, OpInv, HotpOpInv, ReturnCode
<1> QED
  BY <1>1, Invariance, PTL DEF HotpNeverRepeats
=============================================================================
