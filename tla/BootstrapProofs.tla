-------------------------- MODULE BootstrapProofs --------------------------
(* Proofs about Bootstrap: the named mutex and the registry together admit  *)
(* one workspace for each spelling and one for each process.                *)
EXTENDS Bootstrap, TLAPS

HasHandle == {"wait", "owned", "failed", "unregistered"} \cup Inside
HasMutex == {"owned", "failed", "unregistered"} \cup Inside
HasSlot == {"failed", "unlocked"} \cup Inside

\* The handles of a name are those of the calls that are where one is held, and
\* no object without handles has an owner.
Handles ==
    /\ \A n \in Spelling, c \in Call : c \in handles[n] <=> spelling[c] = n /\ at[c] \in HasHandle
    /\ \A n \in Spelling : handles[n] = {} /\ leaked[n] = {} => owner[n] = Nobody

\* Whoever got through the wait owns the object of its name, as long as it has
\* its handle: a poller takes it over only when it is nobody's.
Owned == \A c \in Call : at[c] \in HasMutex => owner[spelling[c]] = thread_of[c]

\* The registry has one entry for each process, held by one call.
Slots ==
    /\ \A c \in Call : at[c] \in HasSlot => home(c) \in registry
    /\ \A p \in registry : \E c \in Call : at[c] \in HasSlot /\ home(c) = p
    /\ \A c, d \in Call : at[c] \in HasSlot /\ at[d] \in HasSlot /\ home(c) = home(d) => c = d

Guards == Handles /\ Owned /\ Slots

SelectsWhenOpen == \A c \in selecting : at[c] = "open"

\* A transaction applies the migration after the recorded version.
Migrating ==
    /\ writer # Nobody => /\ at[writer] = "migrate"
                          /\ next[writer] = version + 1 /\ next[writer] <= Latest
    /\ \A c \in Call : at[c] = "migrate" => version <= Latest /\ next[c] <= version + 1

Data == SelectsWhenOpen /\ Migrating /\ AppliedOnce

Inv == Guards /\ Data

LEMMA Places ==
    /\ HasMutex \subseteq HasHandle /\ Inside \subseteq HasMutex /\ Inside \subseteq HasSlot
    /\ HasHandle \subseteq At /\ HasSlot \subseteq At
  BY DEF HasMutex, HasHandle, HasSlot, Inside, Working, At, Leaving, Refusals

LEMMA Homes == \A c \in Call : thread_of[c] \in Thread /\ home(c) \in Process /\ thread_of[c] # Nobody
  BY CallAssumption DEF home

-----------------------------------------------------------------------------
(* The guards *)

\* A call moves on without gaining or losing anything.
LEMMA MoveStep ==
    ASSUME TypeOK, Guards, NEW c \in Call, NEW w \in At, Goto(c, w),
           w \in HasHandle <=> at[c] \in HasHandle,
           w \in HasMutex <=> at[c] \in HasMutex,
           w \in HasSlot <=> at[c] \in HasSlot,
           UNCHANGED <<spelling, object, registry>>
    PROVE  at' \in [Call -> At] /\ Guards'
<1>1. at' \in [Call -> At] /\ at'[c] = w /\ \A d \in Call : d # c => at'[d] = at[d]
  BY DEF Goto, TypeOK
<1>2. \A d \in Call : /\ at'[d] \in HasHandle <=> at[d] \in HasHandle
                      /\ at'[d] \in HasMutex <=> at[d] \in HasMutex
                      /\ at'[d] \in HasSlot <=> at[d] \in HasSlot
  BY <1>1
<1>3. Handles' /\ Owned'
  BY <1>2 DEF Guards, Handles, Owned, object
<1>4. Slots'
  BY <1>2 DEF Guards, Slots, home
<1> QED BY <1>1, <1>3, <1>4 DEF Guards

\* A call that has nothing registered, or keeps its entry, closes its handle.
LEMMA CloseStep ==
    ASSUME TypeOK, Guards, NEW c \in Call, NEW w \in At, Goto(c, w), CloseHandle(c),
           at[c] \in HasHandle, w \notin HasHandle,
           w \in HasSlot <=> at[c] \in HasSlot,
           UNCHANGED <<spelling, registry>>
    PROVE  /\ at' \in [Call -> At] /\ Guards' /\ UNCHANGED leaked
           /\ handles' \in [Spelling -> SUBSET Call] /\ owner' \in [Spelling -> Thread \cup {Nobody}]
<1> DEFINE n == spelling[c]
<1>1. at' \in [Call -> At] /\ at'[c] = w /\ \A d \in Call : d # c => at'[d] = at[d]
  BY DEF Goto, TypeOK
<1>2. n \in Spelling /\ handles \in [Spelling -> SUBSET Call] /\ owner \in [Spelling -> Thread \cup {Nobody}]
  BY DEF TypeOK
<1>3. /\ handles'[n] = handles[n] \ {c} /\ \A m \in Spelling : m # n => handles'[m] = handles[m]
      /\ owner'[n] = (IF handles[n] = {c} /\ leaked[n] = {} THEN Nobody ELSE owner[n])
      /\ \A m \in Spelling : m # n => owner'[m] = owner[m]
      /\ handles' \in [Spelling -> SUBSET Call] /\ owner' \in [Spelling -> Thread \cup {Nobody}]
      /\ leaked' = leaked
  BY <1>2 DEF CloseHandle
<1>4. Handles'
  <2>1. \A m \in Spelling, d \in Call : d \in handles'[m] <=> spelling[d] = m /\ at'[d] \in HasHandle
    <3> SUFFICES ASSUME NEW m \in Spelling, NEW d \in Call
                 PROVE  d \in handles'[m] <=> spelling[d] = m /\ at'[d] \in HasHandle
      OBVIOUS
    <3>1. CASE d = c
      BY <1>1, <1>3, <3>1 DEF Guards, Handles
    <3>2. CASE d # c
      BY <1>1, <1>3, <3>2 DEF Guards, Handles
    <3> QED BY <3>1, <3>2
  <2>2. \A m \in Spelling : handles'[m] = {} /\ leaked'[m] = {} => owner'[m] = Nobody
    <3>1. c \in handles[n]
      BY <1>2 DEF Guards, Handles
    <3>2. handles'[n] = {} => handles[n] = {c}
      BY <1>3, <3>1
    <3> QED BY <1>3, <3>2 DEF Guards, Handles
  <2> QED BY <2>1, <2>2 DEF Handles
<1>5. Owned'
  <2> SUFFICES ASSUME NEW d \in Call, at'[d] \in HasMutex
               PROVE  owner'[spelling[d]] = thread_of[d]
    BY DEF Owned
  <2>1. d # c /\ at[d] \in HasMutex /\ at[d] \in HasHandle
    BY <1>1, Places
  <2>2. spelling[d] \in Spelling /\ d \in handles[spelling[d]] /\ owner[spelling[d]] = thread_of[d]
    BY <2>1 DEF Guards, Handles, Owned, TypeOK
  <2>3. spelling[d] = n => handles[n] # {c}
    BY <2>1, <2>2
  <2> QED BY <1>3, <2>2, <2>3
<1>6. Slots'
  <2>1. \A d \in Call : at'[d] \in HasSlot <=> at[d] \in HasSlot
    BY <1>1
  <2> QED BY <2>1 DEF Guards, Slots, home
<1> QED BY <1>1, <1>3, <1>4, <1>5, <1>6 DEF Guards

\* A call gives its registry entry back.
LEMMA SlotStep ==
    ASSUME TypeOK, Guards, NEW c \in Call, NEW w \in At, Goto(c, w),
           registry' = registry \ {home(c)},
           at[c] \in HasSlot, w \notin HasSlot,
           w \in HasHandle <=> at[c] \in HasHandle,
           w \in HasMutex <=> at[c] \in HasMutex,
           UNCHANGED <<spelling, object>>
    PROVE  at' \in [Call -> At] /\ Guards' /\ registry' \subseteq Process
<1>1. at' \in [Call -> At] /\ at'[c] = w /\ \A d \in Call : d # c => at'[d] = at[d]
  BY DEF Goto, TypeOK
<1>2. \A d \in Call : /\ at'[d] \in HasHandle <=> at[d] \in HasHandle
                      /\ at'[d] \in HasMutex <=> at[d] \in HasMutex
                      /\ at'[d] \in HasSlot <=> d # c /\ at[d] \in HasSlot
  BY <1>1
<1>3. Handles' /\ Owned'
  BY <1>2 DEF Guards, Handles, Owned, object
<1>4. \A d \in Call : d # c /\ at[d] \in HasSlot => home(d) # home(c)
  BY DEF Guards, Slots
<1>5. Slots'
  BY <1>2, <1>4 DEF Guards, Slots, home
<1> QED BY <1>1, <1>3, <1>5 DEF Guards, TypeOK

LEMMA InitInv == Init => TypeOK /\ Inv
<1> SUFFICES ASSUME Init PROVE TypeOK /\ Inv
  OBVIOUS
<1>1. TypeOK
  BY LatestAssumption DEF Init, TypeOK, At
<1>2. \A c \in Call : at[c] = "out" /\ at[c] \notin HasHandle /\ at[c] \notin HasMutex /\ at[c] \notin HasSlot
  BY DEF Init, HasHandle, HasMutex, HasSlot, Inside, Working
<1>3. Guards
  BY <1>2 DEF Guards, Handles, Owned, Slots, Init
<1>4. Data
  BY <1>2, LatestAssumption DEF Data, SelectsWhenOpen, Migrating, AppliedOnce, Init, Version
<1> QED BY <1>1, <1>3, <1>4 DEF Inv

LEMMA BeginStep ==
    ASSUME TypeOK, Guards, NEW c \in Call, NEW n \in Spelling, Begin(c, n)
    PROVE  TypeOK' /\ Guards'
<1>1. at[c] = "out" /\ at' \in [Call -> At] /\ at'[c] \in {"unwritable", "probe"} /\ \A d \in Call : d # c => at'[d] = at[d]
  BY DEF Begin, Goto, TypeOK, At, Leaving, Refusals
<1>2. spelling' \in [Call -> Spelling] /\ \A d \in Call : d # c => spelling'[d] = spelling[d]
  BY DEF Begin, TypeOK
<1>3. \A d \in Call : /\ at'[d] \in HasHandle <=> d # c /\ at[d] \in HasHandle
                      /\ at'[d] \in HasMutex <=> d # c /\ at[d] \in HasMutex
                      /\ at'[d] \in HasSlot <=> at[d] \in HasSlot
  BY <1>1 DEF HasHandle, HasMutex, HasSlot, Inside, Working
<1>4. at[c] \notin HasHandle
  BY <1>1 DEF HasHandle, Inside, Working
<1>5. UNCHANGED <<handles, leaked, owner, registry>>
  BY DEF Begin, object
<1>6. Handles' /\ Owned'
  BY <1>2, <1>3, <1>4, <1>5 DEF Guards, Handles, Owned
<1>7. Slots'
  BY <1>3, <1>5 DEF Guards, Slots, home
<1>8. TypeOK'
  BY <1>1, <1>2, <1>5, Homes DEF TypeOK, Begin
<1> QED BY <1>6, <1>7, <1>8 DEF Guards

LEMMA CreateMutexStep ==
    ASSUME TypeOK, Guards, NEW c \in Call, CreateMutex(c)
    PROVE  TypeOK' /\ Guards'
<1>1. at[c] = "layout"
  BY DEF CreateMutex
<1>2. CASE Goto(c, "out") /\ UNCHANGED handles
  <2>1. at' \in [Call -> At] /\ Guards'
    BY <1>1, <1>2, MoveStep DEF CreateMutex, object, HasHandle, HasMutex, HasSlot, Inside, Working, At
  <2> QED BY <1>2, <2>1 DEF TypeOK, CreateMutex
<1>3. CASE Goto(c, "wait") /\ handles' = [handles EXCEPT ![spelling[c]] = @ \cup {c}]
  <2>1. at' \in [Call -> At] /\ at'[c] = "wait" /\ \A d \in Call : d # c => at'[d] = at[d]
    BY <1>3 DEF Goto, TypeOK, At
  <2>2. \A d \in Call : /\ at'[d] \in HasHandle <=> d = c \/ at[d] \in HasHandle
                        /\ at'[d] \in HasMutex <=> at[d] \in HasMutex
                        /\ at'[d] \in HasSlot <=> at[d] \in HasSlot
    BY <1>1, <2>1 DEF HasHandle, HasMutex, HasSlot, Inside, Working
  <2>3. /\ handles' \in [Spelling -> SUBSET Call] /\ spelling[c] \in Spelling
        /\ handles'[spelling[c]] = handles[spelling[c]] \cup {c}
        /\ \A n \in Spelling : n # spelling[c] => handles'[n] = handles[n]
    BY <1>3 DEF TypeOK
  <2>4. UNCHANGED <<spelling, leaked, owner, registry>>
    BY DEF CreateMutex
  <2>5. Handles'
    <3>1. \A n \in Spelling, d \in Call : d \in handles'[n] <=> spelling'[d] = n /\ at'[d] \in HasHandle
      BY <2>2, <2>3, <2>4 DEF Guards, Handles
    <3>2. \A n \in Spelling : handles'[n] = {} /\ leaked'[n] = {} => owner'[n] = Nobody
      BY <2>3, <2>4 DEF Guards, Handles
    <3> QED BY <3>1, <3>2 DEF Handles
  <2>6. Owned' /\ Slots'
    BY <2>2, <2>4 DEF Guards, Owned, Slots, home
  <2>7. TypeOK'
    BY <2>1, <2>3, <2>4 DEF TypeOK, CreateMutex
  <2> QED BY <2>5, <2>6, <2>7 DEF Guards
<1> QED BY <1>2, <1>3 DEF CreateMutex

\* The wait takes nothing from a call that owns the object.
LEMMA WaitStep ==
    ASSUME TypeOK, Guards, NEW c \in Call, Wait(c)
    PROVE  TypeOK' /\ Guards'
<1> DEFINE n == spelling[c]
<1>1. at[c] = "wait" /\ n \in Spelling
  BY DEF Wait, TypeOK
<1>2. UNCHANGED <<spelling, registry, probes, applied, version, next, writer, selecting>>
  BY DEF Wait
<1>3. CASE /\ owner[n] \in {Nobody, thread_of[c]}
           /\ Goto(c, "owned")
           /\ owner' = [owner EXCEPT ![n] = thread_of[c]]
           /\ UNCHANGED <<handles, leaked>>
  <2>1. Goto(c, "owned") /\ owner' = [owner EXCEPT ![n] = thread_of[c]] /\ UNCHANGED <<handles, leaked>>
    BY <1>3
  <2>2. at' \in [Call -> At] /\ at'[c] = "owned" /\ \A d \in Call : d # c => at'[d] = at[d]
    BY <2>1 DEF Goto, TypeOK, At
  <2>3. owner' \in [Spelling -> Thread \cup {Nobody}] /\ owner'[n] = thread_of[c]
        /\ \A m \in Spelling : m # n => owner'[m] = owner[m]
    BY <1>1, <2>1, Homes DEF TypeOK
  <2>4. \A d \in Call : /\ at'[d] \in HasHandle <=> at[d] \in HasHandle
                        /\ d # c => (at'[d] \in HasMutex <=> at[d] \in HasMutex)
                        /\ at'[d] \in HasSlot <=> at[d] \in HasSlot
    BY <1>1, <2>2 DEF HasHandle, HasMutex, HasSlot, Inside, Working
  <2>5. c \in handles[n]
    BY <1>1 DEF Guards, Handles, HasHandle
  <2>6. Handles'
    BY <1>2, <2>1, <2>3, <2>4, <2>5 DEF Guards, Handles
  <2>7. Owned'
    <3> SUFFICES ASSUME NEW d \in Call, at'[d] \in HasMutex
                 PROVE  owner'[spelling[d]] = thread_of[d]
      BY <1>2 DEF Owned
    <3>1. CASE d = c
      BY <2>3, <3>1
    <3>2. CASE d # c
      <4>1. owner[spelling[d]] = thread_of[d] /\ spelling[d] \in Spelling
        BY <2>4, <3>2 DEF Guards, Owned, TypeOK
      <4> QED BY <1>3, <2>3, <4>1, Homes
    <3> QED BY <3>1, <3>2
  <2>8. Slots'
    BY <1>2, <2>4 DEF Guards, Slots, home
  <2> QED BY <1>2, <2>1, <2>2, <2>3, <2>6, <2>7, <2>8 DEF Guards, TypeOK
<1>4. CASE Goto(c, "refused") /\ CloseHandle(c)
  <2>1. Goto(c, "refused") /\ CloseHandle(c)
    BY <1>4
  <2>2. /\ "refused" \in At /\ at[c] \in HasHandle /\ "refused" \notin HasHandle
        /\ "refused" \in HasSlot <=> at[c] \in HasSlot
    BY <1>1 DEF HasHandle, HasSlot, Inside, Working, At, Leaving, Refusals
  <2>3. /\ at' \in [Call -> At] /\ Guards'
        /\ handles' \in [Spelling -> SUBSET Call] /\ owner' \in [Spelling -> Thread \cup {Nobody}]
    BY <1>2, <2>1, <2>2, CloseStep
  <2>4. UNCHANGED leaked
    BY <2>1 DEF CloseHandle
  <2> QED BY <1>2, <2>3, <2>4 DEF TypeOK
<1>5. CASE Goto(c, "out") /\ LeakHandle(c)
  <2>1. at' \in [Call -> At] /\ at'[c] = "out" /\ \A d \in Call : d # c => at'[d] = at[d]
    BY <1>5 DEF Goto, TypeOK, At
  <2>2. \A d \in Call : /\ at'[d] \in HasHandle <=> d # c /\ at[d] \in HasHandle
                        /\ at'[d] \in HasMutex <=> at[d] \in HasMutex
                        /\ at'[d] \in HasSlot <=> at[d] \in HasSlot
    BY <1>1, <2>1 DEF HasHandle, HasMutex, HasSlot, Inside, Working
  <2>3. handles \in [Spelling -> SUBSET Call] /\ leaked \in [Spelling -> SUBSET Process]
    BY DEF TypeOK
  <2>4. /\ handles'[n] = handles[n] \ {c} /\ leaked'[n] = leaked[n] \cup {home(c)}
        /\ \A m \in Spelling : m # n => handles'[m] = handles[m] /\ leaked'[m] = leaked[m]
        /\ UNCHANGED owner
    BY <1>1, <1>5, <2>3 DEF LeakHandle
  <2>5. handles' \in [Spelling -> SUBSET Call] /\ leaked' \in [Spelling -> SUBSET Process]
    BY <1>1, <1>5, <2>3, Homes DEF LeakHandle
  <2>6. \A m \in Spelling, d \in Call : d \in handles'[m] <=> spelling'[d] = m /\ at'[d] \in HasHandle
    <3>1. \A m \in Spelling, d \in Call : d \in handles'[m] <=> d \in handles[m] /\ ~ (m = n /\ d = c)
      BY <2>4
    <3>2. \A m \in Spelling, d \in Call : d \in handles[m] <=> spelling[d] = m /\ at[d] \in HasHandle
      BY DEF Guards, Handles
    <3> QED BY <1>2, <2>2, <3>1, <3>2
  <2>7. \A m \in Spelling : handles'[m] = {} /\ leaked'[m] = {} => owner'[m] = Nobody
    <3>1. leaked'[n] # {}
      BY <2>4
    <3> QED BY <2>4, <3>1 DEF Guards, Handles
  <2>8. Owned' /\ Slots'
    BY <1>2, <2>2, <2>4 DEF Guards, Owned, Slots, home
  <2> QED BY <1>2, <2>1, <2>4, <2>5, <2>6, <2>7, <2>8 DEF Guards, Handles, TypeOK
<1> QED BY <1>3, <1>4, <1>5 DEF Wait

LEMMA RegisterStep ==
    ASSUME TypeOK, Guards, NEW c \in Call, Register(c)
    PROVE  TypeOK' /\ Guards'
<1>1. at[c] = "owned"
  BY DEF Register
<1>2. UNCHANGED <<spelling, probes, applied, version, next, writer, selecting>>
  BY DEF Register
<1>3. CASE home(c) \in registry
  <2>1. Goto(c, "refused") /\ CloseHandle(c) /\ UNCHANGED registry
    BY <1>3 DEF Register
  <2>2. /\ "refused" \in At /\ at[c] \in HasHandle /\ "refused" \notin HasHandle
        /\ "refused" \in HasSlot <=> at[c] \in HasSlot
    BY <1>1 DEF HasHandle, HasSlot, Inside, Working, At, Leaving, Refusals
  <2>3. /\ at' \in [Call -> At] /\ Guards'
        /\ handles' \in [Spelling -> SUBSET Call] /\ owner' \in [Spelling -> Thread \cup {Nobody}]
    BY <1>2, <2>1, <2>2, CloseStep
  <2>4. UNCHANGED leaked
    BY <2>1 DEF CloseHandle
  <2> QED BY <1>2, <2>1, <2>3, <2>4 DEF TypeOK
<1>4. CASE home(c) \notin registry
  <2>1. /\ Goto(c, "recover") /\ registry' = registry \cup {home(c)}
        /\ UNCHANGED <<handles, leaked, owner>>
    BY <1>4 DEF Register, object
  <2>2. at' \in [Call -> At] /\ at'[c] = "recover" /\ \A d \in Call : d # c => at'[d] = at[d]
    BY <2>1 DEF Goto, TypeOK, At, Inside, Working
  <2>3. \A d \in Call : /\ at'[d] \in HasHandle <=> at[d] \in HasHandle
                        /\ at'[d] \in HasMutex <=> at[d] \in HasMutex
                        /\ at'[d] \in HasSlot <=> d = c \/ at[d] \in HasSlot
    BY <1>1, <2>2 DEF HasHandle, HasMutex, HasSlot, Inside, Working
  <2>4. Handles' /\ Owned'
    BY <1>2, <2>1, <2>3 DEF Guards, Handles, Owned
  <2>5. \A d \in Call : at[d] \in HasSlot => home(d) # home(c)
    BY <1>4 DEF Guards, Slots
  <2>6. Slots'
    BY <2>1, <2>3, <2>5 DEF Guards, Slots, home
  <2> QED BY <1>2, <2>1, <2>2, <2>4, <2>6, Homes DEF Guards, TypeOK
<1> QED BY <1>3, <1>4

\* The actions that move a call and touch neither mutex nor registry.
Moving(c) ==
    \/ RemoveProbe(c) \/ Recover(c) \/ OpenStore(c) \/ BeginMigration(c) \/ Commit(c)
    \/ Migrated(c) \/ OpenVault(c) \/ Return(c) \/ DropStore(c) \/ Select(c)

LEMMA MovingStep ==
    ASSUME TypeOK, Guards, Migrating, NEW c \in Call, Moving(c)
    PROVE  at' \in [Call -> At] /\ Guards'
<1> USE DEF HasHandle, HasMutex, HasSlot, Inside, Working, At, Leaving, Refusals
<1>1. UNCHANGED <<spelling, object, registry>>
  BY DEF Moving, RemoveProbe, Recover, OpenStore, BeginMigration, Commit, Migrated, OpenVault, Return, DropStore, Select
<1>2. CASE UNCHANGED at
  BY <1>1, <1>2 DEF TypeOK, Guards, Handles, Owned, Slots, home, object
<1>3. CASE RemoveProbe(c)
  BY <1>1, <1>3, MoveStep DEF RemoveProbe
<1>4. CASE Recover(c)
  BY <1>1, <1>4, MoveStep DEF Recover
<1>5. CASE OpenStore(c)
  BY <1>1, <1>5, MoveStep DEF OpenStore
<1>6. CASE BeginMigration(c)
  BY <1>1, <1>2, <1>6, MoveStep DEF BeginMigration
<1>7. CASE Commit(c)
  <2>1. at[c] = "migrate"
    BY <1>7, Homes, CallAssumption DEF Commit, Migrating
  <2> QED BY <1>1, <1>2, <1>7, <2>1, MoveStep DEF Commit
<1>8. CASE Migrated(c)
  BY <1>1, <1>8, MoveStep DEF Migrated
<1>9. CASE OpenVault(c)
  BY <1>1, <1>9, MoveStep DEF OpenVault
<1>10. CASE Return(c)
  BY <1>1, <1>10, MoveStep DEF Return
<1>11. CASE DropStore(c)
  BY <1>1, <1>11, MoveStep DEF DropStore
<1>12. CASE Select(c)
  BY <1>2, <1>12 DEF Select
<1> QED BY <1>3, <1>4, <1>5, <1>6, <1>7, <1>8, <1>9, <1>10, <1>11, <1>12 DEF Moving

\* What the moving actions do to the data is of the declared types.
LEMMA MovingTypes ==
    ASSUME TypeOK, Guards, Migrating, NEW c \in Call, Moving(c)
    PROVE  TypeOK'
<1>1. at' \in [Call -> At]
  BY MovingStep
<1>2. UNCHANGED <<spelling, object, registry>>
  BY DEF Moving, RemoveProbe, Recover, OpenStore, BeginMigration, Commit, Migrated, OpenVault, Return, DropStore, Select
<1>3. probes' \subseteq Process
  BY DEF Moving, RemoveProbe, Recover, OpenStore, BeginMigration, Commit, Migrated, OpenVault, Return, DropStore, Select, TypeOK
<1>4. writer' \in Call \cup {Nobody} /\ selecting' \subseteq Call
  BY DEF Moving, RemoveProbe, Recover, OpenStore, BeginMigration, Commit, Migrated, OpenVault, Return, DropStore, Select, TypeOK
<1>5. applied' \in [Version -> Nat] /\ version' \in 0 .. Latest + 1 /\ next' \in [Call -> 1 .. Latest + 1]
  <2>1. CASE Commit(c)
    <3>1. next[c] = version + 1 /\ next[c] <= Latest /\ next[c] \in Version
      BY <2>1, CallAssumption, LatestAssumption DEF Commit, Migrating, TypeOK, Version
    <3>2. CASE UNCHANGED <<applied, version, next>>
      BY <3>2 DEF TypeOK
    <3>3. CASE /\ applied' = [applied EXCEPT ![next[c]] = @ + 1]
               /\ version' = next[c]
               /\ next' = [next EXCEPT ![c] = @ + 1]
      BY <3>1, <3>3, LatestAssumption DEF TypeOK, Version
    <3> QED BY <2>1, <3>2, <3>3 DEF Commit
  <2>2. CASE OpenStore(c)
    BY <2>2, LatestAssumption DEF OpenStore, TypeOK
  <2>3. CASE UNCHANGED <<applied, version, next>>
    BY <2>3 DEF TypeOK
  <2> QED BY <2>1, <2>2, <2>3
          DEF Moving, RemoveProbe, Recover, BeginMigration, Migrated, OpenVault, Return, DropStore, Select
<1> QED BY <1>1, <1>2, <1>3, <1>4, <1>5 DEF TypeOK, object

LEMMA DropStep ==
    ASSUME TypeOK, Guards, NEW c \in Call, FailDropsMutex(c) \/ Drop(c)
    PROVE  TypeOK' /\ Guards'
<1>1. PICK w \in {"out", "unlocked"} :
         /\ Goto(c, w) /\ CloseHandle(c) /\ (w = "out" <=> at[c] = "unregistered")
         /\ at[c] \in {"unregistered", "open"}
         /\ UNCHANGED <<spelling, registry, probes, applied, version, next, writer, selecting>>
  BY DEF FailDropsMutex, Drop
<1>2. /\ w \in At /\ at[c] \in HasHandle /\ w \notin HasHandle
      /\ w \in HasSlot <=> at[c] \in HasSlot
  BY <1>1 DEF HasHandle, HasSlot, Inside, Working, At, Leaving, Refusals
<1>3. /\ at' \in [Call -> At] /\ Guards'
      /\ handles' \in [Spelling -> SUBSET Call] /\ owner' \in [Spelling -> Thread \cup {Nobody}]
  BY <1>1, <1>2, CloseStep
<1>4. UNCHANGED leaked
  BY <1>1 DEF CloseHandle
<1> QED BY <1>1, <1>3, <1>4 DEF TypeOK

LEMMA DropSlotStep ==
    ASSUME TypeOK, Guards, NEW c \in Call, FailDropsSlot(c) \/ DropSlot(c)
    PROVE  TypeOK' /\ Guards'
<1>1. PICK w \in {"unregistered", "closing"} :
         /\ Goto(c, w) /\ registry' = registry \ {home(c)}
         /\ (w = "unregistered" /\ at[c] = "failed") \/ (w = "closing" /\ at[c] = "unlocked")
         /\ UNCHANGED <<spelling, object, probes, applied, version, next, writer, selecting>>
  BY DEF FailDropsSlot, DropSlot
<1>2. /\ w \in At /\ at[c] \in HasSlot /\ w \notin HasSlot
      /\ w \in HasHandle <=> at[c] \in HasHandle
      /\ w \in HasMutex <=> at[c] \in HasMutex
  BY <1>1 DEF HasHandle, HasMutex, HasSlot, Inside, Working, At, Leaving, Refusals
<1>3. at' \in [Call -> At] /\ Guards' /\ registry' \subseteq Process
  BY <1>1, <1>2, SlotStep
<1> QED BY <1>1, <1>3 DEF TypeOK, object

\* A process that ends takes exactly its own calls, handles and entry with it.
LEMMA StopStep ==
    ASSUME TypeOK, Guards, NEW p \in Process, Stop(p)
    PROVE  TypeOK' /\ Guards'
<1> DEFINE mine == {c \in Call : home(c) = p}
           Closed(n) == handles[n] \subseteq mine /\ leaked[n] \subseteq {p}
<1>1. /\ at' = [c \in Call |-> IF c \in mine THEN "out" ELSE at[c]]
      /\ handles' = [n \in Spelling |-> handles[n] \ mine]
      /\ leaked' = [n \in Spelling |-> leaked[n] \ {p}]
      /\ owner' = [n \in Spelling |->
             IF owner[n] # Nobody /\ (process_of[owner[n]] = p \/ Closed(n))
             THEN Nobody ELSE owner[n]]
      /\ registry' = registry \ {p}
      /\ probes' \in {probes, probes \ {p}}
      /\ writer' = (IF writer \in mine THEN Nobody ELSE writer)
      /\ selecting' = selecting \ mine
      /\ UNCHANGED <<spelling, applied, version, next>>
  BY DEF Stop
<1> HIDE DEF mine, Closed
<1>2. TypeOK'
  BY <1>1 DEF TypeOK, At
<1>3. \A c \in Call : at'[c] = IF home(c) = p THEN "out" ELSE at[c]
  BY <1>1 DEF mine
<1>4. \A c \in Call : /\ at'[c] \in HasHandle <=> home(c) # p /\ at[c] \in HasHandle
                      /\ at'[c] \in HasMutex <=> home(c) # p /\ at[c] \in HasMutex
                      /\ at'[c] \in HasSlot <=> home(c) # p /\ at[c] \in HasSlot
  BY <1>3 DEF HasHandle, HasMutex, HasSlot, Inside, Working
<1>5. Handles'
  <2>1. \A n \in Spelling, c \in Call : c \in handles'[n] <=> home(c) # p /\ c \in handles[n]
    BY <1>1 DEF mine
  <2>2. \A n \in Spelling : handles'[n] = {} /\ leaked'[n] = {} => Closed(n)
    BY <1>1 DEF Closed
  <2>3. \A n \in Spelling : handles'[n] = {} /\ leaked'[n] = {} => owner'[n] = Nobody
    BY <1>1, <2>2
  <2> QED BY <1>1, <1>4, <2>1, <2>3 DEF Guards, Handles
<1>6. Owned'
  <2> SUFFICES ASSUME NEW c \in Call, at'[c] \in HasMutex
               PROVE  owner'[spelling[c]] = thread_of[c]
    BY <1>1 DEF Owned
  <2>1. home(c) # p /\ at[c] \in HasMutex /\ at[c] \in HasHandle
    BY <1>4, Places
  <2>2. spelling[c] \in Spelling /\ c \in handles[spelling[c]] /\ owner[spelling[c]] = thread_of[c]
    BY <2>1 DEF Guards, Handles, Owned, TypeOK
  <2>3. process_of[owner[spelling[c]]] # p /\ ~ Closed(spelling[c])
    BY <2>1, <2>2 DEF home, mine, Closed
  <2> QED BY <1>1, <2>2, <2>3
<1>7. Slots'
  <2>1. \A c \in Call : at'[c] \in HasSlot => home(c) \in registry'
    BY <1>1, <1>4 DEF Guards, Slots
  <2>2. \A r \in registry' : \E c \in Call : at'[c] \in HasSlot /\ home(c) = r
    BY <1>1, <1>4 DEF Guards, Slots
  <2>3. \A c, d \in Call : at'[c] \in HasSlot /\ at'[d] \in HasSlot /\ home(c) = home(d) => c = d
    BY <1>4 DEF Guards, Slots
  <2> QED BY <2>1, <2>2, <2>3 DEF Slots, home
<1> QED BY <1>2, <1>5, <1>6, <1>7 DEF Guards

-----------------------------------------------------------------------------
(* The data *)

\* Nobody's step but that of a migrating call changes where it is, and what the
\* store holds stays.
LEMMA DataKept ==
    ASSUME TypeOK, Data, UNCHANGED <<applied, version>>,
           \A d \in selecting' : at'[d] = "open",
           \A d \in Call : at'[d] = "migrate" => at[d] = "migrate" /\ next'[d] = next[d],
           writer' = Nobody \/ (writer' = writer /\ at'[writer] = "migrate")
    PROVE  Data'
<1>1. SelectsWhenOpen' /\ AppliedOnce'
  BY DEF Data, SelectsWhenOpen, AppliedOnce
<1>2. Migrating'
  BY CallAssumption DEF Data, Migrating, TypeOK
<1> QED BY <1>1, <1>2 DEF Data

LEMMA DataStep ==
    ASSUME TypeOK, Data, TypeOK', [Next]_vars
    PROVE  Data'
<1>1. CASE UNCHANGED vars
  BY <1>1 DEF vars, Data, SelectsWhenOpen, Migrating, AppliedOnce
<1>2. ASSUME NEW p \in Process, Stop(p) PROVE Data'
  <2>1. /\ UNCHANGED <<applied, version, next>>
        /\ at' = [c \in Call |-> IF c \in {d \in Call : home(d) = p} THEN "out" ELSE at[c]]
        /\ writer' = IF writer \in {c \in Call : home(c) = p} THEN Nobody ELSE writer
        /\ selecting' = selecting \ {c \in Call : home(c) = p}
    BY <1>2 DEF Stop
  <2>2. \A d \in selecting' : at'[d] = "open"
    BY <2>1 DEF Data, SelectsWhenOpen, TypeOK
  <2>3. \A d \in Call : at'[d] = "migrate" => at[d] = "migrate" /\ next'[d] = next[d]
    BY <2>1
  <2>4. writer' = Nobody \/ (writer' = writer /\ at'[writer] = "migrate")
    BY <2>1 DEF Data, Migrating, TypeOK
  <2> QED BY <2>1, <2>2, <2>3, <2>4, DataKept
<1>3. ASSUME NEW c \in Call, OpenStore(c) PROVE Data'
  <2>1. UNCHANGED <<applied, version, writer, selecting>> /\ at[c] = "store"
    BY <1>3 DEF OpenStore
  <2>2. \A d \in selecting : d # c
    BY <2>1 DEF Data, SelectsWhenOpen
  <2>3. CASE Goto(c, "failed") /\ UNCHANGED next
    <3>1. \A d \in Call : at'[d] = IF d = c THEN "failed" ELSE at[d]
      BY <2>3 DEF Goto, TypeOK
    <3>2. writer # Nobody => writer \in Call /\ writer # c
      BY <2>1 DEF Data, Migrating, TypeOK
    <3>3. writer' = Nobody \/ (writer' = writer /\ at'[writer] = "migrate")
      BY <2>1, <3>1, <3>2 DEF Data, Migrating
    <3> QED BY <2>1, <2>2, <2>3, <3>1, <3>3, DataKept DEF Data, SelectsWhenOpen, TypeOK
  <2>4. CASE version <= Latest /\ Goto(c, "migrate") /\ next' = [next EXCEPT ![c] = version + 1]
    <3>1. \A d \in Call : /\ at'[d] = IF d = c THEN "migrate" ELSE at[d]
                          /\ next'[d] = IF d = c THEN version + 1 ELSE next[d]
      BY <2>4 DEF Goto, TypeOK
    <3>2. writer # Nobody => writer \in Call /\ writer # c
      BY <2>1 DEF Data, Migrating, TypeOK
    <3>3. SelectsWhenOpen' /\ AppliedOnce'
      BY <2>1, <2>2, <3>1 DEF Data, SelectsWhenOpen, AppliedOnce, TypeOK
    <3>4. \A d \in Call : at'[d] = "migrate" => version' <= Latest /\ next'[d] <= version' + 1
      <4>1. version \in Int
        BY LatestAssumption DEF TypeOK
      <4> QED BY <2>1, <2>4, <3>1, <4>1 DEF Data, Migrating
    <3>5. writer' # Nobody =>
              at'[writer'] = "migrate" /\ next'[writer'] = version' + 1 /\ next'[writer'] <= Latest
      BY <2>1, <3>1, <3>2 DEF Data, Migrating
    <3> QED BY <3>3, <3>4, <3>5 DEF Data, Migrating
  <2> QED BY <1>3, <2>3, <2>4 DEF OpenStore
<1>4. ASSUME NEW c \in Call, BeginMigration(c) PROVE Data'
  <2>1. /\ UNCHANGED <<applied, version, next, selecting>> /\ at[c] = "migrate"
        /\ next[c] <= Latest /\ writer # c
    BY <1>4 DEF BeginMigration
  <2>2. \A d \in selecting : d # c
    BY <2>1 DEF Data, SelectsWhenOpen
  <2>3. CASE Goto(c, "failed") /\ UNCHANGED writer
    <3>1. \A d \in Call : at'[d] = IF d = c THEN "failed" ELSE at[d]
      BY <2>3 DEF Goto, TypeOK
    <3>2. writer' = Nobody \/ (writer' = writer /\ at'[writer] = "migrate")
      BY <2>1, <2>3, <3>1 DEF Data, Migrating, TypeOK
    <3> QED BY <2>1, <2>2, <2>3, <3>1, <3>2, DataKept DEF Data, SelectsWhenOpen, TypeOK
  <2>4. CASE writer = Nobody /\ applied[next[c]] = 0 /\ writer' = c /\ UNCHANGED at
    <3>1. version \in Int /\ next[c] \in Int /\ next[c] >= 1 /\ version <= Latest
      BY <2>1, LatestAssumption DEF TypeOK, Data, Migrating
    <3>2. next[c] \in Version
      BY <2>1, <3>1, LatestAssumption DEF Version
    <3>3. ~ (next[c] <= version)
      BY <2>4, <3>1, <3>2 DEF Data, AppliedOnce
    <3>4. next[c] = version + 1
      BY <2>1, <3>1, <3>3 DEF Data, Migrating
    <3>5. Migrating'
      BY <2>1, <2>4, <3>4 DEF Data, Migrating
    <3>6. SelectsWhenOpen' /\ AppliedOnce'
      BY <2>1, <2>4 DEF Data, SelectsWhenOpen, AppliedOnce
    <3> QED BY <3>5, <3>6 DEF Data
  <2> QED BY <1>4, <2>3, <2>4 DEF BeginMigration
<1>5. ASSUME NEW c \in Call, Commit(c) PROVE Data'
  <2>1. /\ UNCHANGED selecting /\ writer = c /\ writer' = Nobody /\ at[c] = "migrate"
        /\ next[c] = version + 1 /\ next[c] <= Latest
    BY <1>5, CallAssumption DEF Commit, Data, Migrating
  <2>2. \A d \in selecting : d # c
    BY <2>1 DEF Data, SelectsWhenOpen
  <2>3. CASE Goto(c, "failed") /\ UNCHANGED <<applied, version, next>>
    <3>1. \A d \in Call : at'[d] = IF d = c THEN "failed" ELSE at[d]
      BY <2>3 DEF Goto, TypeOK
    <3> QED BY <2>1, <2>2, <2>3, <3>1, DataKept DEF Data, SelectsWhenOpen, TypeOK
  <2>4. CASE /\ applied' = [applied EXCEPT ![next[c]] = @ + 1]
             /\ version' = next[c]
             /\ next' = [next EXCEPT ![c] = @ + 1]
             /\ UNCHANGED at
    <3>1. version \in Nat /\ next[c] \in Version /\ version <= Latest
      BY <2>1, LatestAssumption DEF TypeOK, Version, Data, Migrating
    <3>2. \A v \in Version : applied'[v] = IF v = next[c] THEN applied[v] + 1 ELSE applied[v]
      BY <2>4 DEF TypeOK
    <3>3. AppliedOnce'
      BY <2>1, <2>4, <3>1, <3>2, LatestAssumption DEF Data, AppliedOnce, Version
    <3>4. \A d \in Call : next'[d] = IF d = c THEN next[d] + 1 ELSE next[d]
      BY <2>4 DEF TypeOK
    <3>5. \A d \in Call : at'[d] = "migrate" => version' <= Latest /\ next'[d] <= version' + 1
      <4> SUFFICES ASSUME NEW d \in Call, at[d] = "migrate"
                   PROVE  version' <= Latest /\ next'[d] <= version' + 1
        BY <2>4
      <4>1. next[d] \in Int /\ next[d] <= version + 1
        BY LatestAssumption DEF TypeOK, Data, Migrating
      <4> QED BY <2>1, <2>4, <3>1, <3>4, <4>1
    <3>6. SelectsWhenOpen' /\ Migrating'
      BY <2>1, <2>4, <3>5 DEF Data, SelectsWhenOpen, Migrating
    <3> QED BY <3>3, <3>6 DEF Data
  <2> QED BY <1>5, <2>3, <2>4 DEF Commit
<1>6. ASSUME NEW c \in Call, Select(c) PROVE Data'
  <2>1. \A d \in selecting' : at'[d] = "open"
    BY <1>6 DEF Select, Data, SelectsWhenOpen
  <2> QED BY <1>6, <2>1, DataKept DEF Select, Data, Migrating
<1>7. ASSUME NEW c \in Call, NEW w \in At \ {"migrate"},
             Goto(c, w), at[c] # "migrate" \/ writer # c, at[c] # "open" \/ c \notin selecting,
             UNCHANGED <<applied, version, next, writer, selecting>>
      PROVE  Data'
  <2>1. \A d \in Call : at'[d] = IF d = c THEN w ELSE at[d]
    BY <1>7 DEF Goto, TypeOK
  <2>2. \A d \in selecting' : at'[d] = "open"
    BY <1>7, <2>1 DEF Data, SelectsWhenOpen, TypeOK
  <2>3. writer' = Nobody \/ (writer' = writer /\ at'[writer] = "migrate")
    BY <1>7, <2>1 DEF Data, Migrating, TypeOK
  <2> QED BY <1>7, <2>1, <2>2, <2>3, DataKept
<1>8. ASSUME NEW c \in Call,
             \/ \E n \in Spelling : Begin(c, n)
             \/ RemoveProbe(c) \/ CreateMutex(c) \/ Wait(c) \/ Register(c) \/ Recover(c)
             \/ Migrated(c) \/ OpenVault(c) \/ Cleanup(c) \/ Drop(c)
      PROVE  Data'
  <2>1. UNCHANGED <<applied, version, next, writer, selecting>>
    BY <1>8 DEF Begin, RemoveProbe, CreateMutex, Wait, Register, Recover, Migrated, OpenVault,
                Cleanup, Return, FailDropsSlot, FailDropsMutex, DropSlot, DropStore, Drop
  <2>2. \E w \in At \ {"migrate"} : Goto(c, w)
    <3>1. ASSUME NEW n \in Spelling, Begin(c, n) PROVE \E w \in At \ {"migrate"} : Goto(c, w)
      BY <3>1 DEF Begin, At, Leaving, Refusals
    <3>2. RemoveProbe(c) \/ CreateMutex(c) => \E w \in At \ {"migrate"} : Goto(c, w)
      BY DEF RemoveProbe, CreateMutex, At
    <3>3. Wait(c) => \E w \in At \ {"migrate"} : Goto(c, w)
      BY DEF Wait, At, Leaving, Refusals
    <3>4. Register(c) => \E w \in At \ {"migrate"} : Goto(c, w)
      BY DEF Register, At, Inside, Working, Leaving, Refusals
    <3>5. Recover(c) \/ Migrated(c) \/ OpenVault(c) => \E w \in At \ {"migrate"} : Goto(c, w)
      BY DEF Recover, Migrated, OpenVault, At, Inside, Working, Leaving
    <3>6. Cleanup(c) \/ Drop(c) => \E w \in At \ {"migrate"} : Goto(c, w)
      BY DEF Cleanup, Return, FailDropsSlot, FailDropsMutex, DropSlot, DropStore, Drop, At, Leaving
    <3> QED BY <1>8, <3>1, <3>2, <3>3, <3>4, <3>5, <3>6
  <2>3. at[c] # "open" \/ c \notin selecting
    <3>1. ASSUME NEW n \in Spelling, Begin(c, n) PROVE at[c] # "open"
      BY <3>1 DEF Begin
    <3>2. RemoveProbe(c) \/ CreateMutex(c) \/ Wait(c) \/ Register(c) => at[c] # "open"
      BY DEF RemoveProbe, CreateMutex, Wait, Register
    <3>3. Recover(c) \/ Migrated(c) \/ OpenVault(c) \/ Cleanup(c) => at[c] # "open"
      BY DEF Recover, Migrated, OpenVault, Cleanup, Return, FailDropsSlot, FailDropsMutex,
             DropSlot, DropStore, Refusals
    <3>4. Drop(c) => c \notin selecting
      BY DEF Drop
    <3> QED BY <1>8, <3>1, <3>2, <3>3, <3>4
  <2>4. at[c] # "migrate" \/ writer # c
    <3>1. CASE Migrated(c)
      <4>1. next[c] > Latest /\ next[c] \in Int
        BY <3>1, LatestAssumption DEF Migrated, TypeOK
      <4>2. writer = c => next[c] <= Latest
        BY CallAssumption DEF Data, Migrating
      <4> QED BY <4>1, <4>2, LatestAssumption
    <3>2. ASSUME NEW n \in Spelling, Begin(c, n) PROVE at[c] # "migrate"
      BY <3>2 DEF Begin
    <3>3. RemoveProbe(c) \/ CreateMutex(c) \/ Wait(c) \/ Register(c) => at[c] # "migrate"
      BY DEF RemoveProbe, CreateMutex, Wait, Register
    <3>4. Recover(c) \/ OpenVault(c) \/ Cleanup(c) \/ Drop(c) => at[c] # "migrate"
      BY DEF Recover, OpenVault, Cleanup, Return, FailDropsSlot, FailDropsMutex, DropSlot,
             DropStore, Drop, Refusals
    <3> QED BY <1>8, <3>1, <3>2, <3>3, <3>4
  <2> QED BY <1>7, <2>1, <2>2, <2>3, <2>4
<1> QED BY <1>1, <1>2, <1>3, <1>4, <1>5, <1>6, <1>8 DEF Next, Bootstrap, Cleanup

-----------------------------------------------------------------------------
(* The invariant, and what follows from it *)

LEMMA NextInv == TypeOK /\ Inv /\ [Next]_vars => TypeOK' /\ Inv'
<1> SUFFICES ASSUME TypeOK, Inv, [Next]_vars PROVE TypeOK' /\ Inv'
  OBVIOUS
<1>0. Guards /\ Data /\ Migrating
  BY DEF Inv, Data
<1>1. CASE UNCHANGED vars
  BY <1>0, <1>1 DEF vars, object, TypeOK, Guards, Handles, Owned, Slots, home, Data, SelectsWhenOpen, Migrating,
                    AppliedOnce, Inv
<1>2. CASE Next
  <2>1. ASSUME NEW c \in Call, NEW n \in Spelling, Begin(c, n) PROVE TypeOK' /\ Guards'
    BY <1>0, <2>1, BeginStep
  <2>2. ASSUME NEW c \in Call, Moving(c) PROVE TypeOK' /\ Guards'
    BY <1>0, <2>2, MovingStep, MovingTypes
  <2>3. ASSUME NEW c \in Call, CreateMutex(c) PROVE TypeOK' /\ Guards'
    BY <1>0, <2>3, CreateMutexStep
  <2>4. ASSUME NEW c \in Call, Wait(c) PROVE TypeOK' /\ Guards'
    BY <1>0, <2>4, WaitStep
  <2>5. ASSUME NEW c \in Call, Register(c) PROVE TypeOK' /\ Guards'
    BY <1>0, <2>5, RegisterStep
  <2>6. ASSUME NEW c \in Call, FailDropsMutex(c) \/ Drop(c) PROVE TypeOK' /\ Guards'
    BY <1>0, <2>6, DropStep
  <2>7. ASSUME NEW c \in Call, FailDropsSlot(c) \/ DropSlot(c) PROVE TypeOK' /\ Guards'
    BY <1>0, <2>7, DropSlotStep
  <2>8. ASSUME NEW p \in Process, Stop(p) PROVE TypeOK' /\ Guards'
    BY <1>0, <2>8, StopStep
  <2>9. TypeOK' /\ Guards'
    BY <1>2, <2>1, <2>2, <2>3, <2>4, <2>5, <2>6, <2>7, <2>8 DEF Next, Bootstrap, Cleanup, Moving
  <2>10. Data'
    BY <1>0, <2>9, DataStep
  <2> QED BY <2>9, <2>10 DEF Inv
<1> QED BY <1>1, <1>2

LEMMA Inductive == Spec => [](TypeOK /\ Inv)
<1>1. Init => TypeOK /\ Inv
  BY InitInv
<1>2. (TypeOK /\ Inv) /\ [Next]_vars => (TypeOK /\ Inv)'
  BY NextInv
<1> QED BY <1>1, <1>2, PTL DEF Spec

\* Two calls with one spelling own the same object, so one thread owns it: they
\* are of one process, and the registry tells them apart.
LEMMA Distinct == TypeOK /\ Inv => OnePerSpelling
<1> SUFFICES ASSUME TypeOK, Inv, NEW c \in Call, NEW d \in Call, c # d,
                    at[c] \in Inside, at[d] \in Inside
             PROVE  spelling[c] # spelling[d] /\ home(c) # home(d)
  BY DEF OnePerSpelling
<1>1. at[c] \in HasMutex /\ at[d] \in HasMutex /\ at[c] \in HasSlot /\ at[d] \in HasSlot
  BY Places
<1>2. home(c) # home(d)
  BY <1>1 DEF Inv, Guards, Slots
<1>3. spelling[c] = spelling[d] => thread_of[c] = thread_of[d]
  BY <1>1 DEF Inv, Guards, Owned
<1> QED BY <1>2, <1>3 DEF home

\* Type correctness of the two guards and of the store: a migration number never
\* leaves the table of migrations (Store::apply_migrations).
THEOREM TypeCorrect == Spec => []TypeOK
  BY Inductive, PTL

\* A workspace is open once for each spelling and once for each process, for any
\* number of calls, threads, processes and spellings (Workspace::bootstrap).
THEOREM MutualExclusion == Spec => []OnePerSpelling
  BY Inductive, Distinct, PTL

\* No failure but that of the wait leaves a handle, an owned object or a registry
\* entry behind, and no end of a process leaves any (RegistrySlot, NamedMutexGuard).
THEOREM OnlyWaitsLeak == Spec => []OnlyFailedWaitsLeak
<1>1. TypeOK /\ Inv => OnlyFailedWaitsLeak
  <2> SUFFICES ASSUME TypeOK, Inv PROVE OnlyFailedWaitsLeak
    OBVIOUS
  <2>1. \A n \in Spelling :
          /\ handles[n] = {c \in Call : spelling[c] = n /\ at[c] \in HasHandle}
          /\ handles[n] = {} /\ leaked[n] = {} => owner[n] = Nobody
    BY DEF TypeOK, Inv, Guards, Handles
  <2>2. registry = {home(c) : c \in {d \in Call : at[d] \in HasSlot}}
    <3>1. \A p \in registry : p \in {home(c) : c \in {d \in Call : at[d] \in HasSlot}}
      BY DEF Inv, Guards, Slots
    <3>2. \A c \in {d \in Call : at[d] \in HasSlot} : home(c) \in registry
      BY DEF Inv, Guards, Slots
    <3> QED BY <3>1, <3>2
  <2> QED BY <2>1, <2>2 DEF OnlyFailedWaitsLeak, HasHandle, HasSlot
<1> QED BY <1>1, Inductive, PTL

\* Every migration is committed exactly once, whichever connections race and
\* whichever process ends in between (Store::apply_migrations).
THEOREM Migrations == Spec => []AppliedOnce
<1>1. TypeOK /\ Inv => AppliedOnce
  BY DEF Inv, Data
<1> QED BY <1>1, Inductive, PTL

\* Startup recovery removes current.tmp from no selection under way in a workspace
\* of the same spelling or of the same process (recover_workspace, set_current).
\* Of another process with another spelling nothing is said: it may.
THEOREM RecoverySparesThem == Spec => RecoverySparesSelections
<1>1. TypeOK /\ Inv /\ [Next]_vars =>
        [\A c, d \in Call : at[c] = "recover" /\ at'[c] = "store" /\ d \in selecting =>
             spelling[d] # spelling[c] /\ home(d) # home(c)]_vars
  <2> SUFFICES ASSUME TypeOK, Inv, NEW c \in Call, NEW d \in Call, at[c] = "recover", d \in selecting
               PROVE  spelling[d] # spelling[c] /\ home(d) # home(c)
    OBVIOUS
  <2>1. at[d] = "open" /\ d # c
    BY DEF Inv, Data, SelectsWhenOpen
  <2>2. at[c] \in Inside /\ at[d] \in Inside
    BY <2>1 DEF Inside, Working
  <2> QED BY <2>1, <2>2, Distinct DEF OnePerSpelling
<1> QED BY <1>1, Inductive, PTL DEF Spec, RecoverySparesSelections

\* What the documentation of bootstrap promises is kept wherever a directory
\* has one spelling only: the spelling is all that separates the code from it.
THEOREM SoleOwner ==
    ASSUME \A m, n \in Spelling : m = n
    PROVE  Spec => []OneOwner
<1>1. TypeOK /\ Inv => OneOwner
  <2> SUFFICES ASSUME TypeOK, Inv, NEW c \in Call, NEW d \in Call,
                      at[c] = "open", at[d] = "open", c # d
               PROVE  FALSE
    BY DEF OneOwner
  <2>1. spelling[c] = spelling[d]
    BY DEF TypeOK
  <2>2. at[c] \in Inside /\ at[d] \in Inside
    BY DEF Inside
  <2> QED BY <2>1, <2>2, Distinct DEF OnePerSpelling
<1> QED BY <1>1, Inductive, PTL
=============================================================================
