--------------------------- MODULE InstallsProofs ---------------------------
(***************************************************************************)
(* The current version stays installed, installed versions keep their      *)
(* files, new ones appear with all of them, and a version in use is only   *)
(* deleted through the known holes of its protection, for every number of  *)
(* versions, profiles and installs at the same time.                       *)
(***************************************************************************)
EXTENDS Installs, TLAPS

-----------------------------------------------------------------------------
(* Types *)

\* A thread that installs has a version and the files left to extract.
LEMMA InstallingThread ==
  ASSUME TypeOK, NEW t \in Thread,
         step[t].at \in {"check", "prepare", "extract", "promote", "record", "readCurrent",
                         "select"}
  PROVE  step[t] \in InstallStep
  BY DEF TypeOK, AtRest, InstallStep, SelectStep, DeleteStep

\* A thread that selects or deletes has a version.
LEMMA VersionThread ==
  ASSUME TypeOK, NEW t \in Thread,
         step[t].at \in {"writeTmp", "renameTmp", "recheck", "remove", "dropRows", "stuck"}
  PROVE  step[t] \in SelectStep \cup DeleteStep
  BY DEF TypeOK, AtRest, InstallStep, SelectStep, DeleteStep

\* The variables of the code; the other two are history.
TypesOfState ==
    /\ dir \in [Version -> Tree]
    /\ staging \in [Version -> Tree]
    /\ current \in Version \cup {None}
    /\ tmp \in Version \cup {None}
    /\ rows \in SUBSET Version
    /\ pin \in [Profile -> Version \cup {None}]
    /\ running \in [Profile -> Version \cup {None}]
    /\ deleted \in SUBSET Profile
    /\ step \in [Thread -> {AtRest} \cup InstallStep \cup SelectStep \cup DeleteStep]
    /\ begun \in 0..MaxInstalls

\* An installation keeps the types.
LEMMA InstallTypes ==
  ASSUME TypeOK, NEW i \in Installer, Install(i)
  PROVE  TypesOfState'
<1> i \in Thread
  BY DEF Thread
<1> USE DEF TypeOK, TypesOfState, InstallStep, SelectStep, DeleteStep, Tree, File
<1>1. CASE CheckNotInstalled(i)
  BY <1>1, InstallingThread DEF CheckNotInstalled, Return, Goto
<1>2. CASE Prepare(i)
  BY <1>2, InstallingThread DEF Prepare, Leftovers, Goto
<1>3. CASE Validate(i)
  BY <1>3, InstallingThread DEF Validate, Goto
<1>4. CASE ExtractFails(i)
  BY <1>4, InstallingThread DEF ExtractFails, Leftovers, Return
<1>5. CASE Promote(i)
  BY <1>5, InstallingThread DEF Promote, Goto
<1>6. ASSUME NEW f \in File, ExtractFile(i, f)
      PROVE  TypesOfState'
  BY <1>6, InstallingThread DEF ExtractFile
<1>7. CASE Record(i)
  BY <1>7, InstallingThread DEF Record, Goto
<1>8. CASE ReadCurrent(i)
  BY <1>8, InstallingThread DEF ReadCurrent, Return, Goto
<1>9. CASE SelectInstalled(i)
  BY <1>9, InstallingThread DEF SelectInstalled, Select, Return
<1> QED
  BY <1>1, <1>2, <1>3, <1>4, <1>5, <1>6, <1>7, <1>8, <1>9 DEF Install

\* The main thread's commands keep the types.
LEMMA MainTypes ==
  ASSUME TypeOK, Command \/ FinishDelete
  PROVE  TypesOfState'
<1> Main \in Thread
  BY DEF Thread
<1> USE DEF TypeOK, TypesOfState, InstallStep, SelectStep, DeleteStep, Tree, File
<1>1. ASSUME NEW v \in Version, SetCurrent(v)
      PROVE  TypesOfState'
  BY <1>1 DEF SetCurrent, Select, Return
<1>2. ASSUME NEW v \in Version, Delete(v)
      PROVE  TypesOfState'
  <2>1. PICK unplanned \in SUBSET Profile :
           step' = [step EXCEPT ![Main] =
                      [at |-> "recheck", version |-> v, unplanned |-> unplanned]]
    BY <1>2 DEF Delete
  <2> QED
    BY <1>2, <2>1 DEF Delete
<1>3. ASSUME NEW p \in Profile, LaunchProfile(p)
      PROVE  TypesOfState'
  BY <1>3 DEF LaunchProfile, CanPlan, Planned
<1>4. ASSUME NEW p \in Profile, BrowserEnds(p)
      PROVE  TypesOfState'
  BY <1>4 DEF BrowserEnds
<1>5. ASSUME NEW p \in Profile,
             DeleteProfile(p) \/ \E v \in Version \cup {None} : UpdateProfile(p, v)
      PROVE  TypesOfState'
  BY <1>5 DEF UpdateProfile, DeleteProfile
<1>6. CASE Recheck
  BY <1>6, VersionThread DEF Recheck, Return, Goto
<1>7. ASSUME NEW f \in File, RemoveFile(f)
      PROVE  TypesOfState'
  BY <1>7, VersionThread DEF RemoveFile
<1>8. CASE RemoveDirectory
  BY <1>8, VersionThread DEF RemoveDirectory, Goto
<1>9. CASE DropRows
  BY <1>9, VersionThread DEF DropRows, Return, Goto
<1> QED
  BY <1>1, <1>2, <1>3, <1>4, <1>5, <1>6, <1>7, <1>8, <1>9 DEF Command, FinishDelete

\* So does every step.
LEMMA StepTypes ==
  ASSUME TypeOK, Step
  PROVE  TypesOfState'
<1> USE DEF TypeOK, TypesOfState, InstallStep, SelectStep, DeleteStep, Tree, File
<1>1. ASSUME NEW i \in Installer, NEW v \in Version, NEW archive \in Archives,
             Downloaded(i, v, archive)
      PROVE  TypesOfState'
  BY <1>1, BoundAssumption DEF Downloaded, Archives, Thread
<1>2. ASSUME NEW t \in Thread, Finish(t)
      PROVE  TypesOfState'
  <2>1. CASE WriteTmp(t)
    BY <2>1, VersionThread DEF WriteTmp, Goto
  <2>2. CASE RenameTmp(t)
    BY <2>2, VersionThread DEF RenameTmp, Return
  <2>3. CASE Fail(t)
    BY <2>3 DEF Fail, Return
  <2> QED
    BY <1>2, <2>1, <2>2, <2>3 DEF Finish
<1>3. CASE Restart
  BY <1>3 DEF Restart
<1> QED
  BY <1>1, <1>2, <1>3, InstallTypes, MainTypes DEF Step

\* The types, history included.
LEMMA NextTypes == TypeOK /\ [Next]_vars => TypeOK'
<1>1. ASSUME TypeOK, Next
      PROVE  TypeOK'
  <2>1. TypesOfState'
    BY <1>1, StepTypes DEF Next
  <2>2. raced' \in BOOLEAN
    BY <1>1 DEF Next, TypeOK
  <2>3. shared' \in SUBSET Version
    BY <1>1 DEF Next, TypeOK
  <2> QED
    BY <2>1, <2>2, <2>3 DEF TypesOfState, TypeOK
<1>2. ASSUME TypeOK, UNCHANGED vars
      PROVE  TypeOK'
  BY <1>2 DEF TypeOK, vars
<1> QED
  BY <1>1, <1>2

-----------------------------------------------------------------------------
(* Installed versions *)

\* Only the removal of a file, on the main thread, ends an installed version,
\* and no browser runs it then.
LEMMA OnlyDeletionUninstalls ==
  ASSUME TypeOK, Step, NEW v \in Version, IsInstalled(v)
  PROVE  \/ dir'[v] = dir[v]
         \/ /\ step[Main].at = "remove" /\ step[Main].version = v
            /\ UNCHANGED <<current, tmp, pin, running, step>>
            /\ IsInstalled(v)' \/ \A p \in Profile : running[p] # v
<1> Main \in Thread
  BY DEF Thread
<1> USE DEF TypeOK, IsInstalled
<1>1. ASSUME NEW i \in Installer, Install(i)
      PROVE  dir'[v] = dir[v]
  BY <1>1 DEF Install, CheckNotInstalled, Prepare, Validate, ExtractFails, Promote, ExtractFile,
              Record, ReadCurrent, SelectInstalled
<1>2. ASSUME NEW f \in File, RemoveFile(f), dir'[v] # dir[v]
      PROVE  /\ step[Main].at = "remove" /\ step[Main].version = v
             /\ UNCHANGED <<current, tmp, pin, running, step>>
             /\ IsInstalled(v)' \/ \A p \in Profile : running[p] # v
  <2>1. /\ step[Main].at = "remove" /\ step[Main].version = v
        /\ UNCHANGED <<current, tmp, pin, running, step>>
        /\ dir'[v] = dir[v] \ {f}
    BY <1>2, VersionThread DEF RemoveFile
  <2>2. CASE f = "exe"
    BY <1>2, <2>1, <2>2 DEF RemoveFile
  <2>3. CASE f # "exe"
    BY <2>1, <2>3, DistinctValues DEF Tree
  <2> QED
    BY <2>1, <2>2, <2>3
<1>3. CASE RemoveDirectory
  BY <1>3, VersionThread DEF RemoveDirectory, SelectStep, DeleteStep
<1>4. CASE Command \/ Recheck \/ DropRows \/ Restart \/ \E t \in Thread : Finish(t)
  BY <1>4 DEF Command, SetCurrent, Delete, LaunchProfile, BrowserEnds, DeleteProfile, UpdateProfile, Recheck,
              DropRows, Restart, Finish, WriteTmp, RenameTmp, Fail
<1>5. CASE \E i \in Installer, w \in Version, archive \in Archives : Downloaded(i, w, archive)
  BY <1>5 DEF Downloaded
<1> QED
  BY <1>1, <1>2, <1>3, <1>4, <1>5 DEF Step, FinishDelete

\* No browser runs a version that is not installed.
RunningIsInstalled ==
    \A p \in Profile : running[p] # None => running[p] \in Version /\ IsInstalled(running[p])

\* What the selection and the deletion of versions know about each other as
\* long as they have not met at one version.
SelectionInv ==
    ~raced =>
        /\ current # None => IsInstalled(current)
        /\ \A v \in Version : Selecting(v) => IsInstalled(v) /\ ~Deleting(v)
        /\ step[Main].at = "remove" => step[Main].version # current

\* A browser keeps its version installed.
LEMMA RunningStep ==
  ASSUME TypeOK, RunningIsInstalled, Next
  PROVE  RunningIsInstalled'
<1> SUFFICES ASSUME NEW p \in Profile, running'[p] # None
             PROVE  (running[p] \in Version /\ IsInstalled(running[p]))'
  BY DEF RunningIsInstalled
<1> Step /\ TypesOfState'
  BY StepTypes DEF Next
<1>1. CASE running'[p] = running[p]
  <2>1. running[p] \in Version /\ IsInstalled(running[p])
    BY <1>1 DEF RunningIsInstalled
  <2> QED
    BY <1>1, <2>1, OnlyDeletionUninstalls DEF IsInstalled
<1>2. CASE running'[p] # running[p]
  <2>1. \E q \in Profile : LaunchProfile(q)
    BY <1>2 DEF TypeOK, Step, Install, CheckNotInstalled, Prepare, Validate, ExtractFails,
                Promote, ExtractFile, Record, ReadCurrent, SelectInstalled, Command, SetCurrent,
                Delete, BrowserEnds, DeleteProfile, UpdateProfile, FinishDelete, Recheck, RemoveFile,
                RemoveDirectory, DropRows, Restart, Finish, WriteTmp, RenameTmp, Fail, Downloaded
  <2>2. PICK q \in Profile : LaunchProfile(q)
    BY <2>1
  <2> QED
    BY <1>2, <2>2, DistinctValues DEF LaunchProfile, CanPlan, Planned, IsInstalled, TypeOK
<1> QED
  BY <1>1, <1>2

\* A version that was installed and not being deleted is installed after the
\* step, and so is one that the step leaves being deleted.
LEMMA StaysInstalled ==
  ASSUME TypeOK, Step, NEW v \in Version, IsInstalled(v),
         ~(step[Main].at = "remove" /\ step[Main].version = v)
  PROVE  IsInstalled(v)'
  BY OnlyDeletionUninstalls DEF IsInstalled

\* A thread that returns or goes on leaves the others alone.
LEMMA ThreadMoves ==
  ASSUME TypeOK, NEW t \in Thread, NEW at,
         Return(t) \/ (step[t] # AtRest /\ Goto(t, at))
  PROVE  /\ step'[t].at \in {"rest", at}
         /\ \A u \in Thread \ {t} : step'[u] = step[u]
<1>1. CASE Return(t)
  BY <1>1 DEF TypeOK, Return, AtRest
<1>2. CASE step[t] # AtRest /\ Goto(t, at)
  <2>1. step[t] \in InstallStep \cup SelectStep \cup DeleteStep
    BY <1>2 DEF TypeOK
  <2> QED
    BY <1>2, <2>1 DEF TypeOK, Goto, InstallStep, SelectStep, DeleteStep
<1> QED
  BY <1>1, <1>2

\* Unless it begins to write current.tmp, a thread selects nothing.
LEMMA NoSelection ==
  ASSUME TypeOK, NEW t \in Thread, NEW v \in Version, UNCHANGED tmp,
         \/ Return(t)
         \/ /\ step[t].at # "rest"
            /\ \E at \in {"prepare", "extract", "promote", "record", "readCurrent", "select",
                         "remove", "dropRows", "stuck"} : Goto(t, at)
  PROVE  Selecting(v)' => Selecting(v)
<1>1. step'[t].at # "writeTmp" /\ \A u \in Thread \ {t} : step'[u] = step[u]
  <2>1. CASE Return(t)
    BY <2>1, ThreadMoves
  <2>2. ASSUME step[t].at # "rest",
               NEW at \in {"prepare", "extract", "promote", "record", "readCurrent", "select",
                           "remove", "dropRows", "stuck"},
               Goto(t, at)
        PROVE  step'[t].at # "writeTmp" /\ \A u \in Thread \ {t} : step'[u] = step[u]
    <3>1. step[t] # AtRest
      BY <2>2 DEF AtRest
    <3> QED
      BY <2>2, <3>1, ThreadMoves
  <2> QED
    BY <2>1, <2>2
<1> QED
  BY <1>1 DEF Selecting

\* Only `set_current` selects a version, and only an installed one.
LEMMA SelectIsChecked ==
  ASSUME TypeOK, NEW t \in Thread, NEW w \in Version, NEW v \in Version,
         Select(t, w), UNCHANGED <<tmp, dir>>
  PROVE  Selecting(v)' => Selecting(v) \/ (IsInstalled(v) /\ UNCHANGED dir)
<1>1. CASE IsInstalled(w)
  BY <1>1 DEF TypeOK, Select, Selecting
<1>2. CASE ~IsInstalled(w)
  BY <1>2, NoSelection DEF Select
<1> QED
  BY <1>1, <1>2

\* An installation selects only what it finds installed.
LEMMA InstallSelects ==
  ASSUME TypeOK, NEW i \in Installer, Install(i), NEW v \in Version
  PROVE  /\ UNCHANGED current
         /\ Selecting(v)' => Selecting(v) \/ (IsInstalled(v) /\ UNCHANGED dir)
<1> i \in Thread
  BY DEF Thread
<1>1. CASE CheckNotInstalled(i)
  BY <1>1, NoSelection DEF CheckNotInstalled
<1>2. CASE Prepare(i)
  BY <1>2, NoSelection DEF Prepare
<1>3. CASE Validate(i)
  BY <1>3, NoSelection DEF Validate
<1>4. CASE ExtractFails(i)
  BY <1>4, NoSelection DEF ExtractFails
<1>5. CASE Promote(i)
  <2>1. step[i].at = "promote" /\ Goto(i, "record") /\ UNCHANGED <<current, tmp>>
    BY <1>5 DEF Promote
  <2> QED
    BY <2>1, NoSelection
<1>6. ASSUME NEW f \in File, ExtractFile(i, f)
      PROVE  UNCHANGED current /\ (Selecting(v)' => Selecting(v))
  BY <1>6, InstallingThread DEF ExtractFile, Selecting, TypeOK, InstallStep
<1>7. CASE Record(i)
  BY <1>7, NoSelection DEF Record
<1>8. CASE ReadCurrent(i)
  BY <1>8, NoSelection DEF ReadCurrent
<1>9. CASE SelectInstalled(i)
  <2>1. step[i].version \in Version
    BY <1>9, InstallingThread DEF SelectInstalled, InstallStep
  <2> QED
    BY <1>9, <2>1, SelectIsChecked DEF SelectInstalled
<1> QED
  BY <1>1, <1>2, <1>3, <1>4, <1>5, <1>6, <1>7, <1>8, <1>9 DEF Install

\* The main thread's commands select only what they find installed.
LEMMA MainSelects ==
  ASSUME TypeOK, Command \/ FinishDelete, NEW v \in Version
  PROVE  /\ UNCHANGED current
         /\ Selecting(v)' => Selecting(v) \/ (IsInstalled(v) /\ UNCHANGED dir)
<1> Main \in Thread
  BY DEF Thread
<1>1. ASSUME NEW w \in Version, SetCurrent(w)
      PROVE  /\ UNCHANGED current
             /\ Selecting(v)' => Selecting(v) \/ (IsInstalled(v) /\ UNCHANGED dir)
  BY <1>1, SelectIsChecked DEF SetCurrent
<1>2. ASSUME NEW w \in Version, Delete(w)
      PROVE  UNCHANGED current /\ (Selecting(v)' => Selecting(v))
  BY <1>2 DEF Delete, Selecting, TypeOK
<1>3. ASSUME NEW p \in Profile,
             \/ LaunchProfile(p) \/ BrowserEnds(p) \/ DeleteProfile(p)
             \/ \E w \in Version \cup {None} : UpdateProfile(p, w)
      PROVE  UNCHANGED current /\ (Selecting(v)' => Selecting(v))
  BY <1>3 DEF LaunchProfile, BrowserEnds, DeleteProfile, UpdateProfile, Selecting
<1>4. CASE Recheck
  BY <1>4, NoSelection DEF Recheck
<1>5. ASSUME NEW f \in File, RemoveFile(f)
      PROVE  UNCHANGED current /\ (Selecting(v)' => Selecting(v))
  BY <1>5 DEF RemoveFile, Selecting
<1>6. CASE RemoveDirectory
  <2>1. step[Main].at = "remove" /\ Goto(Main, "dropRows") /\ UNCHANGED <<current, tmp>>
    BY <1>6 DEF RemoveDirectory
  <2> QED
    BY <2>1, NoSelection
<1>7. CASE DropRows
  BY <1>7, NoSelection DEF DropRows
<1> QED
  BY <1>1, <1>2, <1>3, <1>4, <1>5, <1>6, <1>7 DEF Command, FinishDelete

\* The marker takes a version that was selected, and a selection begins with
\* an installed one.
LEMMA SelectionSteps ==
  ASSUME TypeOK, Step, NEW v \in Version
  PROVE  /\ current' = v => current = v \/ Selecting(v)
         /\ Selecting(v)' => Selecting(v) \/ (IsInstalled(v) /\ UNCHANGED dir)
<1>1. ASSUME NEW t \in Thread, Finish(t)
      PROVE  /\ current' = v => current = v \/ Selecting(v)
             /\ Selecting(v)' => Selecting(v)
  <2>1. CASE WriteTmp(t)
    BY <2>1 DEF WriteTmp, Goto, TypeOK, Selecting
  <2>2. CASE RenameTmp(t)
    BY <2>2, DistinctValues DEF RenameTmp, Return, AtRest, TypeOK, Selecting
  <2>3. CASE Fail(t)
    BY <2>3 DEF Fail, Return, AtRest, TypeOK, Selecting
  <2> QED
    BY <1>1, <2>1, <2>2, <2>3 DEF Finish
<1>2. CASE Restart
  BY <1>2, DistinctValues DEF Restart, AtRest, Selecting
<1>3. ASSUME NEW i \in Installer, NEW w \in Version, NEW archive \in Archives,
             Downloaded(i, w, archive)
      PROVE  UNCHANGED current /\ (Selecting(v)' => Selecting(v))
  BY <1>3 DEF Downloaded, Selecting, TypeOK
<1> QED
  BY <1>1, <1>2, <1>3, InstallSelects, MainSelects DEF Step

\* An installation leaves the main thread and the profiles alone.
LEMMA InstallLeavesMain ==
  ASSUME TypeOK, NEW i \in Installer, Install(i)
  PROVE  step'[Main] = step[Main] /\ UNCHANGED <<pin, deleted, running>>
<1> Main \in Thread /\ i # Main
  BY DistinctValues DEF Thread
<1> QED
  BY DEF TypeOK, Install, CheckNotInstalled, Prepare, Validate, ExtractFails, Promote,
         ExtractFile, Record, ReadCurrent, SelectInstalled, Select, Return, Goto

\* How a version comes to be deleted: by the command, which looks at what is
\* protected, and then by the second look at the marker.
LEMMA DeletionSteps ==
  ASSUME TypeOK, Step, NEW v \in Version, Deleting(v)'
  PROVE  \/ Delete(v) /\ step'[Main].at = "recheck"
         \/ /\ Deleting(v)
            /\ UNCHANGED <<pin, deleted>>
            /\ step'[Main].unplanned = step[Main].unplanned
            /\ \A p \in Profile : running'[p] \in {running[p], None}
            /\ step'[Main].at = "remove" =>
                  step[Main].at = "remove" \/ (UNCHANGED current /\ current # v)
<1> Main \in Thread
  BY DEF Thread
<1>1. ASSUME NEW i \in Installer, Install(i)
      PROVE  Deleting(v) /\ step'[Main] = step[Main] /\ UNCHANGED <<pin, deleted, running>>
  BY <1>1, InstallLeavesMain DEF Deleting
<1>2. ASSUME NEW t \in Thread, Finish(t)
      PROVE  Deleting(v) /\ step'[Main] = step[Main] /\ UNCHANGED <<pin, deleted, running>>
  <2>1. CASE WriteTmp(t)
    BY <2>1 DEF WriteTmp, Goto, TypeOK, Deleting
  <2>2. CASE RenameTmp(t)
    BY <2>2 DEF RenameTmp, Return, AtRest, TypeOK, Deleting
  <2>3. CASE Fail(t)
    BY <2>3 DEF Fail, Return, AtRest, TypeOK, Deleting
  <2> QED
    BY <1>2, <2>1, <2>2, <2>3 DEF Finish
<1>3. ASSUME NEW i \in Installer, NEW w \in Version, NEW archive \in Archives,
             Downloaded(i, w, archive)
      PROVE  Deleting(v) /\ step'[Main] = step[Main] /\ UNCHANGED <<pin, deleted, running>>
  BY <1>3, DistinctValues DEF Downloaded, Deleting, TypeOK
<1>4. ASSUME NEW w \in Version, SetCurrent(w)
      PROVE  FALSE
  BY <1>4 DEF SetCurrent, Select, Return, AtRest, TypeOK, Deleting
<1>5. ASSUME NEW w \in Version, Delete(w)
      PROVE  w = v /\ step'[Main].at = "recheck"
  BY <1>5 DEF Delete, TypeOK, Deleting
<1>6. ASSUME NEW p \in Profile,
             \/ LaunchProfile(p) \/ DeleteProfile(p)
             \/ \E w \in Version \cup {None} : UpdateProfile(p, w)
      PROVE  FALSE
  BY <1>6 DEF LaunchProfile, DeleteProfile, UpdateProfile, AtRest, Deleting
<1>7. ASSUME NEW p \in Profile, BrowserEnds(p)
      PROVE  /\ Deleting(v) /\ step'[Main] = step[Main] /\ UNCHANGED <<pin, deleted>>
             /\ \A q \in Profile : running'[q] \in {running[q], None}
  BY <1>7 DEF BrowserEnds, Deleting, TypeOK
<1>8. CASE Recheck
  <2>1. CASE Goto(Main, "remove") /\ current # step[Main].version
    <3>1. step[Main] \in DeleteStep
      BY <1>8, VersionThread DEF Recheck, SelectStep, DeleteStep
    <3> QED
      BY <1>8, <2>1, <3>1 DEF Recheck, Goto, Deleting, TypeOK, SelectStep, DeleteStep
  <2>2. CASE Return(Main)
    BY <2>2 DEF Return, AtRest, Deleting, TypeOK
  <2> QED
    BY <1>8, <2>1, <2>2 DEF Recheck
<1>9. ASSUME NEW f \in File, RemoveFile(f)
      PROVE  Deleting(v) /\ step'[Main] = step[Main] /\ UNCHANGED <<pin, deleted, running>>
  BY <1>9 DEF RemoveFile, Deleting
<1>10. CASE RemoveDirectory \/ DropRows
  <2>1. step'[Main].at \in {"rest", "dropRows", "stuck"}
    BY <1>10, ThreadMoves DEF RemoveDirectory, DropRows, AtRest
  <2> QED
    BY <2>1 DEF Deleting
<1>11. CASE Restart
  BY <1>11 DEF Restart, AtRest, Deleting
<1> QED
  BY <1>1, <1>2, <1>3, <1>4, <1>5, <1>6, <1>7, <1>8, <1>9, <1>10, <1>11
     DEF Step, Command, FinishDelete, Deleting

\* The selected version is installed, and the one being removed is neither
\* current nor selected.
LEMMA SelectionStep ==
  ASSUME TypeOK, SelectionInv, Next
  PROVE  SelectionInv'
<1> SUFFICES ASSUME ~raced'
             PROVE  /\ current' # None => IsInstalled(current)'
                    /\ \A v \in Version : Selecting(v)' => IsInstalled(v)' /\ ~Deleting(v)'
                    /\ step'[Main].at = "remove" => step'[Main].version # current'
  BY DEF SelectionInv
<1> Step /\ ~raced /\ TypesOfState'
  BY StepTypes DEF Next
<1> Main \in Thread
  BY DEF Thread
<1>1. ASSUME NEW v \in Version, Selecting(v)
      PROVE  IsInstalled(v) /\ IsInstalled(v)' /\ ~Deleting(v)
  BY <1>1, StaysInstalled DEF SelectionInv, Deleting
<1>2. ASSUME current' # None
      PROVE  IsInstalled(current)'
  <2>1. current' \in Version /\ (current = current' \/ Selecting(current'))
    BY <1>2, SelectionSteps DEF TypesOfState
  <2>2. CASE Selecting(current')
    BY <1>1, <2>1, <2>2 DEF IsInstalled
  <2>3. CASE current = current'
    BY <1>2, <2>1, <2>3, StaysInstalled DEF SelectionInv, IsInstalled
  <2> QED
    BY <2>1, <2>2, <2>3
<1>3. ASSUME NEW v \in Version, Selecting(v)'
      PROVE  IsInstalled(v)' /\ ~Deleting(v)'
  <2>1. IsInstalled(v)'
    BY <1>1, <1>3, SelectionSteps DEF IsInstalled
  <2> QED
    BY <1>3, <2>1 DEF Next
<1>4. ASSUME step'[Main].at = "remove"
      PROVE  step'[Main].version # current'
  <2>0. step'[Main].version \in Version
    BY <1>4 DEF TypesOfState, AtRest, InstallStep, SelectStep, DeleteStep
  <2>1. PICK v \in Version : v = step'[Main].version /\ Deleting(v)'
    BY <1>4, <2>0 DEF Deleting
  <2>2. Deleting(v) /\ (step[Main].at = "remove" \/ (UNCHANGED current /\ current # v))
    BY <1>4, <2>1, DeletionSteps
  <2>3. CASE step[Main].at = "remove"
    BY <1>1, <2>1, <2>2, <2>3, SelectionSteps DEF SelectionInv, Deleting
  <2>4. CASE UNCHANGED current /\ current # v
    BY <2>1, <2>4
  <2> QED
    BY <2>2, <2>3, <2>4
<1> QED
  BY <1>2, <1>3, <1>4

\* `delete_thorium_version` does not begin with a version that a profile runs
\* and would launch again, if it can plan that profile; while it works nobody
\* is pinned, deleted or launched, and the marker moves to the version only if
\* it was selected meanwhile.
LEMMA InUseStep ==
  ASSUME TypeOK, RunningIsInstalled, SelectionInv, VersionInUseIsKept, Next
  PROVE  VersionInUseIsKept'
<1> SUFFICES ASSUME NEW p \in Profile, running'[p] # None, Deleting(running[p])',
                    p \notin deleted', p \notin step'[Main].unplanned,
                    pin'[p] \in {None, running'[p]},
                    pin'[p] = None => current' = running'[p] /\ ~raced'
             PROVE  FALSE
  BY DEF VersionInUseIsKept
<1> Step /\ TypesOfState' /\ (raced => raced')
  BY StepTypes DEF Next
<1>1. running'[p] \in Version
  BY DEF TypesOfState
<1> PICK v \in Version : v = running'[p] /\ Deleting(v)'
  BY <1>1 DEF Deleting
<1>2. CASE Delete(v)
  <2>1. PICK unplanned \in SUBSET Profile :
           /\ v \notin Protected(unplanned)
           /\ step' = [step EXCEPT ![Main] =
                         [at |-> "recheck", version |-> v, unplanned |-> unplanned]]
    BY <1>2 DEF Delete
  <2>2. step'[Main].unplanned = unplanned
    BY <2>1 DEF TypeOK, Thread
  <2>3. /\ running[p] = v /\ pin[p] \in {None, v} /\ v # None /\ p \notin deleted
        /\ pin[p] = None => current = v
    BY <1>1, <1>2, DistinctValues DEF Delete
  <2>4. v \in Protected(unplanned)
    BY <2>2, <2>3 DEF Protected, CanPlan, Planned, RunningIsInstalled
  <2> QED
    BY <2>1, <2>4
<1>3. CASE /\ Deleting(v) /\ UNCHANGED <<pin, deleted>> /\ running[p] = v
           /\ step'[Main].unplanned = step[Main].unplanned
  <2>1. pin[p] = None /\ current # v /\ ~raced
    BY <1>3 DEF VersionInUseIsKept
  <2>2. Selecting(v)
    BY <1>3, <2>1, SelectionSteps
  <2> QED
    BY <1>3, <2>1, <2>2 DEF SelectionInv
<1> QED
  BY <1>1, <1>2, <1>3, DeletionSteps

-----------------------------------------------------------------------------
(* Whole versions *)

\* What the extraction directory and the files an install has left make up,
\* as long as no second install works on the same directory.
ExtractionInv ==
    /\ \A i \in Installer :
          /\ step[i].at \in {"check", "prepare"} => step[i].left \in Archives
          /\ step[i].at = "promote" => step[i].left = {}
    /\ \A i \in Installer, v \in Version \ shared :
          Extracting(i, v) =>
             /\ staging[v] # None
             /\ \E archive \in Archives : archive \subseteq staging[v] \cup step[i].left
    /\ \A i, j \in Installer, v \in Version :
          i # j /\ Extracting(i, v) /\ Extracting(j, v) => v \in shared

\* The other steps leave installs alone, unless they end or begin one.
LEMMA OtherSteps ==
  ASSUME TypeOK, Step, NEW i \in Installer,
         \A j \in Installer : ~Install(j)
  PROVE  \/ step'[i] = step[i] /\ UNCHANGED staging
         \/ step'[i].at \in {"rest", "renameTmp"}
         \/ step'[i].at = "check" /\ step'[i].left \in Archives
<1> i \in Thread /\ Main \in Thread /\ i # Main
  BY DistinctValues DEF Thread
<1>1. ASSUME NEW t \in Thread, Finish(t)
      PROVE  UNCHANGED staging /\ (step'[i] = step[i] \/ step'[i].at \in {"rest", "renameTmp"})
  <2>1. Return(t) \/ (step[t] # AtRest /\ Goto(t, "renameTmp"))
    BY <1>1 DEF Finish, WriteTmp, RenameTmp, Fail, AtRest
  <2>2. step'[i] = step[i] \/ step'[i].at \in {"rest", "renameTmp"}
    BY <2>1, ThreadMoves
  <2> QED
    BY <1>1, <2>2 DEF Finish, WriteTmp, RenameTmp, Fail
<1>2. CASE Command
  BY <1>2 DEF Command, SetCurrent, Select, Delete, LaunchProfile, BrowserEnds, DeleteProfile, UpdateProfile,
              Return, TypeOK
<1>3. CASE FinishDelete
  BY <1>3 DEF FinishDelete, Recheck, RemoveFile, RemoveDirectory, DropRows, Return, Goto, TypeOK
<1>4. CASE Restart
  BY <1>4 DEF Restart, AtRest
<1>5. CASE \E j \in Installer, v \in Version, archive \in Archives : Downloaded(j, v, archive)
  BY <1>5 DEF Downloaded, TypeOK, Thread
<1> QED
  BY <1>1, <1>2, <1>3, <1>4, <1>5 DEF Step

\* An install does not move another one.
LEMMA InstallMovesItself ==
  ASSUME TypeOK, NEW j \in Installer, Install(j), NEW i \in Installer \ {j}
  PROVE  step'[i] = step[i]
<1> i \in Thread
  BY DEF Thread
<1> QED
  BY DEF TypeOK, Install, CheckNotInstalled, Prepare, Validate, ExtractFails, Promote,
         ExtractFile, Record, ReadCurrent, SelectInstalled, Select, Return, Goto

\* An install changes only its own directory.
LEMMA InstallIsApart ==
  ASSUME TypeOK, NEW j \in Installer, Install(j), NEW v \in Version
  PROVE  staging'[v] = staging[v] \/ Extracting(j, v) \/ Extracting(j, v)'
<1> Installer \subseteq Thread
  BY DEF Thread
<1>1. CASE CheckNotInstalled(j) \/ Validate(j) \/ Record(j) \/ ReadCurrent(j) \/ SelectInstalled(j)
  BY <1>1 DEF CheckNotInstalled, Validate, Record, ReadCurrent, SelectInstalled, Select,
              Return, Goto, TypeOK
<1>2. CASE Prepare(j)
  <2>1. step[j] \in InstallStep
    BY <1>2, InstallingThread DEF Prepare
  <2> QED
    BY <1>2, <2>1 DEF Prepare, Goto, Extracting, TypeOK, InstallStep
<1>3. CASE ExtractFails(j) \/ Promote(j) \/ \E f \in File : ExtractFile(j, f)
  BY <1>3 DEF ExtractFails, Promote, ExtractFile, Return, Goto, Extracting, TypeOK
<1> QED
  BY <1>1, <1>2, <1>3 DEF Install

\* An install's own step keeps what its directory and its files make up.
LEMMA OwnExtraction ==
  ASSUME TypeOK, ExtractionInv, NEW i \in Installer, Install(i),
         NEW v \in Version \ shared, Extracting(i, v)'
  PROVE  /\ staging'[v] # None
         /\ \E archive \in Archives : archive \subseteq staging'[v] \cup step'[i].left
<1> i \in Thread
  BY DEF Thread
<1> DEFINE Whole(files) == \E archive \in Archives : archive \subseteq files
<1>1. CASE Prepare(i)
  <2>1. step[i] \in InstallStep /\ step[i].left \in Archives
    BY <1>1, InstallingThread DEF Prepare, ExtractionInv
  <2>2. step[i].version = v /\ step'[i].left = step[i].left
    BY <1>1, <2>1 DEF Prepare, Goto, Extracting, TypeOK, InstallStep
  <2>3. staging'[v] \in SUBSET File
    BY <1>1, <2>2, DistinctValues DEF Prepare, Leftovers, TypeOK, Tree
  <2> QED
    BY <2>1, <2>2, <2>3, DistinctValues
<1>2. ASSUME NEW f \in File, ExtractFile(i, f)
      PROVE  staging'[v] # None /\ Whole(staging'[v] \cup step'[i].left)
  <2>1. step[i] \in InstallStep
    BY <1>2, InstallingThread DEF ExtractFile
  <2>2. /\ Extracting(i, v) /\ step[i].version = v
        /\ step'[i].left = step[i].left \ {f}
        /\ staging'[v] = staging[v] \cup {f}
    BY <1>2, <2>1 DEF ExtractFile, Extracting, TypeOK, InstallStep
  <2>3. staging[v] \in SUBSET File /\ Whole(staging[v] \cup step[i].left)
    BY <2>2 DEF ExtractionInv, TypeOK, Tree
  <2>4. staging'[v] # None
    BY <2>2, <2>3, DistinctValues
  <2> QED
    BY <2>2, <2>3, <2>4
<1>3. CASE Validate(i)
  <2>1. step[i] \in InstallStep
    BY <1>3, InstallingThread DEF Validate
  <2>2. Extracting(i, v) /\ step'[i].left = step[i].left /\ UNCHANGED staging
    BY <1>3, <2>1 DEF Validate, Goto, Extracting, TypeOK, InstallStep
  <2> QED
    BY <2>2 DEF ExtractionInv
<1>4. CASE ~Prepare(i) /\ ~Validate(i) /\ \A f \in File : ~ExtractFile(i, f)
  <2>1. step'[i].at \notin {"extract", "promote"}
    <3>1. CASE SelectInstalled(i)
      BY <3>1 DEF SelectInstalled, Select, Return, AtRest, TypeOK
    <3>2. CASE ~SelectInstalled(i)
      <4>1. \E at \in {"prepare", "record", "readCurrent", "select"} :
               Return(i) \/ (step[i] # AtRest /\ Goto(i, at))
        BY <1>4, <3>2 DEF Install, CheckNotInstalled, ExtractFails, Promote, Record, ReadCurrent,
                          AtRest
      <4> QED
        BY <4>1, ThreadMoves
    <3> QED
      BY <3>1, <3>2
  <2> QED
    BY <2>1 DEF Extracting
<1> QED
  BY <1>1, <1>2, <1>3, <1>4

\* What an install still has to extract is the whole archive before it
\* begins, and nothing when it promotes.
LEMMA OwnFiles ==
  ASSUME TypeOK, ExtractionInv, NEW i \in Installer, Install(i)
  PROVE  /\ step'[i].at \in {"check", "prepare"} => step'[i].left \in Archives
         /\ step'[i].at = "promote" => step'[i].left = {}
<1> i \in Thread
  BY DEF Thread
<1>1. CASE CheckNotInstalled(i)
  <2>1. step[i] \in InstallStep /\ step[i].left \in Archives
    BY <1>1, InstallingThread DEF CheckNotInstalled, ExtractionInv
  <2> QED
    BY <1>1, <2>1 DEF CheckNotInstalled, Return, Goto, AtRest, TypeOK, InstallStep
<1>2. CASE Validate(i)
  <2>1. step[i] \in InstallStep
    BY <1>2, InstallingThread DEF Validate
  <2> QED
    BY <1>2, <2>1 DEF Validate, Goto, TypeOK, InstallStep
<1>3. ASSUME NEW f \in File, ExtractFile(i, f)
      PROVE  step'[i].at = "extract"
  <2>1. step[i] \in InstallStep
    BY <1>3, InstallingThread DEF ExtractFile
  <2> QED
    BY <1>3, <2>1 DEF ExtractFile, TypeOK, InstallStep
<1>4. CASE SelectInstalled(i)
  BY <1>4 DEF SelectInstalled, Select, Return, AtRest, TypeOK
<1>5. CASE Prepare(i) \/ ExtractFails(i) \/ Promote(i) \/ Record(i) \/ ReadCurrent(i)
  <2>1. \E at \in {"extract", "record", "readCurrent", "select"} :
           Return(i) \/ (step[i] # AtRest /\ Goto(i, at))
    BY <1>5 DEF Prepare, ExtractFails, Promote, Record, ReadCurrent, AtRest
  <2> QED
    BY <2>1, ThreadMoves
<1> QED
  BY <1>1, <1>2, <1>3, <1>4, <1>5 DEF Install

\* Every step keeps it, whoever moves.
LEMMA ExtractionStep ==
  ASSUME TypeOK, ExtractionInv, Next
  PROVE  ExtractionInv'
<1> Step /\ shared \subseteq shared'
  BY DEF Next
<1>1. ASSUME NEW i \in Installer
      PROVE  /\ step'[i].at \in {"check", "prepare"} => step'[i].left \in Archives
             /\ step'[i].at = "promote" => step'[i].left = {}
  <2>1. CASE Install(i)
    BY <2>1, OwnFiles
  <2>2. ASSUME NEW j \in Installer \ {i}, Install(j)
        PROVE  step'[i] = step[i]
    BY <2>2, InstallMovesItself
  <2>3. CASE \A j \in Installer : ~Install(j)
    BY <2>3, OtherSteps DEF ExtractionInv
  <2> QED
    BY <2>1, <2>2, <2>3 DEF ExtractionInv
<1>2. ASSUME NEW i \in Installer, NEW v \in Version \ shared', Extracting(i, v)'
      PROVE  /\ staging'[v] # None
             /\ \E archive \in Archives : archive \subseteq staging'[v] \cup step'[i].left
  <2>1. CASE Install(i)
    BY <1>2, <2>1, OwnExtraction
  <2>2. ASSUME NEW j \in Installer \ {i}, Install(j)
        PROVE  step'[i] = step[i] /\ staging'[v] = staging[v]
    <3>1. step'[i] = step[i]
      BY <2>2, InstallMovesItself
    <3>2. Extracting(i, v)
      BY <1>2, <3>1 DEF Extracting
    <3>3. ~Extracting(j, v)
      BY <1>2, <3>2 DEF ExtractionInv
    <3>4. ~Extracting(j, v)'
      BY <1>2 DEF Next
    <3> QED
      BY <2>2, <3>1, <3>3, <3>4, InstallIsApart
  <2>3. ASSUME \A j \in Installer : ~Install(j)
        PROVE  step'[i] = step[i] /\ staging'[v] = staging[v]
    BY <1>2, <2>3, OtherSteps DEF Extracting
  <2>4. CASE step'[i] = step[i] /\ staging'[v] = staging[v]
    <3>1. Extracting(i, v)
      BY <1>2, <2>4 DEF Extracting
    <3> QED
      BY <1>2, <2>4, <3>1 DEF ExtractionInv
  <2> QED
    BY <2>1, <2>2, <2>3, <2>4
<1>3. ASSUME NEW i \in Installer, NEW j \in Installer, NEW v \in Version, i # j,
             Extracting(i, v)', Extracting(j, v)'
      PROVE  v \in shared'
  BY <1>3 DEF Next
<1> QED
  BY <1>1, <1>2, <1>3 DEF ExtractionInv

\* A version appears by promotion, and whole.
LEMMA AppearsStep ==
  ASSUME TypeOK, ExtractionInv, Next, NEW v \in Version \ shared,
         dir[v] \in {None, {}}, dir'[v] \notin {None, {}}
  PROVE  \E archive \in Archives : archive \subseteq dir'[v]
<1> Step
  BY DEF Next
<1>1. PICK i \in Installer : Promote(i)
  BY DistinctValues DEF Step, Install, CheckNotInstalled, Prepare, Validate, ExtractFails, ExtractFile, Record,
         ReadCurrent, SelectInstalled, Command, SetCurrent, Delete, LaunchProfile, BrowserEnds,
         DeleteProfile, UpdateProfile, FinishDelete, Recheck, RemoveFile, RemoveDirectory, DropRows, Restart,
         Finish, WriteTmp, RenameTmp, Fail, Downloaded, TypeOK
<1>2. step[i].version = v /\ dir'[v] = staging[v]
  BY <1>1 DEF Promote, TypeOK
<1>3. Extracting(i, v) /\ step[i].left = {}
  BY <1>1, <1>2 DEF Promote, Extracting, ExtractionInv
<1> QED
  BY <1>2, <1>3 DEF ExtractionInv

-----------------------------------------------------------------------------
(* The theorems *)

IInv ==
    /\ TypeOK
    /\ RunningIsInstalled
    /\ SelectionInv
    /\ VersionInUseIsKept
    /\ ExtractionInv

\* Nothing is installed, selected, run or under way in the first state.
LEMMA InitIInv == Init => IInv
<1> SUFFICES ASSUME Init PROVE IInv
  OBVIOUS
<1> Main \in Thread /\ Installer \subseteq Thread
  BY DEF Thread
<1>1. TypeOK
  <2>1. begun \in 0..MaxInstalls
    BY BoundAssumption DEF Init
  <2>2. raced \in BOOLEAN /\ shared \in SUBSET Version
    BY DEF Init
  <2> QED
    BY <2>1, <2>2 DEF Init, TypeOK, Tree
<1>2. \A t \in Thread : step[t].at = "rest"
  BY DEF Init, AtRest
<1> QED
  BY <1>1, <1>2, DistinctValues
     DEF Init, IInv, RunningIsInstalled, SelectionInv, VersionInUseIsKept, ExtractionInv,
         Selecting, Deleting, Extracting

\* Every step keeps the invariant.
LEMMA NextIInv == IInv /\ [Next]_vars => IInv'
<1> SUFFICES ASSUME IInv, [Next]_vars PROVE IInv'
  OBVIOUS
<1>1. CASE Next
  BY <1>1, NextTypes, RunningStep, SelectionStep, InUseStep, ExtractionStep DEF IInv
<1>2. CASE UNCHANGED vars
  BY <1>2 DEF vars, IInv, TypeOK, RunningIsInstalled, SelectionInv, VersionInUseIsKept,
              ExtractionInv, IsInstalled, Selecting, Deleting, Extracting
<1> QED
  BY <1>1, <1>2

\* The invariant holds in every state.
LEMMA Invariance == Spec => []IInv
  BY InitIInv, NextIInv, PTL DEF Spec

\* Every variable keeps its type, for every set of versions, installs and
\* profiles.
THEOREM TypeCorrect == Spec => []TypeOK
<1>1. IInv => TypeOK
  BY DEF IInv
<1> QED
  BY <1>1, Invariance, PTL

\* `set_current` and `delete_version` keep the current version installed as
\* long as they do not meet at one version.
THEOREM CurrentInstalled == Spec => []CurrentIsInstalled
<1>1. IInv => CurrentIsInstalled
  BY DEF IInv, SelectionInv, CurrentIsInstalled
<1> QED
  BY <1>1, Invariance, PTL

\* `delete_thorium_version` keeps the version a running profile uses as long as
\* the profile has a row, can be planned and would launch that version again.
THEOREM InUseKept == Spec => []VersionInUseIsKept
<1>1. IInv => VersionInUseIsKept
  BY DEF IInv
<1> QED
  BY <1>1, Invariance, PTL

\* `install_from_archive` never changes an installed version, and neither
\* does anything else except its deletion.
THEOREM Untouched == Spec => InstalledIsUntouched
<1>1. IInv /\ [Next]_vars =>
        [\A v \in Version : IsInstalled(v) => dir'[v] = dir[v] \/ Deleting(v)]_vars
  BY OnlyDeletionUninstalls DEF IInv, Next, Deleting
<1> QED
  BY <1>1, Invariance, PTL DEF Spec, InstalledIsUntouched

\* `install_from_archive` promotes whole archives only.
THEOREM AppearsWhole == Spec => VersionAppearsWhole
<1>1. IInv /\ [Next]_vars =>
        [\A v \in Version \ shared :
            dir[v] \in {None, {}} /\ dir'[v] \notin {None, {}} =>
                \E archive \in Archives : archive \subseteq dir'[v]]_vars
  BY AppearsStep DEF IInv
<1> QED
  BY <1>1, Invariance, PTL DEF Spec, VersionAppearsWhole

\* The deletion of a version waits for the store that it holds itself.
Hung == step[Main].at = "stuck"

\* Once a deletion hangs, nothing but a restart ends it, and no row is
\* recorded or dropped before: installs go on as far as their row and wait
\* (delete_thorium_version).
THEOREM HangIsFinal ==
    Spec => [][Hung => UNCHANGED rows /\ (Hung' \/ Restart)]_vars
<1>1. TypeOK /\ Next /\ Hung => UNCHANGED rows /\ (Hung' \/ Restart)
  <2> SUFFICES ASSUME TypeOK, Step, step[Main].at = "stuck"
               PROVE  UNCHANGED rows /\ (step'[Main].at = "stuck" \/ Restart)
    BY DEF Next, Hung
  <2>1. /\ step[Main] # AtRest /\ Main \notin Installer /\ DOMAIN step = Thread
        /\ Main \in Thread
    BY DistinctValues DEF AtRest, TypeOK, Thread
  <2>2. ASSUME NEW t \in Thread, t # Main, NEW x, step' = [step EXCEPT ![t] = x]
        PROVE  step'[Main].at = "stuck"
    BY <2>1, <2>2
  <2>3. ASSUME NEW i \in Installer, NEW v \in Version, NEW archive \in Archives,
               Downloaded(i, v, archive)
        PROVE  UNCHANGED rows /\ step'[Main].at = "stuck"
    BY <2>1, <2>3 DEF Downloaded, Thread
  <2>4. ASSUME NEW i \in Installer, Install(i)
        PROVE  UNCHANGED rows /\ step'[Main].at = "stuck"
    BY <2>1, <2>4 DEF Install, CheckNotInstalled, Prepare, ExtractFile, Validate, ExtractFails,
       Promote, Record, StoreIsFree, ReadCurrent, SelectInstalled, Select, Goto, Return, Thread
  <2>5. ASSUME NEW t \in Thread, Finish(t)
        PROVE  UNCHANGED rows /\ step'[Main].at = "stuck"
    BY <2>1, <2>5 DEF Finish, WriteTmp, RenameTmp, Fail, Goto, Return
  <2>6. ~ FinishDelete
    BY DEF FinishDelete, Recheck, RemoveDirectory, DropRows, RemoveFile
  <2>7. CASE Command
    BY <2>1, <2>7 DEF Command, SetCurrent, Delete, LaunchProfile, BrowserEnds, DeleteProfile, UpdateProfile
  <2>8. CASE Restart
    BY <2>8 DEF Restart
  <2> QED BY <2>3, <2>4, <2>5, <2>6, <2>7, <2>8 DEF Step
<1> QED BY <1>1, TypeCorrect, PTL DEF Spec
=============================================================================
