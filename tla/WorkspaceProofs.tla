---------------------------- MODULE WorkspaceProofs ----------------------------
(***************************************************************************)
(* Theorems about Workspace, for any actors, files, directories, contents. *)
(*                                                                         *)
(*   TypeCorrect          Spec => []TypeOK                                 *)
(*   LostUpdatesAreRaces  Spec => []OverwritesOnlyWhenOvertaken            *)
(*   VersionsStayFresh    Spec => []FreshVersionsMatch                     *)
(*   DirectoriesStay      Spec => []FilesHaveDirectories                   *)
(*                                                                         *)
(* The actions fall into few kinds by what they do to the files and to the *)
(* calls.  The lemmas of the first part say once what a kind preserves, and*)
(* each action is shown to be of one.                                      *)
(***************************************************************************)
EXTENDS Workspace, TLAPS

\* A call that aims at a file names it, one that writes has what it writes, and only one
\* that has written it has a temporary file.
WellAimed ==
    \A a \in Actors :
        /\ calls[a].stage \in Aiming => calls[a].path \in Paths
        /\ calls[a].stage \in {"compared", "staged"} => calls[a].content \in Contents
        /\ a \in temps => calls[a].stage = "staged"

\* The inductive invariant.
WorkspaceInv ==
    TypeOK /\ WellAimed /\ OverwritesOnlyWhenOvertaken /\ FreshVersionsMatch /\ FilesHaveDirectories

-------------------------------------------------------------------------------
(* Kinds of steps *)

\* Somebody is told versions of files; nothing else happens.
LEMMA TellingKeeps ==
    ASSUME WorkspaceInv, NEW a \in Actors, NEW P \in SUBSET Paths,
           Give(a, P), UNCHANGED <<files, calls, overtaken>>
    PROVE  WorkspaceInv'
  <1>1. disk' = disk /\ dirs' = dirs /\ leftovers' = leftovers /\ temps' = temps /\ calls' = calls /\ overtaken' = overtaken
    BY DEF files
  <1>2. known' \in [Actors -> [Paths -> Versions \cup {Nothing}]]
    BY DEF WorkspaceInv, TypeOK, Give
  <1>3. TypeOK'
    BY <1>1, <1>2 DEF WorkspaceInv, TypeOK
  <1>4. FreshVersionsMatch'
    BY <1>1 DEF WorkspaceInv, FreshVersionsMatch, Give, TypeOK
  <1> QED
    BY <1>1, <1>3, <1>4
    DEF WorkspaceInv, WellAimed, OverwritesOnlyWhenOvertaken, FilesHaveDirectories

\* Actor a enters a stage of its call; files stay, directories may come.
LEMMA EnteringKeeps ==
    ASSUME WorkspaceInv, NEW a \in Actors, NEW call \in Calls,
           call.stage \in Aiming => call.path \in Paths,
           call.stage \in {"compared", "staged"} => call.content \in Contents,
           call.stage \in Aiming /\ a \notin overtaken => disk[call.path] = call.expected,
           temps' \subseteq temps \cup {a},
           a \in temps' => call.stage = "staged" /\ DirOf[call.path] \in dirs,
           calls' = [calls EXCEPT ![a] = call],
           dirs \subseteq dirs', dirs' \subseteq Dirs,
           overtaken' \in {overtaken, overtaken \ {a}},
           call.stage \in Aiming => overtaken' = overtaken,
           leftovers' \subseteq Paths, UNCHANGED <<disk, known>>
    PROVE  WorkspaceInv'
  <1>1. calls' \in [Actors -> Calls] /\ calls'[a] = call /\ \A b \in Actors \ {a} : calls'[b] = calls[b]
    BY DEF WorkspaceInv, TypeOK
  <1>2. TypeOK'
    BY <1>1 DEF WorkspaceInv, TypeOK
  <1>3. WellAimed'
    BY <1>1 DEF WorkspaceInv, WellAimed
  <1>4. OverwritesOnlyWhenOvertaken'
    BY <1>1 DEF WorkspaceInv, OverwritesOnlyWhenOvertaken
  <1>5. FreshVersionsMatch'
    BY DEF WorkspaceInv, FreshVersionsMatch
  <1>6. FilesHaveDirectories'
    BY <1>1 DEF WorkspaceInv, FilesHaveDirectories
  <1> QED
    BY <1>2, <1>3, <1>4, <1>5, <1>6 DEF WorkspaceInv

\* Actor a changes file p and ends or goes on with its call, which aims at nothing then.
LEMMA ChangingKeeps ==
    ASSUME WorkspaceInv, NEW a \in Actors, NEW p \in Paths, NEW version \in Versions,
           NEW call \in Calls, call.stage \notin Aiming,
           NEW told \in {Nothing, version},
           version # Absent => DirOf[p] \in dirs',
           calls' = [calls EXCEPT ![a] = call],
           temps' = temps \ {a},
           dirs \subseteq dirs', dirs' \subseteq Dirs,
           Replace(a, p, version), Know(a, p, told), UNCHANGED leftovers
    PROVE  WorkspaceInv'
  <1>1. calls' \in [Actors -> Calls] /\ calls'[a] = call /\ \A b \in Actors \ {a} : calls'[b] = calls[b]
    BY DEF WorkspaceInv, TypeOK
  <1>2. /\ disk' \in [Paths -> Versions]
        /\ disk'[p] = version /\ \A q \in Paths \ {p} : disk'[q] = disk[q]
    BY DEF WorkspaceInv, TypeOK, Replace
  <1>3. /\ known' \in [Actors -> [Paths -> Versions \cup {Nothing}]]
        /\ known'[a][p] = told /\ \A b \in Actors \ {a} : known'[b][p] = Nothing
        /\ \A b \in Actors : \A q \in Paths \ {p} : known'[b][q] = known[b][q]
    BY DEF WorkspaceInv, TypeOK, Know
  <1>4. TypeOK'
    BY <1>1, <1>2, <1>3 DEF WorkspaceInv, TypeOK, Replace
  <1>5. WellAimed'
    BY <1>1 DEF WorkspaceInv, WellAimed, Aiming
  <1>6. OverwritesOnlyWhenOvertaken'
    <2> SUFFICES ASSUME NEW b \in Actors \ overtaken', calls'[b].stage \in Aiming
                 PROVE  disk'[calls'[b].path] = calls'[b].expected
      BY DEF OverwritesOnlyWhenOvertaken
    <2>1. b # a /\ calls'[b] = calls[b]
      BY <1>1
    <2>2. b \notin overtaken /\ calls[b].path # p
      BY <2>1 DEF Replace, Aims
    <2>3. calls[b].path \in Paths
      BY <2>1 DEF WorkspaceInv, WellAimed
    <2> QED BY <1>2, <2>1, <2>2, <2>3 DEF WorkspaceInv, OverwritesOnlyWhenOvertaken
  <1>7. FreshVersionsMatch'
    BY <1>2, <1>3 DEF WorkspaceInv, FreshVersionsMatch
  <1>8. FilesHaveDirectories'
    BY <1>1, <1>2 DEF WorkspaceInv, FilesHaveDirectories, Aiming
  <1> QED
    BY <1>4, <1>5, <1>6, <1>7, <1>8 DEF WorkspaceInv

-------------------------------------------------------------------------------
(* Steps *)

LEMMA InitHolds == Init => WorkspaceInv
  <1> SUFFICES ASSUME Init PROVE WorkspaceInv
    OBVIOUS
  <1>1. TypeOK
    BY WorkspaceAssumption DEF Init, TypeOK, Calls, NothingKnown, Versions
  <1>2. WellAimed /\ OverwritesOnlyWhenOvertaken
    BY DEF Init, WellAimed, OverwritesOnlyWhenOvertaken, Idle, Aiming
  <1>3. FreshVersionsMatch
    BY DEF Init, FreshVersionsMatch, NothingKnown
  <1>4. FilesHaveDirectories
    BY DEF Init, FilesHaveDirectories, Idle
  <1> QED BY <1>1, <1>2, <1>3, <1>4 DEF WorkspaceInv

LEMMA IdleIsACall == Idle \in Calls /\ Idle.stage \notin Aiming /\ Idle.stage # "staged"
  BY DEF Idle, Calls, Aiming

\* A call ends and has changed no file: the idle call is entered.
LEMMA AnsweringKeeps ==
    ASSUME WorkspaceInv, NEW a \in Actors, Answer(a), leftovers' \subseteq Paths,
           UNCHANGED <<dirs, known>>
    PROVE  WorkspaceInv'
  <1>1. dirs \subseteq dirs' /\ dirs' \subseteq Dirs
    BY DEF WorkspaceInv, TypeOK
  <1> QED
    BY <1>1, IdleIsACall, EnteringKeeps DEF Answer, Aiming

LEMMA ReadKeeps ==
    ASSUME WorkspaceInv, NEW a \in Actors, NEW p \in Paths, Read(a, p)
    PROVE  WorkspaceInv'
  <1>1. CASE disk[p] = Absent
    BY <1>1 DEF Read, files, WorkspaceInv, TypeOK, WellAimed, OverwritesOnlyWhenOvertaken,
                FreshVersionsMatch, FilesHaveDirectories
  <1>2. CASE disk[p] # Absent
    BY <1>2, {p} \in SUBSET Paths, TellingKeeps DEF Read
  <1> QED BY <1>1, <1>2

LEMMA ListKeeps ==
    ASSUME WorkspaceInv, NEW a \in Actors, NEW d \in Dirs, List(a, d)
    PROVE  WorkspaceInv'
  <1>1. CASE d \notin dirs
    BY <1>1 DEF List, files, WorkspaceInv, TypeOK, WellAimed, OverwritesOnlyWhenOvertaken,
                FreshVersionsMatch, FilesHaveDirectories
  <1>2. CASE d \in dirs
    BY <1>2, Listed(d) \in SUBSET Paths, TellingKeeps DEF List, Listed
  <1> QED BY <1>1, <1>2

\* A conflict tells a version, and the directory of the file is there all the same.
LEMMA ConflictKeeps ==
    ASSUME WorkspaceInv, NEW a \in Actors, NEW p \in Paths, Give(a, {p}),
           dirs \subseteq dirs', dirs' \subseteq Dirs,
           UNCHANGED <<disk, leftovers, temps, calls, overtaken>>
    PROVE  WorkspaceInv'
  <1>1. known' \in [Actors -> [Paths -> Versions \cup {Nothing}]]
    BY DEF WorkspaceInv, TypeOK, Give
  <1>2. TypeOK'
    BY <1>1 DEF WorkspaceInv, TypeOK
  <1>3. FreshVersionsMatch'
    BY DEF WorkspaceInv, FreshVersionsMatch, Give, TypeOK
  <1>4. FilesHaveDirectories'
    BY DEF WorkspaceInv, FilesHaveDirectories
  <1> QED
    BY <1>2, <1>3, <1>4 DEF WorkspaceInv, WellAimed, OverwritesOnlyWhenOvertaken

LEMMA WriteKeeps ==
    ASSUME WorkspaceInv, NEW a \in Actors, NEW p \in Paths, NEW c \in Contents, NEW v \in Versions,
           Write(a, p, c, v)
    PROVE  WorkspaceInv'
  <1>1. dirs \subseteq dirs' /\ dirs' \subseteq Dirs
    BY WorkspaceAssumption DEF Write, WorkspaceInv, TypeOK
  <1>2. CASE v # disk[p]
    BY <1>1, <1>2, ConflictKeeps DEF Write
  <1>3. CASE v = disk[p]
    <2> DEFINE call == [stage |-> "compared", path |-> p, content |-> c, expected |-> v]
    <2>1. call \in Calls
      BY DEF Calls, Aiming
    <2>2. calls' = [calls EXCEPT ![a] = call] /\ UNCHANGED <<disk, leftovers, temps, overtaken, known>>
      BY <1>3 DEF Write, Begin
    <2>3. leftovers' \subseteq Paths /\ a \notin temps'
      BY <2>2 DEF WorkspaceInv, TypeOK, WellAimed, Write, Idle
    <2>4. call.stage = "compared" /\ call.path = p /\ call.content = c /\ call.expected = v
      OBVIOUS
    <2> HIDE DEF call
    <2> QED BY <1>1, <1>3, <2>1, <2>2, <2>3, <2>4, EnteringKeeps
  <1> QED BY <1>2, <1>3

LEMMA StageKeeps ==
    ASSUME WorkspaceInv, NEW a \in Actors, Stage(a)
    PROVE  WorkspaceInv'
  <1> DEFINE p == calls[a].path
             staged == [calls[a] EXCEPT !.stage = "staged"]
  <1>1. /\ calls[a] \in Calls /\ calls[a].stage = "compared"
        /\ p \in Paths /\ calls[a].content \in Contents
    BY DEF Stage, WorkspaceInv, TypeOK, WellAimed, Aiming
  <1>2. dirs \subseteq dirs' /\ dirs' \subseteq Dirs /\ leftovers' \subseteq Paths
    BY <1>1 DEF Stage, WorkspaceInv, TypeOK, Answer
  <1>3. CASE Answer(a)
    BY <1>2, <1>3, AnsweringKeeps DEF Stage
  <1>4. CASE /\ DirOf[p] \in dirs
             /\ calls' = [calls EXCEPT ![a].stage = "staged"]
             /\ temps' = temps \cup {a}
             /\ UNCHANGED <<disk, leftovers, overtaken>>
    <2>1. staged \in Calls
      BY <1>1 DEF Calls, Aiming, Idle
    <2>2. /\ staged.stage = "staged" /\ staged.path = p /\ staged.content = calls[a].content
          /\ staged.expected = calls[a].expected
      BY <1>1 DEF Calls, Idle
    <2>3. a \notin overtaken => disk[p] = calls[a].expected
      BY <1>1 DEF WorkspaceInv, OverwritesOnlyWhenOvertaken, Aiming
    <2>4. calls' = [calls EXCEPT ![a] = staged]
      BY <1>4
    <2> HIDE DEF staged
    <2> QED BY <1>1, <1>2, <1>4, <2>1, <2>2, <2>3, <2>4, EnteringKeeps DEF Stage
  <1> QED BY <1>3, <1>4 DEF Stage

LEMMA CommitKeeps ==
    ASSUME WorkspaceInv, NEW a \in Actors, Commit(a)
    PROVE  WorkspaceInv'
  <1>1. calls[a].stage = "staged" /\ calls[a].path \in Paths /\ calls[a].content \in Contents
    BY DEF Commit, WorkspaceInv, WellAimed, Aiming
  <1>2. DirOf[calls[a].path] \in dirs
    BY <1>1 DEF WorkspaceInv, FilesHaveDirectories, Commit
  <1>3. dirs \subseteq dirs' /\ dirs' \subseteq Dirs
    BY DEF Commit, WorkspaceInv, TypeOK
  <1> QED
    BY <1>1, <1>2, <1>3, IdleIsACall, ChangingKeeps DEF Commit, Versions

LEMMA DeleteKeeps ==
    ASSUME WorkspaceInv, NEW a \in Actors, NEW p \in Paths, NEW v, Delete(a, p, v)
    PROVE  WorkspaceInv'
  <1>1. UNCHANGED <<disk, dirs, leftovers, temps, overtaken>> /\ a \notin temps
    BY DEF Delete, files, WorkspaceInv, WellAimed, Idle
  <1>2. CASE v \notin {Nothing, disk[p]}
    BY <1>1, <1>2, {p} \in SUBSET Paths, TellingKeeps DEF Delete, files
  <1>3. CASE v \in {Nothing, disk[p]}
    <2> DEFINE call == [stage |-> "removing", path |-> p, content |-> Nothing, expected |-> disk[p]]
    <2>1. call \in Calls
      BY DEF Calls, Aiming, WorkspaceInv, TypeOK
    <2>2. calls' = [calls EXCEPT ![a] = call] /\ UNCHANGED known
      BY <1>3 DEF Delete, Begin
    <2>3. leftovers' \subseteq Paths /\ dirs' \subseteq Dirs
      BY <1>1 DEF WorkspaceInv, TypeOK
    <2>4. call.stage = "removing" /\ call.path = p /\ call.expected = disk[p]
      OBVIOUS
    <2> HIDE DEF call
    <2> QED BY <1>1, <2>1, <2>2, <2>3, <2>4, EnteringKeeps
  <1> QED BY <1>2, <1>3

LEMMA RemoveKeeps ==
    ASSUME WorkspaceInv, NEW a \in Actors, Remove(a)
    PROVE  WorkspaceInv'
  <1>1. calls[a].path \in Paths /\ temps' = temps \ {a}
    BY DEF Remove, WorkspaceInv, WellAimed, Aiming
  <1>2. dirs \subseteq dirs' /\ dirs' \subseteq Dirs
    BY DEF Remove, WorkspaceInv, TypeOK
  <1> QED
    BY <1>1, <1>2, IdleIsACall, ChangingKeeps DEF Remove, Versions

\* A directory that goes held no file, and no temporary file of a write.
LEMMA RemoveDirKeeps ==
    ASSUME WorkspaceInv, NEW d \in Dirs, RemoveDir(d)
    PROVE  WorkspaceInv'
  <1>1. dirs' = dirs \ {d} /\ IsEmpty(d) /\ UNCHANGED <<disk, leftovers, temps, calls, known, overtaken>>
    BY DEF RemoveDir
  <1>2. TypeOK'
    BY <1>1 DEF WorkspaceInv, TypeOK
  <1>3. FilesHaveDirectories'
    BY <1>1 DEF WorkspaceInv, FilesHaveDirectories, IsEmpty, Listed
  <1> QED
    BY <1>1, <1>2, <1>3 DEF WorkspaceInv, WellAimed, OverwritesOnlyWhenOvertaken, FreshVersionsMatch

LEMMA RunKeeps ==
    ASSUME WorkspaceInv, NEW a \in Actors, Run(a)
    PROVE  WorkspaceInv'
  <1> DEFINE call == [stage |-> "running", path |-> Nothing, content |-> Nothing, expected |-> Nothing]
  <1>1. call \in Calls /\ call.stage = "running"
    BY DEF Calls
  <1>2. call.stage \notin Aiming /\ call.stage # "staged" /\ call.stage # "compared"
    BY <1>1 DEF Aiming
  <1>3. /\ calls' = [calls EXCEPT ![a] = call] /\ a \notin temps
        /\ UNCHANGED <<disk, dirs, leftovers, temps, known, overtaken>>
    BY DEF Run, Begin, files, WorkspaceInv, WellAimed, Idle
  <1>4. leftovers' \subseteq Paths /\ dirs' \subseteq Dirs
    BY <1>3 DEF WorkspaceInv, TypeOK
  <1> HIDE DEF call
  <1> QED BY <1>1, <1>2, <1>3, <1>4, EnteringKeeps

\* A process goes on with what its actor is doing.
LEMMA RunningGoesOn ==
    ASSUME WorkspaceInv, NEW a \in Actors, calls[a].stage = "running", UNCHANGED calls
    PROVE  /\ calls[a] \in Calls /\ calls[a].stage \notin Aiming
           /\ calls' = [calls EXCEPT ![a] = calls[a]]
           /\ a \notin temps
  BY DEF WorkspaceInv, TypeOK, WellAimed, Aiming

LEMMA ProcessWritesKeeps ==
    ASSUME WorkspaceInv, NEW a \in Actors, NEW p \in Paths, NEW c \in Contents, ProcessWrites(a, p, c)
    PROVE  WorkspaceInv'
  <1>1. /\ dirs \subseteq dirs' /\ dirs' \subseteq Dirs /\ DirOf[p] \in dirs'
        /\ temps' = temps /\ UNCHANGED <<calls, leftovers>>
    BY WorkspaceAssumption DEF ProcessWrites, WorkspaceInv, TypeOK
  <1>2. temps' = temps \ {a}
    BY <1>1, RunningGoesOn DEF ProcessWrites
  <1> QED BY <1>1, <1>2, RunningGoesOn, ChangingKeeps DEF ProcessWrites, Versions

LEMMA ProcessDeletesKeeps ==
    ASSUME WorkspaceInv, NEW a \in Actors, NEW p \in Paths, ProcessDeletes(a, p)
    PROVE  WorkspaceInv'
  <1>1. /\ dirs \subseteq dirs' /\ dirs' \subseteq Dirs
        /\ temps' = temps /\ UNCHANGED <<calls, leftovers>>
    BY DEF ProcessDeletes, WorkspaceInv, TypeOK
  <1>2. temps' = temps \ {a}
    BY <1>1, RunningGoesOn DEF ProcessDeletes
  <1> QED BY <1>1, <1>2, RunningGoesOn, ChangingKeeps DEF ProcessDeletes, Versions

LEMMA ProcessCleansKeeps ==
    ASSUME WorkspaceInv, NEW a \in Actors, NEW p \in Paths, ProcessCleans(a, p)
    PROVE  WorkspaceInv'
  <1>1. /\ leftovers' \subseteq leftovers /\ temps' \subseteq temps
        /\ UNCHANGED <<disk, dirs, calls, known, overtaken>>
    BY DEF ProcessCleans
  <1> QED
    BY <1>1 DEF WorkspaceInv, TypeOK, WellAimed, OverwritesOnlyWhenOvertaken, FreshVersionsMatch,
                FilesHaveDirectories

LEMMA CrashKeeps ==
    ASSUME WorkspaceInv, Crash
    PROVE  WorkspaceInv'
  <1>1. TypeOK'
    <2>1. leftovers' \subseteq Paths
      BY DEF Crash, WorkspaceInv, TypeOK, WellAimed, Aiming
    <2>2. calls' \in [Actors -> Calls] /\ known' \in [Actors -> [Paths -> Versions \cup {Nothing}]]
      BY IdleIsACall DEF Crash, NothingKnown
    <2> QED BY <2>1, <2>2 DEF Crash, WorkspaceInv, TypeOK
  <1>2. WellAimed' /\ OverwritesOnlyWhenOvertaken'
    BY DEF Crash, WellAimed, OverwritesOnlyWhenOvertaken, Idle, Aiming
  <1>3. FreshVersionsMatch'
    BY DEF Crash, FreshVersionsMatch, NothingKnown
  <1>4. FilesHaveDirectories'
    BY DEF Crash, FilesHaveDirectories, WorkspaceInv, Idle
  <1> QED BY <1>1, <1>2, <1>3, <1>4 DEF WorkspaceInv

LEMMA StepKeeps ==
    ASSUME WorkspaceInv, NEW a \in Actors, Step(a)
    PROVE  WorkspaceInv'
  <1>0. leftovers \subseteq Paths
    BY DEF WorkspaceInv, TypeOK
  <1>1. CASE \E p \in Paths : Read(a, p)
    BY <1>1, ReadKeeps
  <1>2. CASE \E d \in Dirs : List(a, d)
    BY <1>2, ListKeeps
  <1>3. CASE \E p \in Paths, c \in Contents, v \in Versions : Write(a, p, c, v)
    BY <1>3, WriteKeeps
  <1>4. CASE Stage(a)
    BY <1>4, StageKeeps
  <1>5. CASE Commit(a)
    BY <1>5, CommitKeeps
  <1>6. CASE FailCommit(a)
    BY <1>0, <1>6, AnsweringKeeps DEF FailCommit
  <1>7. CASE \E p \in Paths, v \in Versions \cup {Nothing} : Delete(a, p, v)
    BY <1>7, DeleteKeeps
  <1>8. CASE Remove(a)
    BY <1>8, RemoveKeeps
  <1>9. CASE FailRemove(a)
    BY <1>0, <1>9, AnsweringKeeps DEF FailRemove
  <1>10. CASE \E d \in Dirs : DeleteDir(a, d)
    BY <1>10, RemoveDirKeeps DEF DeleteDir
  <1>11. CASE Run(a)
    BY <1>11, RunKeeps
  <1>12. CASE Finish(a)
    BY <1>0, <1>12, AnsweringKeeps DEF Finish
  <1>13. CASE \E p \in Paths, c \in Contents : ProcessWrites(a, p, c)
    BY <1>13, ProcessWritesKeeps
  <1>14. CASE \E p \in Paths : ProcessDeletes(a, p) \/ ProcessCleans(a, p)
    BY <1>14, ProcessDeletesKeeps, ProcessCleansKeeps
  <1>15. CASE \E d \in Dirs : ProcessRemovesDir(a, d)
    BY <1>15, RemoveDirKeeps DEF ProcessRemovesDir
  <1> QED
    BY <1>1, <1>2, <1>3, <1>4, <1>5, <1>6, <1>7, <1>8, <1>9, <1>10, <1>11, <1>12, <1>13,
       <1>14, <1>15 DEF Step

-------------------------------------------------------------------------------
(* Theorems *)

LEMMA Invariant == Spec => []WorkspaceInv
  <1>1. WorkspaceInv /\ [Next]_vars => WorkspaceInv'
    <2> SUFFICES ASSUME WorkspaceInv, [Next]_vars PROVE WorkspaceInv'
      OBVIOUS
    <2>1. CASE \E a \in Actors : Step(a)
      BY <2>1, StepKeeps
    <2>2. CASE Crash
      BY <2>2, CrashKeeps
    <2>3. CASE UNCHANGED vars
      BY <2>3 DEF vars, files, WorkspaceInv, TypeOK, WellAimed, OverwritesOnlyWhenOvertaken,
                  FreshVersionsMatch, FilesHaveDirectories
    <2> QED BY <2>1, <2>2, <2>3 DEF Next
  <1> QED BY InitHolds, <1>1, PTL DEF Spec

\* Every reachable state is well typed.
THEOREM TypeCorrect == Spec => []TypeOK
  BY Invariant, PTL DEF WorkspaceInv

\* Work is overwritten only by a call that was past its comparison when it arrived
\* (write and delete of workspace.rs).
THEOREM LostUpdatesAreRaces == Spec => []OverwritesOnlyWhenOvertaken
  BY Invariant, PTL DEF WorkspaceInv

\* The version an actor was given last serves it until somebody else changes the file.
THEOREM VersionsStayFresh == Spec => []FreshVersionsMatch
  BY Invariant, PTL DEF WorkspaceInv

\* Neither a file nor the temporary file of a write loses its directory, whoever deletes,
\* and a write whose temporary file was deleted puts nothing in place.
THEOREM DirectoriesStay == Spec => []FilesHaveDirectories
  BY Invariant, PTL DEF WorkspaceInv

===============================================================================
