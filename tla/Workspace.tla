------------------------------- MODULE Workspace -------------------------------
(***************************************************************************)
(* The files of a project and those who work on them (workspace.rs, the    *)
(* workspace tools, the project commands of the desktop).  An actor is a   *)
(* run, whose agents take turns, or the editor of the workbench: their     *)
(* calls overlap, and nothing locks a file.                                *)
(*                                                                         *)
(* A write names the version it expects.  It is compared, the new content  *)
(* goes to a file beside the target, and a rename puts it in place: three  *)
(* steps, and what others do comes between them.  A version is the digest  *)
(* of a content, so equal contents have equal versions: the model takes    *)
(* the content for its digest.                                             *)
(***************************************************************************)
EXTENDS FiniteSets

CONSTANTS
    Actors, Paths, Dirs, Contents,
    DirOf,          \* the directory of each path
    Root,           \* the directory that always exists
    Runners,        \* actors that have run_command: the agents
    Absent,         \* no file (ABSENT_VERSION)
    Nothing         \* no path, no version

ASSUME WorkspaceAssumption ==
    /\ DirOf \in [Paths -> Dirs] /\ Root \in Dirs /\ Runners \subseteq Actors
    /\ Absent \notin Contents /\ Nothing \notin Contents \cup Paths /\ Absent # Nothing

VARIABLES
    disk,       \* what each path holds
    dirs,       \* directories there are
    leftovers,  \* paths with a temporary file of a call that is over beside them
    temps,      \* actors with a temporary file of the call they are in
    calls,      \* what each actor is doing
    known,      \* history: the version of each path an actor was last given, until
                \* somebody else changes the file
    overtaken   \* history: actors whose target changed after it was compared

files == <<disk, dirs, leftovers, temps>>
vars == <<files, calls, known, overtaken>>

Versions == Contents \cup {Absent}
Aiming == {"compared", "staged", "removing"}
Idle == [stage |-> "idle", path |-> Nothing, content |-> Nothing, expected |-> Nothing]
Calls == {Idle} \cup [stage : Aiming \cup {"running"}, path : Paths \cup {Nothing},
                      content : Contents \cup {Nothing}, expected : Versions \cup {Nothing}]
NothingKnown == [a \in Actors |-> [p \in Paths |-> Nothing]]

\* The directory of a file is there; others may be too.
Init ==
    /\ disk \in [Paths -> Versions]
    /\ dirs \in {D \in SUBSET Dirs : Root \in D /\ \A p \in Paths : disk[p] # Absent => DirOf[p] \in D}
    /\ leftovers = {} /\ temps = {}
    /\ calls = [a \in Actors |-> Idle]
    /\ known = NothingKnown /\ overtaken = {}

Begin(a, stage, path, content, expected) ==
    calls' = [calls EXCEPT ![a] =
                 [stage |-> stage, path |-> path, content |-> content, expected |-> expected]]
\* A call of actor a is over and has changed no file.
Answer(a) ==
    /\ calls' = [calls EXCEPT ![a] = Idle]
    /\ overtaken' = overtaken \ {a} /\ temps' = temps \ {a}
    /\ UNCHANGED disk
Give(a, P) ==
    known' = [known EXCEPT ![a] = [p \in Paths |-> IF p \in P THEN disk[p] ELSE @[p]]]

Aims(b, p) == calls[b].stage \in Aiming /\ calls[b].path = p
\* Actor a has changed path p: who has compared it is overtaken, and the versions that
\* others were given are not current.
Replace(a, p, version) ==
    /\ disk' = [disk EXCEPT ![p] = version]
    /\ overtaken' = (overtaken \ {a}) \cup {b \in Actors \ {a} : Aims(b, p)}
Know(a, p, version) ==
    known' = [b \in Actors |-> [known[b] EXCEPT ![p] = IF b = a THEN version ELSE Nothing]]

(***************************************************************************)
(* Reading.                                                                *)
(***************************************************************************)
Read(a, p) ==
    /\ calls[a] = Idle
    /\ IF disk[p] = Absent THEN UNCHANGED known ELSE Give(a, {p})
    /\ UNCHANGED <<files, calls, overtaken>>

\* A listing has the version of every file, and no content.
Listed(d) == {p \in Paths : DirOf[p] = d /\ disk[p] # Absent}
List(a, d) ==
    /\ calls[a] = Idle
    /\ IF d \in dirs THEN Give(a, Listed(d)) ELSE UNCHANGED known
    /\ UNCHANGED <<files, calls, overtaken>>

(***************************************************************************)
(* Writing.                                                                *)
(***************************************************************************)
\* Variant for the sensitivity of OverwritesOnlyWhenOvertaken: any version will do.
WriteUncompared(a, p, content, expected) ==
    /\ calls[a] = Idle
    /\ dirs' = dirs \cup {DirOf[p]}
    /\ Begin(a, "compared", p, content, expected)
    /\ UNCHANGED <<disk, leftovers, temps, known, overtaken>>
\* The directory is made before the version is compared.  The text of a conflict has
\* the version that was found.
Write(a, p, content, expected) ==
    /\ calls[a] = Idle
    /\ dirs' = dirs \cup {DirOf[p]}
    /\ IF expected # disk[p]
       THEN Give(a, {p}) /\ UNCHANGED calls
       ELSE Begin(a, "compared", p, content, expected) /\ UNCHANGED known
    /\ UNCHANGED <<disk, leftovers, temps, overtaken>>

\* fs::write of the temporary file.  One that fails leaves what was written.
Stage(a) ==
    LET p == calls[a].path IN
    /\ calls[a].stage = "compared"
    /\ \/ /\ DirOf[p] \in dirs
          /\ calls' = [calls EXCEPT ![a].stage = "staged"]
          /\ temps' = temps \cup {a}
          /\ UNCHANGED <<disk, leftovers, overtaken>>
       \/ /\ Answer(a)
          /\ leftovers' = IF DirOf[p] \in dirs THEN leftovers \cup {p} ELSE leftovers
    /\ UNCHANGED <<dirs, known>>

\* Variant for the sensitivity of FreshVersionsMatch: the version that was expected is
\* returned.
CommitReturningExpected(a) ==
    LET call == calls[a] IN
    /\ call.stage = "staged" /\ a \in temps
    /\ calls' = [calls EXCEPT ![a] = Idle]
    /\ Replace(a, call.path, call.content)
    /\ Know(a, call.path, call.expected)
    /\ temps' = temps \ {a}
    /\ UNCHANGED <<dirs, leftovers>>
\* fs::rename puts the content in place at once, if the temporary file is still there; one
\* that fails takes that file away.
Commit(a) ==
    LET call == calls[a] IN
    /\ call.stage = "staged" /\ a \in temps
    /\ calls' = [calls EXCEPT ![a] = Idle]
    /\ Replace(a, call.path, call.content)
    /\ Know(a, call.path, call.content)
    /\ temps' = temps \ {a}
    /\ UNCHANGED <<dirs, leftovers>>
FailCommit(a) ==
    /\ calls[a].stage = "staged"
    /\ Answer(a)
    /\ UNCHANGED <<dirs, leftovers, known>>

(***************************************************************************)
(* Deleting.                                                               *)
(***************************************************************************)
\* The version is compared when there is one.
Delete(a, p, expected) ==
    /\ calls[a] = Idle /\ disk[p] # Absent
    /\ IF expected \notin {Nothing, disk[p]}
       THEN Give(a, {p}) /\ UNCHANGED calls
       ELSE Begin(a, "removing", p, Nothing, disk[p]) /\ UNCHANGED known
    /\ UNCHANGED <<files, overtaken>>
Remove(a) ==
    LET p == calls[a].path IN
    /\ calls[a].stage = "removing" /\ disk[p] # Absent
    /\ calls' = [calls EXCEPT ![a] = Idle]
    /\ Replace(a, p, Absent)
    /\ Know(a, p, Nothing)
    /\ UNCHANGED <<dirs, leftovers, temps>>
\* Somebody else has deleted it.
FailRemove(a) ==
    /\ calls[a].stage = "removing" /\ disk[calls[a].path] = Absent
    /\ Answer(a)
    /\ UNCHANGED <<dirs, leftovers, known>>

\* Variant for the sensitivity of FilesHaveDirectories: temporary files do not count.
IsEmptyOfFiles(d) == Listed(d) = {}
\* Only an empty directory is deleted.
IsEmpty(d) ==
    /\ Listed(d) = {}
    /\ \A p \in leftovers : DirOf[p] # d
    /\ \A a \in temps : DirOf[calls[a].path] # d
RemoveDir(d) ==
    /\ d \in dirs \ {Root} /\ IsEmpty(d)
    /\ dirs' = dirs \ {d}
    /\ UNCHANGED <<disk, leftovers, temps, calls, known, overtaken>>
DeleteDir(a, d) == calls[a] = Idle /\ RemoveDir(d)

(***************************************************************************)
(* Commands.                                                               *)
(***************************************************************************)
\* The process of a build or test command compares nothing.
Run(a) ==
    /\ a \in Runners /\ calls[a] = Idle
    /\ Begin(a, "running", Nothing, Nothing, Nothing)
    /\ UNCHANGED <<files, known, overtaken>>
\* It writes files, in directories that it makes if need be.
ProcessWrites(a, p, content) ==
    /\ calls[a].stage = "running"
    /\ dirs' = dirs \cup {DirOf[p]}
    /\ Replace(a, p, content)
    /\ Know(a, p, Nothing)
    /\ UNCHANGED <<leftovers, temps, calls>>
\* It deletes: files, temporary files of its own run and of others, directories once they
\* are empty; a whole tree one by one.
ProcessDeletes(a, p) ==
    /\ calls[a].stage = "running" /\ disk[p] # Absent
    /\ Replace(a, p, Absent)
    /\ Know(a, p, Nothing)
    /\ UNCHANGED <<dirs, leftovers, temps, calls>>
ProcessCleans(a, p) ==
    /\ calls[a].stage = "running"
    /\ \/ p \in leftovers /\ leftovers' = leftovers \ {p} /\ UNCHANGED temps
       \/ \E b \in temps : /\ calls[b].path = p
                          /\ temps' = temps \ {b} /\ UNCHANGED leftovers
    /\ UNCHANGED <<disk, dirs, calls, known, overtaken>>
ProcessRemovesDir(a, d) == calls[a].stage = "running" /\ RemoveDir(d)
\* It exits, is cancelled or takes too long; dropping it kills it.
Finish(a) ==
    /\ calls[a].stage = "running"
    /\ Answer(a)
    /\ UNCHANGED <<dirs, leftovers, known>>

\* The application ends: calls are gone, files stay.
Crash ==
    /\ calls' = [a \in Actors |-> Idle]
    /\ leftovers' = leftovers \cup {calls[a].path : a \in temps} /\ temps' = {}
    /\ known' = NothingKnown /\ overtaken' = {}
    /\ UNCHANGED <<disk, dirs>>

Step(a) ==
    \/ \E p \in Paths : Read(a, p)
    \/ \E d \in Dirs : List(a, d)
    \/ \E p \in Paths, c \in Contents, v \in Versions : Write(a, p, c, v)
    \/ Stage(a) \/ Commit(a) \/ FailCommit(a)
    \/ \E p \in Paths, v \in Versions \cup {Nothing} : Delete(a, p, v)
    \/ Remove(a) \/ FailRemove(a)
    \/ \E d \in Dirs : DeleteDir(a, d)
    \/ Run(a) \/ Finish(a)
    \/ \E p \in Paths, c \in Contents : ProcessWrites(a, p, c)
    \/ \E p \in Paths : ProcessDeletes(a, p) \/ ProcessCleans(a, p)
    \/ \E d \in Dirs : ProcessRemovesDir(a, d)
Next == (\E a \in Actors : Step(a)) \/ Crash
Spec == Init /\ [][Next]_vars
-------------------------------------------------------------------------------
TypeOK ==
    /\ disk \in [Paths -> Versions]
    /\ dirs \subseteq Dirs /\ leftovers \subseteq Paths /\ temps \subseteq Actors
    /\ calls \in [Actors -> Calls]
    /\ known \in [Actors -> [Paths -> Versions \cup {Nothing}]]
    /\ overtaken \subseteq Actors

(* From the comparison of its version to its rename or removal, a call that nobody   *)
(* overtook still finds what it compared: work is overwritten only by a call that    *)
(* was already past its comparison when that work arrived.                           *)
OverwritesOnlyWhenOvertaken ==
    \A a \in Actors \ overtaken :
        calls[a].stage \in Aiming => disk[calls[a].path] = calls[a].expected

(* The version an actor was given last, by a read, a listing, a conflict or its own  *)
(* write, is the current one until somebody else changes the file: an actor that     *)
(* works alone on a file never meets a conflict.                                     *)
FreshVersionsMatch ==
    \A a \in Actors, p \in Paths : known[a][p] \in {Nothing, disk[p]}

(* A file is in a directory that exists, and so is the temporary file of a write,    *)
(* whoever deletes files and directories meanwhile, the editor, an agent or a command *)
(* of one: the parent a write has made may be gone when it creates that file, and    *)
(* when its file is gone it puts nothing in place.                                   *)
FilesHaveDirectories ==
    /\ \A p \in Paths : disk[p] # Absent => DirOf[p] \in dirs
    /\ \A a \in temps : DirOf[calls[a].path] \in dirs

(* The header of workspace.rs: "A stale version fails with a stable error instead of *)
(* silently overwriting another Agent's work."                                       *)
NoSilentOverwrite ==
    [][\A a \in Actors :
        calls[a].stage = "staged" /\ calls'[a] = Idle /\ disk' # disk =>
            disk[calls[a].path] = calls[a].expected]_vars
===============================================================================
