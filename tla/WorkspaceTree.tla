---------------------------- MODULE WorkspaceTree ----------------------------
(***************************************************************************)
(* materialize_workspace_tree and the blob writer it calls: the files of a *)
(* manifest are published one after the other in a pinned workspace, each  *)
(* through a temporary file that is filled, synced, linked to its path and *)
(* unlinked.  Any call to the file system may fail; the process may be     *)
(* killed, the machine may lose power, and another program may replace or  *)
(* rewrite what has been written.                                          *)
(*                                                                         *)
(* A writer is one call in one controller process: peers in a process are  *)
(* excluded by the hold of WorkspaceCapabilities, a predecessor that still *)
(* runs or that died is not.  A path has at most one directory in it.      *)
(***************************************************************************)
EXTENDS Naturals, Sequences, FiniteSets

CONSTANTS
    Writers,
    Manifest,   \* the paths of the files, in their order
    Dirs,       \* directories in the workspace
    Root,       \* the workspace
    DirOf,      \* DirOf[f]: the directory of path f
    BlobOf,     \* BlobOf[w][f]: the blob that w writes to f
    None,       \* nothing has this name
    Foreign,    \* a file of another program
    MaxChanges  \* bound: the changes made by other programs

Files == {Manifest[k] : k \in 1 .. Len(Manifest)}

ASSUME ManifestAssumption ==
    /\ Manifest \in Seq(Files)
    /\ \A j, k \in 1 .. Len(Manifest) : Manifest[j] = Manifest[k] => j = k
ASSUME TreeAssumption ==
    /\ Root \notin Dirs /\ DirOf \in [Files -> Dirs \cup {Root}]
    /\ MaxChanges \in Nat

VARIABLES
    made,      \* the directories that exist
    name,      \* name[f]: the file at path f
    temp,      \* temp[t]: the file at the temporary name of a blob in a directory
    disk,      \* made, name and temp as they have reached the disk
    content,   \* content[i]: [bytes, synced] of file i
    step, file,            \* step[w], file[w]: where w is in the manifest
    any_effect,            \* of the blob that w writes
    temporary_created,     \* likewise
    result,    \* result[w] of the call
    touched,   \* history: the writers that have changed anything
    sound,     \* history: the files that were whole when their path was opened
    changed,   \* history: the paths that another program has changed
    failures   \* history: the power has failed

tree == <<made, name, temp, disk, content>>
locals == <<file, any_effect, temporary_created, result>>
history == <<touched, sound, changed, failures>>
vars == <<tree, step, locals, history>>

\* A file is named by who wrote it for which path; a temporary file by the
\* directory and the blob.
Inodes == Writers \X Files

ASSUME NamesAssumption == None \notin Inodes /\ Foreign \notin Inodes

Temps == (Dirs \cup {Root}) \X {BlobOf[w][f] : w \in Writers, f \in Files}

F(w) == Manifest[file[w]]
Inode(w) == <<w, F(w)>>
Temp(w) == <<DirOf[F(w)], BlobOf[w][F(w)]>>
Links(i) == Cardinality({f \in Files : name[f] = i}) + Cardinality({t \in Temps : temp[t] = i})

Init ==
    /\ made \in SUBSET Dirs
    /\ name \in [Files -> {None, Foreign}]
    /\ \A f \in Files : name[f] = Foreign => DirOf[f] \in made \cup {Root}
    /\ temp = [t \in Temps |-> None]
    /\ disk = [made |-> made, name |-> name, temp |-> temp]
    /\ content = [i \in Inodes |-> [bytes |-> "partial", synced |-> FALSE]]
    /\ step = [w \in Writers |-> "called"]
    /\ file = [w \in Writers |-> 1]
    /\ any_effect = [w \in Writers |-> FALSE]
    /\ temporary_created = [w \in Writers |-> FALSE]
    /\ result = [w \in Writers |-> "none"]
    /\ touched = {} /\ sound = {} /\ changed = {} /\ failures = FALSE

-----------------------------------------------------------------------------
(* One blob, one call to the file system at a time.                        *)

Goto(w, from, to) == step[w] = from /\ step' = [step EXCEPT ![w] = to]

\* The file system changes, and with it the local any_effect.
Effect(w) ==
    /\ any_effect' = [any_effect EXCEPT ![w] = TRUE]
    /\ touched' = touched \cup {w}

\* Mutant of MakeDir: a directory that was made is not counted as an effect.
MakeDirSilently(w) ==
    LET d == DirOf[F(w)] IN
    /\ Goto(w, "directory", "target")
    /\ made' = (made \cup {d}) \ {Root}
    /\ touched' = IF d \in made \cup {Root} THEN touched ELSE touched \cup {w}
    /\ UNCHANGED <<name, temp, disk, content, locals, sound, changed, failures>>

\* The directories on the way exist or are made.
MakeDir(w) ==
    LET d == DirOf[F(w)] IN
    /\ Goto(w, "directory", "target")
    /\ IF d \in made \cup {Root}
       THEN UNCHANGED <<made, any_effect, touched>>
       ELSE made' = made \cup {d} /\ Effect(w)
    /\ UNCHANGED <<name, temp, disk, content, file, temporary_created, result,
                   sound, changed, failures>>

CheckTarget(w) ==
    /\ Goto(w, "target", "create")
    /\ name[F(w)] = None
    /\ UNCHANGED <<tree, locals, history>>

\* O_CREAT | O_EXCL.
Create(w) ==
    /\ Goto(w, "create", "fill")
    /\ temp[Temp(w)] = None
    /\ temp' = [temp EXCEPT ![Temp(w)] = Inode(w)]
    /\ temporary_created' = [temporary_created EXCEPT ![w] = TRUE]
    /\ Effect(w)
    /\ UNCHANGED <<made, name, disk, content, file, result, sound, changed, failures>>

\* The bytes and the mode are written and the metadata looked at.
Fill(w) ==
    /\ Goto(w, "fill", "sync")
    /\ content' = [content EXCEPT ![Inode(w)].bytes = "whole"]
    /\ UNCHANGED <<made, name, temp, disk, locals, history>>

\* Mutant of Sync: the file is not synced before it is published.
SyncNot(w) ==
    /\ Goto(w, "sync", "link")
    /\ UNCHANGED <<tree, locals, history>>

Sync(w) ==
    /\ Goto(w, "sync", "link")
    /\ content' = [content EXCEPT ![Inode(w)].synced = TRUE]
    /\ UNCHANGED <<made, name, temp, disk, locals, history>>

\* Mutant of Link: the file is renamed over its path.
LinkOver(w) ==
    /\ Goto(w, "link", "unlink")
    /\ name' = [name EXCEPT ![F(w)] = temp[Temp(w)]]
    /\ UNCHANGED <<made, temp, disk, content, locals, history>>

\* A link is made only if nothing has the name.
Link(w) ==
    /\ Goto(w, "link", "unlink")
    /\ name[F(w)] = None
    /\ name' = [name EXCEPT ![F(w)] = temp[Temp(w)]]
    /\ UNCHANGED <<made, temp, disk, content, locals, history>>

Unlinked(w) ==
    /\ temp' = [temp EXCEPT ![Temp(w)] = None]
    /\ temporary_created' = [temporary_created EXCEPT ![w] = FALSE]

Unlink(w) ==
    /\ Goto(w, "unlink", "read")
    /\ Unlinked(w)
    /\ UNCHANGED <<made, name, disk, content, file, any_effect, result, history>>

Whole(i) == content[i].bytes = "whole"

Reread(w) ==
    /\ Goto(w, "read", "sync parent")
    /\ Whole(Inode(w)) /\ Links(Inode(w)) = 1
    /\ UNCHANGED <<tree, locals, history>>

\* The entries of directory d reach the disk.
Synced(d) ==
    disk' = [made |-> IF d = Root THEN made ELSE disk.made,
             name |-> [f \in Files |-> IF DirOf[f] = d THEN name[f] ELSE disk.name[f]],
             temp |-> [t \in Temps |-> IF t[1] = d THEN temp[t] ELSE disk.temp[t]]]

\* Mutant of SyncParent: only the workspace is synced.
SyncParentNot(w) ==
    /\ Goto(w, "sync parent", "sync root")
    /\ UNCHANGED <<tree, locals, history>>

SyncParent(w) ==
    /\ Goto(w, "sync parent", "sync root")
    /\ Synced(DirOf[F(w)])
    /\ UNCHANGED <<made, name, temp, content, locals, history>>

SyncRoot(w) ==
    /\ Goto(w, "sync root", "open")
    /\ Synced(Root)
    /\ UNCHANGED <<made, name, temp, content, locals, history>>

\* _open_published: the path leads to the file that was written.
Open(w) ==
    /\ Goto(w, "open", "confirm")
    /\ name[F(w)] = Inode(w)
    /\ sound' = IF Whole(Inode(w)) THEN sound \cup {Inode(w)} ELSE sound
    /\ UNCHANGED <<tree, locals, touched, changed, failures>>

Confirm(w) ==
    /\ Goto(w, "confirm", "close")
    /\ Whole(Inode(w))
    /\ UNCHANGED <<tree, locals, history>>

-----------------------------------------------------------------------------
(* Errors.                                                                 *)

InBlob == {"directory", "target", "create", "fill", "sync", "link", "unlink",
           "read", "sync parent", "sync root", "open", "confirm"}

\* Any call may fail; one whose condition does not hold does.
Fail(w) ==
    /\ step[w] \in InBlob
    /\ step' = [step EXCEPT ![w] = "failed"]
    /\ UNCHANGED <<tree, locals, history>>

\* The temporary file is removed, or cannot be.
CleanUp(w) ==
    /\ Goto(w, "failed", "judge")
    /\ \/ temporary_created[w] /\ Unlinked(w)
       \/ UNCHANGED <<temp, temporary_created>>
    /\ UNCHANGED <<made, name, disk, content, file, any_effect, result, history>>

End(w, outcome) ==
    /\ step' = [step EXCEPT ![w] = "ended"]
    /\ result' = [result EXCEPT ![w] = outcome]
    /\ UNCHANGED <<tree, file, any_effect, temporary_created, history>>

\* A tree is rejected only if its first blob is.
Rejected(w) == End(w, IF file[w] = 1 THEN "rejected" ELSE "indeterminate")

\* A descriptor may fail to close.
Judge(w) ==
    /\ step[w] = "judge"
    /\ \/ End(w, "indeterminate")
       \/ ~any_effect[w] /\ ~temporary_created[w] /\ Rejected(w)

CloseFails(w) == step[w] = "close" /\ End(w, "indeterminate")

-----------------------------------------------------------------------------
(* The tree.                                                               *)

Enter(w) ==
    /\ Goto(w, "called", "load")
    /\ UNCHANGED <<tree, locals, history>>

\* The hold is refused, or the blob cannot be loaded.
Refuse(w) ==
    /\ step[w] = "called" \/ (step[w] = "load" /\ file[w] <= Len(Manifest))
    /\ Rejected(w)

Load(w) ==
    /\ Goto(w, "load", "directory")
    /\ file[w] <= Len(Manifest)
    /\ any_effect' = [any_effect EXCEPT ![w] = FALSE]
    /\ UNCHANGED <<tree, file, temporary_created, result, history>>

Close(w) ==
    /\ Goto(w, "close", "load")
    /\ file' = [file EXCEPT ![w] = @ + 1]
    /\ UNCHANGED <<tree, any_effect, temporary_created, result, history>>

Finish(w) ==
    /\ step[w] = "load" /\ file[w] > Len(Manifest)
    /\ End(w, "materialized")

\* The way out of the hold fails, after the last blob or one that was not loaded.
LeaveFails(w) == step[w] = "load" /\ End(w, "indeterminate")

Crash(w) ==
    /\ step[w] \notin {"called", "ended"}
    /\ End(w, "crashed")

Blob(w) ==
    \/ MakeDir(w) \/ CheckTarget(w) \/ Create(w) \/ Fill(w) \/ Sync(w)
    \/ Link(w) \/ Unlink(w) \/ Reread(w)
    \/ SyncParent(w) \/ SyncRoot(w) \/ Open(w) \/ Confirm(w)

Tree(w) ==
    \/ Enter(w) \/ Refuse(w) \/ Load(w) \/ Blob(w) \/ Close(w) \/ Finish(w)
    \/ Fail(w) \/ CleanUp(w) \/ Judge(w) \/ CloseFails(w)
    \/ LeaveFails(w) \/ Crash(w)

-----------------------------------------------------------------------------
(* What the code does not control.                                         *)

\* The names whose last change may not have reached the disk.
Unsynced ==
    {d \in Dirs : (d \in made) # (d \in disk.made)}
        \cup {f \in Files : name[f] # disk.name[f]}
        \cup {t \in Temps : temp[t] # disk.temp[t]}

\* Each name has its last state or the one that was synced; bytes that were
\* not synced are lost.  Whoever is at work dies.
PowerFails ==
    /\ ~failures /\ failures' = TRUE
    /\ \E late \in SUBSET Unsynced :
          LET dirs == {d \in Dirs : IF d \in late THEN d \in disk.made ELSE d \in made}
              names == [f \in Files |->
                          IF DirOf[f] \notin dirs \cup {Root} THEN None
                          ELSE IF f \in late THEN disk.name[f] ELSE name[f]]
              temps == [t \in Temps |->
                          IF t[1] \notin dirs \cup {Root} THEN None
                          ELSE IF t \in late THEN disk.temp[t] ELSE temp[t]]
          IN /\ made' = dirs /\ name' = names /\ temp' = temps
             /\ disk' = [made |-> dirs, name |-> names, temp |-> temps]
    /\ content' = [i \in Inodes |->
                     IF content[i].synced THEN content[i]
                     ELSE [content[i] EXCEPT !.bytes = "partial"]]
    /\ LET busy == {w \in Writers : step[w] \notin {"called", "ended"}} IN
       /\ step' = [w \in Writers |-> IF w \in busy THEN "ended" ELSE step[w]]
       /\ result' = [w \in Writers |-> IF w \in busy THEN "crashed" ELSE result[w]]
    /\ UNCHANGED <<file, any_effect, temporary_created, touched, sound, changed>>

\* Another program replaces or removes a published file, or rewrites it.
Replace(f) ==
    /\ Cardinality(changed) < MaxChanges
    /\ name[f] # None
    /\ \E other \in {None, Foreign} : name' = [name EXCEPT ![f] = other]
    /\ changed' = changed \cup {f}
    /\ UNCHANGED <<made, temp, disk, content, step, locals, touched, sound, failures>>

Rewrite(f) ==
    /\ Cardinality(changed) < MaxChanges
    /\ name[f] \in Inodes
    /\ content' = [content EXCEPT ![name[f]].bytes = "other"]
    /\ changed' = changed \cup {f}
    /\ UNCHANGED <<made, name, temp, disk, step, locals, touched, sound, failures>>

Next ==
    \/ \E w \in Writers : Tree(w)
    \/ PowerFails
    \/ \E f \in Files : Replace(f) \/ Rewrite(f)

Spec == Init /\ [][Next]_vars

-----------------------------------------------------------------------------
(* Correctness. *)

(***************************************************************************)
(* A path never leads to a part of a file: not while it is written, not    *)
(* when its writer dies, not after the power has failed.                   *)
(***************************************************************************)
NeverPartial == \A f \in Files \ changed : name[f] \in Inodes => Whole(name[f])

(***************************************************************************)
(* No step of a writer replaces what has a name: one that meets the work   *)
(* of another one, or of a predecessor, leaves it for reconciliation, and  *)
(* its cleanup takes away no temporary file but its own.                   *)
(***************************************************************************)
NothingReplaced ==
    [][step' # step /\ UNCHANGED failures =>
          /\ \A f \in Files : name[f] # None => name'[f] = name[f]
          /\ \A t \in Temps : temp[t] # temp'[t] /\ temp[t] # None =>
                /\ temp'[t] = None
                /\ step'[temp[t][1]] # step[temp[t][1]]]_vars

(***************************************************************************)
(* A rejected tree had no effect whatever: no file, no temporary file and  *)
(* no directory (WorkspaceTreeRejectedError, WorkspaceBlobRejectedError).  *)
(***************************************************************************)
RejectedHadNoEffect == \A w \in Writers : result[w] = "rejected" => w \notin touched

(***************************************************************************)
(* A materialized tree was there: the path of every file led, when it was  *)
(* opened, to the writer's own file with all its bytes.  Unless another    *)
(* program has changed it since, it is still there, under that one name,   *)
(* even after the power has failed.                                        *)
(***************************************************************************)
MaterializedStays ==
    \A w \in Writers, f \in Files : result[w] = "materialized" =>
        /\ <<w, f>> \in sound
        /\ f \notin changed => /\ name[f] = <<w, f>> /\ Whole(<<w, f>>)
                               /\ Links(<<w, f>>) = 1
=============================================================================
