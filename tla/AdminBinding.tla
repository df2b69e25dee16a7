---------------------------- MODULE AdminBinding ----------------------------
(***************************************************************************)
(* PinnedDirectoryExecutor.verify_worktree_admin_binding: one pinned       *)
(* workspace is bound to its administrative entry in the repository, by    *)
(* file system calls between which Git, or the program that works in the   *)
(* workspace, may change every file that is read.                          *)
(*                                                                         *)
(* The marker is the file .git of the workspace, which names an entry of   *)
(* .git/worktrees; the entry's file gitdir, the backlink, names a path,    *)
(* and the path must be the pinned workspace.  A leaf is read together     *)
(* with its inode, size and times, so that every change of it shows: its   *)
(* version stands for all of these.  (Assumed: no leaf is changed and      *)
(* changed back within one tick of the file system's clock.)               *)
(***************************************************************************)
EXTENDS Naturals

CONSTANTS
    Entries,     \* names under .git/worktrees
    Paths,       \* paths a backlink may hold
    MaxChanges   \* bound: the changes made by other programs

ASSUME ChangeAssumption == MaxChanges \in Nat

VARIABLES
    marker,    \* [to, home, version] of the marker; home: its path is in this repository
    entry,     \* entry[e]: the inode of the entry's directory, 0 if there is none
    backlink,  \* backlink[e]: [to, version] of the entry's backlink
    place,     \* place[p]: the path p leads to the pinned workspace
    changes,   \* the number of changes so far
    step,      \* where the call is
    seen,      \* the marker, the inode and the backlink it has read
    agreed     \* history: marker, entry and backlink agreed at some instant of the call

world == <<marker, entry, backlink, place, changes>>
vars == <<world, step, seen, agreed>>

None == "none"
Markers == [to : Entries \cup {None}, home : BOOLEAN, version : 0 .. MaxChanges]
Backlinks == [to : Paths \cup {None}, version : 0 .. MaxChanges]
Unread == [marker |-> [to |-> None, home |-> FALSE, version |-> 0], inode |-> 0,
           backlink |-> [to |-> None, version |-> 0]]

\* Marker, entry and backlink lead to each other.
Agreement ==
    /\ marker.to \in Entries /\ marker.home
    /\ entry[marker.to] # 0
    /\ backlink[marker.to].to \in Paths
    /\ place[backlink[marker.to].to]

Init ==
    /\ marker \in [to : Entries \cup {None}, home : BOOLEAN, version : {0}]
    /\ entry \in [Entries -> {0, 1}]
    /\ backlink \in [Entries -> [to : Paths \cup {None}, version : {0}]]
    /\ place \in [Paths -> BOOLEAN]
    /\ changes = 0
    /\ step = "called"
    /\ seen = Unread
    /\ agreed = Agreement

-----------------------------------------------------------------------------
(* What other programs do.  Each change gives what it writes a new version *)
(* or a new inode.                                                         *)

Changing == /\ changes < MaxChanges
            /\ changes' = changes + 1

WriteMarker(e, home) ==
    /\ Changing
    /\ marker' = [to |-> e, home |-> home, version |-> changes']
    /\ UNCHANGED <<entry, backlink, place>>

RemoveEntry(e) ==
    /\ Changing
    /\ entry' = [entry EXCEPT ![e] = 0]
    /\ UNCHANGED <<marker, backlink, place>>

AddEntry(e, p) ==
    /\ Changing
    /\ entry[e] = 0
    /\ entry' = [entry EXCEPT ![e] = changes' + 1]
    /\ backlink' = [backlink EXCEPT ![e] = [to |-> p, version |-> changes']]
    /\ UNCHANGED <<marker, place>>

WriteBacklink(e, p) ==
    /\ Changing
    /\ entry[e] # 0
    /\ backlink' = [backlink EXCEPT ![e] = [to |-> p, version |-> changes']]
    /\ UNCHANGED <<marker, entry, place>>

MovePath(p) ==
    /\ Changing
    /\ place' = [place EXCEPT ![p] = ~@]
    /\ UNCHANGED <<marker, entry, backlink>>

Others ==
    /\ \/ \E e \in Entries \cup {None}, home \in BOOLEAN : WriteMarker(e, home)
       \/ \E e \in Entries : \/ RemoveEntry(e)
                             \/ \E p \in Paths : AddEntry(e, p) \/ WriteBacklink(e, p)
       \/ \E p \in Paths : MovePath(p)
    /\ agreed' = (agreed \/ Agreement')
    /\ UNCHANGED <<step, seen>>

-----------------------------------------------------------------------------
(* The call, one observation of the file system at a time. *)

ReadMarker ==
    /\ step = "called"
    /\ marker.to \in Entries
    /\ seen' = [seen EXCEPT !.marker = marker]
    /\ step' = "marked"
    /\ UNCHANGED <<world, agreed>>

\* The entry is opened below the pinned repository.
OpenEntry ==
    /\ step = "marked"
    /\ entry[seen.marker.to] # 0
    /\ seen' = [seen EXCEPT !.inode = entry[seen.marker.to]]
    /\ step' = "opened"
    /\ UNCHANGED <<world, agreed>>

\* It is opened again by the path the marker holds, and must be the same.
OpenTarget ==
    /\ step = "opened"
    /\ seen.marker.home /\ entry[seen.marker.to] = seen.inode
    /\ step' = "entered"
    /\ UNCHANGED <<world, seen, agreed>>

\* A leaf is read through the entry that was opened: a removed one is empty.
ReadBacklink ==
    /\ step = "entered"
    /\ entry[seen.marker.to] = seen.inode
    /\ backlink[seen.marker.to].to \in Paths
    /\ seen' = [seen EXCEPT !.backlink = backlink[seen.marker.to]]
    /\ step' = "linked"
    /\ UNCHANGED <<world, agreed>>

OpenParent ==
    /\ step = "linked"
    /\ place[seen.backlink.to]
    /\ step' = "placed"
    /\ UNCHANGED <<world, seen, agreed>>

\* Mutant of RereadBacklink: the second reading is left out.
SkipBacklink ==
    /\ step = "placed"
    /\ step' = "linked again"
    /\ UNCHANGED <<world, seen, agreed>>

RereadBacklink ==
    /\ step = "placed"
    /\ entry[seen.marker.to] = seen.inode
    /\ backlink[seen.marker.to] = seen.backlink
    /\ step' = "linked again"
    /\ UNCHANGED <<world, seen, agreed>>

RereadMarker ==
    /\ step = "linked again"
    /\ marker = seen.marker
    /\ step' = "bound"
    /\ UNCHANGED <<world, seen, agreed>>

\* Any call may fail, or find something else; every descriptor is closed.
Refuse ==
    /\ step \notin {"bound", "refused"}
    /\ step' = "refused"
    /\ UNCHANGED <<world, seen, agreed>>

Bind ==
    \/ ReadMarker \/ OpenEntry \/ OpenTarget
    \/ ReadBacklink \/ OpenParent
    \/ RereadBacklink \/ RereadMarker
    \/ Refuse

Next == Others \/ Bind

Spec == Init /\ [][Next]_vars

-----------------------------------------------------------------------------
(* Correctness. *)

Steps == {"called", "marked", "opened", "entered", "linked", "placed",
          "linked again", "bound", "refused"}

(***************************************************************************)
(* The links between marker, entry, backlink and path, how they were at    *)
(* every instant of the call, and what the call has read of them.          *)
(***************************************************************************)
TypeOK ==
    /\ marker \in Markers
    /\ entry \in [Entries -> 0 .. MaxChanges + 1]
    /\ backlink \in [Entries -> Backlinks]
    /\ place \in [Paths -> BOOLEAN]
    /\ changes \in 0 .. MaxChanges
    /\ step \in Steps
    /\ seen \in [marker : Markers, inode : 0 .. MaxChanges + 1,
                 backlink : Backlinks]
    /\ agreed \in BOOLEAN

(***************************************************************************)
(* A binding that is returned was true: although no two of the files were  *)
(* read together, there was one instant of the call at which the marker    *)
(* named the entry, the entry's backlink named the path, and the path was  *)
(* the pinned workspace.                                                   *)
(***************************************************************************)
BindingWasTrue == step = "bound" => agreed
=============================================================================
