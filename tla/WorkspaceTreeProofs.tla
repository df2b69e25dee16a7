-------------------------- MODULE WorkspaceTreeProofs --------------------------
(***************************************************************************)
(* Proofs about the materialization of a workspace, for any manifest, any  *)
(* number of writers, any power failures and any changes by other          *)
(* programs: what a path leads to is whole, what is rejected had no        *)
(* effect, what is materialized stays, and nothing is replaced.            *)
(***************************************************************************)
EXTENDS WorkspaceTree, FiniteSetTheorems, TLAPS

-----------------------------------------------------------------------------
(* The inductive invariant. *)

\* The stages of a blob after the one that makes it true of it.
AfterDirectory == (InBlob \ {"directory"}) \cup {"close"}
AfterLink == {"unlink", "read", "sync parent", "sync root", "open", "confirm", "close"}
AfterUnlink == AfterLink \ {"unlink"}
AfterParent == {"sync root", "open", "confirm", "close"}
AfterRoot == {"open", "confirm", "close"}

\* The files that w is done with.
Before(w) == {Manifest[k] : k \in {k \in 1 .. Len(Manifest) : k < file[w]}}

Steps == InBlob \cup {"called", "load", "close", "failed", "judge", "ended"}
Results == {"none", "rejected", "indeterminate", "materialized", "crashed"}

\* What a path or a temporary name may lead to.
NameMap == {n \in [Files -> {None, Foreign} \cup Inodes] :
               \A f, g \in Files, w \in Writers : n[f] = <<w, g>> => f = g}
TempMap == {u \in [Temps -> {None} \cup Inodes] :
               \A t \in Temps, w \in Writers, f \in Files :
                   u[t] = <<w, f>> => t = <<DirOf[f], BlobOf[w][f]>>}

TreeShape ==
    /\ made \subseteq Dirs /\ name \in NameMap /\ temp \in TempMap
    /\ disk \in [made : SUBSET made, name : NameMap, temp : TempMap]
    /\ content \in [Inodes -> [bytes : {"partial", "whole", "other"}, synced : BOOLEAN]]
    /\ step \in [Writers -> Steps]
    /\ file \in [Writers -> Nat \ {0}]
    /\ \A w \in Writers : step[w] \notin {"called", "load", "ended"} =>
          file[w] <= Len(Manifest)
    /\ any_effect \in [Writers -> BOOLEAN]
    /\ temporary_created \in [Writers -> BOOLEAN]
    /\ result \in [Writers -> Results]
    /\ changed \subseteq Files

\* A writer that has a temporary file has its own, from its creation to its removal.
OwnsTemp(w) ==
    /\ step[w] \in {"fill", "sync", "link", "unlink"} => temporary_created[w]
    /\ temporary_created[w] /\ step[w] # "ended" =>
          /\ step[w] \in {"fill", "sync", "link", "unlink", "failed", "judge"}
          /\ temp[Temp(w)] = Inode(w)

Safe(i) == Whole(i) /\ content[i].synced

\* A file is whole, and its bytes are on the disk, before and after it has its name.
Sealed ==
    /\ \A w \in Writers :
          /\ step[w] = "sync" /\ F(w) \notin changed => Whole(Inode(w))
          /\ step[w] \in AfterLink \cup {"link"} /\ F(w) \notin changed => Safe(Inode(w))
    /\ \A f \in Files \ changed :
          /\ name[f] \in Inodes => Safe(name[f])
          /\ disk.name[f] \in Inodes => Safe(disk.name[f])

\* What w has brought to the stage s is still there, in the tree and on the disk.
Good(w, f, s) ==
    /\ s \in AfterDirectory => DirOf[f] \in made \cup {Root}
    /\ s \in AfterLink /\ f \notin changed => name[f] = <<w, f>>
    /\ s \in AfterUnlink => \A t \in Temps : temp[t] # <<w, f>>
    /\ s \in AfterParent =>
          /\ f \notin changed => disk.name[f] = <<w, f>>
          /\ \A t \in Temps : disk.temp[t] # <<w, f>>
    /\ s \in AfterRoot => DirOf[f] \in disk.made \cup {Root}
    /\ s = "confirm" /\ Whole(<<w, f>>) => <<w, f>> \in sound
    /\ s = "close" => <<w, f>> \in sound

Placed(w) ==
    /\ \A f \in Before(w) : Good(w, f, "close")
    /\ step[w] \in AfterDirectory => Good(w, F(w), step[w])

\* A call that has had an effect knows it as long as it is at its first blob.
Knows(w) ==
    /\ result[w] # "none" => step[w] = "ended"
    /\ w \in touched /\ file[w] = 1 /\ step[w] # "ended" =>
          any_effect[w] /\ step[w] \notin {"called", "load"}
    /\ step[w] = "called" => file[w] = 1
    /\ result[w] = "rejected" => w \notin touched
    /\ result[w] = "materialized" => file[w] > Len(Manifest)

TreeInv ==
    TreeShape /\ Sealed /\ \A w \in Writers : OwnsTemp(w) /\ Placed(w) /\ Knows(w)

-----------------------------------------------------------------------------
(* Names. *)

LEMMA FilesOfManifest ==
    /\ Len(Manifest) \in Nat
    /\ \A k \in 1 .. Len(Manifest) : Manifest[k] \in Files
    /\ \A f \in Files : \E k \in 1 .. Len(Manifest) : f = Manifest[k]
  BY ManifestAssumption DEF Files

LEMMA Names ==
    ASSUME NEW w \in Writers, NEW f \in Files
    PROVE  /\ <<w, f>> \in Inodes /\ <<w, f>> # None /\ <<w, f>> # Foreign
           /\ <<DirOf[f], BlobOf[w][f]>> \in Temps
           /\ DirOf[f] \in Dirs \cup {Root}
  BY NamesAssumption, TreeAssumption DEF Inodes, Temps

\* The file a writer is at is none of those it is done with.
LEMMA Current ==
    ASSUME TreeShape, NEW w \in Writers, file[w] <= Len(Manifest)
    PROVE  /\ F(w) \in Files /\ F(w) \notin Before(w) /\ Before(w) \subseteq Files
           /\ Inode(w) = <<w, F(w)>> /\ Inode(w) \in Inodes
           /\ Temp(w) = <<DirOf[F(w)], BlobOf[w][F(w)]>> /\ Temp(w) \in Temps
           /\ file[w] \in 1 .. Len(Manifest)
  <1>1. file[w] \in 1 .. Len(Manifest)
    BY FilesOfManifest DEF TreeShape
  <1>2. F(w) \in Files /\ Before(w) \subseteq Files
    BY <1>1, FilesOfManifest DEF F, Before
  <1>3. F(w) \notin Before(w)
    BY <1>1, ManifestAssumption DEF F, Before
  <1> QED
    BY <1>1, <1>2, <1>3, Names DEF Inode, Temp

LEMMA BeforeIsFiles ==
    ASSUME NEW w \in Writers PROVE Before(w) \subseteq Files
  BY FilesOfManifest DEF Before

\* A temporary name is that of the blob it leads to.
LEMMA TempNames ==
    ASSUME TreeShape, NEW t \in Temps, NEW v \in Writers, NEW f \in Files,
           temp[t] = <<v, f>> \/ disk.temp[t] = <<v, f>>
    PROVE  t = <<DirOf[f], BlobOf[v][f]>>
  <1>1. temp \in TempMap /\ disk.temp \in TempMap
    BY DEF TreeShape
  <1> QED
    BY <1>1 DEF TempMap

LEMMA PathNames ==
    ASSUME TreeShape, NEW f \in Files, NEW g \in Files, NEW v \in Writers
    PROVE  /\ name[f] = <<v, g>> => f = g
           /\ disk.name[f] = <<v, g>> => f = g
  <1>1. name \in NameMap /\ disk.name \in NameMap
    BY DEF TreeShape
  <1> QED
    BY <1>1 DEF NameMap

LEMMA TreeInit == Init => TreeInv
  <1> SUFFICES ASSUME Init PROVE TreeInv
    OBVIOUS
  <1> USE DEF Init
  <1>1. name \in NameMap /\ temp \in TempMap
    BY NamesAssumption, Names DEF NameMap, TempMap
  <1>2. TreeShape
    BY <1>1 DEF TreeShape, Steps, Results
  <1>3. Sealed
    BY NamesAssumption DEF Sealed, AfterLink
  <1>4. ASSUME NEW w \in Writers PROVE OwnsTemp(w) /\ Placed(w) /\ Knows(w)
    <2>1. Before(w) = {}
      BY FilesOfManifest DEF Before
    <2> QED
      BY <2>1 DEF OwnsTemp, Placed, Knows, AfterDirectory, InBlob
  <1> QED
    BY <1>2, <1>3, <1>4 DEF TreeInv

-----------------------------------------------------------------------------
(* What a step leaves of the work of a writer. *)

\* Nothing that v relies on at the stage s of file f is taken away.
Keeps(v, f, s) ==
    /\ made \subseteq made' /\ changed \subseteq changed' /\ sound \subseteq sound'
    /\ disk.made \subseteq disk'.made
    /\ f \notin changed' /\ name[f] = <<v, f>> =>
          /\ name'[f] = <<v, f>>
          /\ disk.name[f] = <<v, f>> => disk'.name[f] = <<v, f>>
    /\ s \in AfterUnlink => \A t \in Temps :
          /\ temp[t] # <<v, f>> => temp'[t] # <<v, f>>
          /\ temp[t] # <<v, f>> /\ disk.temp[t] # <<v, f>> => disk'.temp[t] # <<v, f>>
    /\ s = "confirm" /\ content'[<<v, f>>].bytes = "whole" => Whole(<<v, f>>)

LEMMA Kept ==
    ASSUME NEW v \in Writers, TreeShape, Placed(v), Before(v)' = Before(v),
           \A f \in Before(v) : Keeps(v, f, "close"),
           step'[v] \in AfterDirectory =>
               step'[v] = step[v] /\ file'[v] = file[v] /\ Keeps(v, F(v), step[v])
    PROVE  Placed(v)'
  <1>1. ASSUME NEW f \in Before(v) PROVE Good(v, f, "close")'
    <2>1. Good(v, f, "close") /\ Keeps(v, f, "close")
      BY <1>1 DEF Placed
    <2> QED
      BY <2>1 DEF Good, Keeps, Whole, AfterDirectory, AfterLink, AfterUnlink, AfterParent,
                  AfterRoot
  <1>2. ASSUME step'[v] \in AfterDirectory PROVE Good(v, F(v), step[v])'
    <2>1. Good(v, F(v), step[v]) /\ Keeps(v, F(v), step[v]) /\ F(v)' = F(v)
      BY <1>2 DEF Placed, F
    <2>2. step'[v] = step[v]
      BY <1>2
    <2> QED
      BY <2>1, <2>2 DEF Good, Keeps, Whole, AfterDirectory, AfterLink, AfterUnlink,
                        AfterParent, AfterRoot
  <1> QED
    BY <1>1, <1>2 DEF Placed

\* The step is not one of v, nor one that touches its work.
Apart(v) ==
    /\ step'[v] = step[v] /\ file'[v] = file[v] /\ any_effect'[v] = any_effect[v]
    /\ temporary_created'[v] = temporary_created[v] /\ result'[v] = result[v]
    /\ v \in touched' => v \in touched
    /\ temporary_created[v] /\ step[v] # "ended" => temp'[Temp(v)] = temp[Temp(v)]
    /\ \A f \in Files, s \in AfterDirectory : Keeps(v, f, s)

LEMMA SameFile ==
    ASSUME NEW v, file'[v] = file[v]
    PROVE  Before(v)' = Before(v) /\ F(v)' = F(v) /\ Inode(v)' = Inode(v) /\ Temp(v)' = Temp(v)
  BY DEF Before, F, Inode, Temp

LEMMA Others ==
    ASSUME TreeInv, NEW v \in Writers, Apart(v)
    PROVE  OwnsTemp(v)' /\ Placed(v)' /\ Knows(v)'
  <1>0. TreeShape /\ OwnsTemp(v) /\ Placed(v) /\ Knows(v)
    BY DEF TreeInv
  <1>1. Before(v)' = Before(v) /\ Inode(v)' = Inode(v) /\ Temp(v)' = Temp(v)
    BY SameFile DEF Apart
  <1>2. OwnsTemp(v)'
    BY <1>0, <1>1 DEF OwnsTemp, Apart
  <1>3. \A f \in Before(v) : Keeps(v, f, "close")
    BY BeforeIsFiles DEF Apart, AfterDirectory
  <1>4. step[v] \in AfterDirectory => F(v) \in Files
    BY <1>0, Current DEF TreeShape, AfterDirectory, InBlob
  <1>5. step'[v] \in AfterDirectory =>
            step'[v] = step[v] /\ file'[v] = file[v] /\ Keeps(v, F(v), step[v])
    BY <1>4 DEF Apart
  <1>6. Placed(v)'
    BY <1>0, <1>1, <1>3, <1>5, Kept
  <1>7. Knows(v)'
    BY <1>0 DEF Knows, Apart
  <1> QED
    BY <1>2, <1>6, <1>7

LEMMA StillDone ==
    ASSUME TreeInv, NEW w \in Writers, file'[w] = file[w],
           \A f \in Before(w) : Keeps(w, f, "close"),
           step'[w] \in AfterDirectory => Good(w, F(w), step[w])'
    PROVE  Placed(w)'
  <1>1. Before(w)' = Before(w) /\ F(w)' = F(w)
    BY SameFile
  <1>2. ASSUME NEW f \in Before(w) PROVE Good(w, f, "close")'
    <2>1. Good(w, f, "close") /\ Keeps(w, f, "close")
      BY <1>2 DEF TreeInv, Placed
    <2> QED
      BY <2>1 DEF Good, Keeps, Whole, AfterDirectory, AfterLink, AfterUnlink, AfterParent,
                  AfterRoot
  <1> QED
    BY <1>1, <1>2 DEF Placed

-----------------------------------------------------------------------------
(* Steps that leave the tree alone. *)

LEMMA KeepsWhenUnchanged ==
    ASSUME UNCHANGED <<tree, history>>, NEW v, NEW f, NEW s PROVE Keeps(v, f, s)
  BY DEF Keeps, tree, history, Whole

LEMMA ApartWhenUnchanged ==
    ASSUME TreeInv, UNCHANGED <<tree, history>>, NEW v \in Writers,
           step'[v] = step[v], file'[v] = file[v], any_effect'[v] = any_effect[v],
           temporary_created'[v] = temporary_created[v], result'[v] = result[v]
    PROVE  OwnsTemp(v)' /\ Placed(v)' /\ Knows(v)'
  <1>1. Apart(v)
    BY KeepsWhenUnchanged DEF Apart, tree, history
  <1> QED
    BY <1>1, Others

\* The files and their names are as they were; w has come to a stage that asks for no more, or has ended.
LEMMA SealedWhenUnchanged ==
    ASSUME TreeInv, UNCHANGED <<name, content, changed>>, disk'.name = disk.name,
           NEW w \in Writers, file'[w] = file[w] \/ step'[w] = "load",
           \A v \in Writers \ {w} : step'[v] = step[v] /\ file'[v] = file[v],
           step'[w] \in AfterLink => step[w] \in AfterLink,
           step'[w] \notin {"sync", "link"}
    PROVE  Sealed'
  <1>1. ASSUME NEW v \in Writers PROVE
            /\ (step[v] = "sync" /\ F(v) \notin changed => Whole(Inode(v)))'
            /\ (step[v] \in AfterLink \cup {"link"} /\ F(v) \notin changed => Safe(Inode(v)))'
    <2>1. CASE v = w
      <3>1. step'[w] \in AfterLink => F(w)' = F(w) /\ Inode(w)' = Inode(w)
        BY SameFile DEF AfterLink
      <3>2. step[w] \in AfterLink /\ F(w) \notin changed => Safe(Inode(w))
        BY DEF TreeInv, Sealed
      <3> QED
        BY <2>1, <3>1, <3>2, SMTT(20) DEF Safe, Whole
    <2>2. CASE v # w
      BY <2>2, SameFile DEF TreeInv, Sealed, Safe, Whole
    <2> QED
      BY <2>1, <2>2
  <1> QED
    BY <1>1 DEF TreeInv, Sealed, Safe, Whole

\* What is left to show of such a step concerns w only.
LEMMA QuietStep ==
    ASSUME TreeInv, UNCHANGED <<tree, history, temporary_created>>, NEW w \in Writers,
           NEW s \in Steps \ {"sync", "link"}, NEW k \in Nat \ {0}, NEW e \in BOOLEAN,
           NEW r \in Results,
           step' = [step EXCEPT ![w] = s], file' = [file EXCEPT ![w] = k],
           any_effect' = [any_effect EXCEPT ![w] = e], result' = [result EXCEPT ![w] = r],
           s \in AfterLink => step[w] \in AfterLink,
           k = file[w] \/ s = "load",
           s \notin {"called", "load", "ended"} => file[w] <= Len(Manifest),
           OwnsTemp(w)', Placed(w)', Knows(w)'
    PROVE  TreeInv'
  <1>0. TreeShape
    BY DEF TreeInv
  <1>1. /\ step'[w] = s /\ file'[w] = k
        /\ \A v \in Writers \ {w} :
              /\ step'[v] = step[v] /\ file'[v] = file[v] /\ any_effect'[v] = any_effect[v]
              /\ temporary_created'[v] = temporary_created[v] /\ result'[v] = result[v]
    BY <1>0 DEF TreeShape
  <1>2. TreeShape'
    <2>1. /\ step' \in [Writers -> Steps] /\ file' \in [Writers -> Nat \ {0}]
          /\ any_effect' \in [Writers -> BOOLEAN] /\ result' \in [Writers -> Results]
      BY <1>0 DEF TreeShape
    <2>2. \A v \in Writers : step'[v] \notin {"called", "load", "ended"} =>
              file'[v] <= Len(Manifest)
      BY <1>0, <1>1 DEF TreeShape
    <2> QED
      BY <1>0, <2>1, <2>2 DEF TreeShape, tree, history
  <1>3. Sealed'
    BY <1>1, SealedWhenUnchanged DEF tree, history
  <1>4. ASSUME NEW v \in Writers \ {w} PROVE OwnsTemp(v)' /\ Placed(v)' /\ Knows(v)'
    BY <1>1, <1>4, ApartWhenUnchanged
  <1> QED
    BY <1>2, <1>3, <1>4 DEF TreeInv

LEMMA QuietPlaced ==
    ASSUME TreeInv, UNCHANGED <<tree, history>>, NEW w \in Writers, file'[w] = file[w],
           step'[w] \in AfterDirectory => Good(w, F(w), step'[w])
    PROVE  Placed(w)'
  <1>1. F(w)' = F(w)
    BY SameFile
  <1>2. step'[w] \in AfterDirectory => Good(w, F(w), step[w])'
    BY <1>1 DEF Good, tree, history, Whole
  <1> QED
    BY <1>2, StillDone, KeepsWhenUnchanged

LEMMA QuietEnd ==
    ASSUME TreeInv, NEW w \in Writers, NEW r \in Results \ {"none"}, End(w, r),
           r = "rejected" => w \notin touched, r = "materialized" => file[w] > Len(Manifest)
    PROVE  TreeInv'
  <1>0. TreeShape /\ OwnsTemp(w) /\ Knows(w)
    BY DEF TreeInv
  <1>1. /\ step' = [step EXCEPT ![w] = "ended"] /\ file' = [file EXCEPT ![w] = file[w]]
        /\ any_effect' = [any_effect EXCEPT ![w] = any_effect[w]]
        /\ result' = [result EXCEPT ![w] = r]
        /\ UNCHANGED <<tree, history, temporary_created>>
        /\ step'[w] = "ended" /\ file'[w] = file[w] /\ result'[w] = r
    BY <1>0 DEF End, TreeShape
  <1>2. OwnsTemp(w)' /\ Knows(w)'
    BY <1>0, <1>1 DEF OwnsTemp, Knows, history
  <1>3. Placed(w)'
    BY <1>1, QuietPlaced DEF AfterDirectory, InBlob
  <1>4. file[w] \in Nat \ {0} /\ any_effect[w] \in BOOLEAN
    BY <1>0 DEF TreeShape
  <1> QED
    BY <1>1, <1>2, <1>3, <1>4, QuietStep DEF Steps, AfterLink

LEMMA EndingSteps ==
    ASSUME TreeInv, NEW w \in Writers,
           Refuse(w) \/ Finish(w) \/ Judge(w) \/ CloseFails(w) \/ LeaveFails(w) \/ Crash(w)
    PROVE  TreeInv'
  <1>0. TreeShape /\ Knows(w)
    BY DEF TreeInv
  <1>1. CASE Refuse(w)
    BY <1>0, <1>1, QuietEnd DEF Refuse, Rejected, Knows, Results
  <1>2. CASE Finish(w)
    BY <1>2, QuietEnd DEF Finish, Results
  <1>3. CASE Judge(w)
    BY <1>0, <1>3, QuietEnd DEF Judge, Rejected, Knows, Results
  <1>4. CASE CloseFails(w) \/ LeaveFails(w) \/ Crash(w)
    BY <1>4, QuietEnd DEF CloseFails, LeaveFails, Crash, Results
  <1> QED
    BY <1>1, <1>2, <1>3, <1>4

LEMMA LocalSteps ==
    ASSUME TreeInv, NEW w \in Writers,
           Enter(w) \/ Load(w) \/ Fail(w) \/ CheckTarget(w) \/ Reread(w) \/ Confirm(w)
    PROVE  TreeInv'
  <1>0. TreeShape /\ OwnsTemp(w) /\ Placed(w) /\ Knows(w)
    BY DEF TreeInv
  <1>1. PICK s \in Steps \ {"sync", "link"}, e \in BOOLEAN :
            /\ step' = [step EXCEPT ![w] = s] /\ any_effect' = [any_effect EXCEPT ![w] = e]
            /\ s \in AfterLink => step[w] \in AfterLink
            /\ s \notin {"called", "load", "ended"} => file[w] <= Len(Manifest)
    <2>1. any_effect = [any_effect EXCEPT ![w] = any_effect[w]] /\ any_effect[w] \in BOOLEAN
      BY <1>0 DEF TreeShape
    <2>2. step[w] \notin {"called", "load", "ended"} => file[w] <= Len(Manifest)
      BY <1>0 DEF TreeShape
    <2>3. CASE Enter(w)
      BY <2>1, <2>2, <2>3 DEF Enter, Goto, locals, Steps, AfterLink
    <2>4. CASE Load(w)
      BY <2>1, <2>2, <2>4 DEF Load, Goto, Steps, InBlob, AfterLink
    <2>5. CASE Fail(w)
      BY <2>1, <2>2, <2>5 DEF Fail, locals, Steps, InBlob, AfterLink
    <2>6. CASE CheckTarget(w)
      BY <2>1, <2>2, <2>6 DEF CheckTarget, Goto, locals, Steps, InBlob, AfterLink
    <2>7. CASE Reread(w)
      BY <2>1, <2>2, <2>7 DEF Reread, Goto, locals, Steps, InBlob, AfterLink
    <2>8. CASE Confirm(w)
      BY <2>1, <2>2, <2>8 DEF Confirm, Goto, locals, Steps, InBlob, AfterLink
    <2> QED
      BY <2>3, <2>4, <2>5, <2>6, <2>7, <2>8
  <1>2. /\ UNCHANGED <<tree, history, temporary_created, file, result>>
        /\ file' = [file EXCEPT ![w] = file[w]] /\ result' = [result EXCEPT ![w] = result[w]]
        /\ file[w] \in Nat \ {0} /\ result[w] \in Results
        /\ step'[w] = s /\ file'[w] = file[w]
    BY <1>0, <1>1 DEF Enter, Load, Fail, CheckTarget, Reread, Confirm, locals, TreeShape
  <1>3. Inode(w)' = Inode(w) /\ Temp(w)' = Temp(w)
    BY <1>2, SameFile
  <1>4. OwnsTemp(w)'
    BY <1>0, <1>1, <1>2, <1>3
       DEF OwnsTemp, Enter, Load, Fail, CheckTarget, Reread, Confirm, Goto, InBlob, tree, TreeShape
  <1>5. Knows(w)'
    BY <1>0, <1>1, <1>2
       DEF Knows, Enter, Load, Fail, CheckTarget, Reread, Confirm, Goto, InBlob, locals,
           history, TreeShape
  <1>6. step'[w] \in AfterDirectory => Good(w, F(w), step'[w])
    <2> DEFINE G == Good(w, F(w), step[w])
    <2>1. step[w] \in AfterDirectory => G
      BY <1>0 DEF Placed
    <2>2. CASE CheckTarget(w)
      BY <1>0, <2>1, <2>2 DEF CheckTarget, Goto, TreeShape, Good, AfterDirectory, InBlob,
                              AfterLink, AfterUnlink, AfterParent, AfterRoot
    <2>3. CASE Reread(w)
      BY <1>0, <2>1, <2>3 DEF Reread, Goto, TreeShape, Good, AfterDirectory, InBlob,
                              AfterLink, AfterUnlink, AfterParent, AfterRoot
    <2>4. CASE Confirm(w)
      BY <1>0, <2>1, <2>4 DEF Confirm, Goto, TreeShape, Good, AfterDirectory, InBlob,
                              AfterLink, AfterUnlink, AfterParent, AfterRoot, Inode
    <2>5. CASE Enter(w) \/ Load(w) \/ Fail(w)
      BY <1>0, <2>5 DEF Enter, Load, Fail, Goto, TreeShape, AfterDirectory, InBlob
    <2> QED
      BY <2>2, <2>3, <2>4, <2>5
  <1>7. Placed(w)'
    BY <1>2, <1>6, QuietPlaced
  <1> QED
    BY <1>1, <1>2, <1>4, <1>5, <1>7, QuietStep

LEMMA CloseStep ==
    ASSUME TreeInv, NEW w \in Writers, Close(w) PROVE TreeInv'
  <1>0. TreeShape /\ OwnsTemp(w) /\ Placed(w) /\ Knows(w)
    BY DEF TreeInv
  <1>1. /\ step[w] = "close" /\ file[w] \in Nat \ {0} /\ any_effect[w] \in BOOLEAN
        /\ result[w] \in Results
        /\ step' = [step EXCEPT ![w] = "load"] /\ step'[w] = "load"
        /\ file' = [file EXCEPT ![w] = file[w] + 1] /\ file'[w] = file[w] + 1
        /\ any_effect' = [any_effect EXCEPT ![w] = any_effect[w]]
        /\ result' = [result EXCEPT ![w] = result[w]]
        /\ UNCHANGED <<tree, history, temporary_created, result>>
    BY <1>0 DEF Close, Goto, TreeShape
  <1>2. OwnsTemp(w)' /\ Knows(w)'
    BY <1>0, <1>1 DEF OwnsTemp, Knows, history
  <1>3. Before(w)' \subseteq Before(w) \cup {F(w)}
    BY <1>1, FilesOfManifest DEF Before, F
  <1>4. ASSUME NEW f \in Before(w) \cup {F(w)} PROVE Good(w, f, "close")'
    <2>1. Good(w, f, "close")
      BY <1>0, <1>1 DEF Placed, AfterDirectory
    <2> QED
      BY <1>1, <2>1 DEF Good, tree, history, Whole
  <1>5. Placed(w)'
    BY <1>1, <1>3, <1>4 DEF Placed, AfterDirectory, InBlob
  <1>6. file[w] + 1 \in Nat \ {0} /\ "load" \in Steps \ {"sync", "link"}
    BY <1>1 DEF Steps
  <1> QED
    BY <1>1, <1>2, <1>5, <1>6, QuietStep DEF AfterLink

-----------------------------------------------------------------------------
(* Directories and temporary files. *)

\* w goes from stage a to stage b of the blob it writes.
Moved(w, a, b) ==
    /\ step[w] = a /\ step'[w] = b /\ step' \in [Writers -> Steps]
    /\ \A v \in Writers \ {w} : step'[v] = step[v]
    /\ F(w) \in Files /\ F(w) \notin Before(w) /\ Before(w) \subseteq Files
    /\ Inode(w) = <<w, F(w)>> /\ Inode(w) \in Inodes
    /\ Temp(w) = <<DirOf[F(w)], BlobOf[w][F(w)]>> /\ Temp(w) \in Temps
    /\ \A v \in Writers : F(v)' = F(v) /\ Inode(v)' = Inode(v) /\ Temp(v)' = Temp(v)
    /\ \A v \in Writers : step'[v] \notin {"called", "load", "ended"} =>
                              file'[v] <= Len(Manifest)

LEMMA Moves ==
    ASSUME TreeShape, NEW w \in Writers, NEW a \in Steps \ {"called", "load", "ended"},
           NEW b \in Steps \ {"called", "load"}, Goto(w, a, b), file' = file
    PROVE  Moved(w, a, b)
  <1>1. /\ step[w] = a /\ step'[w] = b /\ step' \in [Writers -> Steps]
        /\ \A v \in Writers \ {w} : step'[v] = step[v]
        /\ file[w] <= Len(Manifest)
    BY DEF Goto, TreeShape
  <1>2. \A v \in Writers : step'[v] \notin {"called", "load", "ended"} => file'[v] <= Len(Manifest)
    BY <1>1 DEF TreeShape
  <1>3. \A v \in Writers : F(v)' = F(v) /\ Inode(v)' = Inode(v) /\ Temp(v)' = Temp(v)
    BY SameFile
  <1> QED
    BY <1>1, <1>2, <1>3, Current DEF Moved

LEMMA OwnTemp ==
    ASSUME TreeInv, NEW v \in Writers, temporary_created[v], step[v] # "ended"
    PROVE  /\ Temp(v) \in Temps /\ temp[Temp(v)] = Inode(v)
           /\ Inode(v) = <<v, F(v)>> /\ Inode(v) # None
  <1>1. /\ step[v] \in {"fill", "sync", "link", "unlink", "failed", "judge"}
        /\ temp[Temp(v)] = Inode(v)
    BY DEF TreeInv, OwnsTemp
  <1>2. TreeShape /\ file[v] <= Len(Manifest)
    BY <1>1 DEF TreeInv, TreeShape
  <1>3. F(v) \in Files /\ Temp(v) \in Temps /\ Inode(v) = <<v, F(v)>>
    BY <1>2, Current
  <1> QED
    BY <1>1, <1>3, Names

LEMMA MakeDirStep ==
    ASSUME TreeInv, NEW w \in Writers, MakeDir(w) PROVE TreeInv'
  <1>0. TreeShape /\ OwnsTemp(w) /\ Placed(w) /\ Knows(w)
    BY DEF TreeInv
  <1>1. /\ Goto(w, "directory", "target")
        /\ UNCHANGED <<name, temp, disk, content, file, temporary_created, result, sound,
                       changed, failures>>
    BY DEF MakeDir
  <1>2. Moved(w, "directory", "target")
    <2>1. {"directory", "target"} \subseteq Steps \ {"called", "load", "ended"}
      BY DEF Steps, InBlob
    <2> QED
      BY <1>0, <1>1, <2>1, Moves
  <1>3. /\ made \subseteq made' /\ made' \subseteq Dirs /\ DirOf[F(w)] \in made' \cup {Root}
        /\ any_effect' \in [Writers -> BOOLEAN] /\ touched' \subseteq touched \cup {w}
        /\ \A v \in Writers \ {w} : any_effect'[v] = any_effect[v]
        /\ w \in touched' /\ file[w] = 1 => any_effect'[w]
    <2>1. made \subseteq Dirs /\ any_effect \in [Writers -> BOOLEAN] /\ DirOf[F(w)] \in Dirs \cup {Root}
      BY <1>0, <1>2, Names DEF Moved, TreeShape
    <2>2. CASE DirOf[F(w)] \in made \cup {Root}
      <3>1. UNCHANGED <<made, any_effect, touched>>
        BY <2>2 DEF MakeDir
      <3> QED
        BY <1>0, <1>2, <2>1, <2>2, <3>1 DEF Moved, Knows
    <2>3. CASE DirOf[F(w)] \notin made \cup {Root}
      <3>1. /\ made' = made \cup {DirOf[F(w)]} /\ touched' = touched \cup {w}
            /\ any_effect' = [any_effect EXCEPT ![w] = TRUE]
        BY <2>3 DEF MakeDir, Effect
      <3> QED
        BY <2>1, <2>3, <3>1
    <2> QED
      BY <2>2, <2>3
  <1>4. TreeShape'
    BY <1>0, <1>1, <1>2, <1>3 DEF Moved, TreeShape
  <1>5. Sealed'
    BY <1>1, <1>2, SealedWhenUnchanged DEF Moved, AfterLink
  <1>6. ASSUME NEW v, NEW f, NEW s PROVE Keeps(v, f, s)
    BY <1>1, <1>3 DEF Keeps, Whole
  <1>7. ASSUME NEW v \in Writers \ {w} PROVE OwnsTemp(v)' /\ Placed(v)' /\ Knows(v)'
    <2>1. Apart(v)
      BY <1>1, <1>2, <1>3, <1>6 DEF Moved, Apart
    <2> QED
      BY <2>1, Others
  <1>8. OwnsTemp(w)'
    BY <1>0, <1>1, <1>2 DEF Moved, OwnsTemp
  <1>9. Knows(w)'
    BY <1>0, <1>1, <1>2, <1>3 DEF Moved, Knows
  <1>10. Good(w, F(w), step[w])'
    BY <1>1, <1>2, <1>3, SameFile
       DEF Moved, Good, AfterLink, AfterUnlink, AfterParent, AfterRoot
  <1>11. Placed(w)'
    BY <1>1, <1>6, <1>10, StillDone
  <1> QED
    BY <1>4, <1>5, <1>7, <1>8, <1>9, <1>11 DEF TreeInv

LEMMA CreateStep ==
    ASSUME TreeInv, NEW w \in Writers, Create(w) PROVE TreeInv'
  <1>0. TreeShape /\ OwnsTemp(w) /\ Placed(w) /\ Knows(w)
    BY DEF TreeInv
  <1>1. /\ Goto(w, "create", "fill") /\ temp[Temp(w)] = None
        /\ temp' = [temp EXCEPT ![Temp(w)] = Inode(w)]
        /\ temporary_created' = [temporary_created EXCEPT ![w] = TRUE]
        /\ any_effect' = [any_effect EXCEPT ![w] = TRUE] /\ touched' = touched \cup {w}
        /\ UNCHANGED <<made, name, disk, content, file, result, sound, changed, failures>>
    BY DEF Create, Effect
  <1>2. Moved(w, "create", "fill")
    <2>1. {"create", "fill"} \subseteq Steps \ {"called", "load", "ended"}
      BY DEF Steps, InBlob
    <2> QED
      BY <1>0, <1>1, <2>1, Moves
  <1>3. /\ temp'[Temp(w)] = Inode(w)
        /\ \A t \in Temps : t # Temp(w) => temp'[t] = temp[t]
        /\ temp' \in [Temps -> {None} \cup Inodes]
        /\ temporary_created' \in [Writers -> BOOLEAN] /\ any_effect' \in [Writers -> BOOLEAN]
        /\ temporary_created'[w] /\ any_effect'[w]
        /\ \A v \in Writers \ {w} : /\ temporary_created'[v] = temporary_created[v]
                                    /\ any_effect'[v] = any_effect[v]
    BY <1>0, <1>1, <1>2 DEF Moved, TreeShape, TempMap
  <1>4. temp' \in TempMap
    <2>1. ASSUME NEW t \in Temps, NEW v \in Writers, NEW f \in Files, temp'[t] = <<v, f>>
          PROVE  t = <<DirOf[f], BlobOf[v][f]>>
      <3>1. CASE t = Temp(w)
        <4>1. v = w /\ f = F(w)
          BY <1>2, <1>3, <2>1, <3>1 DEF Moved
        <4> QED
          BY <1>2, <3>1, <4>1 DEF Moved
      <3>2. CASE t # Temp(w)
        BY <1>0, <1>3, <2>1, <3>2, TempNames
      <3> QED
        BY <3>1, <3>2
    <2> QED
      BY <1>3, <2>1 DEF TempMap
  <1>5. TreeShape'
    BY <1>0, <1>1, <1>2, <1>3, <1>4 DEF Moved, TreeShape
  <1>6. Sealed'
    BY <1>1, <1>2, SealedWhenUnchanged DEF Moved, AfterLink
  <1>7. ASSUME NEW v \in Writers, NEW f \in Files, <<v, f>> # Inode(w), NEW s PROVE Keeps(v, f, s)
    BY <1>1, <1>3, <1>7 DEF Keeps, Whole
  <1>8. ASSUME NEW v \in Writers \ {w} PROVE OwnsTemp(v)' /\ Placed(v)' /\ Knows(v)'
    <2>1. temporary_created[v] /\ step[v] # "ended" => Temp(v) \in Temps \ {Temp(w)}
      BY <1>1, OwnTemp
    <2>2. \A f \in Files : <<v, f>> # Inode(w)
      BY <1>2, <1>8 DEF Moved
    <2>3. Apart(v)
      BY <1>1, <1>2, <1>3, <1>7, <2>1, <2>2 DEF Moved, Apart
    <2> QED
      BY <2>3, Others
  <1>9. OwnsTemp(w)'
    BY <1>1, <1>2, <1>3 DEF Moved, OwnsTemp
  <1>10. Knows(w)'
    BY <1>0, <1>1, <1>2, <1>3 DEF Moved, Knows
  <1>11. Good(w, F(w), step[w])'
    BY <1>0, <1>1, <1>2
       DEF Moved, Placed, Good, AfterDirectory, InBlob, AfterLink, AfterUnlink, AfterParent, AfterRoot
  <1>12. \A f \in Before(w) : Keeps(w, f, "close")
    BY <1>2, <1>7 DEF Moved
  <1>13. Placed(w)'
    BY <1>1, <1>11, <1>12, StillDone
  <1> QED
    BY <1>5, <1>6, <1>8, <1>9, <1>10, <1>13 DEF TreeInv

\* The temporary file of w is removed, as the last step of its publication or after a failure.
LEMMA UnlinkedStep ==
    ASSUME TreeInv, NEW w \in Writers, NEW a \in {"unlink", "failed"}, NEW b \in {"read", "judge"},
           a = "failed" => b = "judge", Goto(w, a, b), Unlinked(w), temporary_created[w],
           UNCHANGED <<made, name, disk, content, file, any_effect, result, history>>
    PROVE  TreeInv'
  <1>0. TreeShape /\ OwnsTemp(w) /\ Placed(w) /\ Knows(w)
    BY DEF TreeInv
  <1>1. /\ temp' = [temp EXCEPT ![Temp(w)] = None]
        /\ temporary_created' = [temporary_created EXCEPT ![w] = FALSE]
    BY DEF Unlinked
  <1>2. Moved(w, a, b)
    <2>1. {"unlink", "failed", "read", "judge"} \subseteq Steps \ {"called", "load", "ended"}
      BY DEF Steps, InBlob
    <2> QED
      BY <1>0, <2>1, Moves
  <1>3. /\ temp'[Temp(w)] = None /\ temp[Temp(w)] = <<w, F(w)>>
        /\ \A t \in Temps : t # Temp(w) => temp'[t] = temp[t]
        /\ temp' \in [Temps -> {None} \cup Inodes]
        /\ temporary_created' \in [Writers -> BOOLEAN] /\ ~temporary_created'[w]
        /\ \A v \in Writers \ {w} : temporary_created'[v] = temporary_created[v]
    <2>1. step[w] # "ended"
      BY <1>2 DEF Moved
    <2> QED
      BY <1>0, <1>1, <1>2, <2>1, OwnTemp DEF Moved, TreeShape, TempMap
  <1>4. \A v \in Writers, f \in Files : <<v, f>> # None
    BY Names
  <1>5. temp' \in TempMap
    <2>1. ASSUME NEW t \in Temps, NEW v \in Writers, NEW f \in Files, temp'[t] = <<v, f>>
          PROVE  t = <<DirOf[f], BlobOf[v][f]>>
      <3>1. temp'[t] # None
        BY <1>4, <2>1
      <3>2. temp[t] = <<v, f>>
        BY <1>3, <2>1, <3>1
      <3> QED
        BY <1>0, <3>2, TempNames
    <2> QED
      BY <1>3, <2>1 DEF TempMap
  <1>6. TreeShape'
    BY <1>0, <1>2, <1>3, <1>5 DEF Moved, TreeShape, history
  <1>7. Sealed'
    BY <1>2, SealedWhenUnchanged DEF Moved, AfterLink, history
  <1>8. ASSUME NEW v \in Writers, NEW f \in Files, NEW s PROVE Keeps(v, f, s)
    BY <1>3, <1>4 DEF Keeps, Whole, history
  <1>9. ASSUME NEW v \in Writers \ {w} PROVE OwnsTemp(v)' /\ Placed(v)' /\ Knows(v)'
    <2>1. temporary_created[v] /\ step[v] # "ended" => Temp(v) \in Temps \ {Temp(w)}
      BY <1>3, <1>9, OwnTemp
    <2>2. Apart(v)
      BY <1>2, <1>3, <1>8, <2>1 DEF Moved, Apart, history
    <2> QED
      BY <2>2, Others
  <1>10. OwnsTemp(w)'
    BY <1>2, <1>3 DEF Moved, OwnsTemp
  <1>11. Knows(w)'
    BY <1>0, <1>2 DEF Moved, Knows, history
  <1>12. step'[w] \in AfterDirectory => Good(w, F(w), step[w])'
    <2> SUFFICES ASSUME step'[w] \in AfterDirectory PROVE Good(w, F(w), step[w])'
      OBVIOUS
    <2>1. b = "read" /\ a = "unlink" /\ step[w] = a /\ step'[w] = b
      BY <1>2 DEF Moved, AfterDirectory, InBlob
    <2>2. \A t \in Temps : temp'[t] # <<w, F(w)>>
      BY <1>0, <1>2, <1>3, <1>4, TempNames DEF Moved
    <2>3. Good(w, F(w), "unlink")
      BY <1>0, <2>1 DEF Placed, AfterDirectory, InBlob
    <2> QED
      BY <1>2, <2>1, <2>2, <2>3 DEF Moved, Good, AfterDirectory, InBlob, AfterLink, AfterUnlink,
                                    AfterParent, AfterRoot, history
  <1>13. \A f \in Before(w) : Keeps(w, f, "close")
    BY <1>2, <1>8 DEF Moved
  <1>14. Placed(w)'
    BY <1>12, <1>13, StillDone
  <1> QED
    BY <1>6, <1>7, <1>9, <1>10, <1>11, <1>14 DEF TreeInv

LEMMA UnlinkStep ==
    ASSUME TreeInv, NEW w \in Writers, Unlink(w) PROVE TreeInv'
  <1>1. temporary_created[w]
    BY DEF Unlink, Goto, TreeInv, OwnsTemp
  <1> QED
    BY <1>1, UnlinkedStep DEF Unlink

LEMMA CleanUpStep ==
    ASSUME TreeInv, NEW w \in Writers, CleanUp(w) PROVE TreeInv'
  <1>1. CASE temporary_created[w] /\ Unlinked(w)
    BY <1>1, UnlinkedStep DEF CleanUp
  <1>2. CASE UNCHANGED <<temp, temporary_created>>
    <2>0. TreeShape /\ OwnsTemp(w) /\ Placed(w) /\ Knows(w)
      BY DEF TreeInv
    <2>1. /\ step[w] = "failed" /\ step'[w] = "judge" /\ step' = [step EXCEPT ![w] = "judge"]
          /\ UNCHANGED <<tree, history, temporary_created, file, any_effect, result>>
          /\ file' = [file EXCEPT ![w] = file[w]] /\ file[w] \in Nat \ {0}
          /\ any_effect' = [any_effect EXCEPT ![w] = any_effect[w]] /\ any_effect[w] \in BOOLEAN
          /\ result' = [result EXCEPT ![w] = result[w]] /\ result[w] \in Results
          /\ file[w] <= Len(Manifest) /\ "judge" \in Steps \ {"sync", "link"}
      BY <1>2, <2>0 DEF CleanUp, Goto, tree, TreeShape, Steps
    <2>2. Temp(w)' = Temp(w) /\ Inode(w)' = Inode(w)
      BY <2>1, SameFile
    <2>3. OwnsTemp(w)' /\ Knows(w)'
      BY <2>0, <2>1, <2>2 DEF OwnsTemp, Knows, tree, history
    <2>4. Placed(w)'
      BY <2>1, QuietPlaced DEF AfterDirectory, InBlob
    <2> QED
      BY <2>1, <2>3, <2>4, QuietStep DEF AfterLink
  <1> QED
    BY <1>1, <1>2 DEF CleanUp

-----------------------------------------------------------------------------
(* The content of a file. *)

\* The writer at work on its own file changes no other.
LEMMA ContentStep ==
    ASSUME TreeInv, NEW w \in Writers, Fill(w) \/ Sync(w) PROVE TreeInv'
  <1>0. TreeShape /\ OwnsTemp(w) /\ Placed(w) /\ Knows(w) /\ Sealed
    BY DEF TreeInv
  <1>1. PICK a \in {"fill", "sync"}, b \in {"sync", "link"} :
            /\ Goto(w, a, b) /\ (a = "fill" <=> b = "sync")
            /\ a = "fill" => content' = [content EXCEPT ![Inode(w)].bytes = "whole"]
            /\ a = "sync" => content' = [content EXCEPT ![Inode(w)].synced = TRUE]
            /\ UNCHANGED <<made, name, temp, disk, locals, history>>
    <2>1. CASE Fill(w)
      BY <2>1 DEF Fill
    <2>2. CASE Sync(w)
      BY <2>2 DEF Sync
    <2> QED
      BY <2>1, <2>2
  <1>2. Moved(w, a, b)
    <2>1. {"fill", "sync", "link"} \subseteq Steps \ {"called", "load", "ended"}
      BY DEF Steps, InBlob
    <2> QED
      BY <1>0, <1>1, <2>1, Moves DEF locals
  <1>3. /\ content' \in [Inodes -> [bytes : {"partial", "whole", "other"}, synced : BOOLEAN]]
        /\ \A i \in Inodes : i # Inode(w) => content'[i] = content[i]
        /\ \A i \in Inodes : Whole(i) => Whole(i)'
        /\ \A i \in Inodes : Safe(i) => Safe(i)'
        /\ a = "fill" => Whole(Inode(w))'
        /\ a = "sync" /\ Whole(Inode(w)) => Safe(Inode(w))'
    <2> DEFINE C == [bytes : {"partial", "whole", "other"}, synced : BOOLEAN]
    <2>1. content \in [Inodes -> C] /\ Inode(w) \in Inodes /\ Inode(w)' = Inode(w)
      BY <1>0, <1>2 DEF TreeShape, Moved
    <2>2. content[Inode(w)] \in C
      BY <2>1
    <2>3. PICK c \in C :
              /\ content' = [content EXCEPT ![Inode(w)] = c]
              /\ a = "fill" => c.bytes = "whole" /\ c.synced = content[Inode(w)].synced
              /\ a = "sync" => c.synced /\ c.bytes = content[Inode(w)].bytes
      <3>1. CASE a = "fill"
        <4>1. [content[Inode(w)] EXCEPT !.bytes = "whole"] \in C
          BY <2>2
        <4> QED
          BY <1>1, <2>1, <2>2, <3>1, <4>1
      <3>2. CASE a = "sync"
        <4>1. [content[Inode(w)] EXCEPT !.synced = TRUE] \in C
          BY <2>2
        <4> QED
          BY <1>1, <2>1, <2>2, <3>2, <4>1
      <3> QED
        BY <3>1, <3>2
    <2> HIDE DEF C
    <2>4. content' \in [Inodes -> C] /\ content'[Inode(w)] = c
          /\ \A i \in Inodes : i # Inode(w) => content'[i] = content[i]
      BY <2>1, <2>3
    <2>5. a = "fill" => Whole(Inode(w))'
      BY <2>1, <2>3, <2>4 DEF Whole
    <2>6. a = "sync" /\ Whole(Inode(w)) => Safe(Inode(w))'
      BY <2>1, <2>3, <2>4 DEF Whole, Safe
    <2>7. ASSUME NEW i \in Inodes PROVE (Whole(i) => Whole(i)') /\ (Safe(i) => Safe(i)')
      <3>1. CASE i = Inode(w)
        BY <1>1, <2>1, <2>3, <2>4, <2>5, <2>6, <3>1 DEF Whole, Safe
      <3>2. CASE i # Inode(w)
        BY <2>4, <3>2 DEF Whole, Safe
      <3> QED
        BY <3>1, <3>2
    <2> QED
      BY <2>4, <2>5, <2>6, <2>7 DEF C
  <1>4. TreeShape'
    BY <1>0, <1>1, <1>2, <1>3 DEF Moved, TreeShape, locals, history
  <1>5. Sealed'
    <2>1. ASSUME NEW v \in Writers PROVE
            /\ (step[v] = "sync" /\ F(v) \notin changed => Whole(Inode(v)))'
            /\ (step[v] \in AfterLink \cup {"link"} /\ F(v) \notin changed => Safe(Inode(v)))'
      <3>1. CASE v = w
        BY <1>0, <1>1, <1>2, <1>3, <3>1 DEF Moved, Sealed, AfterLink, history
      <3>2. CASE v # w
        <4>1. step'[v] \in AfterLink \cup {"sync", "link"} => Inode(v) \in Inodes
          BY <1>0, <1>2, <3>2, Current DEF Moved, TreeShape, AfterLink
        <4> QED
          BY <1>0, <1>1, <1>2, <1>3, <3>2, <4>1 DEF Moved, Sealed, history
      <3> QED
        BY <3>1, <3>2
    <2>2. \A f \in Files \ changed' :
              /\ name'[f] \in Inodes => Safe(name[f])'
              /\ disk'.name[f] \in Inodes => Safe(disk.name[f])'
      BY <1>0, <1>1, <1>3 DEF Sealed, history
    <2> QED
      BY <2>1, <2>2 DEF Sealed
  <1>6. ASSUME NEW v \in Writers, NEW f \in Files, NEW s, <<v, f>> # Inode(w) \/ s # "confirm"
        PROVE  Keeps(v, f, s)
    BY <1>1, <1>3, <1>6, Names DEF Keeps, Whole, history
  <1>7. ASSUME NEW v \in Writers \ {w} PROVE OwnsTemp(v)' /\ Placed(v)' /\ Knows(v)'
    <2>1. \A f \in Files : <<v, f>> # Inode(w)
      BY <1>2, <1>7 DEF Moved
    <2>2. Apart(v)
      BY <1>1, <1>2, <1>6, <2>1 DEF Moved, Apart, locals, history
    <2> QED
      BY <2>2, Others
  <1>8. OwnsTemp(w)' /\ Knows(w)'
    BY <1>0, <1>1, <1>2 DEF Moved, OwnsTemp, Knows, locals, history
  <1>9. Good(w, F(w), step[w])'
    BY <1>0, <1>1, <1>2 DEF Placed, Moved, Good, AfterDirectory, InBlob, AfterLink, AfterUnlink,
                            AfterParent, AfterRoot
  <1>10. Placed(w)'
    <2>1. \A f \in Before(w) : Keeps(w, f, "close")
      BY <1>2, <1>6 DEF Moved
    <2> QED
      BY <1>1, <1>9, <2>1, StillDone DEF locals
  <1> QED
    BY <1>4, <1>5, <1>7, <1>8, <1>10 DEF TreeInv

-----------------------------------------------------------------------------
(* The name of a file, and what reaches the disk. *)

LEMMA LinkStep ==
    ASSUME TreeInv, NEW w \in Writers, Link(w) PROVE TreeInv'
  <1>0. TreeShape /\ OwnsTemp(w) /\ Placed(w) /\ Knows(w) /\ Sealed
    BY DEF TreeInv
  <1>1. /\ Goto(w, "link", "unlink") /\ name[F(w)] = None
        /\ name' = [name EXCEPT ![F(w)] = temp[Temp(w)]]
        /\ UNCHANGED <<made, temp, disk, content, locals, history>>
    BY DEF Link
  <1>2. Moved(w, "link", "unlink")
    <2>1. {"link", "unlink"} \subseteq Steps \ {"called", "load", "ended"}
      BY DEF Steps, InBlob
    <2> QED
      BY <1>0, <1>1, <2>1, Moves DEF locals
  <1>3. /\ name' \in [Files -> {None, Foreign} \cup Inodes] /\ name'[F(w)] = <<w, F(w)>>
        /\ \A f \in Files : f # F(w) => name'[f] = name[f]
    <2>1. temporary_created[w] /\ step[w] # "ended"
      BY <1>0, <1>2 DEF OwnsTemp, Moved
    <2>2. temp[Temp(w)] = <<w, F(w)>>
      BY <2>1, OwnTemp
    <2> QED
      BY <1>0, <1>1, <1>2, <2>2 DEF Moved, TreeShape, NameMap
  <1>4. name' \in NameMap
    <2>1. \A f, g \in Files, v \in Writers : name'[f] = <<v, g>> => f = g
      BY <1>0, <1>3, PathNames
    <2> QED
      BY <1>3, <2>1 DEF NameMap
  <1>5. TreeShape'
    BY <1>0, <1>1, <1>2, <1>4 DEF Moved, TreeShape, locals, history
  <1>6. Sealed'
    <2>1. ASSUME NEW v \in Writers PROVE
            /\ (step[v] = "sync" /\ F(v) \notin changed => Whole(Inode(v)))'
            /\ (step[v] \in AfterLink \cup {"link"} /\ F(v) \notin changed => Safe(Inode(v)))'
      <3>1. CASE v = w
        BY <1>0, <1>1, <1>2, <3>1 DEF Moved, Sealed, AfterLink, history, Safe, Whole
      <3>2. CASE v # w
        BY <1>0, <1>1, <1>2, <3>2 DEF Moved, Sealed, history, Safe, Whole
      <3> QED
        BY <3>1, <3>2
    <2>2. \A f \in Files \ changed' :
              /\ name'[f] \in Inodes => Safe(name[f])'
              /\ disk'.name[f] \in Inodes => Safe(disk.name[f])'
      BY <1>0, <1>1, <1>2, <1>3 DEF Moved, Sealed, history, Safe, Whole
    <2> QED
      BY <2>1, <2>2 DEF Sealed
  <1>7. ASSUME NEW v \in Writers, NEW f \in Files, NEW s PROVE Keeps(v, f, s)
    <2>1. name[f] = <<v, f>> => f # F(w)
      BY <1>1, Names
    <2>2. name[f] = <<v, f>> => name'[f] = <<v, f>>
      BY <1>3, <2>1
    <2> QED
      BY <1>1, <2>2 DEF Keeps, Whole, history
  <1>8. ASSUME NEW v \in Writers \ {w} PROVE OwnsTemp(v)' /\ Placed(v)' /\ Knows(v)'
    <2>1. Apart(v)
      BY <1>1, <1>2, <1>7, <1>8 DEF Moved, Apart, locals, history
    <2> QED
      BY <2>1, Others
  <1>9. OwnsTemp(w)' /\ Knows(w)'
    BY <1>0, <1>1, <1>2 DEF Moved, OwnsTemp, Knows, locals, history
  <1>10. Good(w, F(w), step[w])'
    BY <1>0, <1>1, <1>2, <1>3 DEF Placed, Moved, Good, AfterDirectory, InBlob, AfterLink,
                                  AfterUnlink, AfterParent, AfterRoot
  <1>11. Placed(w)'
    <2>1. \A f \in Before(w) : Keeps(w, f, "close")
      BY <1>2, <1>7 DEF Moved
    <2> QED
      BY <1>1, <1>10, <2>1, StillDone DEF locals
  <1> QED
    BY <1>5, <1>6, <1>8, <1>9, <1>11 DEF TreeInv

\* The entries of a directory reach the disk.
LEMMA SyncedStep ==
    ASSUME TreeInv, NEW w \in Writers, SyncParent(w) \/ SyncRoot(w) PROVE TreeInv'
  <1>0. TreeShape /\ OwnsTemp(w) /\ Placed(w) /\ Knows(w) /\ Sealed
    BY DEF TreeInv
  <1>1. PICK a \in {"sync parent", "sync root"}, b \in {"sync root", "open"}, d \in {DirOf[F(w)], Root} :
            /\ Goto(w, a, b) /\ (a = "sync parent" <=> b = "sync root")
            /\ a = "sync parent" => d = DirOf[F(w)]
            /\ a = "sync root" => d = Root
            /\ Synced(d)
            /\ UNCHANGED <<made, name, temp, content, locals, history>>
    BY DEF SyncParent, SyncRoot
  <1>2. Moved(w, a, b)
    <2>1. {"sync parent", "sync root", "open"} \subseteq Steps \ {"called", "load", "ended"}
      BY DEF Steps, InBlob
    <2> QED
      BY <1>0, <1>1, <2>1, Moves DEF locals
  <1> DEFINE M == IF d = Root THEN made ELSE disk.made
             N == [f \in Files |-> IF DirOf[f] = d THEN name[f] ELSE disk.name[f]]
             T == [t \in Temps |-> IF t[1] = d THEN temp[t] ELSE disk.temp[t]]
  <1>3. disk' = [made |-> M, name |-> N, temp |-> T] /\ disk'.name = N /\ disk'.temp = T
        /\ disk'.made = M
    BY <1>1 DEF Synced
  <1>4. disk.made \subseteq M /\ M \subseteq made
    BY <1>0 DEF TreeShape
  <1>5. N \in NameMap
    <2>1. name \in [Files -> {None, Foreign} \cup Inodes]
          /\ disk.name \in [Files -> {None, Foreign} \cup Inodes]
      BY <1>0 DEF TreeShape, NameMap
    <2>2. N \in [Files -> {None, Foreign} \cup Inodes]
      BY <2>1
    <2>3. \A f, g \in Files, v \in Writers : N[f] = <<v, g>> => f = g
      BY <1>0, PathNames
    <2> QED
      BY <2>2, <2>3 DEF NameMap
  <1>6. T \in TempMap
    <2>1. temp \in [Temps -> {None} \cup Inodes] /\ disk.temp \in [Temps -> {None} \cup Inodes]
      BY <1>0 DEF TreeShape, TempMap
    <2>2. T \in [Temps -> {None} \cup Inodes]
      BY <2>1
    <2>3. \A t \in Temps, v \in Writers, f \in Files :
              T[t] = <<v, f>> => t = <<DirOf[f], BlobOf[v][f]>>
      BY <1>0, TempNames
    <2> QED
      BY <2>2, <2>3 DEF TempMap
  <1>6a. \A f \in Files : N[f] = IF DirOf[f] = d THEN name[f] ELSE disk.name[f]
    OBVIOUS
  <1>6b. \A t \in Temps : T[t] = IF t[1] = d THEN temp[t] ELSE disk.temp[t]
    OBVIOUS
  <1>6c. d = Root => M = made
    OBVIOUS
  <1> HIDE DEF M, N, T
  <1>7. TreeShape'
    <2>1. disk' \in [made : SUBSET made, name : NameMap, temp : TempMap]
      BY <1>3, <1>4, <1>5, <1>6
    <2> QED
      BY <1>0, <1>1, <1>2, <2>1 DEF Moved, TreeShape, locals, history
  <1>8. Sealed'
    <2>1. ASSUME NEW v \in Writers PROVE
            /\ (step[v] = "sync" /\ F(v) \notin changed => Whole(Inode(v)))'
            /\ (step[v] \in AfterLink \cup {"link"} /\ F(v) \notin changed => Safe(Inode(v)))'
      <3>1. CASE v = w
        BY <1>0, <1>1, <1>2, <3>1 DEF Moved, Sealed, AfterLink, history, Safe, Whole
      <3>2. CASE v # w
        BY <1>0, <1>1, <1>2, <3>2 DEF Moved, Sealed, history, Safe, Whole
      <3> QED
        BY <3>1, <3>2
    <2>2. ASSUME NEW f \in Files \ changed PROVE
            /\ name[f] \in Inodes => Safe(name[f])
            /\ disk'.name[f] \in Inodes => Safe(disk'.name[f])
      <3>1. disk'.name[f] \in {name[f], disk.name[f]}
        BY <1>3, <1>6a
      <3> QED
        BY <1>0, <3>1 DEF Sealed
    <2>3. \A f \in Files \ changed' :
              /\ name'[f] \in Inodes => Safe(name[f])'
              /\ disk'.name[f] \in Inodes => Safe(disk.name[f])'
      BY <1>1, <2>2 DEF Safe, Whole, history
    <2> QED
      BY <2>1, <2>3 DEF Sealed
  <1>9. ASSUME NEW v \in Writers, NEW f \in Files, NEW s PROVE Keeps(v, f, s)
    BY <1>1, <1>3, <1>4, <1>6a, <1>6b DEF Keeps, Whole, history
  <1>10. ASSUME NEW v \in Writers \ {w} PROVE OwnsTemp(v)' /\ Placed(v)' /\ Knows(v)'
    <2>1. Apart(v)
      BY <1>1, <1>2, <1>9, <1>10 DEF Moved, Apart, locals, history
    <2> QED
      BY <2>1, Others
  <1>11. OwnsTemp(w)' /\ Knows(w)'
    BY <1>0, <1>1, <1>2 DEF Moved, OwnsTemp, Knows, locals, history
  <1>12. Good(w, F(w), step[w])'
    <2>1. Good(w, F(w), a)
      BY <1>0, <1>2 DEF Placed, Moved, AfterDirectory, InBlob
    <2>2. Keeps(w, F(w), a) /\ F(w)' = F(w) /\ step'[w] = b
      BY <1>2, <1>9 DEF Moved
    <2>3. CASE a = "sync parent"
      <3>1. \A t \in Temps : disk'.temp[t] # <<w, F(w)>>
        <4> SUFFICES ASSUME NEW t \in Temps, disk'.temp[t] = <<w, F(w)>> PROVE FALSE
          OBVIOUS
        <4>1. disk'.temp[t] = IF t[1] = d THEN temp[t] ELSE disk.temp[t]
          BY <1>3, <1>6b
        <4>2. F(w) \in Files /\ temp[t] # <<w, F(w)>>
          BY <1>2, <2>1, <2>3 DEF Moved, Good, AfterUnlink, AfterLink
        <4>3. t[1] # d /\ disk.temp[t] = <<w, F(w)>>
          BY <4>1, <4>2
        <4>4. t = <<DirOf[F(w)], BlobOf[w][F(w)]>>
          BY <1>0, <4>2, <4>3, TempNames
        <4> QED
          BY <1>1, <2>3, <4>3, <4>4
      <3>2. F(w) \notin changed => disk'.name[F(w)] = <<w, F(w)>>
        BY <1>1, <1>2, <1>3, <1>6a, <2>1, <2>3 DEF Moved, Good, AfterLink
      <3> QED
        BY <1>1, <2>1, <2>2, <2>3, <3>1, <3>2
           DEF Good, AfterDirectory, InBlob, AfterLink, AfterUnlink, AfterParent, AfterRoot, history
    <2>4. CASE a = "sync root"
      BY <1>1, <1>3, <1>6c, <2>1, <2>2, <2>4
         DEF Good, Keeps, AfterDirectory, InBlob, AfterLink, AfterUnlink, AfterParent, AfterRoot,
             history
    <2> QED
      BY <2>3, <2>4
  <1>13. Placed(w)'
    <2>1. \A f \in Before(w) : Keeps(w, f, "close")
      BY <1>2, <1>9 DEF Moved
    <2> QED
      BY <1>1, <1>12, <2>1, StillDone DEF locals
  <1> QED
    BY <1>7, <1>8, <1>10, <1>11, <1>13 DEF TreeInv

LEMMA OpenStep ==
    ASSUME TreeInv, NEW w \in Writers, Open(w) PROVE TreeInv'
  <1>0. TreeShape /\ OwnsTemp(w) /\ Placed(w) /\ Knows(w) /\ Sealed
    BY DEF TreeInv
  <1>1. /\ Goto(w, "open", "confirm") /\ sound \subseteq sound'
        /\ Whole(Inode(w)) => Inode(w) \in sound'
        /\ UNCHANGED <<tree, locals, touched, changed, failures>>
    BY DEF Open
  <1>2. Moved(w, "open", "confirm")
    <2>1. {"open", "confirm"} \subseteq Steps \ {"called", "load", "ended"}
      BY DEF Steps, InBlob
    <2> QED
      BY <1>0, <1>1, <2>1, Moves DEF locals
  <1>3. TreeShape'
    BY <1>0, <1>1, <1>2 DEF Moved, TreeShape, locals, tree
  <1>4. Sealed'
    BY <1>1, <1>2, SealedWhenUnchanged DEF Moved, AfterLink, tree, locals
  <1>5. ASSUME NEW v \in Writers, NEW f \in Files, NEW s PROVE Keeps(v, f, s)
    BY <1>1 DEF Keeps, Whole, tree
  <1>6. ASSUME NEW v \in Writers \ {w} PROVE OwnsTemp(v)' /\ Placed(v)' /\ Knows(v)'
    <2>1. Apart(v)
      BY <1>1, <1>2, <1>5, <1>6 DEF Moved, Apart, locals, tree
    <2> QED
      BY <2>1, Others
  <1>7. OwnsTemp(w)' /\ Knows(w)'
    BY <1>0, <1>1, <1>2 DEF Moved, OwnsTemp, Knows, locals, tree
  <1>8. Good(w, F(w), step[w])'
    BY <1>0, <1>1, <1>2 DEF Placed, Moved, Good, Whole, AfterDirectory, InBlob, AfterLink,
                            AfterUnlink, AfterParent, AfterRoot, tree
  <1>9. Placed(w)'
    <2>1. \A f \in Before(w) : Keeps(w, f, "close")
      BY <1>2, <1>5 DEF Moved
    <2> QED
      BY <1>1, <1>8, <2>1, StillDone DEF locals
  <1> QED
    BY <1>3, <1>4, <1>6, <1>7, <1>9 DEF TreeInv

-----------------------------------------------------------------------------
(* What the code does not control. *)

\* A path leads to no file but one written for it.
LEMMA LeadsToOwn ==
    ASSUME TreeShape, NEW f \in Files, NEW i \in Inodes, name[f] = i \/ disk.name[f] = i
    PROVE  i[2] = f
  <1>1. PICK v \in Writers, g \in Files : i = <<v, g>>
    BY DEF Inodes
  <1> QED
    BY <1>1, PathNames

\* No writer moves.
LEMMA OthersMeddle ==
    ASSUME TreeInv, TreeShape', Sealed', UNCHANGED <<step, locals, temp, touched>>,
           \A v \in Writers, f \in Files, s \in AfterDirectory : Keeps(v, f, s)
    PROVE  TreeInv'
  <1>1. ASSUME NEW v \in Writers PROVE Apart(v)
    BY DEF Apart, locals
  <1> QED
    BY <1>1, Others DEF TreeInv

LEMMA ReplaceStep ==
    ASSUME TreeInv, NEW f \in Files, Replace(f) PROVE TreeInv'
  <1>0. TreeShape /\ Sealed
    BY DEF TreeInv
  <1>1. PICK other \in {None, Foreign} :
            /\ name' = [name EXCEPT ![f] = other] /\ changed' = changed \cup {f}
            /\ UNCHANGED <<made, temp, disk, content, step, locals, touched, sound, failures>>
    BY DEF Replace
  <1>2. /\ name' \in [Files -> {None, Foreign} \cup Inodes] /\ name'[f] = other
        /\ \A g \in Files : g # f => name'[g] = name[g]
    BY <1>0, <1>1 DEF TreeShape, NameMap
  <1>3. name' \in NameMap
    <2>1. ASSUME NEW g \in Files, NEW h \in Files, NEW v \in Writers, name'[g] = <<v, h>>
          PROVE  g = h
      <3>1. g # f
        BY <1>2, <2>1, Names
      <3> QED
        BY <1>0, <1>2, <2>1, <3>1, PathNames
    <2> QED
      BY <1>2, <2>1 DEF NameMap
  <1>4. TreeShape'
    BY <1>0, <1>1, <1>3 DEF TreeShape, locals
  <1>5. Sealed'
    <2>1. \A v \in Writers : F(v)' = F(v) /\ Inode(v)' = Inode(v)
      BY <1>1, SameFile DEF locals
    <2>2. \A g \in Files \ changed' :
              /\ name'[g] \in Inodes => Safe(name[g])'
              /\ disk'.name[g] \in Inodes => Safe(disk.name[g])'
      BY <1>0, <1>1, <1>2 DEF Sealed, Safe, Whole
    <2> QED
      BY <1>0, <1>1, <2>1, <2>2 DEF Sealed, Safe, Whole
  <1>6. ASSUME NEW v \in Writers, NEW g \in Files, NEW s PROVE Keeps(v, g, s)
    BY <1>1, <1>2 DEF Keeps, Whole
  <1> QED
    BY <1>1, <1>4, <1>5, <1>6, OthersMeddle

LEMMA RewriteStep ==
    ASSUME TreeInv, NEW f \in Files, Rewrite(f) PROVE TreeInv'
  <1>0. TreeShape /\ Sealed
    BY DEF TreeInv
  <1>1. /\ name[f] \in Inodes /\ content' = [content EXCEPT ![name[f]].bytes = "other"]
        /\ changed' = changed \cup {f}
        /\ UNCHANGED <<made, name, temp, disk, step, locals, touched, sound, failures>>
    BY DEF Rewrite
  <1>2. PICK x \in Inodes : name[f] = x /\ x[2] = f
    BY <1>0, <1>1, LeadsToOwn
  <1>3. /\ content' \in [Inodes -> [bytes : {"partial", "whole", "other"}, synced : BOOLEAN]]
        /\ content'[x].bytes = "other"
        /\ \A i \in Inodes : i # x => content'[i] = content[i]
    <2> DEFINE C == [bytes : {"partial", "whole", "other"}, synced : BOOLEAN]
    <2>1. content \in [Inodes -> C] /\ content[x] \in C
      BY <1>0 DEF TreeShape
    <2>2. PICK c \in C : content' = [content EXCEPT ![x] = c] /\ c.bytes = "other"
      <3>1. [content[x] EXCEPT !.bytes = "other"] \in C
        BY <2>1
      <3> QED
        BY <1>1, <1>2, <2>1, <3>1
    <2> HIDE DEF C
    <2>3. content' \in [Inodes -> C] /\ content'[x] = c
          /\ \A i \in Inodes : i # x => content'[i] = content[i]
      BY <2>1, <2>2
    <2> QED
      BY <2>2, <2>3 DEF C
  <1>4. TreeShape'
    BY <1>0, <1>1, <1>3 DEF TreeShape, locals
  <1>5. Sealed'
    <2>1. ASSUME NEW v \in Writers PROVE
            /\ (step[v] = "sync" /\ F(v) \notin changed => Whole(Inode(v)))'
            /\ (step[v] \in AfterLink \cup {"link"} /\ F(v) \notin changed => Safe(Inode(v)))'
      <3> SUFFICES ASSUME step[v] \in AfterLink \cup {"sync", "link"}, F(v) \notin changed'
                   PROVE  content'[Inode(v)] = content[Inode(v)]
        BY <1>0, <1>1, SameFile DEF Sealed, Safe, Whole, locals
      <3>1. file[v] <= Len(Manifest)
        BY <1>0 DEF TreeShape, AfterLink
      <3>2. Inode(v) \in Inodes /\ Inode(v) = <<v, F(v)>>
        BY <1>0, <3>1, Current
      <3> QED
        BY <1>1, <1>2, <1>3, <3>2
    <2>2. \A g \in Files \ changed' :
              /\ name'[g] \in Inodes => Safe(name[g])'
              /\ disk'.name[g] \in Inodes => Safe(disk.name[g])'
      <3>1. ASSUME NEW g \in Files \ changed', NEW i \in Inodes, name[g] = i \/ disk.name[g] = i
            PROVE  Safe(i)'
        <4>1. i[2] = g /\ g # f
          BY <1>0, <1>1, <3>1, LeadsToOwn
        <4>2. content'[i] = content[i]
          BY <1>2, <1>3, <4>1
        <4> QED
          BY <1>0, <1>1, <3>1, <4>2 DEF Sealed, Safe, Whole
      <3>2. name' = name /\ disk'.name = disk.name
        BY <1>1
      <3>3. ASSUME NEW g \in Files \ changed', name[g] \in Inodes PROVE Safe(name[g])'
        BY <3>1, <3>2, <3>3 DEF Safe, Whole
      <3>4. ASSUME NEW g \in Files \ changed', disk.name[g] \in Inodes PROVE Safe(disk.name[g])'
        BY <3>1, <3>2, <3>4 DEF Safe, Whole
      <3> QED
        BY <3>2, <3>3, <3>4
    <2> QED
      BY <2>1, <2>2 DEF Sealed
  <1>6. ASSUME NEW v \in Writers, NEW g \in Files, NEW s PROVE Keeps(v, g, s)
    <2>1. content'[<<v, g>>].bytes = "whole" => Whole(<<v, g>>)
      BY <1>3, Names DEF Whole
    <2> QED
      BY <1>1, <2>1 DEF Keeps
  <1> QED
    BY <1>1, <1>4, <1>5, <1>6, OthersMeddle

LEMMA PowerFailsStep ==
    ASSUME TreeInv, PowerFails PROVE TreeInv'
  <1>0. TreeShape /\ Sealed
    BY DEF TreeInv
  <1>1. /\ made' \in SUBSET Dirs /\ name' \in NameMap /\ temp' \in TempMap
        /\ disk' = [made |-> made', name |-> name', temp |-> temp']
        /\ made \cap disk.made \subseteq made'
        /\ \A f \in Files : /\ name'[f] \in {None, name[f], disk.name[f]}
                            /\ DirOf[f] \in made' \cup {Root} => name'[f] \in {name[f], disk.name[f]}
        /\ \A t \in Temps : temp'[t] \in {None, temp[t], disk.temp[t]}
    <2>1. PICK late \in SUBSET Unsynced :
              LET dirs == {d \in Dirs : IF d \in late THEN d \in disk.made ELSE d \in made}
                  names == [f \in Files |->
                              IF DirOf[f] \notin dirs \cup {Root} THEN None
                              ELSE IF f \in late THEN disk.name[f] ELSE name[f]]
                  temps == [t \in Temps |->
                              IF t[1] \notin dirs \cup {Root} THEN None
                              ELSE IF t \in late THEN disk.temp[t] ELSE temp[t]]
              IN /\ made' = dirs /\ name' = names /\ temp' = temps
                 /\ disk' = [made |-> dirs, name |-> names, temp |-> temps]
      BY DEF PowerFails
    <2> DEFINE DD == {d \in Dirs : IF d \in late THEN d \in disk.made ELSE d \in made}
               NN == [f \in Files |-> IF DirOf[f] \notin DD \cup {Root} THEN None
                                         ELSE IF f \in late THEN disk.name[f] ELSE name[f]]
               TT == [t \in Temps |-> IF t[1] \notin DD \cup {Root} THEN None
                                         ELSE IF t \in late THEN disk.temp[t] ELSE temp[t]]
    <2>2. /\ made' = DD /\ name' = NN /\ temp' = TT
          /\ disk' = [made |-> DD, name |-> NN, temp |-> TT]
      BY <2>1
    <2>3. DD \in SUBSET Dirs /\ made \cap disk.made \subseteq DD
      BY <1>0 DEF TreeShape
    <2> HIDE DEF DD
    <2>4. \A f \in Files :
              /\ NN[f] \in {None, name[f], disk.name[f]}
              /\ DirOf[f] \in DD \cup {Root} => NN[f] \in {name[f], disk.name[f]}
      OBVIOUS
    <2>5. \A t \in Temps : TT[t] \in {None, temp[t], disk.temp[t]}
      OBVIOUS
    <2>6. NN \in NameMap
      <3>1. name \in [Files -> {None, Foreign} \cup Inodes]
            /\ disk.name \in [Files -> {None, Foreign} \cup Inodes]
        BY <1>0 DEF TreeShape, NameMap
      <3>2. NN \in [Files -> {None, Foreign} \cup Inodes]
        BY <3>1
      <3> HIDE DEF NN
      <3>3. ASSUME NEW f \in Files, NEW g \in Files, NEW v \in Writers, NN[f] = <<v, g>>
            PROVE  f = g
        <4>1. NN[f] # None
          BY <3>3, Names
        <4> QED
          BY <1>0, <2>4, <3>3, <4>1, PathNames
      <3> QED
        BY <3>2, <3>3 DEF NameMap
    <2>7. TT \in TempMap
      <3>1. temp \in [Temps -> {None} \cup Inodes] /\ disk.temp \in [Temps -> {None} \cup Inodes]
        BY <1>0 DEF TreeShape, TempMap
      <3>2. TT \in [Temps -> {None} \cup Inodes]
        BY <3>1
      <3> HIDE DEF TT
      <3>3. ASSUME NEW t \in Temps, NEW v \in Writers, NEW f \in Files, TT[t] = <<v, f>>
            PROVE  t = <<DirOf[f], BlobOf[v][f]>>
        <4>1. TT[t] # None
          BY <3>3, Names
        <4> QED
          BY <1>0, <2>5, <3>3, <4>1, TempNames
      <3> QED
        BY <3>2, <3>3 DEF TempMap
    <2> HIDE DEF NN, TT
    <2> QED
      BY <2>2, <2>3, <2>4, <2>5, <2>6, <2>7
  <1>2. /\ content' \in [Inodes -> [bytes : {"partial", "whole", "other"}, synced : BOOLEAN]]
        /\ \A i \in Inodes : content[i].synced => content'[i] = content[i]
    <2> DEFINE C == [bytes : {"partial", "whole", "other"}, synced : BOOLEAN]
    <2>1. \A i \in Inodes : content[i] \in C
      BY <1>0 DEF TreeShape
    <2>2. content' = [i \in Inodes |-> IF content[i].synced THEN content[i]
                                       ELSE [content[i] EXCEPT !.bytes = "partial"]]
      BY DEF PowerFails
    <2>3. \A i \in Inodes : [content[i] EXCEPT !.bytes = "partial"] \in C
      BY <2>1
    <2> HIDE DEF C
    <2>4. content' \in [Inodes -> C]
      BY <2>1, <2>2, <2>3
    <2> QED
      BY <2>2, <2>4 DEF C
  <1>3. /\ step' \in [Writers -> Steps] /\ result' \in [Writers -> Results]
        /\ \A v \in Writers :
              /\ step'[v] = step[v] \/ step'[v] = "ended"
              /\ step'[v] \in {"called", "ended"}
              /\ result'[v] = result[v] \/ (result'[v] = "crashed" /\ step'[v] = "ended")
              /\ step[v] = "ended" => step'[v] = "ended"
    BY <1>0 DEF PowerFails, TreeShape, Steps, Results
  <1>4. UNCHANGED <<file, any_effect, temporary_created, touched, sound, changed>>
    BY DEF PowerFails
  <1>5. TreeShape'
    <2>1. disk' \in [made : SUBSET made', name : NameMap, temp : TempMap]
      BY <1>1
    <2> QED
      BY <1>0, <1>1, <1>2, <1>3, <1>4, <2>1 DEF TreeShape
  <1>6. Sealed'
    <2>1. \A f \in Files : name'[f] \in {None, name[f], disk.name[f]} /\ disk'.name[f] = name'[f]
      BY <1>1
    <2>2. \A i \in Inodes : Safe(i) => Safe(i)'
      BY <1>2 DEF Safe, Whole
    <2>3. None \notin Inodes
      BY NamesAssumption
    <2>4. ASSUME NEW f \in Files \ changed', name'[f] \in Inodes PROVE Safe(name[f])'
      <3>1. Safe(name'[f])
        BY <1>0, <1>4, <2>1, <2>3, <2>4 DEF Sealed
      <3> QED
        BY <2>2, <2>4, <3>1 DEF Safe, Whole
    <2>5. ASSUME NEW f \in Files \ changed', disk'.name[f] \in Inodes PROVE Safe(disk.name[f])'
      BY <2>1, <2>4, <2>5 DEF Safe, Whole
    <2> QED
      BY <1>3, <2>4, <2>5 DEF Sealed, AfterLink
  <1>7. ASSUME NEW v \in Writers PROVE OwnsTemp(v)' /\ Placed(v)' /\ Knows(v)'
    <2>0. OwnsTemp(v) /\ Placed(v) /\ Knows(v)
      BY DEF TreeInv
    <2>1. OwnsTemp(v)'
      BY <1>3, <1>4, <2>0 DEF OwnsTemp
    <2>2. Knows(v)'
      BY <1>3, <1>4, <2>0 DEF Knows
    <2>3. ASSUME NEW f \in Before(v) PROVE Good(v, f, "close")'
      <3>1. Good(v, f, "close") /\ f \in Files /\ <<v, f>> # None
        BY <2>0, <2>3, BeforeIsFiles, Names DEF Placed
      <3>2. /\ DirOf[f] \in made \cup {Root} /\ DirOf[f] \in disk.made \cup {Root}
            /\ f \notin changed => name[f] = <<v, f>> /\ disk.name[f] = <<v, f>>
            /\ \A t \in Temps : temp[t] # <<v, f>> /\ disk.temp[t] # <<v, f>>
            /\ <<v, f>> \in sound
        BY <3>1 DEF Good, AfterDirectory, InBlob, AfterLink, AfterUnlink, AfterParent, AfterRoot
      <3>3. /\ DirOf[f] \in made' \cup {Root} /\ DirOf[f] \in disk'.made \cup {Root}
            /\ f \notin changed' => name'[f] = <<v, f>> /\ disk'.name[f] = <<v, f>>
            /\ \A t \in Temps : temp'[t] # <<v, f>> /\ disk'.temp[t] # <<v, f>>
            /\ <<v, f>> \in sound'
        BY <1>1, <1>4, <3>1, <3>2
      <3> QED
        BY <3>3 DEF Good
    <2>4. Placed(v)'
      BY <1>3, <1>4, <2>3, SameFile DEF Placed, AfterDirectory, InBlob
    <2> QED
      BY <2>1, <2>2, <2>4
  <1> QED
    BY <1>5, <1>6, <1>7 DEF TreeInv

-----------------------------------------------------------------------------
(* Theorems. *)

LEMMA TreeNext == TreeInv /\ [Next]_vars => TreeInv'
  <1> SUFFICES ASSUME TreeInv, [Next]_vars PROVE TreeInv'
    OBVIOUS
  <1>1. ASSUME NEW w \in Writers, Tree(w) PROVE TreeInv'
    <2>1. CASE Blob(w)
      BY <2>1, MakeDirStep, LocalSteps, CreateStep, ContentStep, LinkStep, UnlinkStep, SyncedStep,
         OpenStep DEF Blob
    <2>2. CASE ~Blob(w)
      BY <1>1, <2>2, LocalSteps, EndingSteps, CloseStep, CleanUpStep DEF Tree
    <2> QED
      BY <2>1, <2>2
  <1>2. CASE PowerFails
    BY <1>2, PowerFailsStep
  <1>3. ASSUME NEW f \in Files, Replace(f) \/ Rewrite(f) PROVE TreeInv'
    BY <1>3, ReplaceStep, RewriteStep
  <1>4. CASE UNCHANGED vars
    <2>1. UNCHANGED <<made, name, temp, disk, content, step, locals, touched, sound, changed>>
      BY <1>4 DEF vars, tree, history
    <2>2. TreeShape'
      BY <2>1 DEF TreeInv, TreeShape, locals
    <2>3. \A v \in Writers : F(v)' = F(v) /\ Inode(v)' = Inode(v)
      BY <2>1, SameFile DEF locals
    <2>4. Sealed'
      BY <2>1, <2>3 DEF TreeInv, Sealed, Safe, Whole
    <2>5. ASSUME NEW v, NEW f, NEW s PROVE Keeps(v, f, s)
      BY <2>1 DEF Keeps, Whole
    <2> QED
      BY <2>1, <2>2, <2>4, <2>5, OthersMeddle
  <1> QED
    BY <1>1, <1>2, <1>3, <1>4 DEF Next

(***************************************************************************)
(* What a writer relies on is kept by the steps of every other one, by a   *)
(* power failure and by the changes of other programs.                     *)
(***************************************************************************)
THEOREM TreeInvariant == Spec => []TreeInv
  BY TreeInit, TreeNext, PTL DEF Spec

(***************************************************************************)
(* A path never leads to a part of a file.  It is linked only when all     *)
(* bytes have been synced, so not even a power failure can take them away. *)
(***************************************************************************)
THEOREM PathsLeadToWholeFiles == Spec => []NeverPartial
  <1>1. TreeInv => NeverPartial
    BY DEF TreeInv, Sealed, Safe, NeverPartial
  <1> QED
    BY <1>1, TreeInvariant, PTL

(***************************************************************************)
(* A rejected tree had no effect: whatever a call has changed before its   *)
(* first blob is done is known to any_effect.                              *)
(***************************************************************************)
THEOREM RejectionIsHonest == Spec => []RejectedHadNoEffect
  <1>1. TreeInv => RejectedHadNoEffect
    BY DEF TreeInv, Knows, RejectedHadNoEffect
  <1> QED
    BY <1>1, TreeInvariant, PTL

(***************************************************************************)
(* A materialized tree was there and is still there, each file whole and   *)
(* under one name, whatever its other writers, and the power, have done.   *)
(***************************************************************************)
THEOREM MaterializedTreesStay == Spec => []MaterializedStays
  <1>1. ASSUME TreeInv, NEW w \in Writers, NEW f \in Files, result[w] = "materialized"
        PROVE  /\ <<w, f>> \in sound
               /\ f \notin changed => /\ name[f] = <<w, f>> /\ Whole(<<w, f>>)
                                      /\ Links(<<w, f>>) = 1
    <2>0. TreeShape /\ Sealed /\ Placed(w) /\ Knows(w)
      BY <1>1 DEF TreeInv
    <2>1. f \in Before(w)
      <3>1. PICK k \in 1 .. Len(Manifest) : f = Manifest[k]
        BY FilesOfManifest
      <3>2. file[w] \in Nat /\ file[w] > Len(Manifest)
        BY <1>1, <2>0 DEF Knows, TreeShape
      <3>3. k < file[w]
        BY <3>1, <3>2, FilesOfManifest
      <3> QED
        BY <3>1, <3>3 DEF Before
    <2>2. Good(w, f, "close")
      BY <2>0, <2>1 DEF Placed
    <2>3. /\ <<w, f>> \in sound
          /\ f \notin changed => name[f] = <<w, f>>
          /\ \A t \in Temps : temp[t] # <<w, f>>
      BY <2>2 DEF Good, AfterLink, AfterUnlink
    <2>4. ASSUME f \notin changed PROVE Whole(<<w, f>>) /\ Links(<<w, f>>) = 1
      <3>1. Whole(<<w, f>>)
        BY <2>0, <2>3, <2>4, Names DEF Sealed, Safe
      <3>2. {g \in Files : name[g] = <<w, f>>} = {f}
        BY <2>0, <2>3, <2>4, PathNames
      <3>3. {t \in Temps : temp[t] = <<w, f>>} = {}
        BY <2>3
      <3>4. Links(<<w, f>>) = Cardinality({f}) + Cardinality({})
        BY <3>2, <3>3 DEF Links
      <3> QED
        BY <3>1, <3>4, FS_Singleton, FS_EmptySet
    <2> QED
      BY <2>3, <2>4
  <1>2. TreeInv => MaterializedStays
    BY <1>1 DEF MaterializedStays
  <1> QED
    BY <1>2, TreeInvariant, PTL

(***************************************************************************)
(* No step of a writer replaces what has a name, nor removes a temporary   *)
(* file that is not its own.                                               *)
(***************************************************************************)
THEOREM WritersReplaceNothing == Spec => NothingReplaced
  <1> DEFINE Spares ==
        /\ \A f \in Files : name[f] # None => name'[f] = name[f]
        /\ \A t \in Temps : temp[t] # temp'[t] /\ temp[t] # None =>
              /\ temp'[t] = None
              /\ step'[temp[t][1]] # step[temp[t][1]]
  <1>1. ASSUME TreeInv, [Next]_vars, step' # step, UNCHANGED failures PROVE Spares
    <2>1. PICK w \in Writers : Tree(w)
      BY <1>1 DEF Next, PowerFails, Replace, Rewrite, vars
    <2>2. TreeShape /\ OwnsTemp(w)
      BY <1>1 DEF TreeInv
    <2>3. CASE UNCHANGED <<name, temp>>
      BY <2>3
    <2>4. CASE Link(w)
      BY <2>2, <2>4 DEF Link, TreeShape, NameMap
    <2>5. CASE Create(w)
      BY <2>2, <2>5 DEF Create, TreeShape, TempMap
    <2>6. CASE Unlinked(w) /\ temporary_created[w] /\ step[w] \in {"unlink", "failed"}
                           /\ step'[w] # step[w] /\ UNCHANGED name
      <3>1. temp[Temp(w)] = <<w, F(w)>>
        BY <1>1, <2>6, OwnTemp
      <3>2. /\ temp'[Temp(w)] = None \/ Temp(w) \notin Temps
            /\ \A t \in Temps : t # Temp(w) => temp'[t] = temp[t]
        BY <2>2, <2>6 DEF Unlinked, TreeShape, TempMap
      <3>3. ASSUME NEW t \in Temps, temp[t] # temp'[t] PROVE temp'[t] = None /\ temp[t][1] = w
        BY <3>1, <3>2, <3>3
      <3> QED
        BY <2>6, <3>3
    <2>7. CASE Unlink(w) \/ CleanUp(w)
      <3>1. step[w] \in {"unlink", "failed"} /\ step'[w] # step[w] /\ UNCHANGED name
        BY <2>2, <2>7 DEF Unlink, CleanUp, Goto, TreeShape
      <3>2. Unlink(w) => temporary_created[w]
        BY <2>2 DEF Unlink, Goto, OwnsTemp
      <3> QED
        BY <2>3, <2>6, <2>7, <3>1, <3>2 DEF Unlink, CleanUp
    <2>8. \/ Link(w) \/ Create(w) \/ Unlink(w) \/ CleanUp(w) \/ UNCHANGED <<name, temp>>
      BY <2>1 DEF Tree, Blob, MakeDir, CheckTarget, Fill, Sync, Reread, SyncParent, SyncRoot, Open,
                  Confirm, Fail, End, Rejected, Judge, CloseFails, Enter, Refuse, Load, Close,
                  Finish, LeaveFails, Crash, tree
    <2> QED
      BY <2>3, <2>4, <2>5, <2>7, <2>8
  <1>2. TreeInv /\ [Next]_vars => [step' # step /\ UNCHANGED failures => Spares]_vars
    BY <1>1
  <1> QED
    BY <1>2, TreeInvariant, PTL DEF Spec, NothingReplaced
=============================================================================
