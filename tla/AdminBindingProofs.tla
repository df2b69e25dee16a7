-------------------------- MODULE AdminBindingProofs --------------------------
(***************************************************************************)
(* Theorems about AdminBinding, for any entries, any paths and any number  *)
(* of changes by other programs.                                           *)
(***************************************************************************)
EXTENDS AdminBinding, TLAPS

(***************************************************************************)
(* No version and no inode is handed out before its change.                *)
(***************************************************************************)
Dated ==
    /\ marker.version <= changes
    /\ \A e \in Entries : backlink[e].version <= changes /\ entry[e] <= changes + 1
    /\ seen.marker.version <= changes
    /\ seen.backlink.version <= changes
    /\ seen.inode <= changes + 1

(***************************************************************************)
(* What the call has found out at each of its steps.                       *)
(***************************************************************************)
AfterMarker == {"marked", "opened", "entered", "linked", "placed", "linked again"}
AfterEntry == AfterMarker \ {"marked"}
AfterTarget == AfterEntry \ {"opened"}
AfterBacklink == AfterTarget \ {"entered"}

Found ==
    /\ step \in AfterMarker => seen.marker.to \in Entries
    /\ step \in AfterEntry => seen.inode # 0
    /\ step \in AfterTarget => seen.marker.home
    /\ step \in AfterBacklink => seen.backlink.to \in Paths

SameMarker == marker = seen.marker
SameLink == /\ entry[seen.marker.to] = seen.inode
            /\ backlink[seen.marker.to] = seen.backlink

(***************************************************************************)
(* Once the path has been opened: if what was read before is still there,  *)
(* it was there when the path was opened, and everything agreed then.      *)
(***************************************************************************)
Witnessed ==
    /\ Agreement => agreed
    /\ step = "placed" /\ SameMarker /\ SameLink => agreed
    /\ step = "linked again" /\ SameMarker => agreed
    /\ step = "bound" => agreed

BindingIInv == TypeOK /\ Dated /\ Found /\ Witnessed

-----------------------------------------------------------------------------
LEMMA BindingInit == Init => BindingIInv
<1> SUFFICES ASSUME Init PROVE BindingIInv
  OBVIOUS
<1>1. TypeOK
  BY ChangeAssumption DEF Init, TypeOK, Markers, Backlinks, Unread, Steps, Agreement
<1>2. Dated
  BY ChangeAssumption DEF Init, Dated, Unread
<1>3. Found /\ Witnessed
  BY DEF Init, Found, Witnessed, AfterMarker, AfterEntry, AfterTarget, AfterBacklink
<1> QED BY <1>1, <1>2, <1>3 DEF BindingIInv

(***************************************************************************)
(* A change keeps the invariant: what it writes is new.                    *)
(***************************************************************************)
LEMMA OthersInv ==
  ASSUME BindingIInv, Others
  PROVE  BindingIInv'
<1> USE ChangeAssumption DEF BindingIInv
<1>0. /\ changes' = changes + 1 /\ changes < MaxChanges /\ changes \in Nat
      /\ UNCHANGED <<step, seen>> /\ agreed' = (agreed \/ Agreement')
  BY DEF Others, WriteMarker, RemoveEntry, AddEntry, WriteBacklink, MovePath, Changing, TypeOK
<1>1. CASE \E e \in Entries \cup {None}, home \in BOOLEAN : WriteMarker(e, home)
  <2>1. PICK e \in Entries \cup {None}, home \in BOOLEAN : WriteMarker(e, home)
    BY <1>1
  <2>2. TypeOK'
    BY <1>0, <2>1 DEF WriteMarker, TypeOK, Markers, Agreement
  <2>3. Dated'
    BY <1>0, <2>1 DEF WriteMarker, TypeOK, Markers, Backlinks, Dated
  <2>4. Found'
    BY <1>0 DEF Found
  <2>5. ~SameMarker'
    BY <1>0, <2>1 DEF WriteMarker, Dated, SameMarker
  <2> QED BY <1>0, <2>2, <2>3, <2>4, <2>5 DEF Witnessed
<1>2. CASE \E e \in Entries : RemoveEntry(e)
  <2>1. PICK e \in Entries : RemoveEntry(e)
    BY <1>2
  <2>2. TypeOK'
    BY <1>0, <2>1 DEF RemoveEntry, TypeOK, Agreement
  <2>3. Dated'
    BY <1>0, <2>1 DEF RemoveEntry, TypeOK, Markers, Backlinks, Dated
  <2>4. Found'
    BY <1>0 DEF Found
  <2>5. SameLink' /\ step = "placed" => SameLink
    BY <1>0, <2>1 DEF RemoveEntry, TypeOK, SameLink, Found, AfterMarker, AfterEntry
  <2>6. SameMarker' <=> SameMarker
    BY <1>0, <2>1 DEF RemoveEntry, SameMarker
  <2> QED BY <1>0, <2>2, <2>3, <2>4, <2>5, <2>6 DEF Witnessed
<1>3. CASE \E e \in Entries, p \in Paths : AddEntry(e, p)
  <2>1. PICK e \in Entries, p \in Paths : AddEntry(e, p)
    BY <1>3
  <2>2. TypeOK'
    BY <1>0, <2>1 DEF AddEntry, TypeOK, Backlinks, Agreement
  <2>3. Dated'
    BY <1>0, <2>1 DEF AddEntry, TypeOK, Markers, Backlinks, Dated
  <2>4. Found'
    BY <1>0 DEF Found
  <2>5. SameLink' /\ step = "placed" => SameLink
    BY <1>0, <2>1 DEF AddEntry, TypeOK, SameLink, Dated, Found, AfterMarker
  <2>6. SameMarker' <=> SameMarker
    BY <1>0, <2>1 DEF AddEntry, SameMarker
  <2> QED BY <1>0, <2>2, <2>3, <2>4, <2>5, <2>6 DEF Witnessed
<1>4. CASE \E e \in Entries, p \in Paths : WriteBacklink(e, p)
  <2>1. PICK e \in Entries, p \in Paths : WriteBacklink(e, p)
    BY <1>4
  <2>2. TypeOK'
    BY <1>0, <2>1 DEF WriteBacklink, TypeOK, Backlinks, Agreement
  <2>3. Dated'
    BY <1>0, <2>1 DEF WriteBacklink, TypeOK, Markers, Backlinks, Dated
  <2>4. Found'
    BY <1>0 DEF Found
  <2>5. SameLink' /\ step = "placed" => SameLink
    BY <1>0, <2>1 DEF WriteBacklink, TypeOK, Backlinks, SameLink, Dated, Found, AfterMarker
  <2>6. SameMarker' <=> SameMarker
    BY <1>0, <2>1 DEF WriteBacklink, SameMarker
  <2> QED BY <1>0, <2>2, <2>3, <2>4, <2>5, <2>6 DEF Witnessed
<1>5. CASE \E p \in Paths : MovePath(p)
  <2>1. PICK p \in Paths : MovePath(p)
    BY <1>5
  <2>2. TypeOK'
    BY <1>0, <2>1 DEF MovePath, TypeOK, Agreement
  <2>3. Dated'
    BY <1>0, <2>1 DEF MovePath, TypeOK, Markers, Backlinks, Dated
  <2>4. Found'
    BY <1>0 DEF Found
  <2>5. (SameLink' <=> SameLink) /\ (SameMarker' <=> SameMarker)
    BY <1>0, <2>1 DEF MovePath, SameLink, SameMarker
  <2> QED BY <1>0, <2>2, <2>3, <2>4, <2>5 DEF Witnessed
<1> QED BY <1>1, <1>2, <1>3, <1>4, <1>5 DEF Others

(***************************************************************************)
(* A step of the call changes nothing of the world.                        *)
(***************************************************************************)
LEMMA BindInv ==
  ASSUME BindingIInv, Bind
  PROVE  BindingIInv'
<1> USE DEF BindingIInv, world, AfterMarker, AfterEntry, AfterTarget, AfterBacklink
<1>a. UNCHANGED <<marker, entry, backlink, place, changes, agreed>>
  BY DEF Bind, ReadMarker, OpenEntry, OpenTarget, ReadBacklink, OpenParent, RereadBacklink,
         RereadMarker, Refuse
<1>0. /\ UNCHANGED <<marker, entry, backlink, place, changes, agreed>>
      /\ Agreement' <=> Agreement
      /\ agreed' <=> agreed
  <2>1. Agreement' <=> Agreement
    BY <1>a DEF Agreement
  <2>2. agreed' <=> agreed
    BY <1>a, Zenon
  <2> QED BY <1>a, <2>1, <2>2
<1>1. CASE ReadMarker
  BY <1>0, <1>1 DEF ReadMarker, TypeOK, Steps, Markers, Dated, Found, Witnessed
<1>2. CASE OpenEntry
  BY <1>0, <1>2 DEF OpenEntry, TypeOK, Steps, Dated, Found, Witnessed
<1>3. CASE OpenTarget
  BY <1>0, <1>3 DEF OpenTarget, TypeOK, Steps, Dated, Found, Witnessed
<1>4. CASE ReadBacklink
  BY <1>0, <1>4 DEF ReadBacklink, TypeOK, Steps, Backlinks, Dated, Found, Witnessed
<1>5. CASE OpenParent
  <2>1. SameMarker /\ SameLink => Agreement
    BY <1>5 DEF OpenParent, Found, SameMarker, SameLink, Agreement
  <2>2. (SameMarker' <=> SameMarker) /\ (SameLink' <=> SameLink)
    BY <1>0, <1>5 DEF OpenParent, SameMarker, SameLink
  <2> QED BY <1>0, <1>5, <2>1, <2>2 DEF OpenParent, TypeOK, Steps, Dated, Found, Witnessed
<1>6. CASE RereadBacklink
  <2>1. SameLink /\ (SameMarker' <=> SameMarker)
    BY <1>0, <1>6 DEF RereadBacklink, SameLink, SameMarker
  <2>2. TypeOK' /\ Dated' /\ Found'
    <3>1. TypeOK'
      BY <1>0, <1>6 DEF RereadBacklink, TypeOK, Steps
    <3>2. Dated'
      BY <1>0, <1>6 DEF RereadBacklink, Dated
    <3>3. Found'
      BY <1>0, <1>6 DEF RereadBacklink, Found
    <3> QED BY <3>1, <3>2, <3>3
  <2>3. Witnessed'
    BY <1>0, <1>6, <2>1 DEF RereadBacklink, Witnessed
  <2> QED BY <2>2, <2>3
<1>7. CASE RereadMarker
  <2>1. TypeOK' /\ Dated' /\ Found'
    <3>1. TypeOK'
      BY <1>0, <1>7 DEF RereadMarker, TypeOK, Steps
    <3>2. Dated'
      BY <1>0, <1>7 DEF RereadMarker, Dated
    <3>3. Found'
      BY <1>0, <1>7 DEF RereadMarker, Found
    <3> QED BY <3>1, <3>2, <3>3
  <2>2. Witnessed'
    BY <1>0, <1>7 DEF RereadMarker, Witnessed, SameMarker
  <2> QED BY <2>1, <2>2
<1>8. CASE Refuse
  <2>1. TypeOK' /\ Dated' /\ Found'
    <3>1. TypeOK'
      BY <1>0, <1>8 DEF Refuse, TypeOK, Steps
    <3>2. Dated'
      BY <1>0, <1>8 DEF Refuse, Dated
    <3>3. Found'
      BY <1>0, <1>8 DEF Refuse, Found
    <3> QED BY <3>1, <3>2, <3>3
  <2>2. Witnessed'
    BY <1>0, <1>8 DEF Refuse, Witnessed
  <2> QED BY <2>1, <2>2
<1> QED BY <1>1, <1>2, <1>3, <1>4, <1>5, <1>6, <1>7, <1>8 DEF Bind

LEMMA BindingStutter ==
  ASSUME BindingIInv, UNCHANGED vars
  PROVE  BindingIInv'
BY DEF vars, world, BindingIInv, TypeOK, Dated, Found, Witnessed, Agreement, SameMarker, SameLink

LEMMA BindingInvariant == Spec => []BindingIInv
<1>1. BindingIInv /\ [Next]_vars => BindingIInv'
  BY OthersInv, BindInv, BindingStutter DEF Next
<1> QED BY BindingInit, <1>1, PTL DEF Spec

(***************************************************************************)
(* The variables keep their types, and no version is used up: the bound on *)
(* the changes is the only one.                                            *)
(***************************************************************************)
THEOREM BindingTypeCorrect == Spec => []TypeOK
<1>1. BindingIInv => TypeOK
  BY DEF BindingIInv
<1> QED BY BindingInvariant, <1>1, PTL

(***************************************************************************)
(* A binding that is returned was true at one instant of the call, however *)
(* many changes other programs make and in whatever order they meet the    *)
(* readings of verify_worktree_admin_binding.                              *)
(***************************************************************************)
THEOREM BindingTrueOnce == Spec => []BindingWasTrue
<1>1. BindingIInv => BindingWasTrue
  BY DEF BindingIInv, Witnessed, BindingWasTrue
<1> QED BY BindingInvariant, <1>1, PTL
=============================================================================
