------------------------ MODULE TextReplacementProofs ------------------------
(***************************************************************************)
(* Theorems about TextReplacement, for any number of callers, files,       *)
(* contents, writes of other programs and power failures.                  *)
(***************************************************************************)
EXTENDS TextReplacement, FiniteSetTheorems, TLAPS

-----------------------------------------------------------------------------
(* What is true of a caller and its container by themselves. *)

\* The container has a replacement to make.
Chosen(c) ==
    At(c, "starting") \/ box[c].client \/ box[c].at # "none" =>
        \E r \in Replacements : caller[c].replaces = {r}

Untouched(c) == box[c].at = "none" /\ ~box[c].client

\* The temporary file is there only while the script works on it, unless the
\* script was killed or its trap failed.
TempKept(c) ==
    /\ box[c].at \in {"none", "check", "temp"} => box[c].temp = "none"
    /\ box[c].at = "exited" /\ ~box[c].noisy /\ box[c].code # 137 => box[c].temp = "none"
    /\ box[c].at = "move" => box[c].synced

\* What an outcome says of the exit it was given for.
OutcomeMeans(c) ==
    LET outcome == caller[c].outcome IN
    /\ outcome # "none" => At(c, "over")
    /\ caller[c].at \in {"idle", "asking", "starting"} \/ outcome = "refused" => Untouched(c)
    /\ outcome = "rejected" => box[c].at = "exited" /\ box[c].code \in {1, 51} /\ ~box[c].noisy
    /\ outcome = "applied" => box[c].at = "exited" /\ box[c].code = 0 /\ ~box[c].noisy

\* The script has not renamed anything, or has ended as it does only before that.
Unmoved(c) ==
    \/ box[c].at \in {"none", "check", "temp", "fill", "hash", "sync", "move"}
    \/ box[c].at = "exited" /\ box[c].code \in {1, 51} /\ ~box[c].noisy

Clean(c) == Unmoved(c) => \A w \in written : w.by # c

LocalOf(c) == Chosen(c) /\ TempKept(c) /\ OutcomeMeans(c)

Local == \A c \in Callers : LocalOf(c) /\ Clean(c)

\* A step of one caller.
OthersAside(c) ==
    /\ \A d \in Callers \ {c} : caller'[d] = caller[d] /\ box'[d] = box[d]
    /\ \A w \in written' : w \in written \/ w.by = c

LEMMA LocalAside ==
  ASSUME Local, NEW c \in Callers, OthersAside(c), LocalOf(c)', Clean(c)'
  PROVE  Local'
<1>1. \A d \in Callers \ {c} : LocalOf(d)'
  BY DEF Local, OthersAside, LocalOf, Chosen, Untouched, TempKept, OutcomeMeans, At
<1>2. \A d \in Callers \ {c} : Clean(d)'
  BY DEF Local, OthersAside, Clean, Unmoved
<1> QED BY <1>1, <1>2 DEF Local

LEMMA LocalInit == Init => Local
BY DEF Init, NoBox, Local, Clean, LocalOf, Chosen, Untouched, TempKept, OutcomeMeans, At

(***************************************************************************)
(* The steps of a pipeline that touch no container but its own client.     *)
(***************************************************************************)
Places(c, place, outcome, client) ==
    /\ OthersAside(c) /\ written' = written
    /\ caller'[c].at = place /\ caller'[c].outcome = outcome
    /\ caller'[c].replaces = caller[c].replaces
    /\ box'[c].client = client
    /\ box'[c].at = box[c].at /\ box'[c].temp = box[c].temp /\ box'[c].synced = box[c].synced
    /\ box'[c].code = box[c].code /\ box'[c].noisy = box[c].noisy

LEMMA CleanPlaces ==
  ASSUME Local, NEW c \in Callers, NEW place, NEW outcome, NEW client,
         Places(c, place, outcome, client)
  PROVE  Clean(c)'
BY DEF Local, Places, Clean, Unmoved

LEMMA LocalCall ==
  ASSUME TypeOK, Local, NEW c \in Callers,
         Ask(c) \/ Refuse(c) \/ StartClient(c) \/ FailEarly(c) \/ Answer(c) \/ LoseClient(c)
         \/ Raise(c) \/ RemovalFails(c) \/ Crash(c)
  PROVE  Local'
<1> USE DEF At
<1>0. LocalOf(c)
  BY DEF Local
<1>1. CASE Ask(c)
  <2>a. \E q : caller' = [caller EXCEPT ![c].at = "asking", ![c].request = q]
    BY <1>1 DEF Ask
  <2>b. PICK q : caller' = [caller EXCEPT ![c].at = "asking", ![c].request = q]
    BY <2>a
  <2>c. box' = box /\ written' = written
    BY <1>1 DEF Ask
  <2>1. Places(c, "asking", caller[c].outcome, box[c].client)
    BY <2>b, <2>c DEF Places, OthersAside, TypeOK, Callings, Boxes
  <2>2. LocalOf(c)'
    BY <1>0, <1>1, <2>1 DEF Ask, Places, LocalOf, Chosen, Untouched, TempKept, OutcomeMeans
  <2> QED BY <2>1, <2>2, LocalAside, CleanPlaces DEF Places
<1>2. CASE Refuse(c)
  <2>1. Places(c, "over", "refused", box[c].client)
    BY <1>2 DEF Refuse, End, Places, OthersAside, TypeOK, Callings, Boxes
  <2>2. LocalOf(c)'
    BY <1>0, <1>2, <2>1 DEF Refuse, Places, LocalOf, Chosen, Untouched, TempKept, OutcomeMeans
  <2> QED BY <2>1, <2>2, LocalAside, CleanPlaces DEF Places
<1>3. CASE StartClient(c)
  <2>1. Places(c, "running", caller[c].outcome, TRUE)
    BY <1>3 DEF StartClient, Places, OthersAside, TypeOK, Callings, Boxes
  <2>2. LocalOf(c)'
    BY <1>0, <1>3, <2>1 DEF StartClient, Places, LocalOf, Chosen, Untouched, TempKept, OutcomeMeans
  <2> QED BY <2>1, <2>2, LocalAside, CleanPlaces DEF Places
<1>4. CASE FailEarly(c)
  <2>1. Places(c, "over", "indeterminate", box[c].client)
    BY <1>4 DEF FailEarly, End, Places, OthersAside, TypeOK, Callings, Boxes
  <2>2. LocalOf(c)'
    BY <1>0, <1>4, <2>1 DEF FailEarly, Places, LocalOf, Chosen, Untouched, TempKept, OutcomeMeans
  <2> QED BY <2>1, <2>2, LocalAside, CleanPlaces DEF Places
<1>5. CASE LoseClient(c)
  <2>1. Places(c, "over", "indeterminate", FALSE)
    BY <1>5 DEF LoseClient, End, Places, OthersAside, TypeOK, Callings, Boxes
  <2>2. LocalOf(c)'
    BY <1>0, <1>5, <2>1 DEF LoseClient, Places, LocalOf, Chosen, Untouched, TempKept, OutcomeMeans
  <2> QED BY <2>1, <2>2, LocalAside, CleanPlaces DEF Places
<1>6. CASE Raise(c)
  <2>1. Places(c, "cleaning", caller[c].outcome, FALSE)
    BY <1>6 DEF Raise, Places, OthersAside, TypeOK, Callings, Boxes
  <2>2. LocalOf(c)'
    BY <1>0, <1>6, <2>1 DEF Raise, Places, LocalOf, Chosen, Untouched, TempKept, OutcomeMeans
  <2> QED BY <2>1, <2>2, LocalAside, CleanPlaces DEF Places
<1>7. CASE RemovalFails(c)
  <2>1. Places(c, "over", "indeterminate", box[c].client)
    BY <1>7 DEF RemovalFails, End, Places, OthersAside, TypeOK, Callings, Boxes
  <2>2. LocalOf(c)'
    BY <1>0, <1>7, <2>1 DEF RemovalFails, Places, LocalOf, Chosen, Untouched, TempKept, OutcomeMeans
  <2> QED BY <2>1, <2>2, LocalAside, CleanPlaces DEF Places
<1>8. CASE Crash(c)
  <2>1. Places(c, "dead", caller[c].outcome, box[c].client)
    BY <1>8 DEF Crash, Places, OthersAside, TypeOK, Callings, Boxes
  <2>2. LocalOf(c)'
    BY <1>0, <1>8, <2>1 DEF Crash, Places, LocalOf, Chosen, Untouched, TempKept, OutcomeMeans
  <2> QED BY <2>1, <2>2, LocalAside, CleanPlaces DEF Places
<1>9. CASE Answer(c)
  <2>1. PICK outcome \in {Classify(box[c].code, box[c].noisy), "indeterminate"} : End(c, outcome)
    BY <1>9 DEF Answer
  <2>2. Places(c, "over", outcome, FALSE)
    BY <1>9, <2>1 DEF Answer, End, Places, OthersAside, TypeOK, Callings, Boxes
  <2>3. LocalOf(c)'
    BY <1>0, <1>9, <2>2 DEF Answer, Classify, Places, LocalOf, Chosen, Untouched, TempKept,
                           OutcomeMeans
  <2> QED BY <2>2, <2>3, LocalAside, CleanPlaces DEF Places
<1> QED BY <1>1, <1>2, <1>3, <1>4, <1>5, <1>6, <1>7, <1>8, <1>9

LEMMA LocalPropose ==
  ASSUME TypeOK, Local, NEW c \in Callers, NEW reply \in Replies, Propose(c, reply)
  PROVE  Local'
<1>0. LocalOf(c)
  BY DEF Local
<1>1. \E r \in Replacements : reply.replaces = {r}
  <2>1. reply.replaces \in SUBSET Replacements /\ IsFiniteSet(reply.replaces)
    BY DEF Replies
  <2>2. Cardinality(reply.replaces) = 1
    BY DEF Propose, Single
  <2>3. PICK r : reply.replaces = {r}
    BY <2>1, <2>2, FS_Singleton
  <2> QED BY <2>1, <2>3
<1>2. /\ OthersAside(c) /\ box' = box
      /\ caller'[c].at = "starting" /\ caller'[c].replaces = reply.replaces
      /\ caller'[c].outcome = caller[c].outcome /\ At(c, "asking")
  BY DEF Propose, OthersAside, TypeOK, Callings, At
<1>3. LocalOf(c)'
  BY <1>0, <1>1, <1>2 DEF LocalOf, Chosen, Untouched, TempKept, OutcomeMeans, At
<1>4. Clean(c)'
  <2>1. written' = written
    BY DEF Propose
  <2> QED BY <1>2, <2>1 DEF Local, Clean, Unmoved
<1> QED BY <1>2, <1>3, <1>4, LocalAside

(***************************************************************************)
(* The steps of a container, which leave the pipeline where it is.         *)
(***************************************************************************)
Works(c, place, temp, synced) ==
    /\ OthersAside(c) /\ caller' = caller
    /\ written' = written \/ place = "look"
    /\ box'[c].at = place /\ box'[c].client = box[c].client
    /\ box'[c].temp = temp /\ box'[c].synced = synced

Ends(c, codes) ==
    /\ OthersAside(c) /\ caller' = caller /\ written' = written
    /\ box'[c].at = "exited" /\ box'[c].client = box[c].client
    /\ box'[c].code \in codes
    /\ ~box'[c].noisy => box'[c].temp = "none"

LEMMA ExitsEnds ==
  ASSUME TypeOK, NEW c \in Callers, NEW code \in {0, 1, 51, 52}, NEW noisy \in BOOLEAN,
         Exits(c, code, noisy), caller' = caller, written' = written
  PROVE  Ends(c, {code}) /\ (noisy => box'[c].noisy)
<1>1. PICK removed \in BOOLEAN :
        /\ box[c].temp = "none" => removed
        /\ box' = [box EXCEPT ![c].at = "exited", ![c].code = code,
                              ![c].temp = IF removed THEN "none" ELSE @,
                              ![c].noisy = noisy \/ ~removed]
  BY DEF Exits
<1> QED BY <1>1 DEF Ends, OthersAside, TypeOK, Boxes

LEMMA LocalWorks ==
  ASSUME TypeOK, Local, NEW c \in Callers, Live(c), NEW place, NEW temp, NEW synced,
         Works(c, place, temp, synced),
         place # "none", place # "exited",
         place \in {"check", "temp"} => temp = "none",
         place = "move" => synced,
         place \in {"look", "flush", "print"} \/ Unmoved(c)
  PROVE  Local'
<1>1. LocalOf(c)'
  BY DEF Local, LocalOf, Live, ScriptSteps, Works, Chosen, Untouched, TempKept, OutcomeMeans, At
<1>2. Clean(c)'
  BY DEF Local, Works, Clean, Unmoved
<1> QED BY <1>1, <1>2, LocalAside DEF Works

LEMMA LocalEnds ==
  ASSUME TypeOK, Local, NEW c \in Callers, Live(c), NEW codes, Ends(c, codes),
         box'[c].noisy \/ codes \cap {1, 51} = {} \/ Unmoved(c)
  PROVE  Local'
<1>1. LocalOf(c)'
  BY DEF Local, LocalOf, Live, ScriptSteps, Ends, Chosen, Untouched, TempKept, OutcomeMeans, At
<1>2. Clean(c)'
  BY DEF Local, Ends, Clean, Unmoved
<1> QED BY <1>1, <1>2, LocalAside DEF Ends

\* A place the script goes on to.
LEMMA LocalGoes ==
  ASSUME TypeOK, Local, NEW c \in Callers, Live(c), NEW place, Goes(c, place),
         caller' = caller, written' = written,
         place \in {"hash", "sync", "flush", "print"},
         place \in {"flush", "print"} \/ Unmoved(c)
  PROVE  Local'
<1>1. Works(c, place, box[c].temp, box[c].synced)
  BY DEF Goes, Works, OthersAside, TypeOK, Boxes
<1> QED BY <1>1, LocalWorks

\* A failing command says so, a failing test only before the rename.
LEMMA LocalFails ==
  ASSUME TypeOK, Local, NEW c \in Callers, Live(c), NEW code \in {0, 1, 51, 52},
         \/ CommandFails(c, code)
         \/ TestFails(c, code) /\ (code \in {0, 52} \/ Unmoved(c)),
         caller' = caller, written' = written
  PROVE  Local'
<1>1. CASE CommandFails(c, code)
  <2>1. Ends(c, {code}) /\ box'[c].noisy
    BY ZenonT(60), <1>1, ExitsEnds DEF CommandFails
  <2> QED BY <2>1, LocalEnds
<1>2. CASE TestFails(c, code) /\ (code \in {0, 52} \/ Unmoved(c))
  <2>1. Ends(c, {code})
    BY ZenonT(60), <1>2, ExitsEnds DEF TestFails
  <2> QED BY <1>2, <2>1, LocalEnds
<1> QED BY <1>1, <1>2

LEMMA LocalScript ==
  ASSUME TypeOK, Local, NEW c \in Callers, Script(c)
  PROVE  Local'
<1>1. Live(c)
  BY DEF Script, CheckTarget, MakeTemp, Fill, HashTemp, SyncTemp, Rename, LookAgain, Flush,
         Confirm, Live, ScriptSteps
<1>2. CASE CheckTarget(c)
  <2>0. Unmoved(c) /\ caller' = caller /\ written' = written /\ box[c].temp = "none"
    BY <1>2 DEF CheckTarget, Unmoved, Local, LocalOf, TempKept
  <2>1. CASE box' = [box EXCEPT ![c].at = "temp", ![c].seen = now[File(c)].n]
    <3>1. Works(c, "temp", "none", box[c].synced)
      BY <2>0, <2>1 DEF Works, OthersAside, TypeOK, Boxes
    <3> QED BY <1>1, <2>0, <3>1, LocalWorks
  <2> QED BY <1>1, <1>2, <2>0, <2>1, LocalFails DEF CheckTarget
<1>3. CASE MakeTemp(c)
  <2>0. Unmoved(c) /\ caller' = caller /\ written' = written
    BY <1>3 DEF MakeTemp, Unmoved
  <2>1. CASE box' = [box EXCEPT ![c].at = "fill", ![c].temp = "part"]
    <3>1. Works(c, "fill", "part", box[c].synced)
      BY <2>0, <2>1 DEF Works, OthersAside, TypeOK, Boxes
    <3> QED BY <1>1, <2>0, <3>1, LocalWorks
  <2> QED BY <1>1, <1>3, <2>0, <2>1, LocalFails DEF MakeTemp
<1>4. CASE Fill(c)
  <2>0. Unmoved(c) /\ caller' = caller /\ written' = written
    BY <1>4 DEF Fill, Unmoved
  <2>1. ASSUME NEW got \in {"part", "whole"},
               box' = [box EXCEPT ![c].at = "hash", ![c].temp = got, ![c].synced = FALSE]
        PROVE  Local'
    <3>1. Works(c, "hash", got, FALSE)
      BY <2>0, <2>1 DEF Works, OthersAside, TypeOK, Boxes
    <3> QED BY <1>1, <2>0, <3>1, LocalWorks
  <2> QED BY <1>1, <1>4, <2>0, <2>1, LocalFails DEF Fill
<1>5. CASE HashTemp(c)
  <2>0. Unmoved(c) /\ caller' = caller /\ written' = written
    BY <1>5 DEF HashTemp, Unmoved
  <2> QED BY <1>1, <1>5, <2>0, LocalGoes, LocalFails DEF HashTemp
<1>6. CASE SyncTemp(c)
  <2>0. Unmoved(c) /\ caller' = caller /\ written' = written
    BY <1>6 DEF SyncTemp, Unmoved
  <2>1. CASE box' = [box EXCEPT ![c].at = "move", ![c].synced = TRUE]
    <3>1. Works(c, "move", box[c].temp, TRUE)
      BY <2>0, <2>1 DEF Works, OthersAside, TypeOK, Boxes
    <3> QED BY <1>1, <2>0, <3>1, LocalWorks
  <2> QED BY <1>1, <1>6, <2>0, <2>1, LocalFails DEF SyncTemp
<1>7. CASE Rename(c)
  <2>0. caller' = caller
    BY <1>7 DEF Rename
  <2>1. CASE CommandFails(c, 52) /\ UNCHANGED <<now, after, written>>
    BY <1>1, <2>0, <2>1, LocalFails
  <2>2. CASE /\ Write(File(c), c, Work(c).content, box[c].seen, box[c].synced)
             /\ box' = [box EXCEPT ![c].at = "look", ![c].temp = "none"]
    <3>1. \A w \in written' : w \in written \/ w.by = c
      BY <2>2 DEF Write
    <3>2. Works(c, "look", "none", box[c].synced)
      BY <2>0, <2>2, <3>1 DEF Works, OthersAside, TypeOK, Boxes
    <3> QED BY <1>1, <3>2, LocalWorks
  <2> QED BY <1>7, <2>1, <2>2 DEF Rename
<1>8. CASE LookAgain(c)
  <2>0. caller' = caller /\ written' = written
    BY <1>8 DEF LookAgain
  <2> QED BY <1>1, <1>8, <2>0, LocalGoes, LocalFails DEF LookAgain
<1>9. CASE Flush(c)
  <2>0. caller' = caller /\ written' = written
    BY <1>9 DEF Flush
  <2> QED BY <1>1, <1>9, <2>0, LocalGoes, LocalFails DEF Flush
<1>10. CASE Confirm(c)
  <2>0. caller' = caller /\ written' = written
    BY <1>10 DEF Confirm
  <2> QED BY <1>1, <1>10, <2>0, LocalFails DEF Confirm, TestFails
<1> QED BY <1>2, <1>3, <1>4, <1>5, <1>6, <1>7, <1>8, <1>9, <1>10 DEF Script

LEMMA LocalCreate ==
  ASSUME TypeOK, Local, OthersAssumption, NEW c \in Callers, Create(c) \/ CreateFails(c)
  PROVE  Local'
<1>0. /\ LocalOf(c) /\ Clean(c) /\ Unmoved(c) /\ box[c].temp = "none" /\ ~Untouched(c)
      /\ caller' = caller /\ written' = written
  BY DEF Create, CreateFails, Local, LocalOf, TempKept, Unmoved, Untouched
<1>1. /\ OthersAside(c)
      /\ box'[c].at \in {"check", "exited"} /\ box'[c].temp = "none"
  BY <1>0 DEF Create, CreateFails, OthersAside, TypeOK, Boxes
<1>2. LocalOf(c)'
  BY <1>0, <1>1 DEF LocalOf, Chosen, TempKept, OutcomeMeans, Untouched, At, Create, CreateFails
<1>3. Clean(c)'
  BY <1>0 DEF Clean
<1> QED BY <1>1, <1>2, <1>3, LocalAside

\* What a signal, or the end of every process, may do to a container.
Cut(d) ==
    \/ /\ box'[d].at = box[d].at /\ box'[d].synced = box[d].synced
       /\ box'[d].code = box[d].code /\ box'[d].noisy = box[d].noisy
       /\ box'[d].temp \in {box[d].temp, "none"}
    \/ Live(d) /\ box'[d].at = "exited" /\ box'[d].code = 137

LEMMA LocalCut ==
  ASSUME TypeOK, Local, written' = written, NEW d \in Callers, Cut(d),
         box'[d].client => box[d].client,
         caller'[d].replaces = caller[d].replaces,
         \/ caller'[d] = caller[d]
         \/ /\ caller[d].at = "cleaning"
            /\ caller'[d].at = "killing" /\ caller'[d].outcome = caller[d].outcome
         \/ caller'[d].at = "over" /\ caller'[d].outcome = "indeterminate"
         \/ /\ caller'[d].at = "dead" /\ caller'[d].outcome = caller[d].outcome
            /\ caller[d].at # "over"
  PROVE  LocalOf(d)' /\ Clean(d)'
<1>1. Chosen(d)'
  BY DEF Local, LocalOf, Chosen, Cut, Live, ScriptSteps, At, Untouched
<1>2. TempKept(d)'
  BY DEF Local, LocalOf, TempKept, Cut, Live, ScriptSteps
<1>3. OutcomeMeans(d)'
  BY DEF Local, LocalOf, OutcomeMeans, Cut, Live, ScriptSteps, At, Untouched
<1>4. Clean(d)'
  BY DEF Local, Clean, Unmoved, Cut, Live, ScriptSteps
<1> QED BY <1>1, <1>2, <1>3, <1>4 DEF LocalOf

LEMMA KilledCut ==
  ASSUME TypeOK, NEW d \in Callers, Live(d),
         box'[d] = Killed(box[d]) \/ box'[d] = [Killed(box[d]) EXCEPT !.client = FALSE]
  PROVE  Cut(d) /\ (box'[d].client => box[d].client)
<1>1. box[d] \in Boxes
  BY DEF TypeOK
<1>2. /\ Killed(box[d]).at = "exited" /\ Killed(box[d]).code = 137
      /\ Killed(box[d]).client = box[d].client
      /\ [Killed(box[d]) EXCEPT !.client = FALSE].at = "exited"
      /\ [Killed(box[d]) EXCEPT !.client = FALSE].code = 137
      /\ ~[Killed(box[d]) EXCEPT !.client = FALSE].client
  BY <1>1 DEF Killed, Boxes
<1> QED BY <1>2 DEF Cut

LEMMA LocalSignal ==
  ASSUME TypeOK, Local, NEW c \in Callers, Terminate(c) \/ Kill(c)
  PROVE  Local'
<1>1. CASE Terminate(c)
  <2>1. \A d \in Callers : Cut(d) /\ (box'[d].client => box[d].client)
    BY <1>1 DEF Terminate, Cut, TypeOK, Boxes
  <2>2. /\ \A d \in Callers \ {c} : caller'[d] = caller[d]
        /\ caller'[c].at = "killing" /\ caller'[c].outcome = caller[c].outcome
        /\ caller'[c].replaces = caller[c].replaces /\ caller[c].at = "cleaning"
    BY <1>1 DEF Terminate, At, TypeOK, Callings
  <2>3. written' = written
    BY <1>1 DEF Terminate
  <2> QED BY <2>1, <2>2, <2>3, LocalCut DEF Local
<1>2. CASE Kill(c)
  <2>1. \A d \in Callers : Cut(d) /\ (box'[d].client => box[d].client)
    <3> SUFFICES ASSUME NEW d \in Callers
                 PROVE  Cut(d) /\ (box'[d].client => box[d].client)
      OBVIOUS
    <3>1. CASE Live(d)
      BY <1>2, <3>1, KilledCut DEF Kill
    <3>2. CASE ~Live(d)
      BY <1>2, <3>2 DEF Kill, Cut
    <3> QED BY <3>1, <3>2
  <2>2. /\ \A d \in Callers \ {c} : caller'[d] = caller[d]
        /\ caller'[c].at = "over" /\ caller'[c].outcome = "indeterminate"
        /\ caller'[c].replaces = caller[c].replaces
    BY <1>2 DEF Kill, End, TypeOK, Callings
  <2>3. written' = written
    BY <1>2 DEF Kill
  <2> QED BY <2>1, <2>2, <2>3, LocalCut DEF Local
<1> QED BY <1>1, <1>2

LEMMA LocalPower ==
  ASSUME TypeOK, Local, PowerFails
  PROVE  Local'
<1>1. \A d \in Callers : Cut(d) /\ (box'[d].client => box[d].client)
  <2> SUFFICES ASSUME NEW d \in Callers
               PROVE  Cut(d) /\ (box'[d].client => box[d].client)
    OBVIOUS
  <2>1. CASE Live(d)
    BY <2>1, KilledCut DEF PowerFails
  <2>2. CASE ~Live(d)
    <3>1. box'[d] = [box[d] EXCEPT !.client = FALSE] /\ box[d] \in Boxes
      BY <2>2 DEF PowerFails, TypeOK
    <3> QED BY <3>1 DEF Cut, Boxes
  <2> QED BY <2>1, <2>2
<1>2. \A d \in Callers :
        \/ caller'[d] = caller[d]
        \/ /\ caller'[d].at = "dead" /\ caller'[d].outcome = caller[d].outcome
           /\ caller'[d].replaces = caller[d].replaces /\ caller[d].at # "over"
  BY DEF PowerFails, TypeOK, Callings
<1>3. written' = written
  BY DEF PowerFails
<1> QED BY <1>1, <1>2, <1>3, LocalCut DEF Local

LEMMA LocalMeddle ==
  ASSUME TypeOK, Local, OthersAssumption, NEW f \in Files, Meddle(f)
  PROVE  Local'
<1>1. caller' = caller /\ box' = box
  BY DEF Meddle
<1>2. \A w \in written' : w \in written \/ w.by = Outside
  BY DEF Meddle, Write
<1>3. \A d \in Callers : d # Outside
  BY OthersAssumption
<1>4. \A d \in Callers : LocalOf(d)'
  BY <1>1 DEF Local, LocalOf, Chosen, TempKept, OutcomeMeans, Untouched, At
<1>5. \A d \in Callers : Clean(d)'
  BY <1>1, <1>2, <1>3 DEF Local, Clean, Unmoved
<1> QED BY <1>4, <1>5 DEF Local

LEMMA LocalNext ==
  ASSUME TypeOK, Local, OthersAssumption, [Next]_vars
  PROVE  Local'
<1>1. ASSUME NEW c \in Callers, Call(c) PROVE Local'
  BY <1>1, LocalCall, LocalPropose, LocalSignal DEF Call
<1>2. ASSUME NEW c \in Callers, Create(c) \/ CreateFails(c) PROVE Local'
  BY <1>2, LocalCreate
<1>3. ASSUME NEW c \in Callers, Script(c) PROVE Local'
  BY <1>3, LocalScript
<1>4. ASSUME NEW c \in Callers, Crash(c) PROVE Local'
  BY <1>4, LocalCall
<1>5. ASSUME NEW f \in Files, Meddle(f) PROVE Local'
  BY <1>5, LocalMeddle
<1>6. CASE PowerFails
  BY <1>6, LocalPower
<1>7. CASE UNCHANGED vars
  BY <1>7 DEF vars, Local, LocalOf, Clean, Unmoved, Chosen, TempKept, OutcomeMeans, Untouched, At
<1> QED BY <1>1, <1>2, <1>3, <1>4, <1>5, <1>6, <1>7 DEF Next

-----------------------------------------------------------------------------
(* Types. *)

LEMMA WriteType ==
  ASSUME TypeOK, OthersAssumption,
         NEW f \in Files, NEW by \in Callers \cup {Outside}, NEW content \in Contents,
         NEW seen \in Nat, NEW whole \in BOOLEAN, Write(f, by, content, seen, whole)
  PROVE  /\ now' \in [Files -> Versions]
         /\ after' \in [Files -> SUBSET Versions]
         /\ written' \subseteq Writes /\ IsFiniteSet(written')
<1> DEFINE new == NewVersion(f, by, content)
           lost == [new EXCEPT !.whole = whole]
           write == [path |-> f, n |-> new.n, by |-> by, content |-> content,
                     seen |-> seen, over |-> now[f].n]
<1>1. Cardinality(written) \in Nat
  BY FS_CardinalityType DEF TypeOK
<1>2. new \in Versions /\ lost \in Versions
  BY <1>1 DEF NewVersion, Versions
<1>3. write \in Writes
  BY <1>1, <1>2 DEF TypeOK, Versions, Writes, NewVersion
<1>4. /\ now' = [now EXCEPT ![f] = new]
      /\ after' = [after EXCEPT ![f] = @ \cup {new} \cup {lost}]
      /\ written' = written \cup {write}
  BY DEF Write
<1> HIDE DEF new, lost, write
<1>5. IsFiniteSet(written')
  BY <1>4, FS_AddElement DEF TypeOK
<1> QED BY <1>2, <1>3, <1>4, <1>5 DEF TypeOK

LEMMA ExitsType ==
  ASSUME TypeOK, NEW c \in Callers, NEW code \in {0, 1, 51, 52}, NEW noisy \in BOOLEAN,
         Exits(c, code, noisy)
  PROVE  box' \in [Callers -> Boxes]
<1>1. PICK removed \in BOOLEAN :
        box' = [box EXCEPT ![c].at = "exited", ![c].code = code,
                           ![c].temp = IF removed THEN "none" ELSE @,
                           ![c].noisy = noisy \/ ~removed]
  BY DEF Exits
<1> DEFINE temp == IF removed THEN "none" ELSE box[c].temp
           loud == noisy \/ ~removed
           exited == [box[c] EXCEPT !.at = "exited", !.code = code, !.temp = temp, !.noisy = loud]
<1>2. box[c] \in Boxes /\ loud \in BOOLEAN /\ temp \in {"none", "part", "whole"}
  BY DEF TypeOK, Boxes
<1>3. box' = [box EXCEPT ![c] = exited]
  BY ZenonT(60), <1>1
<1> HIDE DEF temp, loud
<1>4. exited \in Boxes
  BY ZenonT(60), <1>2 DEF Boxes
<1> QED BY <1>3, <1>4 DEF TypeOK

\* A step that goes on to another place of the script.
LEMMA MoveType ==
  ASSUME TypeOK, NEW c \in Callers, NEW place \in ScriptSteps, Goes(c, place)
  PROVE  box' \in [Callers -> Boxes]
<1>1. box' = [box EXCEPT ![c] = [box[c] EXCEPT !.at = place]]
  BY DEF Goes
<1>2. [box[c] EXCEPT !.at = place] \in Boxes
  BY DEF TypeOK, Boxes
<1> QED BY <1>1, <1>2 DEF TypeOK

LEMMA EndType ==
  ASSUME TypeOK, NEW c \in Callers, NEW outcome,
         outcome \in {"none", "refused", "applied", "rejected", "indeterminate"}, End(c, outcome)
  PROVE  caller' \in [Callers -> Callings]
<1>1. caller' = [caller EXCEPT ![c] = [caller[c] EXCEPT !.at = "over", !.outcome = outcome]]
  BY DEF End
<1>2. [caller[c] EXCEPT !.at = "over", !.outcome = outcome] \in Callings
  BY DEF TypeOK, Callings
<1> QED BY <1>1, <1>2 DEF TypeOK

LEMMA PlaceType ==
  ASSUME TypeOK, NEW c \in Callers,
         NEW place \in {"running", "cleaning", "killing", "dead"},
         caller' = [caller EXCEPT ![c].at = place]
  PROVE  caller' \in [Callers -> Callings]
<1>1. caller' = [caller EXCEPT ![c] = [caller[c] EXCEPT !.at = place]]
  OBVIOUS
<1>2. [caller[c] EXCEPT !.at = place] \in Callings
  BY DEF TypeOK, Callings
<1> QED BY <1>1, <1>2 DEF TypeOK

LEMMA ClientType ==
  ASSUME TypeOK, NEW c \in Callers, NEW client \in BOOLEAN,
         box' = [box EXCEPT ![c].client = client]
  PROVE  box' \in [Callers -> Boxes]
<1>1. box' = [box EXCEPT ![c] = [box[c] EXCEPT !.client = client]]
  OBVIOUS
<1>2. [box[c] EXCEPT !.client = client] \in Boxes
  BY DEF TypeOK, Boxes
<1> QED BY <1>1, <1>2 DEF TypeOK

\* A signal reaches every live container of the name.
LEMMA SignalType ==
  ASSUME TypeOK
  PROVE  \A d \in Callers : /\ Killed(box[d]) \in Boxes
                            /\ [box[d] EXCEPT !.temp = "none"] \in Boxes
                            /\ [box[d] EXCEPT !.client = FALSE] \in Boxes
                            /\ [Killed(box[d]) EXCEPT !.client = FALSE] \in Boxes
<1> SUFFICES ASSUME NEW d \in Callers
             PROVE  /\ Killed(box[d]) \in Boxes
                    /\ [box[d] EXCEPT !.temp = "none"] \in Boxes
                    /\ [box[d] EXCEPT !.client = FALSE] \in Boxes
                    /\ [Killed(box[d]) EXCEPT !.client = FALSE] \in Boxes
  OBVIOUS
<1>1. box[d] \in Boxes
  BY DEF TypeOK
<1>2. Killed(box[d]) \in Boxes
  BY ZenonT(60), <1>1 DEF Killed, Boxes
<1> HIDE DEF Killed
<1>3. [box[d] EXCEPT !.temp = "none"] \in Boxes /\ [box[d] EXCEPT !.client = FALSE] \in Boxes
  BY ZenonT(60), <1>1 DEF Boxes
<1>4. [Killed(box[d]) EXCEPT !.client = FALSE] \in Boxes
  BY <1>2 DEF Boxes
<1> QED BY <1>2, <1>3, <1>4

\* The replacement a container works on.
LEMMA WorkType ==
  ASSUME Local, NEW c \in Callers, box[c].at # "none"
  PROVE  /\ Work(c) \in Replacements /\ caller[c].replaces = {Work(c)}
         /\ File(c) \in Files /\ Work(c).content \in Contents
<1>1. PICK r \in Replacements : caller[c].replaces = {r}
  BY DEF Local, LocalOf, Chosen
<1>2. Work(c) = r
  BY <1>1 DEF Work
<1> QED BY <1>1, <1>2 DEF Replacements, File

LEMMA InitType == Init => TypeOK
<1> SUFFICES ASSUME Init PROVE TypeOK
  OBVIOUS
<1>1. now \in [Files -> Versions] /\ after \in [Files -> SUBSET Versions]
  BY OriginalAssumption DEF Init, Versions
<1>2. [f \in {} |-> Original] \in Requests
  <2>1. [f \in {} |-> Original] \in [{} -> Contents]
    OBVIOUS
  <2> QED BY <2>1 DEF Requests
<1>3. caller \in [Callers -> Callings]
  BY <1>2 DEF Init, Callings
<1>4. box \in [Callers -> Boxes]
  BY DEF Init, Boxes, ScriptSteps, NoBox
<1>5. written \subseteq Writes /\ IsFiniteSet(written)
  BY FS_EmptySet DEF Init
<1>6. failures \in 0 .. MaxFailures
  BY BoundsAssumption DEF Init
<1> QED BY <1>1, <1>3, <1>4, <1>5, <1>6 DEF TypeOK

\* The files are left alone.
Still == UNCHANGED <<now, after, written, failures>>

LEMMA StillType ==
  ASSUME TypeOK, Still, caller' \in [Callers -> Callings], box' \in [Callers -> Boxes]
  PROVE  TypeOK'
BY DEF Still, TypeOK

LEMMA AskType ==
  ASSUME TypeOK, NEW c \in Callers, Ask(c)
  PROVE  TypeOK'
<1>1. PICK F \in Selections :
        caller' = [caller EXCEPT ![c].at = "asking", ![c].request = [f \in F |-> now[f].content]]
  BY DEF Ask
<1> DEFINE request == [f \in F |-> now[f].content]
<1>2. request \in Requests
  <2>1. F \in SUBSET Files
    BY SelectionAssumption
  <2>2. request \in [F -> Contents]
    BY <2>1 DEF TypeOK, Versions
  <2> QED BY <2>1, <2>2 DEF Requests
<1>3. caller' = [caller EXCEPT ![c] = [caller[c] EXCEPT !.at = "asking", !.request = request]]
  BY <1>1
<1> HIDE DEF request
<1>4. [caller[c] EXCEPT !.at = "asking", !.request = request] \in Callings
  BY <1>2 DEF TypeOK, Callings
<1>5. caller' \in [Callers -> Callings]
  BY <1>3, <1>4 DEF TypeOK
<1> QED BY <1>5, StillType DEF Ask, Still, TypeOK

LEMMA ProposeType ==
  ASSUME TypeOK, NEW c \in Callers, NEW reply \in Replies, Propose(c, reply)
  PROVE  TypeOK'
<1>1. caller' = [caller EXCEPT ![c] = [caller[c] EXCEPT !.at = "starting",
                                                       !.replaces = reply.replaces]]
  BY DEF Propose
<1>2. reply.replaces \in SUBSET Replacements
  BY DEF Replies
<1>3. [caller[c] EXCEPT !.at = "starting", !.replaces = reply.replaces] \in Callings
  BY <1>2 DEF TypeOK, Callings
<1>4. caller' \in [Callers -> Callings]
  BY <1>1, <1>3 DEF TypeOK
<1> QED BY <1>4, StillType DEF Propose, Still, TypeOK

LEMMA CallType ==
  ASSUME TypeOK, NEW c \in Callers, Call(c) \/ Create(c) \/ CreateFails(c) \/ Crash(c)
  PROVE  TypeOK'
<1>0. caller \in [Callers -> Callings] /\ box \in [Callers -> Boxes] /\ box[c] \in Boxes
  BY DEF TypeOK
<1>1. CASE Ask(c)
  BY <1>1, AskType
<1>2. CASE \E reply \in Replies : Propose(c, reply)
  BY <1>2, ProposeType
<1>3. CASE Refuse(c)
  BY <1>0, <1>3, EndType, StillType DEF Refuse, Still
<1>4. CASE StartClient(c)
  BY <1>4, PlaceType, ClientType, StillType DEF StartClient, Still
<1>5. CASE FailEarly(c)
  BY <1>0, <1>5, EndType, StillType DEF FailEarly, Still
<1>6. CASE Answer(c)
  <2>1. PICK outcome \in {Classify(box[c].code, box[c].noisy), "indeterminate"} : End(c, outcome)
    BY <1>6 DEF Answer
  <2>2. outcome \in {"none", "refused", "applied", "rejected", "indeterminate"}
    BY <2>1 DEF Classify
  <2> QED BY <1>6, <2>1, <2>2, EndType, ClientType, StillType DEF Answer, Still
<1>7. CASE LoseClient(c)
  BY <1>7, EndType, ClientType, StillType DEF LoseClient, Still
<1>8. CASE Raise(c)
  BY <1>8, PlaceType, ClientType, StillType DEF Raise, Still
<1>9. CASE Terminate(c)
  <2>1. box' = [d \in Callers |-> IF Live(d) THEN [box[d] EXCEPT !.temp = "none"] ELSE box[d]]
    BY <1>9 DEF Terminate
  <2>2. box' \in [Callers -> Boxes]
    BY <1>0, <2>1, SignalType
  <2> QED BY <1>9, <2>2, PlaceType, StillType DEF Terminate, Still
<1>10. CASE Kill(c)
  <2>1. box' = [d \in Callers |-> IF Live(d) THEN Killed(box[d]) ELSE box[d]]
    BY <1>10 DEF Kill
  <2>2. box' \in [Callers -> Boxes]
    BY <1>0, <2>1, SignalType
  <2> QED BY <1>10, <2>2, EndType, StillType DEF Kill, Still
<1>11. CASE RemovalFails(c)
  BY <1>0, <1>11, EndType, StillType DEF RemovalFails, Still
<1>12. CASE Create(c)
  <2>1. Goes(c, "check") /\ "check" \in ScriptSteps
    BY <1>12 DEF Create, Goes, ScriptSteps
  <2> QED BY <1>0, <1>12, <2>1, MoveType, StillType DEF Create, Still
<1>13. CASE CreateFails(c)
  <2>1. CASE box' = [box EXCEPT ![c].at = "exited", ![c].code = 125, ![c].noisy = TRUE]
    <3>1. box' = [box EXCEPT ![c] = [box[c] EXCEPT !.at = "exited", !.code = 125, !.noisy = TRUE]]
      BY <2>1
    <3>2. [box[c] EXCEPT !.at = "exited", !.code = 125, !.noisy = TRUE] \in Boxes
      BY ZenonT(60), <1>0 DEF Boxes
    <3> QED BY <1>0, <1>13, <3>1, <3>2, StillType DEF CreateFails, Still
  <2>2. ASSUME NEW code \in {1, 41, 43}, box' = [box EXCEPT ![c].at = "exited", ![c].code = code]
        PROVE  box' \in [Callers -> Boxes]
    <3>1. box' = [box EXCEPT ![c] = [box[c] EXCEPT !.at = "exited", !.code = code]]
      BY <2>2
    <3>2. [box[c] EXCEPT !.at = "exited", !.code = code] \in Boxes
      BY <1>0 DEF Boxes
    <3> QED BY <1>0, <3>1, <3>2
  <2> QED BY <1>0, <1>13, <2>1, <2>2, StillType DEF CreateFails, Still
<1>14. CASE Crash(c)
  BY <1>0, <1>14, PlaceType, StillType DEF Crash, Still
<1> QED BY <1>1, <1>2, <1>3, <1>4, <1>5, <1>6, <1>7, <1>8, <1>9, <1>10, <1>11, <1>12, <1>13,
           <1>14 DEF Call

LEMMA ScriptType ==
  ASSUME TypeOK, Local, NEW c \in Callers, Script(c)
  PROVE  TypeOK'
<1>0. caller \in [Callers -> Callings] /\ box \in [Callers -> Boxes] /\ box[c] \in Boxes
  BY DEF TypeOK
<1>a. box[c].at # "none"
  BY DEF Script, CheckTarget, MakeTemp, Fill, HashTemp, SyncTemp, Rename, LookAgain, Flush, Confirm
<1>b. /\ File(c) \in Files /\ Work(c).content \in Contents
      /\ now[File(c)].n \in Nat
  BY <1>a, WorkType DEF TypeOK, Versions
<1>c. ASSUME NEW code \in {0, 1, 51, 52}, TestFails(c, code) \/ CommandFails(c, code)
      PROVE  box' \in [Callers -> Boxes]
  BY <1>c, ExitsType DEF TestFails, CommandFails
<1>d. \A place \in ScriptSteps : Goes(c, place) => box' \in [Callers -> Boxes]
  BY MoveType
<1>1. CASE CheckTarget(c)
  <2>1. CASE box' = [box EXCEPT ![c].at = "temp", ![c].seen = now[File(c)].n]
    <3>1. box' = [box EXCEPT ![c] = [box[c] EXCEPT !.at = "temp", !.seen = now[File(c)].n]]
      BY <2>1
    <3>2. [box[c] EXCEPT !.at = "temp", !.seen = now[File(c)].n] \in Boxes
      BY <1>0, <1>b DEF Boxes, ScriptSteps
    <3> QED BY <1>0, <1>1, <3>1, <3>2, StillType DEF CheckTarget, Still
  <2> QED BY <1>0, <1>1, <1>c, <2>1, StillType DEF CheckTarget, Still
<1>2. CASE MakeTemp(c)
  <2>1. CASE box' = [box EXCEPT ![c].at = "fill", ![c].temp = "part"]
    <3>1. box' = [box EXCEPT ![c] = [box[c] EXCEPT !.at = "fill", !.temp = "part"]]
      BY <2>1
    <3>2. [box[c] EXCEPT !.at = "fill", !.temp = "part"] \in Boxes
      BY <1>0 DEF Boxes, ScriptSteps
    <3> QED BY <1>0, <1>2, <3>1, <3>2, StillType DEF MakeTemp, Still
  <2> QED BY <1>0, <1>2, <1>c, <2>1, StillType DEF MakeTemp, Still
<1>3. CASE Fill(c)
  <2>1. ASSUME NEW got \in {"part", "whole"},
               box' = [box EXCEPT ![c].at = "hash", ![c].temp = got, ![c].synced = FALSE]
        PROVE  box' \in [Callers -> Boxes]
    <3>1. box' = [box EXCEPT ![c] = [box[c] EXCEPT !.at = "hash", !.temp = got, !.synced = FALSE]]
      BY <2>1
    <3>2. [box[c] EXCEPT !.at = "hash", !.temp = got, !.synced = FALSE] \in Boxes
      BY <1>0 DEF Boxes, ScriptSteps
    <3> QED BY <1>0, <3>1, <3>2
  <2> QED BY <1>0, <1>3, <1>c, <2>1, StillType DEF Fill, Still
<1>4. CASE HashTemp(c)
  BY <1>0, <1>4, <1>c, <1>d, StillType DEF HashTemp, Still, ScriptSteps
<1>5. CASE SyncTemp(c)
  <2>1. CASE box' = [box EXCEPT ![c].at = "move", ![c].synced = TRUE]
    <3>1. box' = [box EXCEPT ![c] = [box[c] EXCEPT !.at = "move", !.synced = TRUE]]
      BY <2>1
    <3>2. [box[c] EXCEPT !.at = "move", !.synced = TRUE] \in Boxes
      BY <1>0 DEF Boxes, ScriptSteps
    <3> QED BY <1>0, <1>5, <3>1, <3>2, StillType DEF SyncTemp, Still
  <2> QED BY <1>0, <1>5, <1>c, <2>1, StillType DEF SyncTemp, Still
<1>6. CASE Rename(c)
  <2>1. CASE CommandFails(c, 52) /\ UNCHANGED <<now, after, written>>
    BY <1>0, <1>6, <1>c, <2>1, StillType DEF Rename, Still
  <2>2. CASE /\ Write(File(c), c, Work(c).content, box[c].seen, box[c].synced)
             /\ box' = [box EXCEPT ![c].at = "look", ![c].temp = "none"]
    <3>1. box[c].seen \in Nat /\ box[c].synced \in BOOLEAN
      BY <1>0 DEF Boxes
    <3>2. box' = [box EXCEPT ![c] = [box[c] EXCEPT !.at = "look", !.temp = "none"]]
      BY <2>2
    <3>3. [box[c] EXCEPT !.at = "look", !.temp = "none"] \in Boxes
      BY <1>0 DEF Boxes, ScriptSteps
    <3>4. box' \in [Callers -> Boxes]
      BY <1>0, <3>2, <3>3
    <3>5. /\ now' \in [Files -> Versions]
          /\ after' \in [Files -> SUBSET Versions]
          /\ written' \subseteq Writes /\ IsFiniteSet(written')
      BY <1>b, <2>2, <3>1, WriteType, OthersAssumption
    <3> QED BY <1>6, <3>4, <3>5 DEF Rename, TypeOK
  <2> QED BY <1>6, <2>1, <2>2 DEF Rename
<1>7. CASE LookAgain(c)
  BY <1>0, <1>7, <1>c, <1>d, StillType DEF LookAgain, Still, ScriptSteps
<1>8. CASE Flush(c)
  <2>1. box' \in [Callers -> Boxes]
    BY <1>8, <1>c, <1>d DEF Flush, ScriptSteps
  <2>2. after' \in [Files -> SUBSET Versions]
    BY <1>8 DEF Flush, TypeOK
  <2> QED BY <1>8, <2>1, <2>2 DEF Flush, TypeOK
<1>9. CASE Confirm(c)
  <2>1. box' \in [Callers -> Boxes]
    BY <1>9, <1>c, ExitsType DEF Confirm
  <2> QED BY <1>0, <1>9, <2>1, StillType DEF Confirm, Still
<1> QED BY <1>1, <1>2, <1>3, <1>4, <1>5, <1>6, <1>7, <1>8, <1>9 DEF Script

LEMMA WorldType ==
  ASSUME TypeOK, (\E f \in Files : Meddle(f)) \/ PowerFails
  PROVE  TypeOK'
<1>1. CASE \E f \in Files : Meddle(f)
  <2>1. PICK f \in Files : Meddle(f)
    BY <1>1
  <2>2. PICK content \in Contents : Write(f, Outside, content, now[f].n, TRUE)
    BY <2>1 DEF Meddle
  <2>3. now[f].n \in Nat
    BY DEF TypeOK, Versions
  <2>4. /\ now' \in [Files -> Versions]
        /\ after' \in [Files -> SUBSET Versions]
        /\ written' \subseteq Writes /\ IsFiniteSet(written')
    BY <2>2, <2>3, WriteType, OthersAssumption
  <2> QED BY <2>1, <2>4 DEF TypeOK, Meddle
<1>2. CASE PowerFails
  <2>1. now' \in [Files -> Versions]
    BY <1>2 DEF PowerFails, TypeOK
  <2>2. after' \in [Files -> SUBSET Versions]
    BY <1>2, <2>1 DEF PowerFails
  <2>3. \A c \in Callers : caller[c] \in Callings /\ [caller[c] EXCEPT !.at = "dead"] \in Callings
    BY DEF TypeOK, Callings
  <2>4. caller' \in [Callers -> Callings]
    BY <1>2, <2>3 DEF PowerFails
  <2>5. box' = [c \in Callers |-> IF Live(c) THEN [Killed(box[c]) EXCEPT !.client = FALSE]
                                  ELSE [box[c] EXCEPT !.client = FALSE]]
    BY <1>2 DEF PowerFails
  <2>6. box' \in [Callers -> Boxes]
    BY <2>5, SignalType
  <2>7. failures' \in 0 .. MaxFailures /\ written' = written
    BY <1>2, BoundsAssumption DEF PowerFails, TypeOK
  <2> QED BY <2>1, <2>2, <2>4, <2>6, <2>7 DEF TypeOK
<1> QED BY <1>1, <1>2

LEMMA TypeNext ==
  ASSUME TypeOK, Local, [Next]_vars
  PROVE  TypeOK'
<1>1. CASE UNCHANGED vars
  BY <1>1 DEF vars, TypeOK
<1> QED BY <1>1, CallType, ScriptType, WorldType DEF Next

-----------------------------------------------------------------------------
(* Whole files. *)

LEMMA HalfInit == Init => NeverHalf
BY DEF Init, NeverHalf

LEMMA HalfNext ==
  ASSUME TypeOK, Local, NeverHalf, [Next]_vars
  PROVE  NeverHalf'
<1>1. ASSUME NEW f \in Files, NEW by, NEW content, NEW seen, Write(f, by, content, seen, TRUE)
      PROVE  NeverHalf'
  <2>1. NewVersion(f, by, content).whole = TRUE
    BY DEF NewVersion
  <2>2. [NewVersion(f, by, content) EXCEPT !.whole = TRUE].whole = TRUE
    BY DEF NewVersion
  <2> QED BY <1>1, <2>1, <2>2 DEF Write, NeverHalf, TypeOK
<1>2. CASE UNCHANGED <<now, after>>
  BY <1>2 DEF NeverHalf
<1>3. ASSUME NEW c \in Callers, Rename(c) PROVE NeverHalf'
  <2>1. box[c].synced = TRUE
    <3>1. box[c].synced
      BY <1>3 DEF Rename, Local, LocalOf, TempKept
    <3>2. box[c].synced \in BOOLEAN
      BY DEF TypeOK, Boxes
    <3> QED BY <3>1, <3>2
  <2>2. File(c) \in Files
    BY <1>3, WorkType DEF Rename
  <2> QED BY <1>1, <1>2, <1>3, <2>1, <2>2 DEF Rename
<1>4. ASSUME NEW c \in Callers, Flush(c) PROVE NeverHalf'
  BY <1>2, <1>4 DEF Flush, NeverHalf, TypeOK
<1>5. ASSUME NEW f \in Files, Meddle(f) PROVE NeverHalf'
  BY <1>1, <1>5 DEF Meddle
<1>6. CASE PowerFails
  BY <1>6 DEF PowerFails, NeverHalf, TypeOK
<1>7. ASSUME NEW c \in Callers, Call(c) \/ Create(c) \/ CreateFails(c) \/ Crash(c)
      PROVE  NeverHalf'
  BY <1>2, <1>7 DEF Call, Ask, Propose, Refuse, StartClient, FailEarly, Answer, LoseClient, Raise,
                    Terminate, Kill, RemovalFails, Create, CreateFails, Crash
<1>8. ASSUME NEW c \in Callers, Script(c) PROVE NeverHalf'
  BY <1>2, <1>3, <1>4, <1>8 DEF Script, CheckTarget, MakeTemp, Fill, HashTemp, SyncTemp, LookAgain,
                                Confirm
<1>9. CASE UNCHANGED vars
  BY <1>2, <1>9 DEF vars
<1> QED BY <1>5, <1>6, <1>7, <1>8, <1>9 DEF Next

-----------------------------------------------------------------------------
(* What one step may do to a container and to the files. *)

\* The script has compared the target and has not renamed yet.
Comparing == {"temp", "fill", "hash", "sync", "move"}

Renames(c) ==
    /\ box[c].at = "move" /\ box'[c].at = "look"
    /\ Write(File(c), c, Work(c).content, box[c].seen, box[c].synced)

Passes(d) ==
    \/ /\ box'[d].at = box[d].at /\ box'[d].seen = box[d].seen
       /\ box'[d].code = box[d].code /\ box'[d].noisy = box[d].noisy
    \/ box'[d].at = "exited" /\ (box'[d].code # 0 \/ box'[d].noisy)
    \/ box[d].at = "print" /\ box'[d].at = "exited"
    \/ Create(d) /\ box[d].at = "none" /\ box'[d].at = "check"
    \/ /\ box[d].at = "check" /\ box'[d].at = "temp"
       /\ box'[d].seen = now[File(d)].n /\ now' = now
    \/ {box[d].at, box'[d].at} \subseteq Comparing /\ box'[d].seen = box[d].seen
    \/ Renames(d)
    \/ box[d].at = "look" /\ box'[d].at = "flush"
    \/ /\ box[d].at = "flush" /\ box'[d].at = "print"
       /\ after' = [f \in Files |-> {now[f]}] /\ now' = now

\* The files: left alone, flushed, renamed, written by another program, or hit
\* by a power failure.
FilesPass ==
    \/ now' = now /\ written' = written /\ (after' = after \/ after' = [f \in Files |-> {now[f]}])
    \/ \E c \in Callers : Renames(c)
    \/ \E f \in Files : Meddle(f)
    \/ PowerFails

LEMMA ExitsPass ==
  ASSUME TypeOK, NEW c \in Callers, NEW code \in {0, 1, 51, 52},
         \/ CommandFails(c, code)
         \/ TestFails(c, code) /\ code # 0
         \/ Exits(c, code, FALSE) /\ box[c].at = "print"
  PROVE  \A d \in Callers : Passes(d)
<1>1. PICK noisy \in BOOLEAN : Exits(c, code, noisy) /\ (noisy \/ code # 0 \/ box[c].at = "print")
  BY DEF CommandFails, TestFails
<1>2. PICK removed \in BOOLEAN :
        box' = [box EXCEPT ![c].at = "exited", ![c].code = code,
                           ![c].temp = IF removed THEN "none" ELSE @,
                           ![c].noisy = noisy \/ ~removed]
  BY <1>1 DEF Exits
<1>3. /\ \A d \in Callers \ {c} : box'[d] = box[d]
      /\ box'[c].at = "exited" /\ box'[c].code = code /\ (noisy => box'[c].noisy)
  BY <1>2 DEF TypeOK, Boxes
<1> QED BY <1>1, <1>3 DEF Passes

LEMMA GoesPass ==
  ASSUME TypeOK, NEW c \in Callers, NEW place, Goes(c, place),
         \/ box[c].at \in Comparing /\ place \in Comparing
         \/ box[c].at = "look" /\ place = "flush"
         \/ /\ box[c].at = "flush" /\ place = "print"
            /\ after' = [f \in Files |-> {now[f]}] /\ now' = now
  PROVE  \A d \in Callers : Passes(d)
<1>1. /\ \A d \in Callers \ {c} : box'[d] = box[d]
      /\ box'[c].at = place /\ box'[c].seen = box[c].seen
  BY DEF Goes, TypeOK, Boxes
<1> QED BY <1>1 DEF Passes

LEMMA ScriptPasses ==
  ASSUME TypeOK, NEW c \in Callers, Script(c)
  PROVE  (\A d \in Callers : Passes(d)) /\ FilesPass
<1>a. ASSUME NEW code \in {1, 51, 52}, TestFails(c, code) \/ CommandFails(c, code)
      PROVE  \A d \in Callers : Passes(d)
  <2>1. code # 0 /\ code \in {0, 1, 51, 52}
    OBVIOUS
  <2> QED BY ZenonT(60), <1>a, <2>1, ExitsPass
<1>1. CASE CheckTarget(c)
  <2>1. FilesPass
    BY <1>1 DEF CheckTarget, FilesPass
  <2>2. CASE box' = [box EXCEPT ![c].at = "temp", ![c].seen = now[File(c)].n]
    <3>1. /\ \A d \in Callers \ {c} : box'[d] = box[d]
          /\ box'[c].at = "temp" /\ box'[c].seen = now[File(c)].n
      BY <2>2 DEF TypeOK, Boxes
    <3> QED BY <1>1, <2>1, <3>1 DEF CheckTarget, Passes
  <2> QED BY <1>a, <1>1, <2>1, <2>2 DEF CheckTarget
<1>2. CASE MakeTemp(c)
  <2>1. FilesPass
    BY <1>2 DEF MakeTemp, FilesPass
  <2>2. CASE box' = [box EXCEPT ![c].at = "fill", ![c].temp = "part"]
    <3>1. /\ \A d \in Callers \ {c} : box'[d] = box[d]
          /\ box'[c].at = "fill" /\ box'[c].seen = box[c].seen
      BY <2>2 DEF TypeOK, Boxes
    <3> QED BY <1>2, <2>1, <3>1 DEF MakeTemp, Passes, Comparing
  <2> QED BY <1>a, <1>2, <2>1, <2>2 DEF MakeTemp
<1>3. CASE Fill(c)
  <2>1. FilesPass
    BY <1>3 DEF Fill, FilesPass
  <2>2. ASSUME NEW got \in {"part", "whole"},
               box' = [box EXCEPT ![c].at = "hash", ![c].temp = got, ![c].synced = FALSE]
        PROVE  \A d \in Callers : Passes(d)
    <3>1. /\ \A d \in Callers \ {c} : box'[d] = box[d]
          /\ box'[c].at = "hash" /\ box'[c].seen = box[c].seen
      BY <2>2 DEF TypeOK, Boxes
    <3> QED BY <1>3, <3>1 DEF Fill, Passes, Comparing
  <2> QED BY <1>a, <1>3, <2>1, <2>2 DEF Fill
<1>4. CASE HashTemp(c)
  <2>1. FilesPass
    BY <1>4 DEF HashTemp, FilesPass
  <2> QED BY <1>a, <1>4, <2>1, GoesPass DEF HashTemp, Comparing
<1>5. CASE SyncTemp(c)
  <2>1. FilesPass
    BY <1>5 DEF SyncTemp, FilesPass
  <2>2. CASE box' = [box EXCEPT ![c].at = "move", ![c].synced = TRUE]
    <3>1. /\ \A d \in Callers \ {c} : box'[d] = box[d]
          /\ box'[c].at = "move" /\ box'[c].seen = box[c].seen
      BY <2>2 DEF TypeOK, Boxes
    <3> QED BY <1>5, <2>1, <3>1 DEF SyncTemp, Passes, Comparing
  <2> QED BY <1>a, <1>5, <2>1, <2>2 DEF SyncTemp
<1>6. CASE Rename(c)
  <2>1. CASE CommandFails(c, 52) /\ UNCHANGED <<now, after, written>>
    BY <2>1, ExitsPass DEF FilesPass
  <2>2. CASE /\ Write(File(c), c, Work(c).content, box[c].seen, box[c].synced)
             /\ box' = [box EXCEPT ![c].at = "look", ![c].temp = "none"]
    <3>1. (\A d \in Callers \ {c} : box'[d] = box[d]) /\ box'[c].at = "look"
      BY <2>2 DEF TypeOK, Boxes
    <3>2. Renames(c)
      BY <1>6, <2>2, <3>1 DEF Rename, Renames
    <3> QED BY <3>1, <3>2 DEF Passes, FilesPass
  <2> QED BY <1>6, <2>1, <2>2 DEF Rename
<1>7. CASE LookAgain(c)
  <2>1. FilesPass
    BY <1>7 DEF LookAgain, FilesPass
  <2> QED BY <1>a, <1>7, <2>1, GoesPass DEF LookAgain
<1>8. CASE Flush(c)
  <2>1. FilesPass
    BY <1>8 DEF Flush, FilesPass
  <2> QED BY <1>a, <1>8, <2>1, GoesPass DEF Flush
<1>9. CASE Confirm(c)
  <2>1. FilesPass
    BY <1>9 DEF Confirm, FilesPass
  <2> QED BY <1>9, <2>1, ExitsPass DEF Confirm
<1> QED BY <1>1, <1>2, <1>3, <1>4, <1>5, <1>6, <1>7, <1>8, <1>9 DEF Script

LEMMA ClientPasses ==
  ASSUME TypeOK, NEW c \in Callers, Call(c) \/ Create(c) \/ CreateFails(c) \/ Crash(c)
  PROVE  (\A d \in Callers : Passes(d)) /\ FilesPass
<1>0. FilesPass
  BY DEF Call, Ask, Propose, Refuse, StartClient, FailEarly, Answer, LoseClient, Raise, Terminate,
         Kill, RemovalFails, Create, CreateFails, Crash, FilesPass
<1>1. CASE \/ Ask(c) \/ (\E reply \in Replies : Propose(c, reply)) \/ Refuse(c) \/ FailEarly(c)
           \/ RemovalFails(c) \/ Crash(c)
  <2>1. box' = box
    BY <1>1 DEF Ask, Propose, Refuse, FailEarly, RemovalFails, Crash
  <2> QED BY <1>0, <2>1 DEF Passes
<1>2. CASE StartClient(c) \/ Answer(c) \/ LoseClient(c) \/ Raise(c)
  <2>1. PICK client \in BOOLEAN : box' = [box EXCEPT ![c].client = client]
    BY <1>2 DEF StartClient, Answer, LoseClient, Raise
  <2>2. /\ \A d \in Callers : box'[d].at = box[d].at /\ box'[d].seen = box[d].seen
      /\ \A d \in Callers : box'[d].code = box[d].code /\ box'[d].noisy = box[d].noisy
    BY <2>1 DEF TypeOK, Boxes
  <2> QED BY <1>0, <2>2 DEF Passes
<1>3. CASE Terminate(c)
  <2>1. \A d \in Callers : /\ box'[d].at = box[d].at /\ box'[d].seen = box[d].seen
                           /\ box'[d].code = box[d].code /\ box'[d].noisy = box[d].noisy
    BY <1>3 DEF Terminate, TypeOK, Boxes
  <2> QED BY <1>0, <2>1 DEF Passes
<1>4. CASE Kill(c)
  <2>1. \A d \in Callers : box'[d] = box[d] \/ (Live(d) /\ box'[d] = Killed(box[d]))
    BY <1>4 DEF Kill
  <2>2. \A d \in Callers : Killed(box[d]).at = "exited" /\ Killed(box[d]).code = 137
    BY DEF Killed, TypeOK, Boxes
  <2> QED BY <1>0, <2>1, <2>2 DEF Passes
<1>5. CASE Create(c)
  <2>1. (\A d \in Callers \ {c} : box'[d] = box[d]) /\ box'[c].at = "check"
    BY <1>5 DEF Create, TypeOK, Boxes
  <2> QED BY <1>0, <1>5, <2>1 DEF Passes, Create
<1>6. CASE CreateFails(c)
  <2>1. /\ \A d \in Callers \ {c} : box'[d] = box[d]
        /\ box'[c].at = "exited" /\ box'[c].code # 0
    BY <1>6 DEF CreateFails, TypeOK, Boxes
  <2> QED BY <1>0, <2>1 DEF Passes
<1> QED BY <1>1, <1>2, <1>3, <1>4, <1>5, <1>6 DEF Call

LEMMA PowerPasses ==
  ASSUME TypeOK, PowerFails
  PROVE  \A d \in Callers : Passes(d) /\ ~Live(d)'
<1> SUFFICES ASSUME NEW d \in Callers PROVE Passes(d) /\ ~Live(d)'
  OBVIOUS
<1>0. box[d] \in Boxes
  BY DEF TypeOK
<1>1. CASE Live(d)
  <2>1. box'[d] = [Killed(box[d]) EXCEPT !.client = FALSE]
    BY <1>1 DEF PowerFails
  <2>2. box'[d].at = "exited" /\ box'[d].code = 137
    BY <1>0, <2>1 DEF Killed, Boxes
  <2> QED BY <2>2 DEF Passes, Live, ScriptSteps
<1>2. CASE ~Live(d)
  <2>1. box'[d] = [box[d] EXCEPT !.client = FALSE]
    BY <1>2 DEF PowerFails
  <2>2. /\ box'[d].at = box[d].at /\ box'[d].seen = box[d].seen
        /\ box'[d].code = box[d].code /\ box'[d].noisy = box[d].noisy
    BY <1>0, <2>1 DEF Boxes
  <2> QED BY <1>2, <2>2 DEF Passes, Live
<1> QED BY <1>1, <1>2

LEMMA AllPass ==
  ASSUME TypeOK, [Next]_vars
  PROVE  (\A d \in Callers : Passes(d)) /\ FilesPass
<1>1. ASSUME NEW f \in Files, Meddle(f) PROVE (\A d \in Callers : Passes(d)) /\ FilesPass
  BY <1>1 DEF Meddle, Passes, FilesPass
<1>2. CASE PowerFails
  BY <1>2, PowerPasses DEF FilesPass
<1>3. CASE UNCHANGED vars
  BY <1>3 DEF vars, Passes, FilesPass
<1> QED BY <1>1, <1>2, <1>3, ScriptPasses, ClientPasses DEF Next

-----------------------------------------------------------------------------
(* Nothing is overwritten. *)

OneLive == \A c, d \in Callers : Live(c) /\ Live(d) => c = d

\* Between the comparison and the rename only another program writes the file.
Watching(c) ==
    box[c].at \in Comparing => now[File(c)].n = box[c].seen \/ now[File(c)].by = Outside

\* The writes of other programs are known.
OutsideKnown ==
    \A f \in Files : \A v \in after[f] \cup {now[f]} :
        v.by = Outside => \E o \in written : o.n = v.n /\ o.by = Outside

Watched == OneLive /\ (\A c \in Callers : Watching(c)) /\ OutsideKnown /\ NothingOverwritten

LEMMA WatchedInit == OthersAssumption => (Init => Watched)
<1> SUFFICES ASSUME OthersAssumption, Init PROVE Watched
  OBVIOUS
<1>1. \A c \in Callers : box[c].at = "none"
  BY DEF Init, NoBox
<1>2. OneLive /\ (\A c \in Callers : Watching(c)) /\ NothingOverwritten
  BY <1>1 DEF Init, OneLive, Live, ScriptSteps, Watching, Comparing, NothingOverwritten
<1>3. OutsideKnown
  BY DEF Init, OutsideKnown, OthersAssumption
<1> QED BY <1>2, <1>3 DEF Watched

\* A container keeps its work.
LEMMA WorkKept ==
  ASSUME TypeOK, Local, [Next]_vars, NEW c \in Callers, box[c].at # "none"
  PROVE  File(c)' = File(c) /\ Work(c)' = Work(c)
<1>1. caller'[c].replaces = caller[c].replaces
  <2>1. ASSUME NEW d \in Callers, NEW reply \in Replies, Propose(d, reply)
        PROVE  caller'[c].replaces = caller[c].replaces
    <3>1. d # c
      BY <2>1 DEF Propose, Local, LocalOf, OutcomeMeans, Untouched, At
    <3> QED BY <2>1, <3>1 DEF Propose, TypeOK
  <2>2. ASSUME NEW d \in Callers, Ask(d)
        PROVE  caller'[c].replaces = caller[c].replaces
    BY <2>2 DEF Ask, TypeOK, Callings
  <2>3. ASSUME NEW d \in Callers, NEW outcome, End(d, outcome)
        PROVE  caller'[c].replaces = caller[c].replaces
    BY <2>3 DEF End, TypeOK, Callings
  <2>4. ASSUME NEW d \in Callers, NEW place, caller' = [caller EXCEPT ![d].at = place]
        PROVE  caller'[c].replaces = caller[c].replaces
    BY <2>4 DEF TypeOK, Callings
  <2>5. ASSUME NEW d \in Callers, Call(d) \/ Crash(d)
        PROVE  caller'[c].replaces = caller[c].replaces
    BY <2>1, <2>2, <2>3, <2>4, <2>5 DEF Call, Refuse, StartClient, FailEarly, Answer, LoseClient,
       Raise, Terminate, Kill, RemovalFails, Crash
  <2>6. CASE UNCHANGED caller
    BY <2>6
  <2>7. CASE PowerFails
    BY <2>7 DEF PowerFails, TypeOK, Callings
  <2>8. ASSUME NEW d \in Callers, Create(d) \/ CreateFails(d) \/ Script(d)
        PROVE  UNCHANGED caller
    BY <2>8 DEF Create, CreateFails, Script, CheckTarget, MakeTemp, Fill, HashTemp, SyncTemp,
                Rename, LookAgain, Flush, Confirm
  <2> QED BY <2>5, <2>6, <2>7, <2>8 DEF Next, vars, Meddle
<1> QED BY <1>1 DEF File, Work

LEMMA OneLiveNext ==
  ASSUME TypeOK, OneLive, \A d \in Callers : Passes(d)
  PROVE  OneLive'
<1>1. \A d \in Callers : Live(d)' => Live(d) \/ Create(d)
  BY DEF Passes, Live, ScriptSteps, Comparing, Renames
<1>2. ASSUME NEW d \in Callers, Create(d)
      PROVE  \A e \in Callers \ {d} : ~Live(e)'
  <2>1. \A e \in Callers \ {d} : ~Live(e) /\ box'[e] = box[e]
    BY <1>2 DEF Create, NameFree, TypeOK
  <2> QED BY <2>1 DEF Live
<1> QED BY <1>1, <1>2 DEF OneLive

\* A write, by whom it may be.
LEMMA KnownWrite ==
  ASSUME TypeOK, OutsideKnown, NEW f \in Files, NEW by, NEW content, NEW seen, NEW whole,
         Write(f, by, content, seen, whole)
  PROVE  OutsideKnown'
<1> DEFINE new == NewVersion(f, by, content)
           lost == [new EXCEPT !.whole = whole]
           write == [path |-> f, n |-> new.n, by |-> by, content |-> content,
                     seen |-> seen, over |-> now[f].n]
<1>1. /\ now' = [now EXCEPT ![f] = new]
      /\ after' = [after EXCEPT ![f] = @ \cup {new} \cup {lost}]
      /\ written' = written \cup {write}
  BY DEF Write
<1>2. /\ new.by = by /\ lost.by = by /\ lost.n = new.n
      /\ write.n = new.n /\ write.by = by
  BY DEF NewVersion
<1> HIDE DEF new, lost, write
<1>3. ASSUME NEW g \in Files, NEW v \in after'[g] \cup {now'[g]}, v.by = Outside
      PROVE  \E o \in written' : o.n = v.n /\ o.by = Outside
  <2>1. CASE v \in {new, lost}
    BY <1>1, <1>2, <1>3, <2>1
  <2>2. CASE v \in after[g] \cup {now[g]}
    BY <1>1, <1>3, <2>2 DEF OutsideKnown
  <2> QED BY <1>1, <1>3, <2>1, <2>2 DEF TypeOK
<1> QED BY <1>3 DEF OutsideKnown

LEMMA KnownNext ==
  ASSUME TypeOK, Local, OutsideKnown, FilesPass
  PROVE  OutsideKnown'
<1>1. CASE now' = now /\ written' = written
           /\ (after' = after \/ after' = [f \in Files |-> {now[f]}])
  BY <1>1 DEF OutsideKnown
<1>2. ASSUME NEW c \in Callers, Renames(c) PROVE OutsideKnown'
  BY <1>2, WorkType, KnownWrite DEF Renames
<1>3. ASSUME NEW f \in Files, Meddle(f) PROVE OutsideKnown'
  BY <1>3, KnownWrite DEF Meddle
<1>4. CASE PowerFails
  BY <1>4 DEF PowerFails, OutsideKnown, TypeOK
<1> QED BY <1>1, <1>2, <1>3, <1>4 DEF FilesPass

LEMMA WatchingNext ==
  ASSUME TypeOK, Local, OneLive, OthersAssumption, [Next]_vars, FilesPass,
         \A d \in Callers : Passes(d), \A d \in Callers : Watching(d)
  PROVE  \A d \in Callers : Watching(d)'
<1> SUFFICES ASSUME NEW d \in Callers, box'[d].at \in Comparing
             PROVE  now'[File(d)'].n = box'[d].seen \/ now'[File(d)'].by = Outside
  BY DEF Watching, Comparing
<1>1. \/ box[d].at \in Comparing /\ box'[d].seen = box[d].seen
      \/ box[d].at = "check" /\ box'[d].seen = now[File(d)].n /\ now' = now
  BY DEF Passes, Comparing, Renames
<1>2. box[d].at # "none" /\ Live(d) /\ Live(d)'
  BY <1>1 DEF Comparing, Live, ScriptSteps
<1>3. File(d)' = File(d) /\ File(d) \in Files
  BY <1>2, WorkKept, WorkType
<1>4. CASE now' = now
  BY <1>1, <1>3, <1>4 DEF Watching
<1>5. ASSUME NEW c \in Callers, Renames(c) PROVE FALSE
  <2>1. c = d
    BY <1>2, <1>5 DEF OneLive, Renames, Live, ScriptSteps
  <2> QED BY <1>5, <2>1 DEF Renames, Comparing
<1>6. ASSUME NEW f \in Files, Meddle(f)
      PROVE  now'[File(d)'].n = box'[d].seen \/ now'[File(d)'].by = Outside
  <2>1. PICK content : Write(f, Outside, content, now[f].n, TRUE)
    BY <1>6 DEF Meddle
  <2>2. now' = [now EXCEPT ![f] = NewVersion(f, Outside, content)]
    BY <2>1 DEF Write
  <2>3. CASE f = File(d)
    BY <1>3, <2>2, <2>3 DEF NewVersion, TypeOK
  <2>4. CASE f # File(d)
    <3>1. now'[File(d)] = now[File(d)] /\ box' = box
      BY <1>3, <1>6, <2>2, <2>4 DEF TypeOK, Meddle
    <3> QED BY <1>3, <3>1 DEF Watching
  <2> QED BY <2>3, <2>4
<1>7. ~PowerFails
  BY <1>2, PowerPasses
<1> QED BY <1>4, <1>5, <1>6, <1>7 DEF FilesPass

LEMMA OverwrittenNext ==
  ASSUME TypeOK, Local, OutsideKnown, NothingOverwritten, FilesPass,
         \A d \in Callers : Watching(d)
  PROVE  NothingOverwritten'
<1>1. CASE written' = written
  BY <1>1 DEF NothingOverwritten
<1>2. ASSUME NEW w, written' = written \cup {w},
             w.by # Outside => \/ w.over = w.seen
                              \/ \E o \in written : o.n = w.over /\ o.by = Outside
      PROVE  NothingOverwritten'
  BY <1>2 DEF NothingOverwritten
<1>3. ASSUME NEW c \in Callers, Renames(c) PROVE NothingOverwritten'
  <2> DEFINE w == [path |-> File(c), n |-> NewVersion(File(c), c, Work(c).content).n, by |-> c,
                   content |-> Work(c).content, seen |-> box[c].seen, over |-> now[File(c)].n]
  <2>1. written' = written \cup {w}
    BY <1>3 DEF Renames, Write
  <2>2. File(c) \in Files /\ (now[File(c)].n = box[c].seen \/ now[File(c)].by = Outside)
    BY <1>3, WorkType DEF Renames, Watching, Comparing
  <2>3. \/ w.over = w.seen
        \/ \E o \in written : o.n = w.over /\ o.by = Outside
    BY <2>2 DEF OutsideKnown
  <2> HIDE DEF w
  <2> QED BY <1>2, <2>1, <2>3
<1>4. ASSUME NEW f \in Files, Meddle(f) PROVE NothingOverwritten'
  <2>1. PICK content : Write(f, Outside, content, now[f].n, TRUE)
    BY <1>4 DEF Meddle
  <2> DEFINE w == [path |-> f, n |-> NewVersion(f, Outside, content).n, by |-> Outside,
                   content |-> content, seen |-> now[f].n, over |-> now[f].n]
  <2>2. written' = written \cup {w} /\ w.by = Outside
    BY <2>1 DEF Write
  <2> HIDE DEF w
  <2> QED BY <1>2, <2>2
<1>5. CASE PowerFails
  BY <1>1, <1>5 DEF PowerFails
<1> QED BY <1>1, <1>3, <1>4, <1>5 DEF FilesPass

LEMMA WatchedNext ==
  ASSUME TypeOK, Local, Watched, OthersAssumption, [Next]_vars
  PROVE  Watched'
<1>1. (\A d \in Callers : Passes(d)) /\ FilesPass
  BY AllPass
<1> QED BY <1>1, OneLiveNext, KnownNext, WatchingNext, OverwrittenNext DEF Watched

-----------------------------------------------------------------------------
(* What was applied stays. *)

Numbered == \A w \in written : w.n <= Cardinality(written)

Flushed(c) == box[c].at = "print" \/ (box[c].at = "exited" /\ box[c].code = 0 /\ ~box[c].noisy)

Moved(c) == box[c].at \in {"look", "flush"} \/ Flushed(c)

\* w is the write of c, and nothing older can be read, or be left once flushed.
StaysAs(c, w) ==
    /\ w.by = c /\ w.path = File(c) /\ w.content = Work(c).content
    /\ now[File(c)].n >= w.n
    /\ Flushed(c) => \A v \in after[File(c)] : v.n >= w.n

Placed == \A c \in Callers : Moved(c) => \E w \in written : StaysAs(c, w)

LEMMA PlacedInit == Init => Numbered /\ Placed
<1> SUFFICES ASSUME Init PROVE Numbered /\ Placed
  OBVIOUS
<1>1. \A c \in Callers : box[c].at = "none"
  BY DEF Init, NoBox
<1> QED BY <1>1 DEF Init, Numbered, Placed, Moved, Flushed

\* A write is newer than every other one.
LEMMA NumberedWrite ==
  ASSUME TypeOK, Numbered, NEW f \in Files, NEW by, NEW content, NEW seen, NEW whole,
         Write(f, by, content, seen, whole)
  PROVE  /\ Numbered'
         /\ \A g \in Files :
               now'[g] = now[g] \/ (g = f /\ now'[g].n = Cardinality(written) + 1)
         /\ \A g \in Files : \A v \in after'[g] :
               v \in after[g] \/ v.n = Cardinality(written) + 1
         /\ \A w \in written : w \in written'
<1> DEFINE new == NewVersion(f, by, content)
           lost == [new EXCEPT !.whole = whole]
           write == [path |-> f, n |-> new.n, by |-> by, content |-> content,
                     seen |-> seen, over |-> now[f].n]
<1>1. /\ now' = [now EXCEPT ![f] = new]
      /\ after' = [after EXCEPT ![f] = @ \cup {new} \cup {lost}]
      /\ written' = written \cup {write}
  BY DEF Write
<1>2. /\ new.n = Cardinality(written) + 1 /\ lost.n = Cardinality(written) + 1
      /\ write.n = Cardinality(written) + 1
  BY DEF NewVersion
<1> HIDE DEF new, lost, write
<1>3. Cardinality(written) \in Nat /\ \A w \in written : w.n \in Nat
  BY FS_CardinalityType DEF TypeOK, Writes
<1>4. write \notin written
  BY <1>2, <1>3 DEF Numbered
<1>5. Cardinality(written') = Cardinality(written) + 1
  BY <1>1, <1>4, FS_AddElement DEF TypeOK
<1>6. Numbered'
  BY <1>1, <1>2, <1>3, <1>5 DEF Numbered
<1>7. \A g \in Files : now'[g] = now[g] \/ (g = f /\ now'[g].n = Cardinality(written) + 1)
  BY <1>1, <1>2 DEF TypeOK
<1>8. \A g \in Files : \A v \in after'[g] : v \in after[g] \/ v.n = Cardinality(written) + 1
  BY <1>1, <1>2 DEF TypeOK
<1>9. \A w \in written : w \in written'
  BY <1>1
<1> QED BY <1>6, <1>7, <1>8, <1>9

\* How the versions of a file grow.
Grows ==
    /\ \A g \in Files :
          \/ now'[g] = now[g]
          \/ now'[g].n = Cardinality(written) + 1
          \/ PowerFails /\ now'[g] \in after[g]
    /\ \A g \in Files : \A v \in after'[g] :
          \/ v \in after[g]
          \/ v.n = Cardinality(written) + 1
          \/ v = now'[g]
    /\ \A w \in written : w \in written'

LEMMA GrowsNext ==
  ASSUME TypeOK, Local, Numbered, FilesPass
  PROVE  Numbered' /\ Grows
<1>1. CASE now' = now /\ written' = written
           /\ (after' = after \/ after' = [f \in Files |-> {now[f]}])
  BY <1>1 DEF Numbered, Grows
<1>2. ASSUME NEW c \in Callers, Renames(c) PROVE Numbered' /\ Grows
  <2>1. File(c) \in Files
    BY <1>2, WorkType DEF Renames
  <2> QED BY <1>2, <2>1, NumberedWrite DEF Renames, Grows
<1>3. ASSUME NEW f \in Files, Meddle(f) PROVE Numbered' /\ Grows
  <2>1. PICK content : Write(f, Outside, content, now[f].n, TRUE)
    BY <1>3 DEF Meddle
  <2> QED BY <2>1, NumberedWrite DEF Grows
<1>4. CASE PowerFails
  <2>1. written' = written
    BY <1>4 DEF PowerFails
  <2>2. \A g \in Files : now'[g] \in after[g]
    BY <1>4 DEF PowerFails
  <2>3. \A g \in Files : after'[g] = {now'[g]}
    BY <1>4 DEF PowerFails
  <2> QED BY <1>4, <2>1, <2>2, <2>3 DEF Numbered, Grows
<1> QED BY <1>1, <1>2, <1>3, <1>4 DEF FilesPass

LEMMA PlacedNext ==
  ASSUME TypeOK, Local, OthersAssumption, Numbered, Placed, [Next]_vars
  PROVE  Numbered' /\ Placed'
<1>0. (\A d \in Callers : Passes(d)) /\ FilesPass
  BY AllPass
<1>1. Numbered' /\ Grows
  BY <1>0, GrowsNext
<1>2. /\ Cardinality(written) \in Nat
      /\ \A w \in written : w.n \in Nat /\ w.n <= Cardinality(written)
      /\ \A g \in Files : now[g].n \in Nat /\ \A v \in after[g] : v.n \in Nat
  BY FS_CardinalityType DEF TypeOK, Writes, Numbered, Versions
<1>3. ASSUME NEW c \in Callers, Moved(c)', ~Renames(c)
      PROVE  \E w \in written' : StaysAs(c, w)'
  <2>1. /\ Moved(c)
        /\ \/ Flushed(c)' => Flushed(c)
           \/ after' = [f \in Files |-> {now[f]}] /\ now' = now
    BY <1>0, <1>3 DEF Passes, Moved, Flushed, Comparing
  <2>2. PICK w \in written : StaysAs(c, w)
    BY <2>1 DEF Placed
  <2>3. File(c)' = File(c) /\ Work(c)' = Work(c) /\ File(c) \in Files
    BY <2>1, WorkKept, WorkType DEF Moved, Flushed
  <2>4. now'[File(c)].n >= w.n
    <3>1. CASE now'[File(c)] = now[File(c)] \/ now'[File(c)].n = Cardinality(written) + 1
      BY <1>2, <2>2, <2>3, <3>1 DEF StaysAs
    <3>2. CASE PowerFails /\ now'[File(c)] \in after[File(c)]
      <4>1. ~Live(c)'
        BY <3>2, PowerPasses
      <4>2. box'[c].at = "exited"
        BY <1>3, <4>1 DEF Moved, Flushed, Live, ScriptSteps
      <4>3. ~Live(c) /\ Flushed(c)
        <5>1. CASE Live(c)
          <6>1. box'[c] = [Killed(box[c]) EXCEPT !.client = FALSE] /\ box[c] \in Boxes
            BY <3>2, <5>1 DEF PowerFails, TypeOK
          <6>2. box'[c].code = 137 /\ box'[c].at = "exited"
            BY <6>1 DEF Killed, Boxes
          <6> QED BY <1>3, <6>2 DEF Moved, Flushed
        <5>2. CASE ~Live(c)
          BY <2>1, <5>2 DEF Moved, Flushed, Live, ScriptSteps
        <5> QED BY <5>1, <5>2
      <4> QED BY <2>2, <3>2, <4>3 DEF StaysAs
    <3> QED BY <1>1, <2>3, <3>1, <3>2 DEF Grows
  <2>5. Flushed(c)' => \A v \in after'[File(c)] : v.n >= w.n
    <3>1. CASE Flushed(c)
      BY <1>1, <1>2, <2>2, <2>3, <3>1 DEF Grows, StaysAs
    <3>2. CASE after' = [f \in Files |-> {now[f]}] /\ now' = now
      BY <2>2, <2>3, <3>2 DEF StaysAs
    <3> QED BY <2>1, <3>1, <3>2
  <2>6. w \in written'
    BY <1>1 DEF Grows
  <2>7. StaysAs(c, w)'
    BY <2>2, <2>3, <2>4, <2>5 DEF StaysAs
  <2> QED BY <2>6, <2>7
<1>4. ASSUME NEW c \in Callers, Renames(c)
      PROVE  \E w \in written' : StaysAs(c, w)'
  <2> DEFINE new == NewVersion(File(c), c, Work(c).content)
  <2>1. File(c)' = File(c) /\ Work(c)' = Work(c) /\ File(c) \in Files
    BY <1>4, WorkKept, WorkType DEF Renames
  <2>2. \E w \in written' :
          w.by = c /\ w.path = File(c) /\ w.content = Work(c).content /\ w.n = new.n
    <3> DEFINE write == [path |-> File(c), n |-> new.n, by |-> c, content |-> Work(c).content,
                         seen |-> box[c].seen, over |-> now[File(c)].n]
    <3>1. write \in written'
      BY <1>4 DEF Renames, Write
    <3>2. /\ write.by = c /\ write.path = File(c) /\ write.content = Work(c).content
          /\ write.n = new.n
      OBVIOUS
    <3> HIDE DEF write
    <3> QED BY <3>1, <3>2
  <2>a. PICK w \in written' :
          w.by = c /\ w.path = File(c) /\ w.content = Work(c).content /\ w.n = new.n
    BY <2>2
  <2>3. now' = [now EXCEPT ![File(c)] = new]
    BY <1>4 DEF Renames, Write
  <2>4. new.n \in Nat
    BY <1>2 DEF NewVersion
  <2> HIDE DEF new
  <2>5. now'[File(c)].n >= w.n
    BY <2>1, <2>a, <2>3, <2>4 DEF TypeOK
  <2>6. ~Flushed(c)'
    BY <1>4 DEF Renames, Flushed
  <2>7. StaysAs(c, w)'
    BY <2>1, <2>a, <2>5, <2>6 DEF StaysAs
  <2> QED BY <2>a, <2>7
<1> QED BY <1>1, <1>3, <1>4 DEF Placed

-----------------------------------------------------------------------------
(* The theorems. *)

\* The inductive invariant.
TextIInv == TypeOK /\ Local /\ NeverHalf /\ Watched /\ Numbered /\ Placed

LEMMA TextInvariant == Spec => []TextIInv
<1>1. Init => TextIInv
  BY InitType, LocalInit, HalfInit, WatchedInit, PlacedInit, OthersAssumption DEF TextIInv
<1>2. TextIInv /\ [Next]_vars => TextIInv'
  BY TypeNext, LocalNext, HalfNext, WatchedNext, PlacedNext, OthersAssumption DEF TextIInv
<1> QED BY <1>1, <1>2, PTL DEF Spec

(***************************************************************************)
(* The variables keep their types.                                         *)
(***************************************************************************)
THEOREM TextTypeCorrect == Spec => []TypeOK
<1>1. TextIInv => TypeOK
  BY DEF TextIInv
<1> QED BY <1>1, TextInvariant, PTL

(***************************************************************************)
(* What a pipeline reports as applied has been written, and no power       *)
(* failure takes it back (replacement_outcome.py, the script of            *)
(* attested_text_replacement.py): the script prints its sentinel only      *)
(* after the file system was flushed.                                      *)
(***************************************************************************)
THEOREM AppliedIsDurable == Spec => []AppliedStays
<1>1. ASSUME TextIInv, NEW c \in Callers, caller[c].outcome = "applied"
      PROVE  \A r \in caller[c].replaces : \E w \in written :
                /\ w.by = c /\ w.path = r.path /\ w.content = r.content
                /\ \A v \in after[r.path] : v.n >= w.n
  <2>1. Flushed(c)
    BY <1>1 DEF TextIInv, Local, LocalOf, OutcomeMeans, Flushed
  <2>2. caller[c].replaces = {Work(c)}
    BY <1>1, <2>1, WorkType DEF TextIInv, Flushed
  <2>3. PICK w \in written : StaysAs(c, w)
    BY <1>1, <2>1 DEF TextIInv, Placed, Moved
  <2> QED BY <2>1, <2>2, <2>3 DEF StaysAs, File
<1>2. TextIInv => AppliedStays
  BY <1>1 DEF AppliedStays
<1> QED BY <1>2, TextInvariant, PTL

(***************************************************************************)
(* A refused or rejected pipeline has changed nothing: a silent end with   *)
(* the code of a failed test comes only before the rename                  *)
(* (replacement_outcome.py, PRECONDITION_EXITS).                           *)
(***************************************************************************)
THEOREM RejectedIsClean == Spec => []RejectedChangedNothing
<1>1. ASSUME TextIInv, NEW c \in Callers, caller[c].outcome \in {"refused", "rejected"}
      PROVE  (\A w \in written : w.by # c) /\ box[c].temp = "none"
  <2>1. Unmoved(c)
    BY <1>1 DEF TextIInv, Local, LocalOf, OutcomeMeans, Untouched, Unmoved
  <2>2. box[c].temp = "none"
    BY <1>1 DEF TextIInv, Local, LocalOf, OutcomeMeans, Untouched, TempKept
  <2> QED BY <1>1, <2>1, <2>2 DEF TextIInv, Local, Clean
<1>2. TextIInv => RejectedChangedNothing
  BY <1>1 DEF RejectedChangedNothing
<1> QED BY <1>2, TextInvariant, PTL

(***************************************************************************)
(* Controllers of one workspace do not overwrite each other: the name of   *)
(* the container is the lock between comparing and renaming                *)
(* (attested_payload_runner.py, --name).                                   *)
(***************************************************************************)
THEOREM ReplacesWhatWasSeen == Spec => []NothingOverwritten
<1>1. TextIInv => NothingOverwritten
  BY DEF TextIInv, Watched
<1> QED BY <1>1, TextInvariant, PTL

(***************************************************************************)
(* A file is whole at every moment and after every power failure: the      *)
(* bytes are written back before the rename (attested_text_replacement.py, *)
(* sync -d before mv).                                                     *)
(***************************************************************************)
THEOREM FilesAreWhole == Spec => []NeverHalf
<1>1. TextIInv => NeverHalf
  BY DEF TextIInv
<1> QED BY <1>1, TextInvariant, PTL

=============================================================================
