--------------------------- MODULE TextReplacement ---------------------------
(***************************************************************************)
(* One text mutation of td_controller: mutation_pipeline.py asks a broker  *)
(* for a proposal (text_mutation_broker.py, text_mutation_contract.py) and *)
(* has its one replacement applied by a shell script in a container        *)
(* (attested_text_replacement.py, attested_payload_runner.py), whose exit  *)
(* replacement_outcome.py judges.                                          *)
(*                                                                         *)
(* Every caller is a controller process that runs one pipeline on the same *)
(* workspace.  A caller may die; its podman client and its container live  *)
(* on.  Containers carry the name of the workspace generation, so podman   *)
(* runs one of them at a time, and whoever cleans up removes that one.     *)
(* Programs outside the controller may write the files too.                *)
(***************************************************************************)
EXTENDS Naturals, FiniteSets

CONSTANTS
    Callers,     \* controller processes, one pipeline each
    Files,       \* text files of the workspace
    Contents,    \* what a file may hold; a digest stands for its content
    Original,    \* what every file holds at first
    Selections,  \* input bound: the sets of files a controller selects
    Outside,     \* any other program
    Nobody,
    MaxOutside,  \* bound: the writes of other programs
    MaxFailures  \* bound: the power failures

ASSUME OriginalAssumption == Original \in Contents
ASSUME SelectionAssumption == Selections \subseteq (SUBSET Files) \ {{}}
ASSUME OthersAssumption == {Outside, Nobody} \cap Callers = {} /\ Outside # Nobody
ASSUME BoundsAssumption == MaxOutside \in Nat /\ MaxFailures \in Nat

VARIABLES
    now,       \* now[f]: the version of f a reader sees
    after,     \* after[f]: the versions of f a power failure may leave
    written,   \* history: every write of a file
    caller,    \* caller[c]: where the pipeline of c is
    box,       \* box[c]: the container of c
    failures   \* the power failures so far

vars == <<now, after, written, caller, box, failures>>

\* A version is a whole file, or one whose bytes were lost.
Versions == [n : Nat, by : Callers \cup {Outside, Nobody}, content : Contents, whole : BOOLEAN]

Replacements == [path : Files, expected : Contents, content : Contents]

\* The selected files, each with the digest it had.
Requests == UNION {[F -> Contents] : F \in SUBSET Files}

\* A write of the version n of a file over the version over; the writer had
\* last looked at the version seen.
Writes == [path : Files, n : Nat, by : Callers \cup {Outside}, content : Contents,
           seen : Nat, over : Nat]

\* What a broker session may answer, for whichever call it was started.
Replies == [nonce : Callers,
            replaces : {R \in SUBSET Replacements : IsFiniteSet(R) /\ Cardinality(R) \in {1, 2}}]

ScriptSteps == {"check", "temp", "fill", "hash", "sync", "move", "look", "flush", "print"}

Callings == [at : {"idle", "asking", "starting", "running", "cleaning", "killing", "over", "dead"},
             request : Requests,
             replaces : SUBSET Replacements,
             outcome : {"none", "refused", "applied", "rejected", "indeterminate"}]

Boxes == [at : ScriptSteps \cup {"none", "exited"}, client : BOOLEAN,
          seen : Nat, temp : {"none", "part", "whole"}, synced : BOOLEAN,
          code : {0, 1, 41, 43, 51, 52, 125, 137}, noisy : BOOLEAN]

NoBox == [at |-> "none", client |-> FALSE, seen |-> 0, temp |-> "none",
          synced |-> FALSE, code |-> 0, noisy |-> FALSE]

Init ==
    /\ now = [f \in Files |-> [n |-> 0, by |-> Nobody, content |-> Original, whole |-> TRUE]]
    /\ after = [f \in Files |-> {now[f]}]
    /\ written = {}
    /\ caller = [c \in Callers |->
                   [at |-> "idle", request |-> [f \in {} |-> Original],
                    replaces |-> {}, outcome |-> "none"]]
    /\ box = [c \in Callers |-> NoBox]
    /\ failures = 0

-----------------------------------------------------------------------------
(* The request and the proposal. *)

At(c, place) == caller[c].at = place

End(c, outcome) == caller' = [caller EXCEPT ![c].at = "over", ![c].outcome = outcome]

\* The controller selects files as they are and builds the request.
Ask(c) ==
    /\ At(c, "idle")
    /\ \E selected \in Selections :
          caller' = [caller EXCEPT ![c].at = "asking",
                                   ![c].request = [f \in selected |-> now[f].content]]
    /\ UNCHANGED <<now, after, written, box, failures>>

\* The reply answers this very request, with changes of files it selected.
Bound(c, reply) ==
    LET request == caller[c].request IN
    /\ reply.nonce = c
    /\ \A r \in reply.replaces :
          /\ r.path \in DOMAIN request
          /\ r.expected = request[r.path]
          /\ r.content # r.expected
    /\ \A r, s \in reply.replaces : r.path = s.path => r = s

\* One container applies one replacement.
Single(reply) == Cardinality(reply.replaces) = 1

Propose(c, reply) ==
    /\ At(c, "asking")
    /\ Bound(c, reply) /\ Single(reply)
    /\ caller' = [caller EXCEPT ![c].at = "starting", ![c].replaces = reply.replaces]
    /\ UNCHANGED <<now, after, written, box, failures>>

\* The broker raises, or its reply does not authorize one replacement.
Refuse(c) ==
    /\ At(c, "asking")
    /\ End(c, "refused")
    /\ UNCHANGED <<now, after, written, box, failures>>

\* The replacement that is applied.
Work(c) == CHOOSE r \in caller[c].replaces : TRUE

-----------------------------------------------------------------------------
(* The container and its script. *)

Live(c) == box[c].at \in ScriptSteps

\* Mutant of NameFree: containers without a name.
AnyName(c) == TRUE

\* podman keeps one container of a name.
NameFree(c) == \A d \in Callers : ~Live(d)

\* The pipeline has attested the runtime under its hold and starts podman.
StartClient(c) ==
    /\ At(c, "starting")
    /\ caller' = [caller EXCEPT ![c].at = "running"]
    /\ box' = [box EXCEPT ![c].client = TRUE]
    /\ UNCHANGED <<now, after, written, failures>>

\* The hold or the attestation of the runtime fails: nothing was started.
FailEarly(c) ==
    /\ At(c, "starting")
    /\ End(c, "indeterminate")
    /\ UNCHANGED <<now, after, written, box, failures>>

\* podman runs the launcher, which runs the script.
Create(c) ==
    /\ box[c].at = "none" /\ box[c].client
    /\ NameFree(c)
    /\ box' = [box EXCEPT ![c].at = "check"]
    /\ UNCHANGED <<now, after, written, caller, failures>>

\* podman fails, as it does when the name is taken, or the launcher does.
CreateFails(c) ==
    /\ box[c].at = "none" /\ box[c].client
    /\ \/ box' = [box EXCEPT ![c].at = "exited", ![c].code = 125, ![c].noisy = TRUE]
       \/ \E code \in {1, 41, 43} :
             box' = [box EXCEPT ![c].at = "exited", ![c].code = code]
    /\ UNCHANGED <<now, after, written, caller, failures>>

Goes(c, place) == box' = [box EXCEPT ![c].at = place]

(***************************************************************************)
(* The script ends.  Its EXIT trap removes the temporary file, which may   *)
(* fail and then leaves words on the error stream.                         *)
(***************************************************************************)
Exits(c, code, noisy) ==
    \E removed \in BOOLEAN :
        /\ box[c].temp = "none" => removed
        /\ box' = [box EXCEPT ![c].at = "exited", ![c].code = code,
                              ![c].temp = IF removed THEN "none" ELSE @,
                              ![c].noisy = noisy \/ ~removed]

\* A test that does not hold ends the script without a word, a command that
\* fails with one.
TestFails(c, code) == Exits(c, code, FALSE)
CommandFails(c, code) == Exits(c, code, TRUE)

File(c) == Work(c).path

\* The identity, mode and digest of the target are compared.
CheckTarget(c) ==
    /\ box[c].at = "check"
    /\ \/ /\ now[File(c)].content = Work(c).expected /\ now[File(c)].whole
          /\ box' = [box EXCEPT ![c].at = "temp", ![c].seen = now[File(c)].n]
       \/ /\ now[File(c)].content # Work(c).expected \/ ~now[File(c)].whole
          /\ TestFails(c, 1)
       \/ TestFails(c, 51)
       \/ CommandFails(c, 1)
    /\ UNCHANGED <<now, after, written, caller, failures>>

MakeTemp(c) ==
    /\ box[c].at = "temp"
    /\ \/ box' = [box EXCEPT ![c].at = "fill", ![c].temp = "part"]
       \/ CommandFails(c, 1)
    /\ UNCHANGED <<now, after, written, caller, failures>>

\* Somebody still feeds the input of the container.
Fed(c) == box[c].client /\ At(c, "running")

\* cat copies the input, or the part of it that came before it was cut off.
\* It makes the file again if the trap of a signal has removed it.
Fill(c) ==
    /\ box[c].at = "fill"
    /\ \/ \E got \in {"part", "whole"} :
             /\ got = "part" => ~Fed(c)
             /\ box' = [box EXCEPT ![c].at = "hash", ![c].temp = got, ![c].synced = FALSE]
       \/ CommandFails(c, 1)
    /\ UNCHANGED <<now, after, written, caller, failures>>

HashTemp(c) ==
    /\ box[c].at = "hash"
    /\ \/ box[c].temp = "whole" /\ Goes(c, "sync")
       \/ box[c].temp = "part" /\ TestFails(c, 1)
       \/ CommandFails(c, 1)
    /\ UNCHANGED <<now, after, written, caller, failures>>

\* Mutant of SyncTemp: the bytes are not written back before the rename.
SyncTempNot(c) ==
    /\ box[c].at = "sync"
    /\ \/ box[c].temp # "none" /\ Goes(c, "move")
       \/ CommandFails(c, 1)
    /\ UNCHANGED <<now, after, written, caller, failures>>

\* chmod and sync -d.
SyncTemp(c) ==
    /\ box[c].at = "sync"
    /\ \/ /\ box[c].temp # "none"
          /\ box' = [box EXCEPT ![c].at = "move", ![c].synced = TRUE]
       \/ CommandFails(c, 1)
    /\ UNCHANGED <<now, after, written, caller, failures>>

\* A new version of f takes the place of the one a reader sees.
NewVersion(f, by, content) ==
    [n |-> Cardinality(written) + 1, by |-> by, content |-> content, whole |-> TRUE]

Write(f, by, content, seen, whole) ==
    LET new == NewVersion(f, by, content) IN
    /\ now' = [now EXCEPT ![f] = new]
    /\ after' = [after EXCEPT ![f] = @ \cup {new} \cup {[new EXCEPT !.whole = whole]}]
    /\ written' = written \cup {[path |-> f, n |-> new.n, by |-> by, content |-> content,
                                 seen |-> seen, over |-> now[f].n]}

\* mv -T: the bytes that were not synced may be lost with the power.
Rename(c) ==
    /\ box[c].at = "move"
    /\ \/ /\ box[c].temp # "none"
          /\ Write(File(c), c, Work(c).content, box[c].seen, box[c].synced)
          /\ box' = [box EXCEPT ![c].at = "look", ![c].temp = "none"]
       \/ CommandFails(c, 52) /\ UNCHANGED <<now, after, written>>
    /\ UNCHANGED <<caller, failures>>

\* Mutant of LookAgain: a failing test ends the script as every other one does.
LookAgainAsBefore(c) ==
    /\ box[c].at = "look"
    /\ \/ now[File(c)].content = Work(c).content /\ Goes(c, "flush")
       \/ now[File(c)].content # Work(c).content /\ TestFails(c, 1)
       \/ CommandFails(c, 52)
    /\ UNCHANGED <<now, after, written, caller, failures>>

\* The target is compared with what was put there.
LookAgain(c) ==
    /\ box[c].at = "look"
    /\ \/ now[File(c)].content = Work(c).content /\ Goes(c, "flush")
       \/ now[File(c)].content # Work(c).content /\ TestFails(c, 52)
       \/ CommandFails(c, 52)
    /\ UNCHANGED <<now, after, written, caller, failures>>

\* Mutant of Flush: the directory is not written back.
FlushNot(c) ==
    /\ box[c].at = "flush"
    /\ Goes(c, "print")
    /\ UNCHANGED <<now, after, written, caller, failures>>

\* sync -f writes back the whole file system.
Flush(c) ==
    /\ box[c].at = "flush"
    /\ \/ Goes(c, "print") /\ after' = [f \in Files |-> {now[f]}]
       \/ CommandFails(c, 52) /\ UNCHANGED after
    /\ UNCHANGED <<now, written, caller, failures>>

\* The sentinel is printed and the trap is taken back.
Confirm(c) ==
    /\ box[c].at = "print"
    /\ \/ Exits(c, 0, FALSE)
       \/ CommandFails(c, 52)
    /\ UNCHANGED <<now, after, written, caller, failures>>

Script(c) ==
    \/ CheckTarget(c) \/ MakeTemp(c) \/ Fill(c) \/ HashTemp(c) \/ SyncTemp(c)
    \/ Rename(c) \/ LookAgain(c) \/ Flush(c) \/ Confirm(c)

-----------------------------------------------------------------------------
(* The answer. *)

\* Only the sentinel with nothing else means applied, only a silent end of a
\* test before the rename means rejected.
Classify(code, noisy) ==
    IF noisy THEN "indeterminate"
    ELSE IF code = 0 THEN "applied"
    ELSE IF code \in {1, 51} THEN "rejected"
    ELSE "indeterminate"

\* podman returns the exit of the container.  The hold is verified once more
\* before it is believed.
Answer(c) ==
    /\ At(c, "running") /\ box[c].at = "exited"
    /\ \E outcome \in {Classify(box[c].code, box[c].noisy), "indeterminate"} : End(c, outcome)
    /\ box' = [box EXCEPT ![c].client = FALSE]
    /\ UNCHANGED <<now, after, written, failures>>

\* podman itself is killed or loses its container: nobody removes that.
LoseClient(c) ==
    /\ At(c, "running")
    /\ box' = [box EXCEPT ![c].client = FALSE]
    /\ End(c, "indeterminate")
    /\ UNCHANGED <<now, after, written, failures>>

\* The time limit, the output limit or an error of the operating system: the
\* executor kills podman and raises.
Raise(c) ==
    /\ At(c, "running")
    /\ box' = [box EXCEPT ![c].client = FALSE]
    /\ caller' = [caller EXCEPT ![c].at = "cleaning"]
    /\ UNCHANGED <<now, after, written, failures>>

\* podman rm -f sends TERM to the container of that name, whoever started it.
\* The trap removes the temporary file, and the script goes on.
Terminate(c) ==
    /\ At(c, "cleaning")
    /\ box' = [d \in Callers |-> IF Live(d) THEN [box[d] EXCEPT !.temp = "none"] ELSE box[d]]
    /\ caller' = [caller EXCEPT ![c].at = "killing"]
    /\ UNCHANGED <<now, after, written, failures>>

Killed(b) == [b EXCEPT !.at = "exited", !.code = 137, !.noisy = FALSE]

\* One second later it kills it.
Kill(c) ==
    /\ At(c, "killing")
    /\ box' = [d \in Callers |-> IF Live(d) THEN Killed(box[d]) ELSE box[d]]
    /\ End(c, "indeterminate")
    /\ UNCHANGED <<now, after, written, failures>>

\* The removal fails or times out.
RemovalFails(c) ==
    /\ At(c, "cleaning") \/ At(c, "killing")
    /\ End(c, "indeterminate")
    /\ UNCHANGED <<now, after, written, box, failures>>

Call(c) ==
    \/ Ask(c) \/ (\E reply \in Replies : Propose(c, reply)) \/ Refuse(c)
    \/ StartClient(c) \/ FailEarly(c)
    \/ Answer(c) \/ LoseClient(c) \/ Raise(c)
    \/ Terminate(c) \/ Kill(c) \/ RemovalFails(c)

-----------------------------------------------------------------------------
(* The rest of the world. *)

\* The controller dies; podman and its container do not.
Crash(c) ==
    /\ caller[c].at \notin {"idle", "over", "dead"}
    /\ caller' = [caller EXCEPT ![c].at = "dead"]
    /\ UNCHANGED <<now, after, written, box, failures>>

Meddle(f) ==
    /\ Cardinality({w \in written : w.by = Outside}) < MaxOutside
    /\ \E content \in Contents \ {now[f].content} : Write(f, Outside, content, now[f].n, TRUE)
    /\ UNCHANGED <<caller, box, failures>>

\* Every process ends, and each file is one of the versions that may be left.
PowerFails ==
    /\ failures < MaxFailures
    /\ failures' = failures + 1
    /\ now' \in {g \in [Files -> UNION {after[f] : f \in Files}] : \A f \in Files : g[f] \in after[f]}
    /\ after' = [f \in Files |-> {now'[f]}]
    /\ caller' = [c \in Callers |-> IF caller[c].at \in {"idle", "over"} THEN caller[c]
                                    ELSE [caller[c] EXCEPT !.at = "dead"]]
    /\ box' = [c \in Callers |-> IF Live(c) THEN [Killed(box[c]) EXCEPT !.client = FALSE]
                                 ELSE [box[c] EXCEPT !.client = FALSE]]
    /\ UNCHANGED written

Next ==
    \/ \E c \in Callers : Call(c) \/ Create(c) \/ CreateFails(c) \/ Script(c) \/ Crash(c)
    \/ \E f \in Files : Meddle(f)
    \/ PowerFails

Spec == Init /\ [][Next]_vars

-----------------------------------------------------------------------------
(* Correctness. *)

(***************************************************************************)
(* The types of the variables.                                             *)
(***************************************************************************)
TypeOK ==
    /\ now \in [Files -> Versions]
    /\ after \in [Files -> SUBSET Versions]
    /\ written \subseteq Writes /\ IsFiniteSet(written)
    /\ caller \in [Callers -> Callings]
    /\ box \in [Callers -> Boxes]
    /\ failures \in 0 .. MaxFailures

(***************************************************************************)
(* A pipeline that reports success has made every change its proposal      *)
(* asks for, and no power failure takes one back: whatever may be left of  *)
(* the file is that version or one written after it.                       *)
(***************************************************************************)
AppliedStays ==
    \A c \in Callers : caller[c].outcome = "applied" =>
        \A r \in caller[c].replaces : \E w \in written :
            /\ w.by = c /\ w.path = r.path /\ w.content = r.content
            /\ \A v \in after[r.path] : v.n >= w.n

(***************************************************************************)
(* A pipeline that is refused or rejected has changed no file and left no  *)
(* temporary file behind, whatever failed on the way and whoever else      *)
(* wrote the file: only such an answer may be retried without looking      *)
(* (replacement_outcome.py, "Raised when recovery must reconcile").        *)
(***************************************************************************)
RejectedChangedNothing ==
    \A c \in Callers : caller[c].outcome \in {"refused", "rejected"} =>
        /\ \A w \in written : w.by # c
        /\ box[c].temp = "none"

(***************************************************************************)
(* A replacement takes the place of the version its digest was compared    *)
(* with, although comparing and renaming are two steps: two controllers of *)
(* one workspace, and the container of a dead one, never overwrite each    *)
(* other.  Only what another program writes in between is lost.            *)
(***************************************************************************)
NothingOverwritten ==
    \A w \in written : w.by # Outside =>
        \/ w.over = w.seen
        \/ \E o \in written : o.n = w.over /\ o.by = Outside

(***************************************************************************)
(* A file is always a whole one, also after a power failure.               *)
(***************************************************************************)
NeverHalf == \A f \in Files : \A v \in after[f] \cup {now[f]} : v.whole
=============================================================================
