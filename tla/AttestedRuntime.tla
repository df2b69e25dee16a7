--------------------------- MODULE AttestedRuntime ---------------------------
(***************************************************************************)
(* execute_attested_codex of review_runtime.py: the two files of the       *)
(* pinned runtime are copied into a directory of the call's own and hashed *)
(* on the way, the copy is asked for its version in a contained unit,      *)
(* hashed again and run in a second one.  The caller of the provider, its  *)
(* temporary directory included, is in the modules above.                  *)
(***************************************************************************)
EXTENDS ContainedUnit

CONSTANT Files    \* codex and codex-code-mode-host

VARIABLES
    stage,      \* where the call is
    pinned,     \* the staged files that are what was pinned
    unchecked,  \* the files still to be hashed again
    changed,    \* history: the files changed after they were hashed again
    result      \* the result of the call

runtimeVars == <<stage, pinned, unchecked, changed, result>>
attestedVars == <<containedVars, runtimeVars>>

NoRuntime ==
    /\ NoCall
    /\ stage = "idle"
    /\ pinned = {} /\ unchecked = {} /\ changed = {}
    /\ result = "none"

\* _attest_codex_runtime ends in a failure, and the partial directory is removed.
Unattested ==
    /\ stage' = "returned"
    /\ pinned' = {} /\ unchecked' = {} /\ changed' = {}
    /\ result' = "failed"

\* _stage_file, twice: a copy is made of the pinned bytes, or not at all.
StageRuntime ==
    /\ stage = "idle" /\ stage' = "probing"
    /\ pinned' = Files
    /\ UNCHANGED <<containedVars, unchecked, changed, result>>

StagingFails ==
    /\ stage = "idle" /\ Unattested
    /\ UNCHANGED containedVars

\* The executor is called, for the version and then for the command.
CallBoundary ==
    /\ stage \in {"probing", "executing"}
    /\ StageLauncher \/ StageFails
    /\ UNCHANGED runtimeVars

Returned == step = "returned" /\ step' = "idle" /\ outcome' = "none"

Probed ==
    /\ stage = "probing" /\ Returned
    /\ outcome = "output"
    /\ stage' = "checking"
    /\ unchecked' = Files
    /\ UNCHANGED <<processVars, unit, launcher, pinned, changed, result>>

\* The call raises, or the answer is not the pinned version.
ProbeFails ==
    /\ stage = "probing" /\ Returned /\ Unattested
    /\ UNCHANGED <<processVars, unit, launcher>>

\* Another program changes a staged file.  What it changes earlier is seen only
\* when the file is hashed again.
Tamper(f) ==
    /\ stage = "checking"
    /\ pinned' = pinned \ {f}
    /\ changed' = changed \cup ({f} \ unchecked)
    /\ UNCHANGED <<containedVars, stage, unchecked, result>>

\* Mutant of Hash: the second file is not hashed again.
HashOne(f) ==
    /\ stage = "checking" /\ f \in unchecked
    /\ f \in pinned
    /\ unchecked' = {}
    /\ UNCHANGED <<containedVars, stage, pinned, changed, result>>

\* _verify_staged_file
Hash(f) ==
    /\ stage = "checking" /\ f \in unchecked
    /\ f \in pinned
    /\ unchecked' = unchecked \ {f}
    /\ UNCHANGED <<containedVars, stage, pinned, changed, result>>

\* A file is not the pinned one, or cannot be read or renamed.
HashFails ==
    /\ stage = "checking" /\ Unattested
    /\ UNCHANGED containedVars

\* The directory gets its name, and the second call is made.
Install ==
    /\ stage = "checking" /\ unchecked = {}
    /\ stage' = "executing"
    /\ pinned' = {} /\ changed' = {}
    /\ UNCHANGED <<containedVars, unchecked, result>>

Executed ==
    /\ stage = "executing" /\ Returned
    /\ stage' = "returned"
    /\ result' = IF outcome = "output" THEN "output" ELSE "failed"
    /\ UNCHANGED <<processVars, unit, launcher, pinned, unchecked, changed>>

Attesting ==
    \/ StageRuntime \/ StagingFails \/ CallBoundary \/ Probed \/ ProbeFails
    \/ HashFails \/ Install \/ Executed
    \/ \E f \in Files : Hash(f)
    \/ (Contained \/ Waiting) /\ UNCHANGED runtimeVars

\* The other programs, the client and the unit.
Around ==
    \/ \E f \in Files : Tamper(f)
    \/ Outside /\ UNCHANGED runtimeVars

-----------------------------------------------------------------------------
(* Correctness. *)

(***************************************************************************)
(* When the second command is called, each file is what was pinned, unless *)
(* it was changed after it was last looked at: no change that was made     *)
(* before, during the version command for one, goes unseen.                *)
(***************************************************************************)
RuntimeWasPinned ==
    [][stage # "executing" /\ stage' = "executing" => Files \subseteq pinned \cup changed]_attestedVars
=============================================================================
