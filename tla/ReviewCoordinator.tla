-------------------------- MODULE ReviewCoordinator --------------------------
(***************************************************************************)
(* The mandatory reviews of td_controller/review.py: a coordinator runs a  *)
(* code review and then a QA review, each a Controller.run of its own, and *)
(* accepts them only if their sessions are fresh.  Several coordinators    *)
(* and plain runs share the ledger and the pause switch.                   *)
(***************************************************************************)
EXTENDS Controller

CONSTANT Exclusions   \* input bound: the sets of sessions a caller may exclude

ASSUME ExclusionAssumption == Exclusions \subseteq SUBSET Sessions

VARIABLES
    review,     \* review[p]: what the coordinator of p is doing
    accepted    \* history: the review evidence returned to callers

reviewVars == <<review, accepted>>
allVars == <<controllerVars, reviewVars>>

NoReview == [stage |-> "none"]
Reviews == [stage : {"code"}, excluded : SUBSET Sessions] \cup
           [stage : {"qa"}, excluded : SUBSET Sessions, session : Sessions, run : RunIds]

Evidence == [excluded : SUBSET Sessions, code : Sessions, qa : Sessions,
             codeRun : RunIds, qaRun : RunIds]

ReviewInit == /\ ControllerInit
              /\ review = [p \in Processes |-> NoReview]
              /\ accepted = {}

Stage(p) == review[p].stage

(***************************************************************************)
(* A coordinator starts: the implementation session (and any other one the *)
(* caller excludes) is known, the provider factory made two distinct       *)
(* providers, and the code review is launched.                             *)
(* The calls that raise before this change nothing.                        *)
(***************************************************************************)
BeginReviews(p, excluded) ==
    /\ excluded # {}
    /\ Stage(p) = "none"
    /\ StartRun(p, "code_review")
    /\ review' = [review EXCEPT ![p] =
                    [stage |-> "code", excluded |-> excluded]]
    /\ UNCHANGED accepted

\* Mutant of Fresh: a session used before.
Known(p, excluded) == job[p].session # NoSession

\* The session of the run that returned: known, and not one of these.
Fresh(p, excluded) ==
    job[p].session # NoSession /\ job[p].session \notin excluded

\* The code review was fresh: the QA review is launched.
CodeReviewed(p) ==
    /\ Stage(p) = "code" /\ job[p].step = "returned"
    /\ Fresh(p, review[p].excluded)
    /\ Launch(p, "qa_review")
    /\ review' = [review EXCEPT ![p] =
                    [stage |-> "qa", excluded |-> review[p].excluded,
                     session |-> job[p].session, run |-> job[p].run]]
    /\ UNCHANGED accepted

\* The QA review was fresh too: both results are the evidence.
QaReviewed(p) ==
    /\ Stage(p) = "qa" /\ job[p].step = "returned"
    /\ Fresh(p, review[p].excluded \cup {review[p].session})
    /\ accepted' = accepted \cup
          {[excluded |-> review[p].excluded, code |-> review[p].session,
            qa |-> job[p].session, codeRun |-> review[p].run, qaRun |-> job[p].run]}
    /\ review' = [review EXCEPT ![p] = NoReview]
    /\ Collect(p)

(***************************************************************************)
(* A run raised, or its session is not fresh: the coordinator raises.  The *)
(* runs it made stay as the ledger recorded them.                          *)
(***************************************************************************)
ReviewsFail(p) ==
    /\ \/ job[p].step = "raised" /\ Stage(p) # "none"
       \/ /\ job[p].step = "returned"
          /\ \/ Stage(p) = "code" /\ ~Fresh(p, review[p].excluded)
             \/ Stage(p) = "qa" /\ ~Fresh(p, review[p].excluded \cup {review[p].session})
    /\ review' = [review EXCEPT ![p] = NoReview]
    /\ Collect(p)
    /\ UNCHANGED accepted

\* A run outside any review: only these are collected by their caller.
PlainRun(p) ==
    /\ Stage(p) = "none"
    /\ (\E role \in Roles : StartRun(p, role)) \/ Collect(p)
    /\ UNCHANGED reviewVars

ReviewCrash(p) ==
    /\ Crash(p)
    /\ review' = [review EXCEPT ![p] = NoReview]
    /\ UNCHANGED accepted

ReviewNext ==
    \/ \E p \in Processes :
          \/ \E excluded \in Exclusions : BeginReviews(p, excluded)
          \/ CodeReviewed(p)
          \/ QaReviewed(p)
          \/ ReviewsFail(p)
          \/ PlainRun(p)
          \/ Proceed(p) /\ UNCHANGED reviewVars
          \/ ReviewCrash(p)
    \/ (Operator \/ Midnight) /\ UNCHANGED reviewVars

ReviewSpec == ReviewInit /\ [][ReviewNext]_allVars

\* Fairness: as for controllers, with the statements of the coordinator added.
ReviewFairness ==
    \A p \in Processes :
        /\ WF_allVars(Proceed(p) /\ UNCHANGED reviewVars)
        /\ WF_allVars(CodeReviewed(p) \/ QaReviewed(p) \/ ReviewsFail(p))
        /\ WF_allVars(Stage(p) = "none" /\ Collect(p) /\ UNCHANGED reviewVars)

FairReviewSpec == ReviewSpec /\ ReviewFairness

-----------------------------------------------------------------------------
(* Correctness. *)

(***************************************************************************)
(* Where a coordinator is, and evidence with the identities of two         *)
(* sessions in it, never a missing one.                                    *)
(***************************************************************************)
ReviewTypeOK ==
    /\ ControllerTypeOK
    /\ review \in [Processes -> Reviews \cup {NoReview}]
    /\ accepted \subseteq Evidence

(***************************************************************************)
(* Accepted evidence comes from two separate reviews: two different fresh  *)
(* sessions, neither of them the implementer's or otherwise excluded, each *)
(* the outcome of a run of its own that the ledger records as a successful *)
(* run of that role.                                                       *)
(***************************************************************************)
ReviewsAreSeparate ==
    \A e \in accepted :
        /\ e.code # e.qa /\ {e.code, e.qa} \cap e.excluded = {}
        /\ e.codeRun # e.qaRun
        /\ runs[e.codeRun].role = "code_review" /\ runs[e.codeRun].status = "SUCCEEDED"
        /\ runs[e.qaRun].role = "qa_review" /\ runs[e.qaRun].status = "SUCCEEDED"
=============================================================================
