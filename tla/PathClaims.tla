------------------------------ MODULE PathClaims ------------------------------
(***************************************************************************)
(* The path claims of task_contract.py.  A path is the sequence of its     *)
(* components, a claim may have wildcards among them: "**" stands for any  *)
(* number of components, a part of Wildcards for one that it matches.      *)
(***************************************************************************)
EXTENDS Naturals, Sequences, SequencesExt

CONSTANTS
    Parts,        \* the component names of paths and claims
    Wildcards,    \* Wildcards[p]: the component names that fnmatch gives to p
    Protected     \* INVARIANT_PROTECTED_PATHS

IsWild(part) == part = "**" \/ part \in DOMAIN Wildcards

\* literal_prefix of _path_claims_overlap
LiteralPrefix(claim) ==
    LET wild == SelectInSeq(claim, IsWild)
    IN  SubSeq(claim, 1, IF wild = 0 THEN Len(claim) ELSE wild - 1)

\* _path_claims_overlap
ClaimsOverlap(left, right) ==
    \/ IsPrefix(LiteralPrefix(left), LiteralPrefix(right))
    \/ IsPrefix(LiteralPrefix(right), LiteralPrefix(left))

PartMatches(part, name) ==
    IF part \in DOMAIN Wildcards THEN name \in Wildcards[part] ELSE name = part

\* _glob_matches: match(c, p) of the code is match[<<c + 1, p + 1>>] here.
GlobMatches(claim, path) ==
    LET match[at \in (1 .. Len(claim) + 1) \X (1 .. Len(path) + 1)] ==
            LET c == at[1]
                p == at[2]
            IN  IF c > Len(claim) THEN p > Len(path)
                ELSE IF claim[c] = "**"
                     THEN match[<<c + 1, p>>] \/ (p <= Len(path) /\ match[<<c, p + 1>>])
                     ELSE /\ p <= Len(path)
                          /\ PartMatches(claim[c], path[p])
                          /\ match[<<c + 1, p + 1>>]
    IN  match[<<1, 1>>]

\* tracked_path_is_allowed; what a task protects itself only narrows it.
PathAllowed(allowed, path) ==
    /\ \A claim \in Protected : ~ClaimsOverlap(path, claim)
    /\ \E claim \in allowed : GlobMatches(claim, path)

\* The claims that parse_task accepts.
ClaimsAccepted(allowed) ==
    \A claim \in allowed, owned \in Protected : ~ClaimsOverlap(claim, owned)
=============================================================================
