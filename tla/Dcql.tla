-------------------------------- MODULE Dcql --------------------------------
(***************************************************************************)
(* Evaluation of a DCQL query against a submission (DCQLQueryEvaluator of  *)
(* the oid4vc plugin): the credentials that were presented are verified    *)
(* one by one, then the sets of credentials that the query asks for are    *)
(* looked at.  What a credential discloses is the set of its claims.       *)
(***************************************************************************)
EXTENDS Naturals, Sequences, FiniteSets, SequencesExt

CONSTANTS
    Claims,     \* claims a query may ask for
    ClaimSets,  \* alternatives of claims: sequences of sequences of claims
    CredSets    \* credential sets: sequences of [options, required]

CONSTANT Creds  \* the credential queries of the query, in its order

VARIABLES
    query,      \* claims and claim_sets of each credential query, credential_set
    token,      \* the submission: what was presented for some of the queries
    k,          \* credential queries done
    verified,   \* verified_cred_ids
    result      \* "" while the evaluation runs, then "verified", "failed" or
                \* "raised", which makes the whole answer invalid

vars == <<query, token, k, verified, result>>

Ids == ToSet(Creds)

\* A presentation and its credential verify, are of the type asked for and have
\* some claims; or they are not sound; or their verification raises: a malformed
\* JWT, a format without a verifier.
Presented ==
    [outcome : {"sound"}, claims : SUBSET Claims]
    \cup [outcome : {"unsound", "raises"}, claims : {{}}]

Init ==
    /\ query \in [claims : [Ids -> SUBSET Claims], sets : [Ids -> ClaimSets],
                  credSet : CredSets]
    /\ token \in UNION {[S -> Presented] : S \in SUBSET Ids}
    /\ k = 0 /\ verified = {} /\ result = ""

\* Bug: claim sets are looked at only after all claims are found.
AllClaims(c, has) == query.claims[c] \subseteq has
\* _verify_claims: without claims all is well; an alternative counts when each
\* of its claims is one the query defines and the credential has.
ClaimsMatch(c, has) ==
    \/ query.claims[c] = {}
    \/ /\ query.sets[c] # <<>>
       /\ \E i \in DOMAIN query.sets[c] :
             ToSet(query.sets[c][i]) \subseteq query.claims[c] \cap has
    \/ query.sets[c] = <<>> /\ query.claims[c] \subseteq has

\* _verify_single_credential
Matches(c) == token[c].outcome = "sound" /\ ClaimsMatch(c, token[c].claims)
Raises(c)  == token[c].outcome = "raises"

\* Bug: a credential that fails ends the evaluation whatever is asked for.
AnyFailure(c) == ~Matches(c)
\* A credential that fails ends the evaluation when all are required.
Fails(c) == ~Matches(c) /\ query.credSet = <<>>

\* verify, one turn of its loop: a credential that was not presented is left
\* for the credential sets to judge, and what raises is caught by post_response,
\* whose answer is then that the presentation is invalid.
Single ==
    /\ result = "" /\ k < Len(Creds)
    /\ LET c == Creds[k + 1]
       IN  IF c \notin DOMAIN token THEN UNCHANGED <<verified, result>>
           ELSE /\ verified' = verified \cup (IF Matches(c) THEN {c} ELSE {})
                /\ result' = IF Raises(c) THEN "raised" ELSE IF Fails(c) THEN "failed" ELSE ""
    /\ k' = k + 1
    /\ UNCHANGED <<query, token>>

\* Bug: all the options of a set must be there.
EveryOption(s) == \A i \in DOMAIN s.options : s.options[i] \subseteq verified
\* One option of a set must be there as a whole.
OptionMet(s) == \E i \in DOMAIN s.options : s.options[i] \subseteq verified

\* _evaluate_credential_sets
Satisfied ==
    IF query.credSet = <<>> THEN Ids \subseteq verified
    ELSE \A i \in DOMAIN query.credSet :
            query.credSet[i].required => OptionMet(query.credSet[i])

Evaluate ==
    /\ result = "" /\ k = Len(Creds)
    /\ result' = IF Satisfied THEN "verified" ELSE "failed"
    /\ UNCHANGED <<query, token, k, verified>>

Next == Single \/ Evaluate
Spec == Init /\ [][Next]_vars

-----------------------------------------------------------------------------
\* What a query asks for: of each credential query the claims, or those of one
\* of the alternatives that the query defines; of each required set one option
\* of credentials, or all credentials when there are no sets.
Discloses(c) ==
    /\ c \in DOMAIN token /\ token[c].outcome = "sound"
    /\ LET enough == IF query.sets[c] = <<>> THEN {query.claims[c]}
                     ELSE {ToSet(a) : a \in {b \in ToSet(query.sets[c]) :
                                             ToSet(b) \subseteq query.claims[c]}}
       IN  query.claims[c] = {} \/ \E a \in enough : a \subseteq token[c].claims
Asked ==
    LET sets == IF query.credSet = <<>> THEN {{Ids}}
                ELSE {ToSet(s.options) : s \in {r \in ToSet(query.credSet) : r.required}}
    IN  \A options \in sets : \E option \in options : \A c \in option : Discloses(c)

\* The evaluation ends with "verified" when the submission has what the query
\* asks for and nothing that raises, and not otherwise, in spite of the early
\* ends of the loops: one unsound credential does not spoil alternatives that do
\* not need it (dcql.py:459), one that cannot be read does (verification.py:412).
VerdictIsAsked ==
    result # "" =>
        (result = "verified" <=> Asked /\ \A c \in DOMAIN token : ~Raises(c))
=============================================================================
