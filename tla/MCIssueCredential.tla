------------------------- MODULE MCIssueCredential -------------------------
EXTENDS IssueCredential, TLC

\* Record ids, threads and task slots are interchangeable.
Symmetry == Permutations(Ids) \cup Permutations(Threads)
            \cup Permutations(ITasks) \cup Permutations(HTasks)
=============================================================================
