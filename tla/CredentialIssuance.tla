------------------------- MODULE CredentialIssuance -------------------------
(***************************************************************************)
(* What an issuer and a holder promise each other over all their           *)
(* exchanges, whatever their controllers, their transport and their ledger *)
(* do: a thread is offered, yields at most one credential, that credential *)
(* may be stored, and an acknowledgement follows a stored credential, or   *)
(* the holder's report that it could not go on.                            *)
(***************************************************************************)
CONSTANTS Threads, Creds

VARIABLES
    offered,  \* threads on which the issuer made an offer
    issued,   \* pairs of a thread and the credential issued on it
    stored,   \* credentials the holder keeps
    reported, \* threads on which the holder reported a problem
    acked     \* threads the holder acknowledged

vars == <<offered, issued, stored, reported, acked>>

Init == offered = {} /\ issued = {} /\ stored = {} /\ reported = {} /\ acked = {}

Offer(t) ==
    /\ offered' = offered \cup {t}
    /\ UNCHANGED <<issued, stored, reported, acked>>

\* One credential per thread, and only on an offer.
Issue(t, c) ==
    /\ t \in offered
    /\ \A p \in issued : p[1] # t
    /\ issued' = issued \cup {<<t, c>>}
    /\ UNCHANGED <<offered, stored, reported, acked>>

\* Only an issued credential can be stored.
Store(t, c) ==
    /\ <<t, c>> \in issued
    /\ stored' = stored \cup {c}
    /\ UNCHANGED <<offered, issued, reported, acked>>

Report(t) ==
    /\ reported' = reported \cup {t}
    /\ UNCHANGED <<offered, issued, stored, acked>>

\* A credential is acknowledged on its own thread, when it is stored or the
\* holder has reported a problem there.
Acknowledge(t) ==
    /\ \E c \in Creds : <<t, c>> \in issued /\ (c \in stored \/ t \in reported)
    /\ acked' = acked \cup {t}
    /\ UNCHANGED <<offered, issued, stored, reported>>

Next == \E t \in Threads :
            \/ Offer(t) \/ Report(t) \/ Acknowledge(t)
            \/ \E c \in Creds : Issue(t, c) \/ Store(t, c)

Spec == Init /\ [][Next]_vars
=============================================================================
