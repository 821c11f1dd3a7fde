----------------------------- MODULE MCDidComm -----------------------------
(***************************************************************************)
(* The models of the DIDComm protocols of the plugins and of the delivery  *)
(* of their messages by redis_events in one run: the holder's half of      *)
(* issue-credential, present-proof, connections, and RedisDelivery with    *)
(* faults.  They share no state: a behaviour is one of one part,           *)
(* RedisDelivery with its own variables, the others with as many of v1 to  *)
(* v12 as they have variables.  Unused variables stay {}.                  *)
(***************************************************************************)
EXTENDS RedisDelivery

VARIABLES part, v1, v2, v3, v4, v5, v6, v7, v8, v9, v10, v11, v12

\* An issuer that does one thing at a time, a holder that does two.
Holder == INSTANCE IssueCredential WITH
    Ids <- {"r1"}, Threads <- {"t1"}, NoThread <- "none", ITasks <- {"i1"}, HTasks <- {"h1", "h2"},
    AutoOffer <- FALSE, AutoRequest <- FALSE, AutoStore <- FALSE,
    AutoIssues <- {FALSE}, AutoRemoves <- {FALSE}, Faults <- TRUE, MaxCreds <- 2, MaxReqs <- 2,
    irec <- v1, itask <- v2, revRecs <- v3, revoked <- v4, created <- v5,
    hrec <- v6, htask <- v7, wallet <- v8, requested <- v9,
    toIssuer <- v10, toHolder <- v11, used <- v12

\* A verifier that does two things at a time: presentations that come twice,
\* or late, while another is verified.
Verifier == INSTANCE PresentProof WITH
    Ids <- {1}, Threads <- {"t1"}, NoThread <- "none", VTasks <- {"v1", "v2"}, PTasks <- {"p1"},
    Proposals <- FALSE, AutoRespond <- FALSE, AutoPresent <- TRUE, Autos <- {TRUE},
    Faults <- TRUE, MaxNonce <- 1, MaxProofs <- 2,
    vrec <- v1, vtask <- v2, prec <- v3, ptask <- v4, nonce <- v5,
    toVerifier <- v6, toProver <- v7, threads <- v8
\* A prover that does two things at a time, with proposals and a second request.
Prover == INSTANCE PresentProof WITH
    Ids <- {1}, Threads <- {"t1"}, NoThread <- "none", VTasks <- {"v1"}, PTasks <- {"p1", "p2"},
    Proposals <- TRUE, AutoRespond <- FALSE, AutoPresent <- TRUE, Autos <- {TRUE},
    Faults <- FALSE, MaxNonce <- 2, MaxProofs <- 2,
    vrec <- v1, vtask <- v2, prec <- v3, ptask <- v4, nonce <- v5,
    toVerifier <- v6, toProver <- v7, threads <- v8
\* One of them at a time each, where anything may fail.
Failing == INSTANCE PresentProof WITH
    Ids <- {1}, Threads <- {"t1"}, NoThread <- "none", VTasks <- {"v1"}, PTasks <- {"p1"},
    Proposals <- TRUE, AutoRespond <- TRUE, AutoPresent <- FALSE, Autos <- BOOLEAN,
    Faults <- TRUE, MaxNonce <- 1, MaxProofs <- 1,
    vrec <- v1, vtask <- v2, prec <- v3, ptask <- v4, nonce <- v5,
    toVerifier <- v6, toProver <- v7, threads <- v8

\* An inviter and an invitee that do one thing at a time and two.
Inviter == INSTANCE Connections WITH
    Recs <- {1, 2, 3}, Conns <- {"c1"}, ITasks <- {"i1"}, ETasks <- {"e1", "e2"},
    Kinds <- {"once", "multi", "public"}, Autos <- {TRUE}, Removals <- FALSE,
    Unsolicited <- TRUE, MaxInvitations <- 1, MaxDid <- 2,
    irec <- v1, attached <- v2, itask <- v3, crec <- v4, ctask <- v5, idid <- v6, cdid <- v7,
    invitations <- v8, toInviter <- v9, toInvitee <- v10
\* Records that the controllers remove, and those that wait for them.
Removals == INSTANCE Connections WITH
    Recs <- {1, 2}, Conns <- {"c1"}, ITasks <- {"i1"}, ETasks <- {"e1"},
    Kinds <- {"multi"}, Autos <- BOOLEAN, Removals <- TRUE,
    Unsolicited <- FALSE, MaxInvitations <- 1, MaxDid <- 1,
    irec <- v1, attached <- v2, itask <- v3, crec <- v4, ctask <- v5, idid <- v6, cdid <- v7,
    invitations <- v8, toInviter <- v9, toInvitee <- v10

From11 == v11 = {} /\ v12 = {}
From9  == v9 = {} /\ v10 = {} /\ From11
From1  == /\ v1 = {} /\ v2 = {} /\ v3 = {} /\ v4 = {} /\ v5 = {} /\ v6 = {} /\ v7 = {}
          /\ v8 = {} /\ From9
others == <<v1, v2, v3, v4, v5, v6, v7, v8, v9, v10, v11, v12>>

AllInit ==
    /\ Init
    /\ \/ part = "delivery" /\ From1
       \/ part = "holder"   /\ Holder!Init
       \/ part = "verifier" /\ Verifier!Init /\ From9
       \/ part = "prover"   /\ Prover!Init   /\ From9
       \/ part = "failing"  /\ Failing!Init  /\ From9
       \/ part = "inviter"  /\ Inviter!Init  /\ From11
       \/ part = "removing" /\ Removals!Init /\ From11
AllNext ==
    /\ UNCHANGED part
    /\ \/ part = "delivery" /\ Next /\ UNCHANGED others
       \/ /\ UNCHANGED vars
          /\ \/ part = "holder"   /\ Holder!Next
             \/ part = "verifier" /\ Verifier!Next /\ UNCHANGED <<v9, v10, v11, v12>>
             \/ part = "prover"   /\ Prover!Next   /\ UNCHANGED <<v9, v10, v11, v12>>
             \/ part = "failing"  /\ Failing!Next  /\ UNCHANGED <<v9, v10, v11, v12>>
             \/ part = "inviter"  /\ Inviter!Next  /\ UNCHANGED <<v11, v12>>
             \/ part = "removing" /\ Removals!Next /\ UNCHANGED <<v11, v12>>
AllSpec == AllInit /\ [][AllNext]_<<part, vars, others>>

Types ==
    /\ part = "delivery" => TypeOK
    /\ part = "verifier" => Verifier!TypeOK
    /\ part = "prover"   => Prover!TypeOK
    /\ part = "failing"  => Failing!TypeOK
    /\ part = "inviter"  => Inviter!TypeOK
    /\ part = "removing" => Removals!TypeOK

\* A stored credential is the one that answers the request of its record
\* (IssueCredential!StoredMatchesRequest).
StoredMatchesRequest == part = "holder" => Holder!StoredMatchesRequest

\* The holder's exchange never goes back (IssueCredential!HolderOnlyForward).
HolderOnlyForward ==
    [][part = "holder" /\ v6'["r1"].state # v6["r1"].state
          => <<v6["r1"].state, v6'["r1"].state>> \in Holder!HolderEdges]_<<part, vars, others>>

\* A verdict is of the presentation and the request that are kept with it, a
\* presentation that was sent is of the request that is kept with it, and one
\* that was found true was sent, for a request of its thread
\* (present_proof manager.py:355, :434, :296, :443).
ProofsMatch ==
    /\ part = "verifier" => Verifier!ProofsMatch
    /\ part = "prover"   => Prover!ProofsMatch
    /\ part = "failing"  => Failing!ProofsMatch

\* Two agents that have completed a connection over an invitation for several
\* have each other's DID (Connections!MultiUsePaired).
MultiUsePaired ==
    /\ part = "inviter"  => Inviter!MultiUsePaired
    /\ part = "removing" => Removals!MultiUsePaired
=============================================================================
