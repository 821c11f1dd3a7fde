--------------------------- MODULE MessageDispatch ---------------------------
(***************************************************************************)
(* What the outbound delivery service promises of each message it takes:   *)
(* it is posted to its endpoint until one post is answered with success,   *)
(* at most MaxPosts times, and it is given up only after the last of them. *)
(***************************************************************************)
EXTENDS Naturals

CONSTANTS Msgs, MaxPosts

VARIABLES
    state,   \* of each message: "new", "pending", "delivered" or "given_up"
    posts    \* the posts made of each message

vars == <<state, posts>>

Init ==
    /\ state = [m \in Msgs |-> "new"]
    /\ posts = [m \in Msgs |-> 0]

Accept(m) ==
    /\ state[m] = "new"
    /\ state' = [state EXCEPT ![m] = "pending"]
    /\ UNCHANGED posts

Post(m) ==
    /\ state[m] = "pending"
    /\ posts' = [posts EXCEPT ![m] = @ + 1]
    /\ \E s \in {"delivered", IF posts'[m] < MaxPosts THEN "pending"
                                                      ELSE "given_up"} :
          state' = [state EXCEPT ![m] = s]

Next == \E m \in Msgs : Accept(m) \/ Post(m)

Spec == Init /\ [][Next]_vars /\ \A m \in Msgs : WF_vars(Post(m))
=============================================================================
