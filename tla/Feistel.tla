------------------------------ MODULE Feistel -------------------------------
(***************************************************************************)
(* FeistelPermutation of the status_list plugin: the order in which the    *)
(* entries of a list are handed out.  A power of two with an odd number of *)
(* bits has no balanced Feistel network; its permutation walks the one of  *)
(* twice the size until it is back in the domain.                          *)
(*                                                                         *)
(* The inputs 0, 1, ... are permuted one after the other, one round per    *)
(* step.  The round keys come from HMAC-SHA256, which may give any key.    *)
(***************************************************************************)
EXTENDS Naturals, Sequences, Bitwise

CONSTANTS
    Sizes,   \* sizes of the domain: powers of two
    Rounds   \* rounds of the network: 4 in the code

VARIABLES
    N,        \* the size of the domain
    keys,     \* the round keys
    results,  \* the outputs for 0, 1, ..., so far
    L, R,     \* the halves that the network has of the next input
    round,    \* the rounds done
    outside   \* the values outside the domain that the walk has come by

vars == <<N, keys, results, L, R, round, outside>>

BitLength(n) == CHOOSE d \in 0..30 : n < 2^d /\ (d = 0 \/ n >= 2^(d - 1))

\* The bits of the network's domain: an even number of them.
Bits(n) == LET d == IF n = 1 THEN 1 ELSE BitLength(n - 1) IN d + (d % 2)
Half(n) == 2^(Bits(n) \div 2)

F(r, key) == (3 * (r ^^ key)) % Half(N)

Halves(i) == L' = i \div Half(N) /\ R' = i % Half(N)

Init ==
    /\ N \in Sizes
    /\ keys \in [1..Rounds -> 0..(Half(N) - 1)]
    /\ results = <<>>
    /\ L = 0 /\ R = 0 /\ round = 0 /\ outside = <<>>

\* Bug: the halves are assigned one after the other.
Overwritten(k) == L' = R /\ R' = R ^^ F(R, k)
Swapped(k)   == L' = R /\ R' = L ^^ F(R, k)

\* A round of _feistel_permute_extended.
Round ==
    /\ Len(results) < N
    /\ round < Rounds
    /\ Swapped(keys[round + 1])
    /\ round' = round + 1
    /\ UNCHANGED <<N, keys, results, outside>>

\* Bug: the walk starts again with the input.
Restarted(y) == Len(results)
Walked(y) == y

\* The end of a turn of the loop in permute.
Permute ==
    /\ round = Rounds
    /\ LET y == L * Half(N) + R
       IN  IF y < N
           THEN /\ results' = Append(results, y) /\ outside' = <<>>
                /\ Halves(Len(results) + 1)
           ELSE /\ Halves(Walked(y)) /\ outside' = Append(outside, y)
                /\ UNCHANGED results
    /\ round' = 0
    /\ UNCHANGED <<N, keys>>

Next == Round \/ Permute
Spec == Init /\ [][Next]_vars

-----------------------------------------------------------------------------
\* Each input has an output of its own in the domain: as many indices as there
\* are entries can be drawn from a list before one comes back.
UniqueOutputs ==
    /\ \A i \in 1..Len(results) : results[i] \in 0..(N - 1)
    /\ \A i, j \in 1..Len(results) : results[i] = results[j] => i = j

\* A walk comes by no value twice, so it is back in the domain after at most as
\* many turns as the network has values outside.
WalksEnd ==
    /\ \A i \in 1..Len(outside) : outside[i] \in N..(Half(N)^2 - 1)
    /\ \A i, j \in 1..Len(outside) : outside[i] = outside[j] => i = j
=============================================================================
