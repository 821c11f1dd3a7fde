------------------------------ MODULE MCStatus ------------------------------
(***************************************************************************)
(* The three models of the status_list plugin in one run.  They share no   *)
(* state, so a behaviour is one of one part; the variables of the others   *)
(* are not used.                                                           *)
(***************************************************************************)
EXTENDS StatusList, TLC

VARIABLES
    part,                                    \* the part this behaviour is of
    shape, stored, status,                   \* StatusBits
    N, keys, results, L, R, round, outside   \* Feistel

\* Shapes of definitions: one shard or several, which fill their bytes, leave
\* room for whole statuses (the first nine) or do not (the last two), one longer
\* than its part of the list, statuses of one to four bits.
Bits == INSTANCE StatusBits WITH
    ByteBits <- 8,
    Shapes <- {<<8, 8, 1>>, <<8, 4, 1>>, <<4, 3, 1>>, <<4, 4, 2>>, <<4, 2, 2>>,
               <<4, 1, 2>>, <<2, 2, 4>>, <<2, 1, 4>>, <<2, 8, 3>>,
               <<4, 4, 3>>, <<4, 2, 3>>}
Order == INSTANCE Feistel WITH Sizes <- {1, 2, 4, 8, 16}, Rounds <- 4

bitsVars  == <<shape, stored, status>>
orderVars == <<N, keys, results, L, R, round, outside>>

BitsUnused  == shape = {} /\ stored = {} /\ status = {}
OrderUnused == /\ N = {} /\ keys = {} /\ results = {} /\ L = {} /\ R = {}
               /\ round = {} /\ outside = {}

AllInit ==
    \/ part = "lists" /\ Init /\ BitsUnused /\ OrderUnused
    \/ part = "bits"  /\ Init /\ Bits!Init /\ OrderUnused
    \/ part = "order" /\ Init /\ BitsUnused /\ Order!Init
AllNext ==
    /\ UNCHANGED part
    /\ \/ part = "lists" /\ Next /\ UNCHANGED <<bitsVars, orderVars>>
       \/ part = "bits"  /\ Bits!Next /\ UNCHANGED <<vars, orderVars>>
       \/ part = "order" /\ Order!Next /\ UNCHANGED <<vars, bitsVars>>
AllSpec == AllInit /\ [][AllNext]_<<part, vars, bitsVars, orderVars>>

\* The bits of an entry are its status, the published ones too if the fill bits
\* of a shard are a whole number of statuses, and the order in which entries are
\* drawn is a permutation (models.py:321, feistel.py:109).
EncodingsRight ==
    /\ part = "bits"  => Bits!PublishedIsStatus
    /\ part = "order" => Order!UniqueOutputs

\* The search for the next entry of a list ends, whatever the round keys
\* (feistel.py:109).
WalksEnd          == part = "order" => Order!WalksEnd

Symmetry == Permutations(Tasks) \cup Permutations(Creds) \cup Permutations(Defs)
=============================================================================
