----------------------------- MODULE StatusBits -----------------------------
(***************************************************************************)
(* The bits of a status list: each shard keeps PerShard statuses of Width  *)
(* bits in whole bytes, an entry is found by its index in the list, and    *)
(* the published list is the shards' bits one after the other.             *)
(***************************************************************************)
EXTENDS Naturals, Sequences, FiniteSets, SequencesExt

CONSTANTS
    Shapes,   \* <<list_size, shard_size, status_size>>
    ByteBits  \* bits of a byte: 8

VARIABLES
    shape,   \* the shape of the definition
    stored,  \* the bits stored for each shard: status_encoded
    status   \* the status last given to each entry

vars == <<shape, stored, status>>

Length    == shape[1]
PerShard  == shape[2]
Width     == shape[3]
Entries   == 0..(Length - 1)
ShardCount == (Length + PerShard - 1) \div PerShard

Zeros(n) == [b \in 1..n |-> 0]

\* tobytes fills the last byte.
Encode(bits) ==
    bits \o Zeros((ByteBits - (Len(bits) % ByteBits)) % ByteBits)

\* The getter drops statuses from the end until the bits are few enough.
Decode(bits) ==
    LET full == PerShard * Width
        n == CHOOSE k \in 0..Len(bits) :
                /\ Len(bits) - k * Width <= full
                /\ k = 0 \/ Len(bits) - (k - 1) * Width > full
    IN  SubSeq(bits, 1, Len(bits) - n * Width)

Init ==
    /\ shape \in Shapes
    /\ stored = [s \in 0..(ShardCount - 1) |-> Encode(Zeros(PerShard * Width))]
    /\ status = [i \in Entries |-> Zeros(Width)]

ShardNumber(i) == i \div PerShard
ShardIndex(i)  == i % PerShard

\* Bug: an entry is looked for at its index in the shard.
UnscaledIndex(i) == ShardIndex(i)
BitIndex(i) == ShardIndex(i) * Width

\* bits[b : b + Width], and the assignment to it of any number of bits.
Slice(bits, b) == SubSeq(bits, b + 1, IF b + Width < Len(bits) THEN b + Width ELSE Len(bits))
Spliced(bits, b, v) == SubSeq(bits, 1, b) \o v \o SubSeq(bits, b + Width + 1, Len(bits))

\* A status of the width the definition has; the route does not look at it.
Bitstrings == [1..Width -> {0, 1}]

\* update_status_list_entry
Update(i, v) ==
    /\ stored' = [stored EXCEPT ![ShardNumber(i)] =
                    Encode(Spliced(Decode(@), BitIndex(i), v))]
    /\ status' = [status EXCEPT ![i] = v]
    /\ UNCHANGED shape

Next == \E i \in Entries, v \in Bitstrings : Update(i, v)
Spec == Init /\ [][Next]_vars

\* get_status_list_entry
EntryOf(i) == Slice(Decode(stored[ShardNumber(i)]), BitIndex(i))

\* Do the bits that fill a shard's last byte make up whole statuses?  If not, the
\* getter drops some of the last entry's bits with them (shard_size 4 and
\* status_size 3: 12 bits, stored as 16, read as 10).
WholeFill == (Len(Encode(Zeros(PerShard * Width))) - PerShard * Width) % Width = 0

\* get_status_list
Published == FlattenSeq([s \in 1..ShardCount |-> Decode(stored[s - 1])])
PublishedOf(i) == Slice(Published, i * Width)

-----------------------------------------------------------------------------
\* In shards of every shape an entry reads as the status last given to it,
\* unless it is the last of its shard and the fill is no whole number of
\* statuses; and when the fill is, the published list has at each entry's index
\* that status, whichever shard keeps it.  Other shapes publish lists in which
\* whatever follows a first shard is out of place.
PublishedIsStatus ==
    \A i \in Entries :
        /\ WholeFill \/ ShardIndex(i) # PerShard - 1 => EntryOf(i) = status[i]
        /\ WholeFill => PublishedOf(i) = status[i]
=============================================================================
