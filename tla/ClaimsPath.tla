----------------------------- MODULE ClaimsPath -----------------------------
(***************************************************************************)
(* Path pointers of DCQL queries (ClaimsPathPointer.resolve of the oid4vc  *)
(* plugin): the values of a credential that a path of keys, indices and    *)
(* "all elements" selects, one component at a time.                        *)
(***************************************************************************)
EXTENDS Integers, Sequences, SequencesExt

CONSTANTS
    Sources,   \* credentials: trees of [kind, of]: "leaf", "object" or "list"
    Paths,     \* sequences of components: <<"key", k>>, <<"index", n>>, <<"all">>
    Depth      \* bound: the depth of the trees

VARIABLES
    source, path,   \* what resolve was called with
    k,              \* components done
    selected,       \* the values selected so far
    raised          \* resolve raised a ValueError

vars == <<source, path, k, selected, raised>>

Init ==
    /\ source \in Sources /\ path \in Paths
    /\ k = 0 /\ selected = <<source>> /\ raised = FALSE

\* The kind of value a component steps into.
Steps(c) == IF c[1] = "key" THEN "object" ELSE "list"

\* Bug: the bounds of the list are not those of an index that starts at 0.
FromOne(v, n) == IF n \in 1..Len(v.of) THEN <<v.of[n]>> ELSE <<>>
\* _int_component: indices start at 0; one past the end selects nothing.
AtIndex(v, n) == IF n \in 0..(Len(v.of) - 1) THEN <<v.of[n + 1]>> ELSE <<>>

\* _str_component, _null_component, _int_component: what of one value goes on.
Into(v, c) ==
    CASE c[1] = "key"   -> IF c[2] \in DOMAIN v.of THEN <<v.of[c[2]]>> ELSE <<>>
      [] c[1] = "all"   -> v.of
      [] c[1] = "index" -> AtIndex(v, c[2])

\* Bug: the first of them only.
FirstOnly(c) == IF selected = <<>> THEN <<>> ELSE Into(Head(selected), c)
\* The selected values that go on, of all of them.
Stepped(c) == FlattenSeq([i \in DOMAIN selected |-> Into(selected[i], c)])

Component ==
    /\ k < Len(path) /\ ~raised
    /\ LET c == path[k + 1]
       IN  IF \E i \in DOMAIN selected : selected[i].kind # Steps(c)
           THEN raised' = TRUE /\ UNCHANGED <<k, selected>>
           ELSE selected' = Stepped(c) /\ k' = k + 1 /\ UNCHANGED raised
    /\ UNCHANGED <<source, path>>

Next == Component
Spec == Init /\ [][Next]_vars

-----------------------------------------------------------------------------
(* What a path selects, by the addresses of the values in the tree *)

Keys == UNION {DOMAIN s.of : s \in {t \in Sources : t.kind = "object"}}
Labels == {<<"key", x>> : x \in Keys} \cup {<<"index", n>> : n \in 0..1}
Addresses(n) == [1..n -> Labels]

\* The values at an address, one or none.
At[s \in Sources, a \in UNION {Addresses(n) : n \in 0..Depth}] ==
    FoldLeft(LAMBDA vs, l : FlattenSeq([i \in DOMAIN vs |->
                 IF vs[i].kind = Steps(l) THEN
                    IF l[1] = "key" THEN IF l[2] \in DOMAIN vs[i].of THEN <<vs[i].of[l[2]]>> ELSE <<>>
                    ELSE IF l[2] + 1 \in DOMAIN vs[i].of THEN <<vs[i].of[l[2] + 1]>> ELSE <<>>
                 ELSE <<>>]), <<s>>, a)

\* An address is one of those a path stands for.
Covers(p, a) ==
    \A i \in DOMAIN p : p[i] = a[i] \/ (p[i] = <<"all">> /\ a[i][1] = "index")
AddressesOf(n) == {a \in Addresses(n) : Covers(SubSeq(path, 1, n), a)}
Denoted(n) == UNION {ToSet(At[source, a]) : a \in AddressesOf(n)}

\* After each component the values selected are those at the addresses that
\* the path so far stands for, no more and no fewer; the path is refused when
\* one of them is not of the kind that the next component steps into, even if
\* the others are, and only then (ClaimsPathPointer.resolve).
SelectsDenoted ==
    LET Fits(n) == \A v \in Denoted(n) : v.kind = Steps(path[n + 1])
    IN  /\ ToSet(selected) = Denoted(k)
        /\ \A n \in 0..(k - 1) : Fits(n)
        /\ raised => ~Fits(k)
=============================================================================
