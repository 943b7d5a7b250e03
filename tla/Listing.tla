------------------------------ MODULE Listing -------------------------------
(***************************************************************************)
(* Sets of numbers as sequences, parts of sequences by their places, lists *)
(* of lists, and functions with more entries: how the code's sorted        *)
(* slices, filtered slices, nested loops and maps are written here.        *)
(***************************************************************************)
EXTENDS Integers, Sequences, FiniteSets

\* A set of numbers as a sequence.
Ascending(s) == [i \in 1..Cardinality(s) |->
                    CHOOSE x \in s : Cardinality({y \in s : y < x}) = i - 1]

\* A set as a sequence in an order, given as the pairs of its relation.
InOrder(s, before) == [i \in 1..Cardinality(s) |->
                          CHOOSE x \in s :
                              Cardinality({y \in s : <<y, x>> \in before}) = i - 1]

\* What the entries of a map add up to.
Total(map) == Cardinality(UNION {{x} \X (1..map[x]) : x \in DOMAIN map})

\* What a sequence has at some of its places, in order.
Pick(seq, places) == [i \in 1..Cardinality(places) |-> seq[Ascending(places)[i]]]

\* The lists one after another.
Concat(lists) ==
    LET upto[n \in 0..Len(lists)] == IF n = 0 THEN <<>> ELSE upto[n - 1] \o lists[n]
    IN  upto[Len(lists)]

\* A map after some entries have been set.
Updated(map, entries) ==
    [x \in DOMAIN entries \cup DOMAIN map |->
        IF x \in DOMAIN entries THEN entries[x] ELSE map[x]]
=============================================================================
