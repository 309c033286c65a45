--------------------------- MODULE MCSharedMemory ---------------------------
(* SharedMemory with two objects and one name, an i64 of 4 bits and pages  *)
(* of 2 bytes.                                                             *)
EXTENDS SharedMemory, TLC

CONSTANTS o1, o2

Symmetry == Permutations(Objects)

Included(i) == <<"Included", i>>
Excluded(i) == <<"Excluded", i>>
From(start, end) == [start |-> start, end |-> end]

(* Bound: two objects are not mapped at once, which have nothing to do with *)
(* each other.                                                             *)
OneMapping ==
    \A o, p \in Objects : mapping[o] # None /\ mapping[p] # None => o = p

(* Ranges that can be mapped, and ranges that overflow, are negative, end  *)
(* before they start, or start within a page.                              *)
SomeRanges ==
    {From(Unbounded, Unbounded),
     From(Included(0), Excluded(2)), From(Excluded(1), Included(3)),
     From(Included(2), Included(7)), From(Included(0), Included(7)),
     From(Excluded(7), Unbounded), From(Excluded(7), Excluded(-6)),
     From(Included(-2), Included(1)), From(Included(2), Excluded(-8)),
     From(Included(4), Excluded(2)), From(Included(1), Excluded(3))}

Option(write, truncate, create, create_new) ==
    [write |-> write, truncate |-> truncate, create |-> create,
     create_new |-> create_new]

SomeOptions == {Option(TRUE, TRUE, TRUE, FALSE),
                Option(FALSE, TRUE, FALSE, TRUE)}

=============================================================================
