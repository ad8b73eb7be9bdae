--------------------------- MODULE MCOwnerAccess ---------------------------
(* Values for the constants of OwnerAccess: two templates, of which the    *)
(* operator publishes the first, none, or the second next to a broken one. *)
(* A walk that meets two of these may list both.                           *)
EXTENDS OwnerAccess, TLC

CONSTANTS p1, p2, other

Pods == <<p1, p2>>
Published == {<<"persistent", "other">>, <<"other", "absent">>, <<"bad", "persistent">>}
Symmetry == Permutations(Requests)
Edits == [account |-> {"mounts"}, role |-> {<<>>, Absent}, binding |-> {"subjects", "ref", Absent}]
NoEdits == [account |-> {}, role |-> {}, binding |-> {}]
=============================================================================
