------------------------- MODULE MCPersistentBoxes -------------------------
(* Values for the constants of PersistentBoxes; one config per question.   *)
EXTENDS PersistentBoxes, TLC

CONSTANTS o1, o2, t1, t2, n1, n2, n3, l1, a, b

Symmetry == Permutations(Requests)

Plain == [persistent |-> TRUE, claims |-> <<>>]
Connection == [persistent |-> FALSE, claims |-> <<>>]
TwoClaims == [persistent |-> TRUE, claims |-> <<a, b>>]

\* The cap: three boxes under one label, without storage, of templates that the
\* operator may switch to connection mode.  The label is a truncated hash that two
\* owners share, and so is the name of a box of theirs.
CapContents == {Plain, Connection}
CapBoxes == [x \in {o1, o2} \X {t1, t2} |->
               CASE x[2] = t2 -> n2 [] x[1] = o1 -> n1 [] OTHER -> n3]

\* Claims: two owners whose box names collide, one template, two claims.
ClaimsContents == {TwoClaims}
ClaimsBoxes == [x \in {o1, o2} \X {t1} |-> n1]
OneLabel == [o \in {o1, o2} |-> l1]
\* Claims made by hand: one with the right identity but owner references, one
\* without any identity.
ClaimsPreexisting == {[ident |-> <<o1, t1, a>>, terminating |-> FALSE, owned |-> TRUE],
                      [ident |-> Blank, terminating |-> FALSE, owned |-> FALSE]}
NoClaims == {}
=============================================================================
