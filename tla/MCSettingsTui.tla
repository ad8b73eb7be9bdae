--------------------------- MODULE MCSettingsTui ---------------------------
(* Values for the constants of SettingsTui.                                *)
EXTENDS SettingsTui, TLC

\* Of two boxes one stays or is deleted; the other may do anything.
SecondBoxStays == \A i \in Rows : i > 1 => pods[i] # "absent"

Symmetry == Permutations(Rounds \ {AfterDelete})
=============================================================================
