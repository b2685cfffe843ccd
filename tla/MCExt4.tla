-------------------------------- MODULE MCExt4 --------------------------------
(* Ext4 with relative paths of one component and absolute ones of two and of   *)
(* none, and with one name at two levels.                                      *)
EXTENDS Ext4

ShortPaths == {[abs |-> FALSE, comps |-> <<n>>] : n \in {"a", "b", ".."}}
                \cup {[abs |-> TRUE, comps |-> <<"a", "b">>], [abs |-> TRUE, comps |-> <<>>]}

NestedPaths == {[abs |-> TRUE, comps |-> <<"a">>], [abs |-> TRUE, comps |-> <<"a", "a">>]}
==============================================================================
