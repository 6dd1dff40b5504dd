------------------------------ MODULE MC_Tools ------------------------------
(* Instances of Tools for TLC.                                             *)
EXTENDS Tools, TLC

\* A vault that is named as its own directory of entries is, two directories
\* beside it, and two links to it: one at the root, one where an export into
\* "b" puts its entries.
SomeVault == <<Entries>>
SomeTree  == {SomeVault, <<Entries, Entries>>, <<"o">>, <<"b">>}
SomeLink  == <<"l">> :> SomeVault @@ <<"b", Entries>> :> SomeVault
SomeCwd   == {Root, SomeVault, <<"o">>}

\* "n" is nowhere.
Step == {Entries, "o", "b", "l", "n", Up}

\* Every path of up to four steps.
SomeAsked ==
    [abs : BOOLEAN, names : UNION {[1 .. k -> Step] : k \in 1 .. 4}]

Symmetry == Permutations(Date)
=============================================================================
