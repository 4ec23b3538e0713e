------------------------------- MODULE MCHopset ------------------------------
(* Small instances of HopsetLink for TLC: three base channels. *)
EXTENDS HopsetLink
Channels3 == {0, 1, 2}
Drop2 == {0, 1}
Drop1 == {0, 2}
OnlyOne == {0}
Outside == {0, 1, 2, 9}
TheMasks == {Drop2, Drop1, OnlyOne, Outside, Channels3}
AskDrop2 == {Drop2}
AskDrop1 == {Drop1}
AskFull == {Channels3}
AskAll == {Drop2, Channels3, OnlyOne, Outside}
Nothing == {}
==============================================================================
