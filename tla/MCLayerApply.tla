---------------------------- MODULE MCLayerApply ----------------------------
(* An instance of LayerApply for TLC: two plain names, and "a\b", which    *)
(* lands at a/b and, in a directory, deeper than any path of the instance. *)
EXTENDS LayerApply, TLC

CONSTANTS a, b, a_b

MCSlashed == a :> <<a>> @@ b :> <<b>> @@ a_b :> <<a, b>>

(* What becomes of names with ".." between their backslashes: "a\..\b",    *)
(* "a\..\..\b", "a\..", "\..\a".                                           *)
ASSUME CleanAssumption ==
    /\ Clean(<<a, Up, b>>) = <<b>>
    /\ Clean(<<a, Up, Up, b>>) = <<Up, b>>
    /\ Clean(<<a, Up>>) = Root
    /\ Clean(<<Empty, Up, a>>) = <<a>>

(* Contents and link targets are only compared. *)
MCSymmetry == Permutations(Contents) \cup Permutations(Links)
=============================================================================
