-------------------------- MODULE MCCakeOrdinator --------------------------
(***************************************************************************)
(* CakeOrdinator for TLC.                                                  *)
(***************************************************************************)
EXTENDS CakeOrdinator, TLC

CONSTANTS rootLayer, topLayer, nsRoot, nsTop

\* An image of two layers, and one that is a single layer.
TwoLayers == {<<rootLayer, topLayer>>}
OneLayer == {<<rootLayer>>}

MCBaseParent == [b \in BaseLayers |-> IF b = topLayer THEN rootLayer ELSE NoLayer]

MCNamespacedID == [b \in BaseLayers |-> IF b = topLayer THEN nsTop ELSE nsRoot]

UnitSize == [b \in BaseLayers |-> 1]

Symmetry == Permutations(Containers)
=============================================================================
