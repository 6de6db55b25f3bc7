-------------------------- MODULE MCSkeletonStage ---------------------------
(***************************************************************************)
(* A target of two events, x and y; y depends on x and reads from one of   *)
(* two writes, so that a graph with y after x has two variants.            *)
(***************************************************************************)
EXTENDS SkeletonStage

MCGraphs == {"o", "x", "y", "xy", "xy2"}
MCEvents == {"x", "y"}
MCAdds == {<<"o", "x", "x">>, <<"o", "y", "y">>, <<"x", "y", "xy">>}
MCRewires == {<<"xy", "xy2">>, <<"xy2", "xy">>}
MCSeeds == <<"o">>
=============================================================================
