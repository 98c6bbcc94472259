---------------------------- MODULE MCTestDouble ----------------------------
(***************************************************************************)
(* All doubles, called by two goroutines, one of which calls twice.        *)
(***************************************************************************)
EXTENDS TestDouble

CONSTANTS c1, c2

MCMaxCalls == c1 :> 2 @@ c2 :> 1

MCDoubles == AllDoubles
=============================================================================
