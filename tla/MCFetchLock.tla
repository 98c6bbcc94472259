---------------------------- MODULE MCFetchLock ----------------------------
(***************************************************************************)
(* FetchLock for TLC: two goroutines and two keys, so that they contend    *)
(* for one mutex, or only for the map.                                     *)
(***************************************************************************)
EXTENDS FetchLock, TLC
=============================================================================
