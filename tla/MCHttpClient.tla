---------------------------- MODULE MCHttpClient ----------------------------
(***************************************************************************)
(* The instance of HttpClient for TLC: requests are interchangeable.       *)
(***************************************************************************)
EXTENDS HttpClient, TLC

Symmetry == Permutations(Requests)
=============================================================================
