----------------------------- MODULE MCSessions -----------------------------
(***************************************************************************)
(* One user with one client that runs two requests at a time.              *)
(***************************************************************************)
EXTENDS SessionClients, TLC

CONSTANTS r1, r2

MCRequests == {r1, r2}
MCSymmetry == Permutations(MCRequests)
=============================================================================
