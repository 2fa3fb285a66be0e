----------------------------- MODULE MCApiServer -----------------------------
(***************************************************************************)
(* ApiServer with a limit of two, so that three requests reach it, and two *)
(* minutes, so that the third can come late.                               *)
(***************************************************************************)
EXTENDS ApiServer, TLC

CONSTANTS r1, r2, r3

MCRequests == {r1, r2, r3}

\* Requests are interchangeable, and nothing else is permuted.
MCSymmetry == Permutations(MCRequests)

=============================================================================
