----------------------------- MODULE MCLimiter -----------------------------
(* Symmetry for the run of WriteLimiter. *)
EXTENDS WriteLimiter, TLC

\* Requests are interchangeable, and so are clients.
MCSymmetry == Permutations(Requests) \cup Permutations(Clients)
=============================================================================
