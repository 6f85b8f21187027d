----------------------------- MODULE MCUserStore -----------------------------
(***************************************************************************)
(* Instances of UserStore for TLC: threads, users, tokens and Globus IDs   *)
(* are sets of model values.                                               *)
(***************************************************************************)
EXTENDS UserStore, TLC

\* The four sets are interchangeable; used where only safety is checked.
Symmetry == Permutations(Requests) \cup Permutations(Users)
                \cup Permutations(Tokens) \cup Permutations(GlobusIDs)
==============================================================================
