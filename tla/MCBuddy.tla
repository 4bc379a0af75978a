------------------------------ MODULE MCBuddy -------------------------------
(***************************************************************************)
(* The buddy allocator on a heap of two blocks of four pages.              *)
(***************************************************************************)
EXTENDS Buddy

\* Constraint: the free lists hold cycles after a relink, and a kfree() then
\* may follow NULL; what comes after is not explored.
BeforeRelink == ~relinked
=============================================================================
