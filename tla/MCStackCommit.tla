--------------------------- MODULE MCStackCommit ---------------------------
(* Instances of StackCommit for TLC.                                       *)
EXTENDS StackCommit, TLC

\* Stacks are interchangeable, and so are the goroutines when all of them may commit.
CommitSymmetry == Permutations(Stacks) \cup Permutations(Requests)

=============================================================================
