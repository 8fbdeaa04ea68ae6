---------------------------- MODULE MCAutoUpdate ----------------------------
(* Instances of AutoUpdate for TLC.                                        *)
EXTENDS AutoUpdate, TLC

\* Run ids are interchangeable, and so are workers.
RunSymmetry == Permutations(Runs)
UpdateSymmetry == Permutations(Workers) \cup Permutations(Runs)

=============================================================================
