------------------------- MODULE MCRepositorySetup -------------------------
(* Instances of RepositorySetup for TLC.                                   *)
EXTENDS RepositorySetup, TLC

CONSTANTS main, porty, ann, filled, bare

\* One remote with the branch main, and one without any branch.
OneFilled == filled :> {main} @@ bare :> {}

=============================================================================
