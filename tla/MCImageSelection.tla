-------------------------- MODULE MCImageSelection --------------------------
(* Instances of ImageSelection for TLC.                                    *)
EXTENDS ImageSelection

CONSTANTS x, y, p, q

\* A service takes its image from the tag x, from the tag y for the other
\* platform, or builds it.
FewSources ==
    {[ref |-> x, platform |-> Unset, build |-> FALSE],
     [ref |-> y, platform |-> q, build |-> FALSE],
     [ref |-> x, platform |-> Unset, build |-> TRUE]}

=============================================================================
