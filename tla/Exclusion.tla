----------------------------- MODULE Exclusion -----------------------------
(***************************************************************************)
(* What the coordinator promises to the rest of the program, without       *)
(* saying how: an actor works on at most one scope at a time, two actors   *)
(* never work on conflicting scopes, and a process death frees everything. *)
(* A scope is a stack, or the repository, which conflicts with every scope.*)
(***************************************************************************)
CONSTANTS Actors, Stacks, Repository, None

VARIABLE owner    \* owner[a]: the scope that actor a works on, or None

Scopes == Stacks \cup {Repository}

Conflict(x, y) == x = y \/ x = Repository \/ y = Repository

Init == owner = [a \in Actors |-> None]

Acquire(a, x) ==
    /\ owner[a] = None
    /\ \A b \in Actors : owner[b] # None => ~Conflict(owner[b], x)
    /\ owner' = [owner EXCEPT ![a] = x]

Leave(a) ==
    /\ owner[a] # None
    /\ owner' = [owner EXCEPT ![a] = None]

Die == owner' = [a \in Actors |-> None]

Next ==
    \/ \E a \in Actors : Leave(a) \/ \E x \in Scopes : Acquire(a, x)
    \/ Die

Spec == Init /\ [][Next]_owner

=============================================================================
