-------------------------- MODULE MCThemeProposals --------------------------
EXTENDS ThemeProposals, TLC

\* Requests and handlers are interchangeable.
Symmetry == Permutations(Requests) \cup Permutations(Handlers)

\* bound: two handlers work beside one press at most, and a third and a fourth press
\* are made while the others wait for a worker.
Bounded ==
    /\ Len(presses) > 1 => \E h \in Handlers : handler[h] = Idle
    /\ Len(presses) > 2 => \A p \in DOMAIN presses : presses[p].status = "queued"

=============================================================================
