----------------------------- MODULE MCArticles -----------------------------
EXTENDS Articles, TLC

\* Texts, 主题, keys and requests are interchangeable.
Symmetry == Permutations(Contents) \cup Permutations(Keys) \cup Permutations(Writers)

Written == Cardinality({w \in Writers : writers[w] # NotWriting})
             + Cardinality(UNION {revisions[v] : v \in DOMAIN revisions})

AtWork == {r \in DOMAIN runs : runs[r].worker # "none"}

\* bound: two runs meet at every step of theirs; a third follows a 主题 run that
\* succeeded, and its handler works alone.  Revisions are saved beside one run at rest
\* at most, and three of them.
Bounded ==
    /\ Len(runs) = 3 => /\ runs[1].kind = "theme" /\ runs[1].status = "succeeded"
                        /\ AtWork \subseteq {3}
    /\ Written > 0 => Len(runs) <= 1 /\ AtWork = {} /\ Written <= 3

=============================================================================
