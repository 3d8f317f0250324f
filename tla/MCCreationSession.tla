--------------------------- MODULE MCCreationSession ---------------------------
(* Instances of CreationSession small enough for TLC. *)
EXTENDS CreationSession, TLC

\* Two URL 来源 differ in nothing that a safety property tells apart.
SameUrls == Permutations(Urls)
=============================================================================
