-------------------------- MODULE MCPublishEngine --------------------------
(* Instances of PublishEngine for TLC: posts and children as model values. *)
EXTENDS PublishEngine, TLC

CONSTANTS x1, x2, a, b, e1, e2, u1, u2

OnePost == [p \in PlatformPosts |-> x1]
TwoPosts == [p \in PlatformPosts |-> IF p = a THEN x1 ELSE x2]

\* Backoffs that the clock reaches, that are over at once, that it never reaches.
ShortBackoff == [n \in 0..(MaxRetries - 1) |-> 1]
NoBackoff == [n \in 0..(MaxRetries - 1) |-> 0]
LongBackoff == [n \in 0..(MaxRetries - 1) |-> MaxTime + 1]

Siblings2 == Permutations({a, b})
Users2 == Permutations({u1, u2})

=============================================================================
