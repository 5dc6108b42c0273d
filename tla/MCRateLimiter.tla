---------------------------- MODULE MCRateLimiter ----------------------------
(* Instances of RateLimiter for TLC.                                        *)
EXTENDS RateLimiter, TLC

\* Limits in the order of the defaults: fewer logins than other requests.
MCLimit == [c \in Class |-> IF c = "auth" THEN 1 ELSE 2]

\* Goroutines are interchangeable; addresses are not, one of them is watched.
GoroutineSymmetry == Permutations(Goroutine)

=============================================================================
