----------------------------- MODULE MCRateLimit ------------------------------
(* Instances of RateLimit for TLC.                                         *)
EXTENDS RateLimit, TLC

CONSTANTS fast, slow, free, f, s, n

\* Two processes with limits of their own and one without a limit.
AtHome == (f :> fast) @@ (s :> slow) @@ (n :> free)

Intervals == (fast :> 2) @@ (slow :> 3) @@ (free :> 0)

SomeChunks == (fast :> 2) @@ (slow :> 1) @@ (free :> 1)

OneAgain == (fast :> 1) @@ (slow :> 2) @@ (free :> 1)
===============================================================================
