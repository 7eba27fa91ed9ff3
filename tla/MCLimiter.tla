----------------------------- MODULE MCLimiter ------------------------------
EXTENDS Limiter, TLC

\* No cap at all, no output, a cap under the floor,
\* and one that the budgets may shrink.
SomeOuts == {-1, 0, 1, 3}

Symmetric == Permutations(Calls \ Detached)
=============================================================================
