---------------------------- MODULE MCAuthSession ----------------------------
(* AuthSession with model values for the tabs, the calls and the accounts.   *)
EXTENDS AuthSession, TLC

CONSTANTS t1, t2, a1, a2, p1, u1, u2

MCSymmetry == Permutations({t1, t2}) \cup Permutations({a1, a2}) \cup Permutations({u1, u2})

\* What ShownIsActing is about: murky stays TRUE once it is, and excuses the rest.
MCUndisturbed == ~murky
=============================================================================
