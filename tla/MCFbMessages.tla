---- MODULE MCFbMessages ----
EXTENDS FbMessages, TLC
CONSTANTS u1, u2
Symmetry == Permutations({u1, u2})

\* What the steps and the properties other than InOrder depend on.
Present == <<apiVars, blist, dataVars, imgVars, icons, shown, lost>>
====
