-------------------------- MODULE MCMfaTransitions --------------------------
\* TLC instances of MfaTransitions: family ids are interchangeable.
EXTENDS MfaTransitions, TLC

FamilySymmetry == Permutations(Family) \cup Permutations(Request)
====
