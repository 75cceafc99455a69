------------------------------ MODULE MCMALRU ------------------------------
EXTENDS MALRU, TLC

CONSTANTS a1, a2, a3, a4

MCTags == {a1, a2, a3, a4}
MCInitialStacks == {<<Other, Other, Other>>}
MCSymmetry == Permutations({a1, a2, a3, a4})
=============================================================================
