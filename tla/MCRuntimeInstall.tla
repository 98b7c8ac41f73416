-------------------------- MODULE MCRuntimeInstall --------------------------
EXTENDS RuntimeInstall, TLC
MCSymmetry == Permutations(Apps)
=============================================================================
