--------------------------- MODULE MCMapperCache ---------------------------
EXTENDS MapperCache, TLC
Symmetric == Permutations(Hooks)
=============================================================================
