----------------------------- MODULE MCPrpList ------------------------------
\* Instances of PrpList for model checking.  The commands are interchangeable.
EXTENDS PrpList

Symmetry == Permutations(Cmds)
=============================================================================
