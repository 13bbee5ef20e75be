------------------------------ MODULE MCMemDir ------------------------------
EXTENDS MemDir, TLC
MCPaths == { << >>, << "a" >>, << "a", "b" >>, << "a", "..", "b" >> }
HandleSymmetry == Permutations(Handles)
=============================================================================
