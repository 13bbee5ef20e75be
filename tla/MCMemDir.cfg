SPECIFICATION TreeSpec
CONSTANTS MaxNode = 4  MaxTaken = 1  Names = {"a", "b"}  Handles = {h1, h2}
CONSTANT Paths <- MCPaths
SYMMETRY HandleSymmetry
INVARIANTS TreeOK ListingComplete
