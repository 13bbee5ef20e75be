SPECIFICATION CarefulSpec
CONSTANTS Objs = {1, 2, 3, 4, 5}  MaxLost = 2  CWDSIZE = 9
CONSTANTS Ents <- MCEnts  Empties = {"v/d/x"}  MemEnts <- MCMemEnts  Tokens <- MCTokens  Paths <- MCPaths
INVARIANTS RefsCount OpenIsRight CwdPathNamesCwd

