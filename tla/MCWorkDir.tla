------------------------------ MODULE MCWorkDir -----------------------------
EXTENDS WorkDir, TLC
(* /d and the file /d/m, and the volume at /v: d/e/f (a file), d/f, d/x     *)
(* (without a cluster), f                                                   *)
MCEnts ==
  "fat_root" :> ("d" :> "v/d" @@ "f" :> "v/f") @@
  "v/d"      :> (".." :> "fat_root" @@ "e" :> "v/d/e" @@ "f" :> "v/d/f" @@ "x" :> "v/d/x") @@
  "v/d/e"    :> (".." :> "v/d" @@ "f" :> "v/d/e/f")
MCMemEnts ==
  "/" :> ("v" :> "fat_root" @@ "d" :> "/d") @@
  "/d" :> (".." :> "/" @@ "m" :> "/d/m")
MCTokens == {"/", ".", "..", "d", "e", "f", "m", "v", "x"}
MCPaths ==
  { << "." >>, << "f" >>, << "d" >>, << "e" >>, << "v" >>, << "/" >>,
    << "..", "/" >>, << "e", "/", ".." >>, << "d", "/", "e" >>, << "d", "/", ".", "/", "f" >>,
    << "/", "v", "/", "d" >>, << "/", "v", "/", "f" >>, << "/", "v", "/", "d", "/", "f", "/", "e" >>,
    << "d", "/", "x" >>, << "/", "d", "/", "m" >>, << "m", "/", "f" >> }
=============================================================================
