--------------------------- MODULE MCNativeSpawn ---------------------------
(* An instance of NativeSpawn for TLC: one session and the agents it spawns.    *)
EXTENDS NativeSpawn, TLC

Plain == [tool |-> "local", profile |-> "think", allowed |-> {"Read", "Edit"},
          denied |-> {}, mode |-> None, cap |-> None]

\* A capped lookup in a mode that ignores its allowlist, an expert (a deep run whose
\* cap is 0, no ceiling), and an architect asked for the way another architect can
\* ask for it too.
MCRequests ==
  {[Plain EXCEPT !.allowed = {"Read"}, !.mode = "bypassPermissions", !.cap = 5],
   Deep("expert", None),
   [Plain EXCEPT !.profile = "architect"]}

RunSymmetry == Permutations(Runs)
=============================================================================
