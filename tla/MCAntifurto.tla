---------------------------- MODULE MCAntifurto ----------------------------
EXTENDS Antifurto, TLC

(* Cameras and stoppers are interchangeable; used only without liveness.   *)
Symmetry == Permutations(Cameras) \cup Permutations(Stoppers)
=============================================================================
