------------------------ MODULE MCScreencastRecorder ------------------------
(***************************************************************************)
(* An instance of ScreencastRecorder with a grid of two ticks a step, so   *)
(* that frames arrive on the grid and between its positions.               *)
(***************************************************************************)
EXTENDS ScreencastRecorder
=============================================================================
