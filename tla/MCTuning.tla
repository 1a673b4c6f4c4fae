------------------------------ MODULE MCTuning ------------------------------
(* The tool where ffmpeg may succeed without yielding a frame of a scene.   *)
EXTENDS Tuning

MCNaN == -1
MCMeasures == {MCNaN, 2, 3}
=============================================================================
