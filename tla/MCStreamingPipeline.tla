------------------------ MODULE MCStreamingPipeline -------------------------
(* StreamingPipeline for TLC.                                                 *)
EXTENDS StreamingPipeline
=============================================================================
