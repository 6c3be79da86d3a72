------------------------ MODULE MCSurfaceFlingerSink ------------------------
(***************************************************************************)
(* Pictures for TLC: one pixel, odd sizes and even ones.                   *)
(***************************************************************************)
EXTENDS SurfaceFlingerSink

Pictures == {[w |-> 1, h |-> 1], [w |-> 3, h |-> 2], [w |-> 2, h |-> 3]}
=============================================================================
