----------------------------- MODULE MCUiRaster -----------------------------
(* UiRaster for TLC. *)
EXTENDS UiRaster
=============================================================================
