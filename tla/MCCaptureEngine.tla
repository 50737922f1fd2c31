-------------------------- MODULE MCCaptureEngine --------------------------
(* Small instances of CaptureEngine for TLC: two producer threads, which   *)
(* nothing but their names tells apart.                                    *)
EXTENDS CaptureEngine

CONSTANTS a, b
============================================================================
