------------------------- MODULE MCDetectionService -------------------------
(* Small instances of DetectionService for TLC. *)
EXTENDS DetectionService, TLC

CONSTANTS bad, suspect

(* The configured rules block one flow more than the default ones.         *)
TwoVersions == (0 :> {bad}) @@ (1 :> {bad, suspect})
=============================================================================
