------------------------------ MODULE MCEngine ------------------------------
(* Small instances of the engine for TLC.                                  *)
EXTENDS EngineProperties

CONSTANTS driveC, driveD   \* drive letters

OneDrive == <<driveC>>
TwoDrives == <<driveC, driveD>>
=============================================================================
