--------------------------- MODULE MCDesktopDaemon ---------------------------
(* Instances of DesktopDaemon for TLC. *)
EXTENDS DesktopDaemon

CONSTANTS alice, bob
=============================================================================
