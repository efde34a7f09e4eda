--------------------------- MODULE MCDeskSession ---------------------------
(* A prompt page and one that may stop pinging and come back.  Names for   *)
(* the current session and for two older ones that a page or a command     *)
(* still refers to.                                                        *)
EXTENDS DeskSession

CONSTANTS fast, slow
MCNames == 1..3
=============================================================================
