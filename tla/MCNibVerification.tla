--------------------------- MODULE MCNibVerification ---------------------------
(* An instance of NibVerification for TLC. *)
EXTENDS NibVerification

SomeScales == {"", "MENENGAH"}
=============================================================================
