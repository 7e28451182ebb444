------------------------- MODULE MCConfirmHandshake -------------------------
(* ConfirmHandshake with a few questions and either host. *)
EXTENDS ConfirmHandshake
=============================================================================
