--------------------------- MODULE MCBindSessions ---------------------------
(* A small instance of BindSessions.                                          *)
EXTENDS BindSessions, TLC
=============================================================================
