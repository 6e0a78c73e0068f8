----------------------------- MODULE MCWindows -----------------------------
(* Small instances of Windows. *)
EXTENDS Windows
=============================================================================
