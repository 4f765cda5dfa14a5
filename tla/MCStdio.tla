------------------------------ MODULE MCStdio ------------------------------
(* Two generations of processes, a buffer of two bytes (so that it fills),  *)
(* a formatting array that holds one byte and its NUL (so that it          *)
(* truncates) and one failing write.                                       *)
EXTENDS Stdio
=============================================================================
