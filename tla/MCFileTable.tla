---------------------------- MODULE MCFileTable ----------------------------
(* Two slots and three descriptors, so that the table fills before the     *)
(* kernel does; one file, so that two streams share it.  Descriptors are   *)
(* interchangeable: the kernel may hand out any that is closed.            *)
EXTENDS FileTable, TLC

FdSymmetry == Permutations(Fd)
=============================================================================
