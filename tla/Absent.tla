------------------------------- MODULE Absent -------------------------------
(* The value that stands for what is not there: no row, file, token, process  *)
(* or answer. The components whose proofs share a module share it.            *)
CONSTANT None
=============================================================================
