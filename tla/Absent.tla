------------------------------- MODULE Absent ------------------------------
(* The value of a column that is null, of a key that is not there, of a       *)
(* variable nothing has been assigned to.                                     *)
CONSTANT None

=============================================================================
