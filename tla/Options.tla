------------------------------ MODULE Options ------------------------------
(* A value that may be missing, None in the program, is a set of one or    *)
(* none.                                                                   *)

Maybe(S) == {{}} \cup {{x} : x \in S}
=============================================================================
