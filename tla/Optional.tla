------------------------------ MODULE Optional ------------------------------
(* Python's None: the absent optional value, different from every other.   *)
CONSTANT None
=============================================================================
