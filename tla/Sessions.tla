------------------------------ MODULE Sessions ------------------------------
(***************************************************************************)
(* What a SQLAlchemy session (core/database.py: no autoflush) writes at its *)
(* commit of a row that it has read: the columns it has changed, and no     *)
(* other.                                                                   *)
(***************************************************************************)

(* The value of a column after a commit that set it to v, when it was read  *)
(* as old.                                                                  *)
Kept(old, v, now) == IF old = v THEN now ELSE v
=============================================================================
