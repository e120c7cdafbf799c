---------------------------- MODULE EntityManager ----------------------------
(***************************************************************************)
(* What repository.save(entity) of the object mapper does to a row that    *)
(* already exists.  The row is read again, the columns in which the entity *)
(* in memory differs from what was just read are computed, and only these  *)
(* are written, without looking at the row once more.  So                  *)
(*   - a column the handler never meant to touch is written back if        *)
(*     another request changed it after the handler's own read;            *)
(*   - a column that another request changes after the second read stays.  *)
(* The mapper is a library and not part of the repository.                 *)
(***************************************************************************)

\* The columns the UPDATE will name.
Differing(entity, row) == {c \in DOMAIN row : entity[c] # row[c]}

\* The row after an UPDATE of those columns.
Updated(row, entity, columns) ==
    [c \in DOMAIN row |-> IF c \in columns THEN entity[c] ELSE row[c]]
=============================================================================
