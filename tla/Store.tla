-------------------------------- MODULE Store --------------------------------
(***************************************************************************)
(* The entity store the engine gives the handlers, as the code uses it: a  *)
(* table is a function from the ids that have a row to their rows.         *)
(***************************************************************************)
EXTENDS Integers

NoTable == [id \in {} |-> id]

\* X.get(id) found a row.
Has(table, id) == id \in DOMAIN table

\* X.create({id, ...}).save(): inserts the row, or replaces the one there is.
Save(table, id, row) ==
  [k \in DOMAIN table \union {id} |-> IF k = id THEN row ELSE table[k]]

\* store.bulkCreate and store.bulkUpdate, or saves under one Promise.all.
SaveAll(table, rows) ==
  [k \in DOMAIN table \union DOMAIN rows |-> IF Has(rows, k) THEN rows[k] ELSE table[k]]

\* X.remove(id): no error when there is no row.
Delete(table, ids) == [k \in DOMAIN table \ ids |-> table[k]]
=============================================================================
