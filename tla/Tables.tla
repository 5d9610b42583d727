------------------------------- MODULE Tables -------------------------------
(***************************************************************************)
(* A database table is a partial function from row identifiers to rows:    *)
(* its DOMAIN is the set of identifiers that have a row.  The repositories *)
(* write it through three Prisma calls only.                               *)
(***************************************************************************)

\* prisma.<table>.upsert({ where: { id }, create: row, update: row }): one
\* atomic statement that writes EVERY column of the row, whatever the row
\* holds by now.  The mappers' toPersistence list all columns of an entity.
Upsert(table, id, row) ==
    [x \in DOMAIN table \cup {id} |-> IF x = id THEN row ELSE table[x]]

\* The empty table.
NoRows == [x \in {} |-> {}]
=============================================================================
