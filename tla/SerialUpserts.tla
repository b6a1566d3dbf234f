----------------------------- MODULE SerialUpserts -----------------------------
(***************************************************************************)
(* What transactions made of orm_upsert calls promise together: the table  *)
(* changes as if each transaction ran alone, all at once and at most once. *)
(***************************************************************************)
CONSTANTS Calls, Keys,
          Plan,        \* Plan[c]: the upserts of transaction c, in order
          Data,        \* Data[c]: the value c's payloads hold
          Old,         \* what the columns of a row from before hold
          Absent       \* no such row

VARIABLES rows, applied

vars == <<rows, applied>>

(***************************************************************************)
(* A row has a column the payload sets, one that insert_only sets, and one *)
(* that the caller edits on the record an upsert returned to it.  To       *)
(* upsert a row again changes nothing more, so that a transaction's effect *)
(* on a row is what its upserts of that row have in common.                *)
(***************************************************************************)
Upserted(row, c) ==
    IF row = Absent THEN [value |-> Data[c], inserter |-> c, editor |-> Old]
    ELSE [row EXCEPT !.value = Data[c]]

Edited(row, c) == [row EXCEPT !.editor = c]

Upserts(c, k) == \E i \in DOMAIN Plan[c] : Plan[c][i].key = k
Edits(c, k) == \E i \in DOMAIN Plan[c] : Plan[c][i].key = k /\ Plan[c][i].edit

RowAfter(row, c, k) ==
    IF Edits(c, k) THEN Edited(Upserted(row, c), c)
    ELSE IF Upserts(c, k) THEN Upserted(row, c)
    ELSE row

After(table, c) == [k \in Keys |-> RowAfter(table[k], c, k)]

Transaction(c) == /\ c \notin applied
                  /\ applied' = applied \union {c}
                  /\ rows' = After(rows, c)

Next == \E c \in Calls : Transaction(c)
=============================================================================
