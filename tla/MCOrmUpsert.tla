------------------------------ MODULE MCOrmUpsert ------------------------------
(* Two transactions that upsert two keys in opposite orders; the first one *)
(* edits a record it got back and upserts the same key again, and the      *)
(* second one's payload equals what an untouched row already holds.        *)
EXTENDS OrmUpsert
CONSTANTS c1, c2, k1, k2
MCCalls == {c1, c2}
MCKeys == {k1, k2}
MCPlan == [c \in MCCalls |->
             IF c = c1 THEN << [key |-> k1, edit |-> TRUE], [key |-> k2, edit |-> FALSE],
                               [key |-> k1, edit |-> FALSE] >>
             ELSE << [key |-> k2, edit |-> TRUE], [key |-> k1, edit |-> FALSE] >>]
MCData == [c \in MCCalls |-> IF c = c1 THEN c1 ELSE Old]
=============================================================================
