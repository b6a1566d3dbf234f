------------------------------ MODULE MCMigrate ------------------------------
(* A first release, a second one with one more file, and one in which a    *)
(* file was edited after it was released.                                  *)
EXTENDS Migrate
CONSTANTS r1, r2, original, edited
MCRunners == {r1, r2}
MCDirectories == {<<original, None>>, <<original, original>>, <<edited, original>>}
=============================================================================
