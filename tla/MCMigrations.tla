---------------------------- MODULE MCMigrations ----------------------------
(* Constants of MigrationFiles for TLC. *)
EXTENDS MigrationFiles

\* All lexemes in short texts, and some in longer ones.
MCTexts == {<<{";", "'", "dq", "$", "t", "--", "/*", "*/", " ", "nl"}, 4>>,
            <<{";", "$", "t"}, 8>>,
            <<{";", "'", "dq", "--", "nl"}, 6>>}
=============================================================================
