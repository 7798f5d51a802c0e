------------------------------ MODULE MCTables ------------------------------
EXTENDS Tables

\* Rows of one table do not interact, except through their order in the history.
MCMaxIds == [token |-> 2, schedule |-> 1, check |-> 2, history |-> 3]
=============================================================================
