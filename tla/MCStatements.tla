---------------------------- MODULE MCStatements ----------------------------
EXTENDS StatementsInv, TLC

Interchangeable == Permutations(Conn) \cup Permutations(Stmt)
=============================================================================
