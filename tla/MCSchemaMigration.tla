------------------------ MODULE MCSchemaMigration ------------------------
EXTENDS SchemaMigrationInv, TLC

Interchangeable == Permutations(Migrators)
=============================================================================
