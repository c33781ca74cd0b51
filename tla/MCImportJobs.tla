---------------------------- MODULE MCImportJobs ----------------------------
EXTENDS ImportJobs, TLC

Symmetry == Permutations(Requests) \union Permutations(Tasks)

=============================================================================
