--------------------------- MODULE MCCollectionBatch ---------------------------
EXTENDS CollectionBatch

=============================================================================
