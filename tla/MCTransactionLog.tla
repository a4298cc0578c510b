--------------------------- MODULE MCTransactionLog ---------------------------
EXTENDS TransactionLog
=============================================================================
