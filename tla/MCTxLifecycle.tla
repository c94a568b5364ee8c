--------------------------- MODULE MCTxLifecycle ---------------------------
EXTENDS AccountView
=============================================================================
