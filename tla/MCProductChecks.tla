---------------------------- MODULE MCProductChecks ----------------------------
EXTENDS ProductChecks
=============================================================================
