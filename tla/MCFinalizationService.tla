------------------------ MODULE MCFinalizationService ------------------------
EXTENDS FinalizationService
=============================================================================
