-------------------------------- MODULE MCRepair --------------------------------
EXTENDS Repair
=============================================================================
