---------------------- MODULE MCConsolidationFileLock ----------------------
EXTENDS ConsolidationFileLock
=============================================================================
