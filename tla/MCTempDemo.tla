----------------------------- MODULE MCTempDemo -----------------------------
EXTENDS TempSubPubAndLEDControlDemo
=============================================================================
