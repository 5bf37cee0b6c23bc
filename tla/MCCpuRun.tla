------------------------------ MODULE MCCpuRun ------------------------------
\* CpuRun with two cumulative cells and one window cell.
EXTENDS CpuRun

MCSumCells    == {"vwap_den", "cancel_shares"}
MCWindowCells == {"win_bid"}
=============================================================================
