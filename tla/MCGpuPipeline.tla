--------------------------- MODULE MCGpuPipeline ---------------------------
\* GpuPipeline with one cumulative cell and one window cell.
EXTENDS GpuPipeline

MCSumCells    == {"vwap_den"}
MCWindowCells == {"win_bid"}
=============================================================================
