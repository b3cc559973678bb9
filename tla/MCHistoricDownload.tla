------------------------- MODULE MCHistoricDownload -------------------------
(* HistoricDownload on a small market for TLC.                              *)
EXTENDS HistoricDownload

Days == {4, 6, 8, 10, 12, 14, 26, 28, 30, 32, 34, 36, 38}
Twice == <<10, 34, 60>>
=============================================================================
