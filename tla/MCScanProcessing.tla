-------------------------- MODULE MCScanProcessing --------------------------
(* A scan of two documents.                                                *)
EXTENDS ScanProcessing

CONSTANTS j1, j2

MCDocs        == <<j1, j2>>
MCMaxAttempts == [j \in Jobs |-> 1]     \* enqueue_scan_ocr
MCFileJobs    == {}
=============================================================================
