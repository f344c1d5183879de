----------------------------- MODULE MCDownload -----------------------------
(* A file of five bytes in segments of two and three, with a budget that it *)
(* fits in and one that it exceeds.                                          *)
EXTENDS Download

MCBudgets == {Total - 1, Total}
=============================================================================
