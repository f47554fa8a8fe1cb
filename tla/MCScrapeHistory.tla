--------------------------- MODULE MCScrapeHistory --------------------------
(* Instances of ScrapeHistory for TLC: the model values of MCScrapeDSN.    *)
EXTENDS ScrapeHistory, MCScrapeDSN
============================================================================
