---------------------------- MODULE MCScrapeDSN ----------------------------
(* Instances of ScrapeDSN for TLC.  Scrapers and servers are model values, *)
(* interchangeable in the safety runs.                                     *)
EXTENDS ScrapeProgress, TLC

CONSTANTS t1, t2, t3, t4, i1, i2, i3

Interchangeable == Permutations(Scraper) \cup Permutations(Server)
============================================================================
