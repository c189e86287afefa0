---------------------------- MODULE MCCrawlPages ----------------------------
(* Small instances of CrawlPages for TLC. *)
EXTENDS CrawlPages
=============================================================================
