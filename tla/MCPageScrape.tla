---------------------------- MODULE MCPageScrape ----------------------------
(* PageScrape for TLC: a listing of seven cards and the four that a search  *)
(* finds, one of them without a link.                                       *)
EXTENDS PageScrape

MCListing == <<"other", "matching", "missing", "matching", "other",
               "matching", "other">>
MCFound == <<"matching", "missing", "matching", "matching">>
=============================================================================
