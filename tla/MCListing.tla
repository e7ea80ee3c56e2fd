----------------------------- MODULE MCListing -----------------------------
(* Small instances of Listing for TLC. *)
EXTENDS Listing

AllListings == Roots \cup Untyped \cup Typed
\* the listings that drop items from the pages they count
Dropping == {"github", "figshare_articles"}
=============================================================================
