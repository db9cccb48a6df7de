----------------------------- MODULE MCIndexer ------------------------------
(* A launch with a carve and a lock that ends, and one with neither.       *)
EXTENDS Indexer
MCLaunches == {<<0, TRUE>>, <<1, FALSE>>}
=============================================================================
