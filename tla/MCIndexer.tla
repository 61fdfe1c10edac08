----------------------------- MODULE MCIndexer -----------------------------
(* The explorer's indexer on a few blocks, with one restart of each side. *)
EXTENDS Indexer
=============================================================================
