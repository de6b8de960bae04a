--------------------------- MODULE MCDocumentParse ---------------------------
(* A small instance of DocumentParse for TLC: two versions of one document or  *)
(* of two, files that parse and files that do not.                             *)
EXTENDS DocumentParse

SomeOutcomes == {"complete", "failed"}
=============================================================================
