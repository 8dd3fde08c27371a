---------------------------- MODULE MCSourceText ----------------------------
(* One source text alone.                                                  *)
EXTENDS SourceGrammar, MCSources
=============================================================================
