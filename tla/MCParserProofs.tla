---------------------------- MODULE MCParserProofs ----------------------------
(* ParserHtmlProofs for TLC: its inductive invariant on the lines of MCParser. *)
EXTENDS ParserHtmlProofs, MCParser

==============================================================================
