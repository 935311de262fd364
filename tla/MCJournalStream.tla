--------------------------- MODULE MCJournalStream ---------------------------
(***************************************************************************)
(* JournalStream for TLC.                                                  *)
(***************************************************************************)
EXTENDS JournalStream
=============================================================================
