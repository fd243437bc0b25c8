--------------------------- MODULE MCLedgerStore ---------------------------
(* LedgerStore for TLC: two topics, ledgers of two entries, files of two       *)
(* records.                                                                  *)
EXTENDS LedgerStore

CONSTANTS a, b

MCTopics == {a, b}

=============================================================================
