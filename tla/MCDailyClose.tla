----------------------------- MODULE MCDailyClose -----------------------------
(* A small instance of DailyClose, to close one day by two of its stamps. *)
EXTENDS DailyClose

CONSTANTS p1, midnight, noon
=============================================================================
