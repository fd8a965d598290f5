---------------------------- MODULE MCHistoryView ----------------------------
(* Model values for HistoryView: three jobs, the first submitted long ago.   *)
EXTENDS HistoryView

Names == <<"loader", "miner", "loader">>
=============================================================================
