---------------------------- MODULE MCCsiCamera -----------------------------
(* The instances of CsiCamera the runs check.                              *)
EXTENDS CsiCamera

OneChannel == {0}
TwoChannels == {0, 1}
=============================================================================
