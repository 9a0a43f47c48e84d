---------------------------- MODULE MCPairsLive -----------------------------
(* Constants of PairsLive for TLC. *)
EXTENDS PairsLive

OneWay == {0, 1}
BothWays == {-1, 1}
AllSignals == {-1, 0, 1}
=============================================================================
