---------------------------- MODULE MCMarketData ----------------------------
(* Instances of MarketData for TLC. *)
EXTENDS MarketData
=============================================================================
