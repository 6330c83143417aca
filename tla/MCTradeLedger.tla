---------------------------- MODULE MCTradeLedger ----------------------------
\* Instances of TradeLedger for TLC.
EXTENDS TradeLedger

LossOrGain == {-1, 1}
OnlyLoss == {-1}
=============================================================================
