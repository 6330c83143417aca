--------------------------- MODULE MCRouteRuntime ---------------------------
\* Instances of RouteRuntime for TLC.
EXTENDS RouteRuntime

EveryOp == AllOps
OnlyClear == {"clear"}
=============================================================================
