----------------------------- MODULE MCRouteSync -----------------------------
\* Instances of RouteSync for TLC.
EXTENDS RouteSync
=============================================================================
