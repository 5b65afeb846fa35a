---------------------------- MODULE MCApiKeySync ----------------------------
\* Instances of ApiKeySync for TLC.
EXTENDS ApiKeySync, TLC

CONSTANTS u1, u2

MCRole == u1 :> "user" @@ u2 :> "admin"
MCOwner == [k \in Key |-> u1]
=============================================================================
