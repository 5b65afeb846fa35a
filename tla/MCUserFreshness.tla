-------------------------- MODULE MCUserFreshness --------------------------
\* Instances of UserFreshness for TLC.
EXTENDS UserFreshness
=============================================================================
