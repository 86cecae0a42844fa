----------------------------- MODULE MCLanding -----------------------------
\* The landing page as it is, with the bounds of the configurations.
EXTENDS Landing
=============================================================================
