--------------------------- MODULE MCJobRegistry ---------------------------
\* An owner and a job that has none, a second job in the place of the first, and
\* two waits that end differently.  No symmetry: liveness is checked.
EXTENDS JobRegistry, TLC
=============================================================================
