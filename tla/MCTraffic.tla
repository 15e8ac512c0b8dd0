----------------------------- MODULE MCTraffic -----------------------------
(* Traffic on small instances; the bounds are set in the .cfg files.        *)
EXTENDS Traffic
=============================================================================
