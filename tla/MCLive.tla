------------------------------- MODULE MCLive -------------------------------
(* LiveDashboard on a small instance: two connections at one time.           *)
EXTENDS LiveDashboard

MCSockets == 1..2
=============================================================================
