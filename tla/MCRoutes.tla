------------------------------ MODULE MCRoutes ------------------------------
(* Routes on a small instance: the template covers two stations.           *)
EXTENDS Routes, TLC

CONSTANTS s1, s2

MCScope == <<s1, s2>>
=============================================================================
