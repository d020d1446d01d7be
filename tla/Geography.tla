----------------------------- MODULE Geography -----------------------------
(***************************************************************************)
(* Where the service goes (repositories/geography.py and routing.py):      *)
(* the villages an operator imports and pins and the stations they bring,  *)
(* the routes generated between them with their prices, and the places     *)
(* passengers name.  The three keep separate rows.                         *)
(***************************************************************************)
EXTENDS Villages, Routes, Places

GeographySpec == VillagesSpec /\ RoutesSpec /\ PlacesSpec
=============================================================================
