----------------------------- MODULE MCVillages -----------------------------
(* Villages on the smallest instance that has the double click: one file    *)
(* of two rows that leave their codes to the import, and two commits of it. *)
EXTENDS Villages

CONSTANTS j1

MCFile    == [j \in Jobs |-> <<[name |-> "x", code |-> NoCode], [name |-> "y", code |-> NoCode]>>]
MCClicked == [c \in Clicks |-> j1]
=============================================================================
