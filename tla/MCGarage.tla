------------------------------ MODULE MCGarage ------------------------------
(* Garage on a small instance: one driver registers a car, another one, and *)
(* the first one again.                                                    *)
EXTENDS Garage, TLC

CONSTANTS r1, r2, r3, driver, pa, pb

MCCarDriver == r1 :> driver @@ r2 :> driver @@ r3 :> driver
MCCarPlate  == r1 :> pa @@ r2 :> pb @@ r3 :> pa
MCErased    == [e \in CarErasers |-> driver]
=============================================================================
