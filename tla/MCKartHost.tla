------------------------------ MODULE MCKartHost ------------------------------
(***************************************************************************)
(* Instances of KartHost: a float setting and one that is not; the page    *)
(* asks for the least value, one above the most or a NaN, flash starts     *)
(* with any of the least value, one below it, a NaN and nothing; a turn on *)
(* the spot and a drive on one wheel that reverses it.                     *)
(***************************************************************************)
EXTENDS KartHost

TwoParams == <<"duty_cap", "disarm_s">>

MCFound == {-1, 0}

Drive(l, r) == [w \in Wheels |-> IF w = "l" THEN l ELSE r]

MCDrives == {Drive(1, -1), Drive(-1, 0)}
=============================================================================
