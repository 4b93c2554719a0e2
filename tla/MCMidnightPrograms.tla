------------------------- MODULE MCMidnightPrograms -------------------------
(* The four actors of the scenario and one record of each kind; two nonces *)
(* and two registrations of the application, called up to three times.     *)
EXTENDS MidnightPrograms

CONSTANTS a, b, c, d

Actors == {a, b, c, d}
ScenarioActions == {"review", "case", "decision", "bridge"} \X {1}
SomeActions == {"review", "case"} \X {1}
=============================================================================
