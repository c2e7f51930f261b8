----------------------------- MODULE MCTelemetry ------------------------------
(* Two numbers of each kind besides zero: one negative, or too large for its field. *)
EXTENDS Telemetry

MCSpeeds == {-100, 1200, 40000}
MCAltitudes == {0, 250}
MCVoltages == {0, 12640, 70000}
MCAngles == {Level, [roll |-> 0, pitch |-> 50, yaw |-> 0]}
MCOverflowed == {-25536, 32767}
=============================================================================
