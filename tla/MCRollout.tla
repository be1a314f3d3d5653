------------------------------ MODULE MCRollout ------------------------------
(* Instances of Rollout.                                                     *)
EXTENDS Rollout

Call(tool, on) == [tool |-> tool, on |-> on]

\* Setting changes that depend on each other, an exception, noise on stderr.
MCCalls ==
  {Call(LowBattery, TRUE), Call(LowBattery, FALSE), Call("wifi", TRUE),
   Call("wifi", FALSE), Call("broken", FALSE), Call("noisy", FALSE)}

\* A generated helper, which counts its uses on disk.
MCHelperCalls == {Call("helper", FALSE)}
=============================================================================
