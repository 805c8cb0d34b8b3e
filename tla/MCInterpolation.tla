-------------------------- MODULE MCInterpolation --------------------------
(* Bounds under which TLC can explore Interpolation: the history is shorter *)
(* than the delay, so that a burst pushes the rendered sample out of it.    *)
EXTENDS Interpolation
=============================================================================
