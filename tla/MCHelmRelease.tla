---------------------------- MODULE MCHelmRelease ----------------------------
(***************************************************************************)
(* Model checking of HelmRelease.                                          *)
(***************************************************************************)
EXTENDS HelmRelease

=============================================================================
