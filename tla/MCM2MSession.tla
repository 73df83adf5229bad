---------------------------- MODULE MCM2MSession ----------------------------
(* Instances of M2MSession for TLC. *)
EXTENDS M2MSession

\* In service, and waiting for a configuration.
ServiceOrOnboarding == {{"sta"}, {"ap", "onboarding"}}

=============================================================================
