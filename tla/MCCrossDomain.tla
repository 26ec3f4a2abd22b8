---------------------------- MODULE MCCrossDomain ----------------------------
(* Instances of CrossDomain for TLC. *)
EXTENDS CrossDomainProperties

MCMayPause == Domains
=============================================================================
