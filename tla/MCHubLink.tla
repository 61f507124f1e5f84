----------------------------- MODULE MCHubLink -----------------------------
(* Instances of HubLink for TLC. *)
EXTENDS HubLinkProperties

CONSTANT r1

OneInstance  == {1}
TwoInstances == {1, 2}
NoRequest    == {}
OneRequest   == {r1}
=============================================================================
