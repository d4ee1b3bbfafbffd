----------------------------- MODULE MCEnvFlash -----------------------------
(***************************************************************************)
(* Four names in a table of two slots and a sector of three strings.     *)
(* Two names have defaults, a value is too long for the sector.            *)
(***************************************************************************)
EXTENDS EnvFlash

CONSTANTS v1, v2, long

Names == {"ip", "gw", "mac", "tz"}
Defaults == <<[name |-> "mac", value |-> v1], [name |-> "ip", value |-> v1]>>
BadMac == {<<"mac", v2>>}
LongOnes == {<<n, long>> : n \in Names}
Values == {v1, v2, long}

=============================================================================
