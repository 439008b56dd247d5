------------------------------- MODULE MCIpaPm -------------------------------
(* Instance of IpaPm for TLC. *)
EXTENDS IpaPm
=============================================================================
