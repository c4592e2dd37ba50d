-------------------------------- MODULE MCAuth --------------------------------
(* Values for the constants of Auth. *)
EXTENDS Auth

Undecodable == {"garbage", "long"}
==============================================================================
