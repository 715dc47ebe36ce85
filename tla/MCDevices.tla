------------------------------ MODULE MCDevices ------------------------------
(* One output for every mode whose tables agree, one as main() opens it, and*)
(* a group.                                                                 *)
EXTENDS Devices

TwoOutputs == [vo0 |-> Agreeing, vo1 |-> {"1080P25"}]
=============================================================================
