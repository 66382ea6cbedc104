------------------------------- MODULE MCUsbBoot -------------------------------
(* A disk behind two hubs, and a stick on a SuperSpeed hub that refuses the   *)
(* USB 2 hub descriptor.                                                      *)
EXTENDS UsbBoot
Tree == [hub |-> "root", disk |-> "hub", fast |-> "root", stick |-> "fast"]
Registers == <<"tx", "loop">>
================================================================================
