---------------------------- MODULE MCDeviceOpen ----------------------------
(* Values for the TLC run of DeviceOpen: a hub and a VINT device on it, with *)
(* a slot of the hub's own and two of the device's that exclude each other. *)
EXTENDS DeviceOpen, TLC

CONSTANTS hub, vint, own

MCDevice == {hub, vint}
MCParent == [d \in MCDevice |-> IF d = vint THEN hub ELSE None]
MCFits == [c \in Channel |-> IF c = own THEN {<<vint, 1>>, <<hub, 1>>} ELSE {<<vint, 1>>, <<vint, 2>>}]
MCExclusive == {<<<<vint, 1>>, <<vint, 2>>>>, <<<<vint, 2>>, <<vint, 1>>>>}

=============================================================================
