--------------------------- MODULE MCSinkManager ----------------------------
(* Instances of SinkManager for TLC.                                        *)
EXTENDS SinkManager

CONSTANTS left, right, zone

TwoDevices == {left, right}
OneGroup == {zone}
OneBuiltIn == {right}

(* Streams play on the two devices, or on a group of them.                  *)
DevicesOrGroup == {TwoDevices, OneGroup}
=============================================================================
