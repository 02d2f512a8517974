--------------------------- MODULE MCDeviceSettings ---------------------------
(* Instances of DeviceSettings for TLC.                                      *)
EXTENDS DeviceSettings, TLC

CONSTANTS speakers, hdmi, onboard, bare

TwoDevices == {speakers, hdmi}
OneDevice == {speakers}
OneCard == {onboard}
OneBareCard == {bare}
BothCards == {onboard, bare}

(* The speakers have a control, the other output has none.                   *)
Cards == speakers :> onboard @@ hdmi :> bare
BareSpeakers == speakers :> bare
=============================================================================
