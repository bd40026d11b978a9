--------------------------- MODULE MCRepeaterMode ---------------------------
(* Two Directors, on channels 6 and 11; nobody transmits on channel 1.     *)
EXTENDS RepeaterMode, TLC

CONSTANTS d6, d11

MCSources == {d6, d11}
MCScanChannels == <<1, 6, 11>>
MCSettings == <<0, 1, 6, 11>>
MCSourceChannel == (d6 :> 6) @@ (d11 :> 11)
=============================================================================
