----------------------------- MODULE MCLumeMode -----------------------------
(* A performance Director on the show channel and a community one on       *)
(* channel 6.                                                              *)
EXTENDS LumeMode, TLC

CONSTANTS p1, c1

MCSourceIds == {p1, c1}
MCPerformanceIds == {p1}
MCScanOrder == <<11, 1, 6>>
MCDirectorChannel == (p1 :> 11) @@ (c1 :> 6)


\* Both on channel 6: two shows in one place.
MCOneChannel == (p1 :> 6) @@ (c1 :> 6)
=============================================================================
