--------------------------- MODULE MCDirectorMode ---------------------------
(***************************************************************************)
(* Two palettes, three groups, one slot fewer in the table: an edit of the *)
(* target group fills it and evicts.                                       *)
(***************************************************************************)
EXTENDS DirectorMode

MCPalettes == <<"warm", "cool">>
=============================================================================
