------------------------------ MODULE MCGameIpc ------------------------------
(* GameIpc for TLC: the grid is the whole grid, the search is shallow. *)
EXTENDS GameIpc
=============================================================================
