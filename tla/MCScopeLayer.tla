---------------------------- MODULE MCScopeLayer ----------------------------
(* The bounds of the run ScopeLayer.cfg.                                    *)
EXTENDS ScopeLayer

\* Two successive grids in different places.
SmallGrids == {[stamp |-> 1, cells |-> {1}], [stamp |-> 2, cells |-> {2, 3}]}

\* The window covers two of three cells and rolls by one.
SmallMaps == {{1, 2}, {2, 3}}
=============================================================================
