--------------------------- MODULE MCMarkerChain ----------------------------
(* Small instances of MarkerChain. *)
EXTENDS MarkerChain

Plain == {<<"data", "data">>}
Padded == {<<"data", "null">>}
Single == {<<"data">>}
=============================================================================
