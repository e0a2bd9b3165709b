-------------------------- MODULE MCListCollection --------------------------
(* Three windows: two pages, nothing, one page; a filing is published.      *)
EXTENDS ListCollection

MCClients == 0..2
MCCatalog == <<<<1, 2, 3>>, << >>, <<5, 6, 7>>>>
MCNewFilings == <<4>>
=============================================================================
