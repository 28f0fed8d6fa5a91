--------------------------- MODULE MCGoldenFixture ---------------------------
(* GoldenFixture for TLC: a recipe of two documents. *)
EXTENDS GoldenFixture

MCDocs == <<"x", "y">>
=============================================================================
