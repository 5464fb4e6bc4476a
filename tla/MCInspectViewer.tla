-------------------------- MODULE MCInspectViewer --------------------------
(* InspectViewer with two workbooks: sheets of three pages, of one page and *)
(* without rows.                                                           *)
EXTENDS InspectViewer, TLC

CONSTANTS w1, w2

MCWorkbooks == {w1, w2}
MCPages == w1 :> (0 :> 3 @@ 1 :> 1) @@ w2 :> (0 :> 1 @@ 1 :> 0)
=============================================================================
