------------------------ MODULE MCBrowserConnections ------------------------
(***************************************************************************)
(* Small instances of BrowserConnections for TLC.                          *)
(***************************************************************************)
EXTENDS BrowserConnections, TLC

CONSTANTS c1, c2, k1, k2, l1

TwoConnections == {c1, c2}

\* Two objects of one peer and one of another.
ThreeStubs == {<<c1, k1>>, <<c1, k2>>, <<c2, k1>>}
OneListener == {l1}
=============================================================================
