----------------------------- MODULE MCDispatch -----------------------------
(***************************************************************************)
(* Small instances of Dispatch for TLC; the cfg files give the numbers.    *)
(***************************************************************************)
EXTENDS Dispatch

(* An id no plan of these instances reaches, left over from an earlier job.*)
StaleUnknown == {99}
NoStale == {}
NoNode == {}
FirstNode == {0}
SecondNode == {1}
AllNodes == Nodes
Others == {1, 2}
=============================================================================
