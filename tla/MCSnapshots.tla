---------------------------- MODULE MCSnapshots ----------------------------
(* TLC instances of Snapshots: a client that sees one entity or two, the     *)
(* second of which changes; rings so small that all of them wrap.           *)
EXTENDS Snapshots, TLC

\* An entity alone, and with another that comes before it.
OneOrTwo == {2 :> 5, 1 :> 6 @@ 2 :> 7}

\* More entities come into view at once than PARSE_MARGIN.
Crowded == {4 :> 5, 1 :> 6 @@ 2 :> 6 @@ 3 :> 6 @@ 4 :> 5}
=============================================================================
