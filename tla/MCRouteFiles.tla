----------------------------- MODULE MCRouteFiles -----------------------------
(***************************************************************************)
(* RouteFiles for TLC: lists of at most MaxList entries, repeated entries   *)
(* and empty ones included, and at most MaxCalls calls in a row.            *)
(***************************************************************************)
EXTENDS RouteFiles, FiniteSets, SequencesExt

CONSTANTS MaxList, MaxCalls,
          a, b        \* the input files

\* Distinct base names.
BaseInjective == a :> "a" @@ b :> "b"

\* /in/x/report.pdf and /in/y/report.pdf.
BaseClash == a :> "r" @@ b :> "r"

VARIABLE calls

MCInit == RouteInit /\ calls = 0

Jobs == [files       : BoundedSeq(Files \cup {NoPath}, MaxList),
         success     : BOOLEAN,
         successPath : Dirs \cup {NoPath},
         errorPath   : Dirs \cup {NoPath},
         deleteAfter : BOOLEAN]

MCNext ==
  \/ calls < MaxCalls /\ calls' = calls + 1 /\ \E j \in Jobs : RouteCall(j)
  \/ (RouteStep \/ RouteDies \/ RouteRevives) /\ UNCHANGED calls

MCSpec == MCInit /\ [][MCNext]_<<routeVars, calls>>

=============================================================================
