-------------------------- MODULE MCSingleAttachment --------------------------
(***************************************************************************)
(* SingleAttachment for TLC: lists of two and three entries, one of them    *)
(* with a repeated entry and one with an empty entry.                       *)
(***************************************************************************)
EXTENDS SingleAttachment, TLC

CONSTANTS body, a, b

BaseOf == body :> "body.html" @@ a :> "a.pdf" @@ b :> "b.pdf"

Routes == {<<"ok", "err", FALSE>>, <<NoPath, "err", FALSE>>, <<NoPath, "err", TRUE>>,
           <<NoPath, NoPath, TRUE>>, <<NoPath, NoPath, FALSE>>}

Batches(lists, bodies, routes, dryRuns) ==
  {[to |-> <<"r">>, others |-> 0, maxRecipients |-> 0, attachments |-> l,
    bodyFile |-> f, successPath |-> t[1], errorPath |-> t[2], deleteAfter |-> t[3],
    dryRun |-> dry] :
     l \in lists, f \in bodies, t \in routes, dry \in dryRuns}

\* Every kind of batch, for the runs without faults of the disk.
AllConfigs == Batches({<<a, b>>, <<a, b, a>>, <<a, NoPath>>}, {body, NoPath}, Routes, BOOLEAN)

\* With faults of the disk, kills and reruns.
FaultConfigs ==
  Batches({<<a, b>>}, {body}, Routes, {FALSE})
    \cup Batches({<<a, NoPath, a>>}, {NoPath}, Routes, {FALSE})
    \cup Batches({<<a, NoPath>>}, {body}, Routes, BOOLEAN)

=============================================================================
