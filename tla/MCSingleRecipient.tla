--------------------------- MODULE MCSingleRecipient ---------------------------
(***************************************************************************)
(* SingleRecipient for TLC: two or three recipients, one of them twice.     *)
(***************************************************************************)
EXTENDS SingleRecipient, TLC

CONSTANTS body, a

BaseOf == body :> "body.html" @@ a :> "a.pdf"

Routes == {<<"ok", "err", FALSE>>, <<NoPath, "err", FALSE>>, <<NoPath, NoPath, TRUE>>,
           <<NoPath, NoPath, FALSE>>}

Batches(lists, atts, others, limits, dryRuns) ==
  {[to |-> l, others |-> o, maxRecipients |-> m, attachments |-> t[1],
    bodyFile |-> t[2], successPath |-> r[1], errorPath |-> r[2],
    deleteAfter |-> r[3], dryRun |-> d] :
     l \in lists, t \in atts, o \in others, m \in limits, r \in Routes, d \in dryRuns}

AllConfigs ==
  Batches({<<"x", "y">>, <<"x", "y", "x">>}, {<<<<a>>, body>>, <<<<a>>, NoPath>>, <<<<>>, NoPath>>},
          {0, 1}, {0, 2}, BOOLEAN)

FaultConfigs ==
  Batches({<<"x", "y">>}, {<<<<a>>, body>>}, {0, 1}, {2}, BOOLEAN)
    \cup Batches({<<"x", "y", "x">>}, {<<<<a>>, NoPath>>}, {0}, {0}, {FALSE})

=============================================================================
