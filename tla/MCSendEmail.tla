------------------------------ MODULE MCSendEmail ------------------------------
(***************************************************************************)
(* SendEmail for TLC: one body file, one attachment, and the arguments in   *)
(* the sets below.                                                          *)
(***************************************************************************)
EXTENDS SendEmail, TLC

CONSTANTS body, att

BaseOf == [f \in Files |-> IF f = body THEN "body.html" ELSE "att.pdf"]

Largest == 5

Plain == [retries |-> 0, delay |-> 0, recipients |-> 1, maxRecipients |-> 0,
          dryRun |-> FALSE, saveEML |-> FALSE, encrypt |-> FALSE,
          cancellable |-> FALSE, bodyFile |-> NoPath, attachments |-> <<att>>,
          inline |-> <<>>, successPath |-> NoPath, errorPath |-> NoPath, deleteAfter |-> FALSE]

\* The retry loop: budgets of 1 to 3 attempts and one that overflows; delays,
\* cancellation and dry runs; numbers that are refused.
RetryConfigs ==
  {[Plain EXCEPT !.retries = r, !.cancellable = TRUE] : r \in {0, 1, 2, Largest}}
    \cup {[Plain EXCEPT !.retries = 1, !.delay = 3, !.dryRun = dry, !.cancellable = c] :
            dry \in BOOLEAN, c \in BOOLEAN}
    \cup {[Plain EXCEPT !.retries = -1], [Plain EXCEPT !.delay = -1],
          [Plain EXCEPT !.recipients = 3]}

Routes == {<<"ok", "err", FALSE>>, <<"ok", NoPath, FALSE>>, <<NoPath, "err", FALSE>>,
           <<NoPath, NoPath, TRUE>>}

Filing(r, dry, e, b, l, t) ==
  [Plain EXCEPT !.retries = r, !.dryRun = dry, !.saveEML = TRUE, !.encrypt = e,
                !.bodyFile = b, !.attachments = l,
                !.successPath = t[1], !.errorPath = t[2], !.deleteAfter = t[3]]

\* Archive and routing, with the body file, the attachment, both, or one twice.
FileConfigs ==
  {Filing(0, FALSE, e, body, <<att>>, t) : e \in BOOLEAN, t \in Routes}
    \cup {Filing(1, dry, FALSE, NoPath, <<att, NoPath, att>>, t) : dry \in BOOLEAN, t \in Routes}

\* The attachment in the text of the mail, where nothing routes it; or in both places.
InlineConfigs ==
  {[Filing(0, FALSE, e, body, l, <<"ok", "err", FALSE>>) EXCEPT !.inline = <<att>>] :
     e \in BOOLEAN, l \in {<<>>, <<att>>}}

AllConfigs == RetryConfigs \cup FileConfigs \cup InlineConfigs

=============================================================================
