---------------------------- MODULE SingleRecipient ----------------------------
(***************************************************************************)
(* sendSingleRecipientMode of mailer.go: one call of SendEmail for each      *)
(* recipient in To, with the routing of the whole batch in every call.  A    *)
(* failed recipient is noted and the batch goes on.                          *)
(*                                                                          *)
(* With --single-attachment as well each of these calls is a batch of its    *)
(* own (SingleAttachment); that combination is left out.                     *)
(***************************************************************************)
EXTENDS Batch

\* The mode is entered for more than one recipient only.
ASSUME ManyRecipients == \A c \in Configs : Len(c.to) > 1

Total == Len(cfg.to)

Init ==
  /\ cfg \in Configs
  /\ BatchInit(Total)

-----------------------------------------------------------------------------

Validate ==
  /\ pc = "start"
  /\ (InputFiles \subseteq present /\ Proceed("limit")) \/ Return("rejected")

MaxRecipients ==
  IF cfg.maxRecipients = 0 THEN DefaultMaxRecipients ELSE cfg.maxRecipients

\* The guard comes before the batch is split, so it counts the whole batch.
WithinLimit == Total + cfg.others <= MaxRecipients

CheckLimit ==
  /\ pc = "limit"
  /\ IF WithinLimit THEN Proceed("next") ELSE Return("rejected")

NextMail == n < Total /\ BeginMail(InputFiles)

RoutingAsked ==
  /\ ~cfg.dryRun
  /\ cfg.successPath # NoPath \/ cfg.errorPath # NoPath \/ cfg.deleteAfter

RouteJob ==
  [files       |-> (IF cfg.bodyFile = NoPath THEN <<>> ELSE <<cfg.bodyFile>>)
                     \o cfg.attachments,
   success     |-> outcome = "sent",
   successPath |-> cfg.successPath,
   errorPath   |-> cfg.errorPath,
   deleteAfter |-> cfg.deleteAfter]

\* SendEmail after its loop: routing, whose error is only a warning, and answer.
FileMail == phase = "filing" /\ pc = "mail" /\ RoutingAsked /\ RouteThen("routing", RouteJob)

\* Variant: the mail is made again when a file cannot be moved.
RouteErrorRepeats ==
  /\ Routed("routing") /\ D!Tell
  /\ IF routeRet = "error" THEN pc' = "next" /\ n' = n - 1 ELSE pc' = "mail" /\ n' = n
  /\ UNCHANGED <<routeVars, cfg, successCount, failed, answer, historyVars, faultVars>>

EndRouting ==
  /\ Routed("routing") /\ D!Tell
  /\ pc' = "mail"
  /\ UNCHANGED <<routeVars, cfg, loopVars, historyVars, faultVars>>

TellMail == ~RoutingAsked /\ MailStep /\ D!Tell /\ UNCHANGED historyVars

Done == pc = "mail" /\ phase = "told"

MailSent ==
  /\ Done /\ MailSucceeded
  /\ pc' = "next" /\ successCount' = successCount + 1
  /\ UNCHANGED <<routeVars, cfg, mailVars, n, failed, answer, historyVars, faultVars>>

\* Variant: only an error counts as a failure, a missing result does not.
RejectedIsSkipped ==
  /\ Done /\ ~MailSucceeded
  /\ pc' = "next"
  /\ failed' = IF outcome = "rejected" THEN failed ELSE failed \cup {n}
  /\ UNCHANGED <<routeVars, cfg, mailVars, n, successCount, answer, historyVars, faultVars>>

MailFailed ==
  /\ Done /\ ~MailSucceeded
  /\ pc' = "next" /\ failed' = failed \cup {n}
  /\ UNCHANGED <<routeVars, cfg, mailVars, n, successCount, answer, historyVars, faultVars>>

AllTried ==
  /\ pc = "next" /\ n = Total
  /\ Return(IF failed = {} THEN "ok" ELSE "partial")

Work == \/ Validate \/ CheckLimit \/ NextMail \/ Mail \/ FileMail \/ Routing({"routing"})
        \/ EndRouting \/ TellMail \/ MailSent \/ MailFailed \/ AllTried

Next == Work \/ Environment

Spec == Init /\ [][Next]_vars

\* The best of worlds: a sound disk, and a server that takes everything.  With a
\* fair batch, all that goes wrong is of its own making.
WillingSpec == Init /\ [][Work /\ SoundDisk /\ WillingServer]_vars

-----------------------------------------------------------------------------

(* The report is true of the server: an "ok" means that everyone in the list *)
(* got his mail, a "partial" that someone did not; of those tried, the ones  *)
(* reported as failed are the ones whose mail was not acknowledged in this   *)
(* run, and the two numbers reported add up to them.                         *)
ReportTruth ==
  pc = "returned" /\ answer \in {"ok", "partial"} =>
    /\ answer = "ok" => failed = {} /\ n = Total
    /\ answer = "partial" => failed # {}
    /\ successCount + Cardinality(failed) = n
    /\ ~cfg.dryRun => 1..n \ failed \subseteq acked
    /\ crashes = 0 => failed \cap acked = {}

(* No recipient gets a second copy without a lost reply or a kill to blame.  *)
OneCopyEach == \A k \in 1..Total : taken[k] <= 1 + lost + crashes

-----------------------------------------------------------------------------

\* The steps of the routing of one mail, at most.
RoutingSteps == 1 + 6 * Len(RouteJob.files)

\* The steps the batch has left at most, if it is left alone: those of the mails to come, of
\* the one under way, and one for each reply that may still be lost.
StepsLeft ==
  LET rest == MaxLost - lost + 1 + (5 + RoutingSteps) * (Total - n) IN
  CASE pc = "start"   -> rest + 2
    [] pc = "limit"   -> rest + 1
    [] pc = "next"    -> rest
    [] pc = "mail"    -> rest + (CASE phase = "sending" -> 4 + RoutingSteps
                                   [] phase = "filing"  -> 3 + RoutingSteps
                                   [] OTHER             -> 1)
    [] pc = "routing" -> rest + 2 + RoutingLeft
    [] OTHER          -> 0

(* The batch cannot run for ever: whoever fails and whatever his routing     *)
(* does, each step it takes leaves it fewer, and nothing the world does adds *)
(* to them; only a rerun begins anew.                                        *)
Advances ==
  [][pc # "crashed" => /\ StepsLeft' \in 0..StepsLeft
                       /\ Work => StepsLeft' < StepsLeft]_vars

-----------------------------------------------------------------------------

(* README: "Send one email per recipient".  A willing server acknowledges    *)
(* one for each.                                                             *)
OneEmailPerRecipient ==
  pc = "returned" /\ answer # "rejected" /\ ~cfg.dryRun => acked = 1..Total

=============================================================================
