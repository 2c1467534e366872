--------------------------- MODULE SingleAttachment ---------------------------
(***************************************************************************)
(* sendSingleAttachmentMode of mailer.go: one mail for each attachment.  An  *)
(* attachment is routed as soon as its own mail has succeeded, the body file *)
(* when all have; the first failure ends the batch.                          *)
(***************************************************************************)
EXTENDS Batch

\* The mode is entered for more than one attachment only.
ASSUME ManyAttachments == \A c \in Configs : Len(c.attachments) > 1

Total == Len(cfg.attachments)

TypeOK ==
  /\ BatchTypeOK(Total)
  /\ pc \in {"start", "body", "next", "mail", "routeOne", "routeAll", "routeBody",
             "errorBody", "returned", "crashed"}

Init ==
  /\ cfg \in Configs
  /\ BatchInit(Total)

-----------------------------------------------------------------------------

\* The validation of SendEmail, on the whole list.
Validate ==
  /\ pc = "start"
  /\ (InputFiles \subseteq present /\ Proceed("body")) \/ Return("rejected")

\* The body file is read once, for all mails.
ReadBody ==
  /\ pc = "body"
  /\ \/ cfg.bodyFile \in present \cup {NoPath} /\ Proceed("next")
     \/ cfg.bodyFile # NoPath /\ Return("rejected")

\* The mail has this attachment alone, and no routing of its own.
NextMail ==
  /\ n < Total
  /\ BeginMail({cfg.attachments[n + 1]} \ {NoPath})

OnSuccess == cfg.successPath # NoPath \/ cfg.deleteAfter

\* The arguments of routeAttachments after a success and after a failure.
SuccessJob(list) == [files |-> list, success |-> TRUE, successPath |-> cfg.successPath,
                     errorPath |-> NoPath, deleteAfter |-> cfg.deleteAfter]
ErrorJob(list)   == [files |-> list, success |-> FALSE, successPath |-> NoPath,
                     errorPath |-> cfg.errorPath, deleteAfter |-> FALSE]

Done == pc = "mail" /\ phase = "told"

\* successCount++.
Count ==
  /\ successCount' = successCount + 1
  /\ UNCHANGED <<cfg, mailVars, n, failed, answer, historyVars, faultVars>>

\* Variant: the whole list is routed after each mail.
RoutesWholeList ==
  /\ Done /\ MailSucceeded
  /\ Count
  /\ IF OnSuccess
       THEN pc' = "routeOne" /\ RouteCall(SuccessJob(cfg.attachments))
       ELSE pc' = "next" /\ UNCHANGED routeVars

MailSent ==
  /\ Done /\ MailSucceeded
  /\ Count
  /\ IF OnSuccess
       THEN pc' = "routeOne" /\ RouteCall(SuccessJob(<<cfg.attachments[n]>>))
       ELSE pc' = "next" /\ UNCHANGED routeVars

\* Variants: the mail is made again, or the batch stops, when its file cannot be
\* moved.
RouteErrorRepeats ==
  /\ Routed("routeOne")
  /\ pc' = "next" /\ n' = IF routeRet = "error" THEN n - 1 ELSE n
  /\ UNCHANGED <<routeVars, cfg, mailVars, successCount, failed, answer, historyVars,
                 faultVars>>

RouteErrorSticks == Routed("routeOne") /\ routeRet = "nil" /\ Proceed("next")

\* Its error is only a warning.
EndRouteOne == Routed("routeOne") /\ Proceed("next")

\* Variant: a failed mail does not end the batch.
FailedGoesOn == Done /\ ~MailSucceeded /\ Proceed("next")

MailFailed ==
  /\ Done /\ ~MailSucceeded
  /\ IF cfg.errorPath # NoPath
       THEN RouteThen("routeAll", ErrorJob(cfg.attachments))
       ELSE Return("error")

EndRouteAll ==
  /\ Routed("routeAll")
  /\ IF cfg.bodyFile # NoPath
       THEN RouteThen("errorBody", ErrorJob(<<cfg.bodyFile>>))
       ELSE Return("error")

EndErrorBody == Routed("errorBody") /\ Return("error")

\* Variant: the body file goes with the first mail.
BodyGoesEarly ==
  /\ pc = "next" /\ n > 0 /\ cfg.bodyFile # NoPath /\ OnSuccess
  /\ RouteThen("routeBody", SuccessJob(<<cfg.bodyFile>>))

AllSent ==
  /\ pc = "next" /\ n = Total
  /\ IF cfg.bodyFile # NoPath /\ OnSuccess
       THEN RouteThen("routeBody", SuccessJob(<<cfg.bodyFile>>))
       ELSE Return("ok")

EndRouteBody == Routed("routeBody") /\ Return("ok")

\* The rest of SendEmail for one mail: it has nothing to route.
TellMail == MailStep /\ D!Tell /\ UNCHANGED historyVars

Work == \/ Validate \/ ReadBody \/ NextMail \/ Mail \/ TellMail \/ MailSent \/ EndRouteOne
        \/ MailFailed \/ EndRouteAll \/ EndErrorBody \/ AllSent \/ EndRouteBody
        \/ Routing({"routeOne", "routeAll", "routeBody", "errorBody"})

Next == Work \/ Environment

Spec == Init /\ [][Next]_vars

\* Each SendEmail returns, and nothing else here waits.
FairSpec == Spec /\ WF_vars(Work)

\* A sound disk.
SoundSpec == Init /\ [][Work /\ SoundDisk]_vars

-----------------------------------------------------------------------------

\* The mails of the list that f goes with.
MailsOf(f) == {k \in 1..Total : cfg.attachments[k] = f}

\* f is in the success directory, or deleted.
Settled(f) ==
  \/ f \in purged
  \/ \E d \in {cfg.successPath} \cap Dirs : out[<<d, Base[f]>>] \in {Whole(f), Part(f)}

\* What is in the success directory was not put there by a failure.
OwnSuccessDir == cfg.successPath \in Dirs => cfg.successPath # cfg.errorPath

(* An attachment is put into the success directory or deleted only when the  *)
(* server has acknowledged a mail made for it, whatever became of the other  *)
(* mails, and over kills and reruns.                                         *)
FiledWhenAcknowledged ==
  ~cfg.dryRun /\ OwnSuccessDir =>
    \A f \in Listed(cfg.attachments) : Settled(f) => MailsOf(f) \cap acked # {}

(* "Body file is NOT routed/deleted until all emails complete successfully": *)
(* every mail was acknowledged, in one run or over several.                  *)
BodyFiledLast ==
  ~cfg.dryRun /\ OwnSuccessDir /\ cfg.bodyFile # NoPath
    /\ cfg.bodyFile \notin Listed(cfg.attachments) =>
    (Settled(cfg.bodyFile) => acked = 1..Total)

(* The answer tells how far the batch came: an error after successCount      *)
(* mails means that just those were acknowledged in this run and that the    *)
(* one after them was the last one tried; a success means all of them.       *)
AnswerCounts ==
  /\ answer = "ok" /\ ~cfg.dryRun => acked = 1..Total /\ successCount = Total
  /\ answer = "error" /\ ~cfg.dryRun => 1..successCount \subseteq acked
  /\ pc = "returned" /\ answer = "error" => n = successCount + 1
  /\ crashes = 0 /\ ~cfg.dryRun => Cardinality(acked) <= successCount + 1

(* No attachment goes out twice without a lost reply or a kill to blame.     *)
OneCopyEach == \A k \in 1..Total : taken[k] <= 1 + lost + crashes

\* The steps of the error routing and of what follows a batch, at most.
EndSteps == 11 + 6 * Total

\* The steps the batch has left at most, if it is left alone: twelve for each mail and
\* one for each reply that may still be lost.
StepsLeft ==
  LET rest == MaxLost - lost + EndSteps + 12 * (Total - n) IN
  CASE pc = "start"    -> rest + 2
    [] pc = "body"     -> rest + 1
    [] pc = "next"     -> rest
    [] pc = "mail"     -> rest + (IF phase = "sending" THEN 11 ELSE IF phase = "filing" THEN 10 ELSE 9)
    [] pc = "routeOne" -> rest + 1 + RoutingLeft
    [] pc = "routeAll" -> 9 + RoutingLeft
    [] pc \in {"routeBody", "errorBody"} -> 1 + RoutingLeft
    [] OTHER           -> 0

(* The batch cannot run for ever: whatever fails, in routing included, each  *)
(* step it takes leaves it fewer, and nothing the world does adds to them;   *)
(* only a rerun begins anew.                                                 *)
Advances ==
  [][pc # "crashed" => /\ StepsLeft' \in 0..StepsLeft
                       /\ Work => StepsLeft' < StepsLeft]_vars

(* The batch returns, or is killed.                                          *)
Returns == <>~Running

-----------------------------------------------------------------------------

(* The comment in the loop: "Failed - route all attachments to error path".  *)
(* What has not gone to the success directory by then must go there.         *)
FailureMovesRest ==
  pc = "returned" /\ answer = "error" /\ cfg.errorPath # NoPath =>
    \A f \in Listed(cfg.attachments) : f \notin present

=============================================================================
