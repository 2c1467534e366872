------------------------------- MODULE SendEmail -------------------------------
(***************************************************************************)
(* SendEmail of mailer.go for one message: validation, the optional delay,  *)
(* the retry loop, the archive, routing and the audit line, run by a        *)
(* process that may be cancelled, may be killed, and is then run again with *)
(* the same arguments.  Routing is that of RouteFiles, step by step.        *)
(*                                                                          *)
(* The SMTP server is what DialAndSend can learn from it: it takes the      *)
(* message and says so, takes it and the reply is lost, or does not.        *)
(***************************************************************************)
EXTENDS RouteFiles, Integers

CONSTANTS Configs,              \* the EmailParams of interest
          MaxInt,               \* math.MaxInt
          DefaultMaxRecipients,
          MaxCrashes            \* bound: how often the process is killed

\* The fields of EmailParams that decide the control flow.
Config == [retries       : Int,
           delay         : Int,
           recipients    : Nat,       \* len(To) + len(CC) + len(BCC)
           maxRecipients : Int,
           dryRun        : BOOLEAN,
           saveEML       : BOOLEAN,
           encrypt       : BOOLEAN,   \* S/MIME encryption
           cancellable   : BOOLEAN,   \* the caller passes a Context
           bodyFile      : Files \cup {NoPath},
           attachments   : Seq(Files \cup {NoPath}),
           inline        : Seq(Files \cup {NoPath}),
           successPath   : Dirs \cup {NoPath},
           errorPath     : Dirs \cup {NoPath},
           deleteAfter   : BOOLEAN]

ASSUME ConfigAssumption ==
  /\ Configs \subseteq Config
  /\ MaxInt \in Nat \ {0}
  /\ \A c \in Configs : c.retries <= MaxInt
  /\ DefaultMaxRecipients \in Nat
  /\ MaxCrashes \in Nat

VARIABLES cfg,        \* the arguments
          pc,         \* where SendEmail stands
          ctx,        \* "done" once ctx.Done() is closed
          i,          \* loop variable of the retry loop
          attempts,   \* as in the code
          lastErr,    \* as in the code: "none" is nil
          parts,      \* the files that go-mail has put on the message
          answer,     \* what the caller was given
          archive,    \* what became of the EML archive
          logged,     \* the kinds of line this log file has
          delivered,  \* copies the server took from this run
          earlier,    \* copies it took from runs that were killed
          lost,       \* history: acceptances whose reply was lost
          dials,      \* history: calls of DialAndSend in this run
          vanished,   \* input files another program has taken away
          crashes

loopVars   == <<i, attempts, lastErr>>
resultVars == <<parts, answer, archive, logged>>
serverVars == <<delivered, earlier, lost, dials>>
envVars    == <<ctx, vanished, crashes>>

vars == <<routeVars, cfg, pc, loopVars, resultVars, serverVars, envVars>>

Preparing == {"start", "outputs", "numbers", "build", "delay"}
Looping   == {"loop", "dial", "again", "wait"}
Closing   == {"archive", "route", "routing", "audit"}

TypeOK ==
  /\ RouteTypeOK
  /\ cfg \in Configs
  /\ pc \in Preparing \cup Looping \cup Closing \cup {"returned", "crashed"}
  /\ ctx \in {"live", "done"}
  /\ i \in Nat /\ attempts \in Nat /\ dials \in Nat
  /\ lastErr \in {"none", "cancelled", "client", "send"}
  /\ parts \subseteq Files
  /\ answer \in {"none", "ok", "error", "rejected"}
  /\ archive \in {"none", "saved", "ioError", "unreadable"}
  /\ logged \subseteq {"RETRY", "SUCCESS", "ERROR"}
  /\ delivered \in Nat /\ earlier \in Nat /\ lost \in Nat
  /\ vanished \subseteq Files
  /\ crashes \in 0..MaxCrashes

Init ==
  /\ RouteInit
  /\ cfg \in Configs
  /\ pc = "start" /\ ctx = "live"
  /\ i = 0 /\ attempts = 0 /\ lastErr = "none"
  /\ parts = {} /\ answer = "none" /\ archive = "none" /\ logged = {}
  /\ delivered = 0 /\ earlier = 0 /\ lost = 0 /\ dials = 0
  /\ vanished = {} /\ crashes = 0

-----------------------------------------------------------------------------

Listed(list) == {list[n] : n \in DOMAIN list} \ {NoPath}

Attached == Listed(cfg.attachments)

Embedded == Listed(cfg.inline)

InputFiles == Attached \cup Embedded \cup ({cfg.bodyFile} \ {NoPath})

\* Variant: without the guard on overflow.
UnguardedAttempts == IF cfg.retries = MaxInt THEN -MaxInt - 1 ELSE 1 + cfg.retries

\* 1 + Retries wraps to a negative number at math.MaxInt; the guard on it.
MaxAttempts ==
  LET n == IF cfg.retries = MaxInt THEN -MaxInt - 1 ELSE 1 + cfg.retries
  IN  IF n < 1 THEN 1 ELSE n

MaxRecipients ==
  IF cfg.maxRecipients = 0 THEN DefaultMaxRecipients ELSE cfg.maxRecipients

\* The files of a message are opened each time it is written out, unless it was
\* encrypted in memory when it was built.
Readable == cfg.encrypt \/ parts \subseteq present

\* A step that only moves on.
Proceed(label) ==
  /\ pc' = label
  /\ UNCHANGED <<routeVars, cfg, loopVars, resultVars, serverVars, envVars>>

\* return nil, err: no result, no audit line, no routing.
Reject ==
  /\ pc' = "returned" /\ answer' = "rejected"
  /\ UNCHANGED <<routeVars, cfg, loopVars, parts, archive, logged, serverVars, envVars>>

\* Every named input must exist; other paths may be refused as well.
ValidateInputs ==
  /\ pc = "start"
  /\ (InputFiles \subseteq present /\ Proceed("outputs")) \/ Reject

ValidateOutputs ==
  /\ pc = "outputs"
  /\ Proceed("numbers") \/ Reject

ValidNumbers ==
  /\ cfg.delay >= 0 /\ cfg.retries >= 0 /\ cfg.maxRecipients >= 0
  /\ cfg.recipients <= MaxRecipients

\* Timeout, RateLimit and MaxAttachmentMB are refused in the same way.
ValidateNumbers ==
  /\ pc = "numbers"
  /\ (ValidNumbers /\ Proceed("build")) \/ Reject

\* Secrets, addresses, template, size guard, S/MIME, TLS and auth options.  The
\* body file is read here.  AttachFile and EmbedFile of go-mail note the path of a
\* file that is there, to be opened later, and pass over one that is not.
BuildMessage ==
  /\ pc = "build"
  /\ \/ /\ cfg.bodyFile \in present \cup {NoPath}
        /\ pc' = "delay" /\ parts' = (Attached \cup Embedded) \cap present
        /\ UNCHANGED <<routeVars, cfg, loopVars, answer, archive, logged, serverVars,
                       envVars>>
     \/ Reject

SkipDelay == pc = "delay" /\ cfg.delay = 0 /\ Proceed("loop")

DelayTimer == pc = "delay" /\ cfg.delay > 0 /\ Proceed("loop")

CancelDelay == pc = "delay" /\ cfg.delay > 0 /\ ctx = "done" /\ Reject

-----------------------------------------------------------------------------

\* The retry loop.

\* Variant: one attempt too few.
EndsEarly == pc = "loop" /\ i >= MaxAttempts - 1 /\ Proceed("archive")

LoopEnds == pc = "loop" /\ i >= MaxAttempts /\ Proceed("archive")

LeaveLoop(err) ==
  /\ pc' = "archive" /\ lastErr' = err
  /\ UNCHANGED <<i, attempts>>

LoopCancelled ==
  /\ pc = "loop" /\ i < MaxAttempts /\ ctx = "done"
  /\ LeaveLoop("cancelled")
  /\ UNCHANGED <<routeVars, cfg, resultVars, serverVars, envVars>>

\* Variant: the check for cancellation before an attempt is missing.
StartsUnchecked ==
  /\ pc = "loop" /\ i < MaxAttempts
  /\ attempts' = attempts + 1
  /\ \/ lastErr' = "client" /\ pc' = "again"
     \/ cfg.dryRun /\ lastErr' = "none" /\ pc' = "archive"
     \/ ~cfg.dryRun /\ lastErr' = lastErr /\ pc' = "dial"
  /\ UNCHANGED <<routeVars, cfg, i, resultVars, serverVars, envVars>>

\* The client is made from the options; a dry run stops here.
StartAttempt ==
  /\ pc = "loop" /\ i < MaxAttempts /\ ctx = "live"
  /\ attempts' = attempts + 1
  /\ \/ lastErr' = "client" /\ pc' = "again"
     \/ cfg.dryRun /\ lastErr' = "none" /\ pc' = "archive"
     \/ ~cfg.dryRun /\ lastErr' = lastErr /\ pc' = "dial"
  /\ UNCHANGED <<routeVars, cfg, i, resultVars, serverVars, envVars>>

\* DialAndSend.  It is not given ctx.
Dial ==
  /\ pc = "dial"
  /\ dials' = dials + 1
  /\ UNCHANGED <<routeVars, cfg, i, attempts, resultVars, earlier, envVars>>

\* Variant: the break after a successful send is missing.
AcceptedNoBreak ==
  /\ Dial /\ Readable
  /\ delivered' = delivered + 1 /\ UNCHANGED lost
  /\ lastErr' = "none" /\ pc' = "again"

\* Variant: the error of an earlier attempt is not reset.
AcceptedKeepsError ==
  /\ Dial /\ Readable
  /\ delivered' = delivered + 1 /\ UNCHANGED <<lost, lastErr>>
  /\ pc' = "archive"

Accepted ==
  /\ Dial /\ Readable
  /\ delivered' = delivered + 1 /\ UNCHANGED lost
  /\ lastErr' = "none" /\ pc' = "archive"

Refused ==
  /\ Dial
  /\ UNCHANGED <<delivered, lost>>
  /\ lastErr' = "send" /\ pc' = "again"

ReplyLost ==
  /\ Dial /\ Readable
  /\ delivered' = delivered + 1 /\ lost' = lost + 1
  /\ lastErr' = "send" /\ pc' = "again"

\* Between two attempts; logAttempt gives up silently on an I/O error.
PrepareRetry ==
  /\ pc = "again" /\ i < MaxAttempts - 1
  /\ pc' = "wait"
  /\ logged' \in {logged, logged \cup {"RETRY"}}
  /\ UNCHANGED <<routeVars, cfg, loopVars, parts, answer, archive, serverVars, envVars>>

\* Variant: the attempt is not counted.
SameIteration ==
  /\ pc' = "loop"
  /\ UNCHANGED <<routeVars, cfg, loopVars, resultVars, serverVars, envVars>>

\* i++, after the last attempt or when the retry timer fires.
NextIteration ==
  /\ pc' = "loop" /\ i' = i + 1
  /\ UNCHANGED <<routeVars, cfg, attempts, lastErr, resultVars, serverVars, envVars>>

LastAttemptFailed == pc = "again" /\ i >= MaxAttempts - 1 /\ NextIteration

RetryTimer == pc = "wait" /\ NextIteration

\* Variant: the wait between attempts is a plain sleep.
SleepsThrough == FALSE /\ UNCHANGED vars

\* Go picks either ready branch of the select.
RetryCancelled ==
  /\ pc = "wait" /\ ctx = "done"
  /\ LeaveLoop("cancelled")
  /\ UNCHANGED <<routeVars, cfg, resultVars, serverVars, envVars>>

-----------------------------------------------------------------------------

\* After the loop.

success == lastErr = "none"

\* saveEML writes the message out once more; its error is only a warning.
SaveEML ==
  /\ pc = "archive"
  /\ pc' = "route"
  /\ IF success /\ ~cfg.dryRun /\ cfg.saveEML
       THEN archive' \in IF Readable THEN {"saved", "ioError"} ELSE {"unreadable"}
       ELSE UNCHANGED archive
  /\ UNCHANGED <<routeVars, cfg, loopVars, parts, answer, logged, serverVars, envVars>>

\* Variant: a dry run routes as well.
RoutesDryRuns ==
  cfg.successPath # NoPath \/ cfg.errorPath # NoPath \/ cfg.deleteAfter

RoutingAsked ==
  /\ ~cfg.dryRun
  /\ cfg.successPath # NoPath \/ cfg.errorPath # NoPath \/ cfg.deleteAfter

\* The body file first, then the attachments.
RouteJob ==
  [files       |-> (IF cfg.bodyFile = NoPath THEN <<>> ELSE <<cfg.bodyFile>>)
                     \o cfg.attachments,
   success     |-> success,
   successPath |-> cfg.successPath,
   errorPath   |-> cfg.errorPath,
   deleteAfter |-> cfg.deleteAfter]

StartRouting ==
  /\ pc = "route" /\ RoutingAsked
  /\ RouteCall(RouteJob) /\ pc' = "routing"
  /\ UNCHANGED <<cfg, loopVars, resultVars, serverVars, envVars>>

SkipRouting == pc = "route" /\ ~RoutingAsked /\ Proceed("audit")

Routing ==
  /\ pc = "routing" /\ RouteStep
  /\ UNCHANGED <<cfg, pc, loopVars, resultVars, serverVars, envVars>>

\* Variant: the archive comes after routing.
ArchivesLast == pc = "routing" /\ rpc = "idle" /\ Proceed("archive")

\* An error of routeAttachments is only a warning.
EndRouting == pc = "routing" /\ rpc = "idle" /\ Proceed("audit")

\* Variant: the internal error is handed out as the answer.
AuditRaw ==
  /\ pc = "audit"
  /\ UNCHANGED logged
  /\ answer' = IF success THEN "ok" ELSE lastErr
  /\ pc' = "returned"
  /\ UNCHANGED <<routeVars, cfg, loopVars, parts, archive, serverVars, envVars>>

\* logAudit, which gives up silently on an I/O error, then the result.
Audit ==
  /\ pc = "audit"
  /\ logged' \in {logged, logged \cup {IF success THEN "SUCCESS" ELSE "ERROR"}}
  /\ answer' = IF success THEN "ok" ELSE "error"
  /\ pc' = "returned"
  /\ UNCHANGED <<routeVars, cfg, loopVars, parts, archive, serverVars, envVars>>

-----------------------------------------------------------------------------

\* The environment.

Running == pc \notin {"returned", "crashed"}

Cancel ==
  /\ Running /\ cfg.cancellable /\ ctx = "live"
  /\ ctx' = "done"
  /\ UNCHANGED <<routeVars, cfg, pc, loopVars, resultVars, serverVars, vanished, crashes>>

\* Another program removes an input file.  During routing this is one of the
\* faults RouteFiles already has.
Vanish(f) ==
  /\ Running /\ pc # "routing" /\ f \in present
  /\ present' = present \ {f} /\ vanished' = vanished \cup {f}
  /\ UNCHANGED <<out, job, at, rpc, routeRet, purged, cfg, pc, loopVars, resultVars,
                 serverVars, ctx, crashes>>

Crash ==
  /\ Running /\ crashes < MaxCrashes
  /\ pc' = "crashed" /\ crashes' = crashes + 1
  /\ IF rpc = "idle" THEN UNCHANGED routeVars ELSE RouteDies
  /\ UNCHANGED <<cfg, loopVars, resultVars, serverVars, ctx, vanished>>

\* The same command again: nothing of the first run is remembered but the disk,
\* the log and what the server took.
Restart ==
  /\ pc = "crashed"
  /\ pc' = "start" /\ ctx' = "live"
  /\ i' = 0 /\ attempts' = 0 /\ lastErr' = "none" /\ parts' = {} /\ archive' = "none"
  /\ delivered' = 0 /\ earlier' = earlier + delivered /\ dials' = 0
  /\ IF rpc = "dead" THEN RouteRevives ELSE UNCHANGED routeVars
  /\ UNCHANGED <<cfg, answer, logged, lost, vanished, crashes>>

\* The steps whose moment the program does not choose.
Timers == DelayTimer \/ RetryTimer

Work == \/ ValidateInputs \/ ValidateOutputs \/ ValidateNumbers \/ BuildMessage
        \/ SkipDelay \/ CancelDelay \/ LoopEnds \/ LoopCancelled \/ StartAttempt
        \/ Accepted \/ Refused \/ ReplyLost
        \/ PrepareRetry \/ LastAttemptFailed \/ RetryCancelled
        \/ SaveEML \/ StartRouting \/ SkipRouting \/ Routing \/ EndRouting \/ Audit

Environment == Cancel \/ (\E f \in Files : Vanish(f)) \/ Crash \/ Restart

Next == Work \/ Timers \/ Environment

Spec == Init /\ [][Next]_vars

\* Every timer fires, and what the code waits for has a time limit, so the process
\* is never stuck for ever; the environment owes it nothing.  Without a limit is the
\* size probe for large encrypted messages: its server is taken to answer.
FairSpec == Spec /\ WF_vars(Work) /\ WF_vars(Timers)

-----------------------------------------------------------------------------

(* What the caller is told is true of the server: a success was accepted     *)
(* (and was not if it was a dry run), a rejected message was never offered,  *)
(* and an error hides a delivery only if the server's reply was lost.  This  *)
(* is what "lastErr == nil" after the loop has to mean, whichever way the    *)
(* loop was left and however small maxAttempts came out.                     *)
AnswerTruth ==
  /\ answer = "ok" => (delivered > 0 <=> ~cfg.dryRun)
  /\ answer = "rejected" => delivered = 0
  /\ answer = "error" /\ delivered > 0 => lost > 0

(* Every copy beyond the first is owed to a lost reply or to a crash: the    *)
(* retry loop never sends again what was acknowledged.                       *)
CopiesAccounted == delivered + earlier <= 1 + lost + crashes

(* Without cancellation SendEmail gives up only when the whole budget of     *)
(* attempts is spent, and it never exceeds the budget.                       *)
WholeBudget ==
  /\ attempts <= MaxAttempts /\ dials <= attempts
  /\ answer = "error" /\ ctx = "live" => attempts = MaxAttempts

(* Once the context is cancelled no new attempt is started, although the     *)
(* select of the retry wait may choose the timer.                            *)
NoAttemptAfterCancel == [][ctx = "done" /\ Running => attempts' = attempts]_vars

(* A dry run leaves no copy on the server and no archive; a dry run, and a   *)
(* message without routing options (as are those of single-attachment mode,  *)
(* which routes by itself), moves and deletes nothing.                       *)
Inert ==
  /\ cfg.dryRun => delivered + earlier = 0 /\ archive = "none"
  /\ cfg.dryRun \/ (cfg.successPath = NoPath /\ cfg.errorPath = NoPath /\ ~cfg.deleteAfter) =>
       /\ Files \subseteq present \cup vanished
       /\ \A p \in Dirs \X Names : out[p] = NoCopy

(* SendEmail takes no input file away before its last reader is done: the    *)
(* message is written out again at every attempt and once more for the       *)
(* archive, so both must come before routing.  A file left off the message,  *)
(* or missing when it is archived, was taken by another program.             *)
ReadsBeforeRouting ==
  /\ pc \in Looping \cup {"outputs", "numbers", "build", "delay", "archive"} =>
       InputFiles \subseteq present \cup vanished
  /\ pc \in Looping \cup Closing \cup {"delay"} =>
       Attached \cup Embedded \subseteq parts \cup vanished
  /\ archive = "unreadable" => parts \cap vanished # {}

(* A file is in the success directory only if the server has taken the       *)
(* message, over crashes and reruns.                                         *)
SuccessDirMeansSent ==
  cfg.successPath # cfg.errorPath =>
    \A n \in Names, d \in {cfg.successPath} \cap Dirs :
      out[<<d, n>>] # NoCopy => delivered + earlier > 0

(* Over any number of crashes and reruns no file is lost that neither        *)
(* --delete nor another program took.                                        *)
InputsSurvive == \A f \in Files \ (purged \cup vanished) : Kept(f)

(* Once the context is cancelled SendEmail waits for no timer: at every      *)
(* point it has a step of its own to take.                                   *)
CancelPrompt == Running /\ ctx = "done" => ENABLED Work

-----------------------------------------------------------------------------

\* The steps before the loop, and within a round of it, counted from its top.
FromLoop == [start |-> -5, outputs |-> -4, numbers |-> -3, build |-> -2, delay |-> -1,
             loop |-> 0, dial |-> 1, again |-> 2, wait |-> 3]

\* The steps that routing body file and attachments takes at most.
RoutingSteps == 1 + 6 * (Len(cfg.attachments) + 1)

\* The steps SendEmail has left at most, if it is left alone: four for each round
\* of the loop, and those of routing.
StepsLeft ==
  CASE pc \in DOMAIN FromLoop -> 5 + RoutingSteps + 4 * (MaxAttempts - i) - FromLoop[pc]
    [] pc = "archive" -> 4 + RoutingSteps
    [] pc = "route"   -> 3 + RoutingSteps
    [] pc = "routing" -> 2 + RoutingLeft
    [] pc = "audit"   -> 1
    [] OTHER          -> 0

(* Whatever fails and in whatever order, each step of SendEmail brings it    *)
(* nearer to its return, and nothing the world does takes it further away;   *)
(* only a rerun begins anew.  So the loop ends for every budget of attempts, *)
(* also one that overflows, and no error is retried for ever.                *)
Advances ==
  [][pc # "crashed" => /\ StepsLeft' \in 0..StepsLeft
                       /\ Work \/ Timers => StepsLeft' < StepsLeft]_vars

-----------------------------------------------------------------------------

\* The refinement mapping to Delivery.

phaseBar == CASE pc \in Preparing \cup Looping -> "sending"
              [] pc \in Closing -> "filing"
              [] pc = "returned" -> "told"
              [] OTHER -> "dead"

outcomeBar == IF answer = "rejected" THEN "rejected"
              ELSE IF pc \notin Closing \cup {"returned"} THEN "none"
              ELSE IF ~success THEN "failed"
              ELSE IF cfg.dryRun THEN "rehearsed" ELSE "sent"

D == INSTANCE Delivery
       WITH phase   <- phaseBar,
            outcome <- outcomeBar,
            copies  <- delivered,
            moved   <- Files \ (present \cup vanished)

(* SendEmail keeps the promise of Delivery: copies, then the outcome, then   *)
(* the files, then the answer; no copy is sent and no outcome changes after  *)
(* the first file has moved.                                                 *)
Implements == D!Spec

-----------------------------------------------------------------------------

(* README: --delete deletes "after successful send".                         *)
DeletedOnlyWhenSent == purged # {} => delivered + earlier > 0

=============================================================================
